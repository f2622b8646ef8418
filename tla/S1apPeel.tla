------------------------------ MODULE S1apPeel ------------------------------
(***************************************************************************)
(* s1ap.cpp: from the octets of one S1AP PDU to the procedure code, the UE *)
(* ids, the cell and the NAS PDU inside.  A PDU is the list of its IEs in  *)
(* the order of the sender, and how many octets of it are there.           *)
(***************************************************************************)
EXTENDS S1apPdu, SequencesExt

CONSTANT Sent   \* the messages that senders put into PDUs

ASSUME SentAssumption ==
    \A m \in Sent : /\ m \in Message
                    /\ m.cell # None => m.cell < 16 * 256 * 256 * 256 /\ Len(m.plmn) = 3

VARIABLES
    pdu,    \* the octets given to peel_s1ap
    phase,  \* "header", "ies", then "peeled" or "rejected" (nullopt)
    next,   \* the IE to be read
    left,   \* the octets of the body that are not read yet
    peel    \* what was found so far

vars == <<pdu, phase, next, left, peel>>

-----------------------------------------------------------------------------
(* peel_s1ap                                                               *)

\* PeelResult: what peel_s1ap can return.
Peel == [mme : Nat \cup {None}, enb : Nat \cup {None},
         plmn : Octets \cup {None}, cell : Nat \cup {None}, nas : Octets]

NoPeel == [mme |-> None, enb |-> None, plmn |-> None, cell |-> None, nas |-> <<>>]

\* m in any order of its IEs, with an IE too long for the unfragmented form, cut
\* anywhere, or with a body length that is less than the IEs need.
Init ==
    /\ \E m \in Sent : \E ies \in SetToSeqs(Ies(m)) :
          \E last \in {ies, [ies EXCEPT ![Len(ies)].fragmented = TRUE]} :
          \E cut \in 0 .. Header(last) + Body(last), less \in {0, 1, Body(last) - 2} :
             pdu = [sent |-> m, ies |-> last, cut |-> cut, claimed |-> Body(last) - less]
    /\ phase = "header"
    /\ next = 1
    /\ left = 0
    /\ peel = NoPeel

\* The octets that are left behind the header, none when the cut is in it.
Available == Body(pdu.ies) - pdu.cut

CarriesNas(m) == m.choice = "initiatingMessage" /\ m.proc # "other"

Acceptable == CarriesNas(pdu.sent) /\ 3 <= pdu.claimed /\ pdu.claimed <= Available

\* The container's first octets, or nullopt.
OpenBody ==
    /\ phase = "header"
    /\ Acceptable
    /\ phase' = "ies"
    /\ left' = pdu.claimed - 3
    /\ UNCHANGED <<pdu, next, peel>>

MCanRead(ie) ==
    /\ ~ie.fragmented
    /\ FieldHeader(ie) <= left

CanRead(ie) ==
    /\ ~ie.fragmented
    /\ FieldHeader(ie) + Len(ie.octets) <= left

\* decode_ue_s1ap_id throws.
BadId(ie) == ie.id \in {"MME", "ENB"} /\ Len(ie.octets) \notin 1 .. 4

\* The NAS octets behind one length octet, or none.
Inner(octets) ==
    IF octets[1] + 1 <= Len(octets) THEN SubSeq(octets, 2, octets[1] + 1) ELSE <<>>

Cell(octets) ==
    ((octets[5] * 256 + octets[6]) * 256 + octets[7]) * 16 + (octets[8] \div 16)

\* parse_ie
Taken(ie) ==
    CASE ie.id = "MME" -> [peel EXCEPT !.mme = Value(ie.octets)]
      [] ie.id = "ENB" -> [peel EXCEPT !.enb = Value(ie.octets)]
      [] ie.id = "NAS" /\ Inner(ie.octets) # <<>> ->
             [peel EXCEPT !.nas = Inner(ie.octets)]
      [] ie.id = "CGI" /\ Len(ie.octets) >= 8 ->
             [peel EXCEPT !.plmn = SubSeq(ie.octets, 2, 4), !.cell = Cell(ie.octets)]
      [] OTHER -> peel

ReadIe ==
    /\ phase = "ies" /\ next <= Len(pdu.ies)
    /\ LET ie == pdu.ies[next]
       IN  /\ CanRead(ie) /\ ~BadId(ie)
           /\ peel' = Taken(ie)
           /\ left' = left - FieldHeader(ie) - Len(ie.octets)
    /\ next' = next + 1
    /\ UNCHANGED <<pdu, phase>>

\* The early returns before the container, and ReadError wherever it is thrown.
Reject ==
    /\ \/ phase = "header" /\ ~Acceptable
       \/ /\ phase = "ies" /\ next <= Len(pdu.ies)
          /\ ~CanRead(pdu.ies[next]) \/ BadId(pdu.ies[next])
    /\ phase' = "rejected"
    /\ UNCHANGED <<pdu, next, left, peel>>

MReturn ==
    /\ phase = "ies" /\ next > Len(pdu.ies)
    /\ phase' = "peeled"
    /\ UNCHANGED <<pdu, next, left, peel>>

Return ==
    /\ phase = "ies" /\ next > Len(pdu.ies)
    /\ phase' = IF peel.nas = <<>> THEN "rejected" ELSE "peeled"
    /\ UNCHANGED <<pdu, next, left, peel>>

Next == OpenBody \/ ReadIe \/ Reject \/ Return

Spec == Init /\ [][Next]_vars

-----------------------------------------------------------------------------
(* Properties                                                              *)

PeelTypeOK ==
    /\ phase \in {"header", "ies", "peeled", "rejected"}
    /\ next \in 1 .. Len(pdu.ies) + 1
    /\ left \in Nat
    /\ peel \in Peel

IdOf(octets) == IF octets = <<>> THEN None ELSE Value(octets)

Meaning(m) ==
    [mme |-> IdOf(m.mme), enb |-> IdOf(m.enb), nas |-> m.nas,
     plmn |-> IF m.cell = None THEN None ELSE m.plmn, cell |-> m.cell]

\* Whether the whole of the PDU is there, in a form the code handles.
Arrived ==
    /\ pdu.cut = 0 /\ pdu.claimed = Body(pdu.ies)
    /\ \A i \in DOMAIN pdu.ies : ~pdu.ies[i].fragmented
    /\ CarriesNas(pdu.sent) /\ pdu.sent.nas # <<>>

\* All or nothing: a PDU that arrived whole yields its message, in whatever order
\* its IEs come, and one that is cut or broken anywhere yields nothing at all,
\* never the part that was read before the cut.
PeelIsTheMessage ==
    /\ phase = "peeled" => Arrived /\ peel = Meaning(pdu.sent)
    /\ phase = "rejected" => ~Arrived

\* "Both are encoded as: length determinant (in octets), then big-endian value": a
\* PDU whose UE ids are encoded so is found, and with these ids.
IdsAreRead ==
    /\ phase = "rejected" => ~Arrived
    /\ phase = "peeled" => /\ peel.mme = IdOf(Tail(pdu.sent.mme))
                           /\ peel.enb = IdOf(Tail(pdu.sent.enb))

\* "NAS-PDU IEs fit easily under 16k": a NAS PDU below 16384 octets is found as it
\* was sent.
NasIsWhole == phase = "peeled" => peel.nas = pdu.sent.nas
=============================================================================
