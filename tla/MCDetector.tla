----------------------------- MODULE MCDetector -----------------------------
(***************************************************************************)
(* Small instances of Detector for TLC: the traffic of each run, and the   *)
(* batch mode.  Timestamps are small numbers and the gap is 1 or 2 of them.*)
(***************************************************************************)
EXTENDS Detector

CONSTANTS c1, c2, p1, p2, e1, e2, m1, m2

UL(ts, type, identity, plmn, cell, mme) ==
    [ts |-> ts, type |-> type, identity |-> identity, enb |-> e1, mme |-> mme,
     plmn |-> plmn, cell |-> cell]

\* DownlinkNASTransport carries no cell.
DL(ts, type, mme) == UL(ts, type, "NULL", None, None, mme)

NoEnbRow(ts) == [DL(ts, "Other", None) EXCEPT !.enb = None]

\* Messages of one context within, at and beyond the gap, a detach of either
\* side, a second cell with the same eNB-UE id, downlinks with and without an MME
\* id.
SessionRows ==
    {UL(1, "AttachRequest", "IMSI", p1, c1, None),
     UL(3, "AttachAccept", "NULL", p1, c1, m2),
     UL(4, "Other", "NULL", p1, c1, None),
     UL(2, "AttachRequest", "GUTI", p2, c2, m1),
     UL(2, "DetachRequest", "NULL", p1, c1, None), DL(3, "DetachRequest", None),
     DL(3, "Other", m1), DL(4, "SecurityModeCommand", m2)}

\* The messages the rules react to, in one session: one instant, so that the rows
\* are read as they were written.
RuleRows ==
    {UL(1, "AttachRequest", id, p1, c2, None) : id \in {"IMSI", "GUTI"}}
    \cup {UL(1, type, "NULL", p1, c2, None) :
            type \in {"AuthenticationRequest", "AuthenticationResponse",
                      "AuthenticationFailure", "SecurityModeCommand"}}

\* Two operators' cells with the same cell identity, at the same instant.
OperatorRows ==
    {UL(1, "Other", "NULL", p, c1, None) : p \in {p1, p2}}

\* Captures of one row each, so that passes and rows interleave in every way; the
\* whole of an attach procedure whose authentication fails; and a row without eNB-UE
\* id with a downlink of another eNB-UE id that has the MME id of a session.
Single(rowSet) == {<<row>> : row \in rowSet}

SessionCaptures ==
    Single(SessionRows)
    \cup {<<UL(1, "AttachRequest", "IMSI", p1, c1, None),
            UL(2, "AuthenticationFailure", "NULL", p1, c1, None),
            UL(3, "AttachAccept", "NULL", p1, c1, m2)>>,
          <<NoEnbRow(2), [DL(3, "Other", m1) EXCEPT !.enb = e2]>>}
RuleCaptures == Single(RuleRows)
DetectorCaptures == SessionCaptures \cup RuleCaptures
OperatorCaptures == Single(OperatorRows)

-----------------------------------------------------------------------------
(* Two kinds of traffic, never mixed: four rows that come and are lost at  *)
(* any moment; and five messages the rules react to in every order, or six *)
(* that begin with an AttachRequest, all of them there before one pass.    *)

MaxSplit == 4

ForRules(table) == table # <<>> /\ table[1] \in RuleRows

RuleTraffic ==
    /\ messages' # messages =>
           /\ \A i \in DOMAIN messages' : messages'[i] \in RuleRows
           /\ phase = "idle" /\ sessions = <<>>
           /\ Len(messages) = 5 => messages[1].type = "AttachRequest"
    /\ failures' = 0

SplitTraffic ==
    messages' # messages =>
        /\ Len(messages') <= MaxSplit
        /\ \A i \in DOMAIN messages' : messages'[i] \notin RuleRows

Traffic == IF ForRules(messages') THEN RuleTraffic ELSE SplitTraffic

TrafficSpec ==
    /\ Init /\ [][Next /\ Traffic]_vars
    /\ WF_vars(Select) /\ WF_vars(ReadRow) /\ WF_vars(Commit)

\* Batch mode: the whole capture is in the database before the first pass.
BatchSpec ==
    Init /\ [][Next /\ (phase = "idle" /\ phase' = "streaming"
                          => Len(messages) = MaxMessages)]_vars

\* PLMN, cell and eNB-UE id together identify a UE context: rows of different
\* contexts never prevent each other from being stored.
ContextsDoNotClash ==
    \A mid \in NextRow :
        phase = "streaming" /\ AbortUnique(mid) =>
            \E m \in DOMAIN messages \ {mid} :
                /\ messages[m].plmn = messages[mid].plmn
                /\ messages[m].enb = messages[mid].enb
                /\ messages[m].ts = messages[mid].ts

\* What the docstring of the IMSI rule says it flags: "an AttachRequest whose EPS
\* Mobile Identity is IMSI", in whichever session and wherever in it.
ImsiAttachIsFlagged ==
    \A sid \in DOMAIN sessions :
        (\E m \in OfType(messages, Members(sid), "AttachRequest") : messages[m].identity = "IMSI")
            => AlertsAbout(sid, "imsi_cleartext_attach") # {}
=============================================================================
