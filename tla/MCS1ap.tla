------------------------------- MODULE MCS1ap -------------------------------
(***************************************************************************)
(* Small instances of S1apPeel.                                            *)
(***************************************************************************)
EXTENDS S1apPeel

Initial ==
    [proc |-> "InitialUEMessage", choice |-> "initiatingMessage", mme |-> <<>>,
     enb |-> <<1, 2>>, plmn |-> <<0, 241, 16>>, cell |-> 411, nas |-> <<7, 65, 113>>]

Downlink ==
    [Initial EXCEPT !.proc = "DownlinkNASTransport", !.mme = <<111, 173, 190, 239>>,
                    !.enb = <<9>>, !.cell = None]

\* All but the order of the IEs: every id length and the ends of the cell range.
SampleSent ==
    {Initial, Downlink, [Initial EXCEPT !.cell = 2 ^ 28 - 1, !.enb = <<18, 52, 86>>],
     [Downlink EXCEPT !.proc = "UplinkNASTransport", !.nas = <<>>],
     [Downlink EXCEPT !.choice = "successfulOutcome", !.enb = <<>>],
     [Downlink EXCEPT !.choice = "extension", !.enb = <<>>],
     [Downlink EXCEPT !.proc = "other", !.enb = <<>>]}

\* A NAS PDU of 127, 130 and 300 octets.
LongSent ==
    {[Downlink EXCEPT !.enb = <<>>, !.mme = <<1>>,
                      !.nas = <<7, 97>> \o [i \in 1 .. n - 2 |-> i % 256]] :
        n \in {127, 130, 300}}

\* The largest ids but one bit, with a length octet in front.
PrefixedSent ==
    {[Downlink EXCEPT !.mme = <<4, 127, 255, 255, 255>>, !.enb = <<3, 127, 255, 255>>]}
=============================================================================
