----------------------------- MODULE MCPipeline -----------------------------
(***************************************************************************)
(* Small instances of Pipeline: which captures the sniffers bring.         *)
(***************************************************************************)
EXTENDS Pipeline

CONSTANTS c1, c2, p1, p2, e1, m1, m2, s1, s2, s3, d1, d2

UL(ts, type, identity, plmn, cell, mme) ==
    [ts |-> ts, type |-> type, identity |-> identity, enb |-> e1, mme |-> mme,
     plmn |-> plmn, cell |-> cell]

DL(ts, type, mme) == UL(ts, type, "NULL", None, None, mme)

\* What the sniffers may commit: prefixes, when a file cannot be read.
PrefixesOf(captures) ==
    UNION {{SubSeq(captures[s], 1, n) : n \in 0 .. Len(captures[s])} :
              s \in {s1, s2, s3}}

\* Both directions, captures that overlap in time, a row without eNB-UE id, and
\* one that meets another operator's in the UNIQUE constraint.
MixedCaptures ==
    s1 :> <<UL(1, "AttachRequest", "IMSI", p1, c1, None),
            UL(3, "AttachAccept", "NULL", p1, c1, m1)>>
    @@ s2 :> <<DL(2, "Other", None), UL(4, "Other", "NULL", p2, c2, None)>>
    @@ s3 :> <<[DL(2, "Other", None) EXCEPT !.enb = None],
               UL(1, "Other", "NULL", p2, c1, None)>>

\* A message recorded late: its capture is committed after the next ones.
LateCaptures ==
    s1 :> <<UL(2, "Other", "NULL", p1, c1, None)>>
    @@ s2 :> <<UL(1, "Other", "NULL", p1, c1, None)>>
    @@ s3 :> <<>>

MixedPrefixes == PrefixesOf(MixedCaptures)
LatePrefixes == PrefixesOf(LateCaptures)
=============================================================================
