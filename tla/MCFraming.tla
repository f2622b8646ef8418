----------------------------- MODULE MCFraming ------------------------------
(***************************************************************************)
(* Small instances of SctpFraming.                                         *)
(***************************************************************************)
EXTENDS SctpFraming, SequencesExt

\* Payloads of zero, one, three and four octets, so that every padding occurs,
\* another protocol's DATA, a SACK-like chunk and a DATA chunk too short for
\* its own header.
Whole ==
    {[type |-> "DATA", len |-> n, ppid |-> "S1AP"] : n \in {16, 17, 19, 20}}
    \cup {[type |-> "DATA", len |-> 18, ppid |-> "other"],
          [type |-> "DATA", len |-> 12, ppid |-> "S1AP"],
          [type |-> "other", len |-> 6, ppid |-> "S1AP"]}

\* Lengths no chunk can have, and one that runs out of every packet; such a chunk
\* has sixteen octets in fact.
Malformed ==
    {[type |-> "DATA", len |-> n, ppid |-> "S1AP"] : n \in {0, 3, 200}}

Bundles ==
    {<<>>} \cup {<<a>> : a \in Whole}
    \cup {<<a, b>> : a \in Whole, b \in Whole \cup Malformed}
    \cup {<<a, a, b>> : a \in Whole, b \in Whole}

Plain(chunks, ihl) ==
    LET claimed == Begins(chunks, Len(chunks) + 1)
        octets  == IF chunks # <<>> /\ Last(chunks) \in Malformed
                   THEN Begins(chunks, Len(chunks)) + DataHeaderLen ELSE claimed
    IN  [link |-> "SLL", captured |-> SllHeaderLen + ihl + octets,
         etype |-> "IPv4", version |-> 4, ihl |-> ihl, total |-> ihl + octets,
         proto |-> "SCTP", chunks |-> chunks]

\* The last chunk is not padded, or the capture's snapshot length cut it.
Unpadded(p) ==
    IF p.chunks = <<>> \/ Last(p.chunks) \in Malformed THEN p
    ELSE LET slack == Padded(Last(p.chunks).len) - Last(p.chunks).len
         IN  [p EXCEPT !.captured = @ - slack, !.total = @ - slack]

Snapped(p) == [p EXCEPT !.captured = @ - 1]

\* What the header tests are there for.
Odd(p) ==
    {[p EXCEPT !.link = "other"], [p EXCEPT !.link = "USER1"],
     [p EXCEPT !.link = "USER1", !.captured = 0], [p EXCEPT !.etype = "other"],
     [p EXCEPT !.version = 6], [p EXCEPT !.ihl = 16], [p EXCEPT !.proto = "other"],
     [p EXCEPT !.captured = 0], [p EXCEPT !.captured = 30],
     [p EXCEPT !.total = @ - 4]}

\* A total length below the header length: by less than a chunk header, and by all.
Shrunk(p) == {[p EXCEPT !.total = total] : total \in {0, p.ihl - 4, p.ihl - 1}}

SampleHeaders == Whole \cup Malformed

SamplePackets ==
    LET plain == {Plain(chunks, ihl) : chunks \in Bundles, ihl \in {20, 24}}
        one   == {Plain(<<c>>, 20) : c \in Whole}
    IN  plain \cup {Unpadded(p) : p \in plain} \cup {Snapped(p) : p \in one}
        \cup UNION {Odd(p) : p \in one}
        \cup UNION {Shrunk(Plain(chunks, ihl)) : chunks \in {<<>>} \cup {<<c>> : c \in Whole},
                                            ihl \in {20, 60}}
=============================================================================
