------------------------------- MODULE MCNas -------------------------------
(***************************************************************************)
(* Small instances of NasDecoder.                                          *)
(***************************************************************************)
EXTENDS NasDecoder

\* Every message type behind every security header.
SampleSent ==
    {m \in [type : DOMAIN Code, sht : 0 .. 4, identity : Kinds \cup {None},
            octet : {1, 178}, capability : {<<>>, <<240, 112>>}] :
        m.identity = None <=> m.type \notin {"AttachRequest", "IdentityResponse"}}

\* Headers and lengths that fit nothing, with the octets of messages between.
SampleNoise ==
    UNION {[1 .. n -> {0, 1, 7, 39, 65, 86, 93}] : n \in 0 .. 4}
    \cup {<<7, 65, 113>> \o s : s \in [1 .. 3 -> {0, 1, 2, 6}]}
    \cup {<<39, 0, 0, 0, 0, 0>> \o s : s \in [1 .. 3 -> {7, 65, 93}]}
    \cup {<<h, 0, 0, 0, 0, 0, 7, 69>> : h \in {87, 199}}
=============================================================================
