------------------------------- MODULE NasPdu -------------------------------
(***************************************************************************)
(* nas.cpp and nas_ies.cpp: the fields of one NAS-EPS PDU, and the PDUs    *)
(* that senders encode.  An identity is its kind, the only thing of it     *)
(* that is stored.  Positions count from one, the code's from zero.        *)
(***************************************************************************)
EXTENDS Integers, Sequences

CONSTANT None

Octet == 0 .. 255

Code == [AttachRequest |-> 65, AttachAccept |-> 66, AttachComplete |-> 67,
         AttachReject |-> 68, DetachRequest |-> 69, TauRequest |-> 72,
         TauAccept |-> 73, TauReject |-> 75, AuthenticationRequest |-> 82,
         AuthenticationResponse |-> 83, AuthenticationReject |-> 84,
         IdentityRequest |-> 85, IdentityResponse |-> 86,
         AuthenticationFailure |-> 92, SecurityModeCommand |-> 93,
         SecurityModeComplete |-> 94, SecurityModeReject |-> 95]

Unknown == "Unknown"

Kinds == {"IMSI", "IMEI", "GUTI", "Other"}

Fields == [type : DOMAIN Code \cup {Unknown}, sht : 0 .. 15,
           identity : Kinds \cup {None}, requested : 0 .. 7 \cup {None},
           cause : Octet \cup {None},
           eea : 0 .. 7 \cup {None}, eia : 0 .. 7 \cup {None},
           ueEea : Octet \cup {None}, ueEia : Octet \cup {None}]

\* std::nullopt: not a NAS-EPS mobility PDU.
Nothing == [none |-> TRUE]

-----------------------------------------------------------------------------
(* decode_nas                                                              *)

Optional(values) == IF values = {} THEN None ELSE CHOOSE v \in values : TRUE

\* read_lv: the value behind a length octet, none when it runs past the end.
Lv(p, i) ==
    IF i > Len(p) THEN {}
    ELSE IF i + p[i] > Len(p) THEN {} ELSE {SubSeq(p, i + 1, i + p[i])}

Identity(v) ==
    IF v = <<>> THEN {}
    ELSE CASE v[1] % 8 = 1 -> {"IMSI"}
           [] v[1] % 8 \in {2, 3} -> {"IMEI"}
           [] v[1] % 8 = 6 -> IF Len(v) < 11 THEN {} ELSE {"GUTI"}
           [] OTHER -> {"Other"}

MWithIdentity(m, values) ==
    LET kinds == UNION {Identity(v) : v \in values}
    IN  [m EXCEPT !.identity = IF kinds = {} THEN "Other" ELSE Optional(kinds)]

WithIdentity(m, values) ==
    [m EXCEPT !.identity = Optional(UNION {Identity(v) : v \in values})]

WithCapability(m, values) ==
    LET long == {v \in values : Len(v) >= 2}
    IN  [m EXCEPT !.ueEea = Optional({v[1] : v \in long}),
                  !.ueEia = Optional({v[2] : v \in long})]

AttachRequest(p, m) ==
    LET identity == Lv(p, 4)
    IN  WithCapability(WithIdentity(m, identity),
                       UNION {Lv(p, 5 + Len(v)) : v \in identity})

MSecurityModeCommand(p, m) ==
    IF Len(p) < 3 THEN m
    ELSE WithCapability([m EXCEPT !.eea = p[3] \div 16, !.eia = p[3] % 8], Lv(p, 5))

SecurityModeCommand(p, m) ==
    IF Len(p) < 3 THEN m
    ELSE WithCapability([m EXCEPT !.eea = (p[3] \div 16) % 8, !.eia = p[3] % 8],
                        Lv(p, 5))

ThirdOctet(p) == IF Len(p) < 3 THEN {} ELSE {p[3]}

MDispatch(p, m) ==
    CASE m.type = "AttachRequest" -> AttachRequest(p, m)
      [] m.type = "IdentityRequest" ->
             [m EXCEPT !.requested = Optional({o % 8 : o \in ThirdOctet(p)})]
      [] m.type = "IdentityResponse" -> WithIdentity(m, Lv(p, 4))
      [] m.type \in {"AuthenticationFailure", "TauReject"} ->
             [m EXCEPT !.cause = Optional(ThirdOctet(p))]
      [] m.type = "SecurityModeCommand" -> SecurityModeCommand(p, m)
      [] OTHER -> m

Dispatch(p, m) ==
    CASE m.type = "AttachRequest" -> AttachRequest(p, m)
      [] m.type = "IdentityRequest" ->
             [m EXCEPT !.requested = Optional({o % 8 : o \in ThirdOctet(p)})]
      [] m.type = "IdentityResponse" -> WithIdentity(m, Lv(p, 3))
      [] m.type \in {"AuthenticationFailure", "TauReject"} ->
             [m EXCEPT !.cause = Optional(ThirdOctet(p))]
      [] m.type = "SecurityModeCommand" -> SecurityModeCommand(p, m)
      [] OTHER -> m

TypeOf(octet) == {t \in DOMAIN Code : Code[t] = octet}

Plain(p, sht) ==
    LET bare == [type |-> Unknown, sht |-> sht, identity |-> None,
                 requested |-> None, cause |-> None, eea |-> None, eia |-> None,
                 ueEea |-> None, ueEia |-> None]
    IN  IF p = <<>> \/ TypeOf(p[2]) = {} THEN bare
        ELSE Dispatch(p, [bare EXCEPT !.type = Optional(TypeOf(p[2]))])

\* The PDU behind a security header of six octets, when it is long enough to
\* have a message type and speaks the same protocol.
Inner(p) ==
    IF Len(p) <= 7 THEN <<>>
    ELSE IF p[7] % 16 # 7 THEN <<>> ELSE SubSeq(p, 7, Len(p))

Decode(p) ==
    IF Len(p) < 2 THEN Nothing
    ELSE IF p[1] % 16 # 7 THEN Nothing
    ELSE LET sht == p[1] \div 16
         IN  Plain(CASE sht = 0 -> p [] sht \in 1 .. 4 -> Inner(p) [] OTHER -> <<>>,
                   sht)

-----------------------------------------------------------------------------
(* The sender.                                                             *)

Message == [type : DOMAIN Code, sht : 0 .. 4, identity : Kinds \cup {None},
            octet : Octet, capability : {<<>>} \cup Octet \X Octet]

\* A length octet and the value.
Field(v) == <<Len(v)>> \o v

IdentityOctets(kind) ==
    CASE kind = "IMSI" -> <<9, 16, 16, 16, 50, 84, 118, 152>>
      [] kind = "IMEI" -> <<11, 50, 84>>
      [] kind = "GUTI" -> <<246, 2, 248, 57, 1, 2, 3, 10, 11, 12, 13>>
      [] OTHER         -> <<0>>

\* What follows protocol discriminator and message type.
Body(m) ==
    CASE m.type = "AttachRequest" ->
             <<113>> \o Field(IdentityOctets(m.identity)) \o Field(m.capability)
      [] m.type = "IdentityResponse" -> Field(IdentityOctets(m.identity))
      [] m.type = "SecurityModeCommand" -> <<m.octet, 0>> \o Field(m.capability)
      [] OTHER -> <<m.octet>>

Encode(m) ==
    (IF m.sht = 0 THEN <<>> ELSE <<m.sht * 16 + 7, 0, 0, 0, 0, 0>>)
    \o <<7, Code[m.type]>> \o Body(m)

\* The fields a message stands for.
Meaning(m) ==
    LET capability(i) == IF m.capability = <<>> THEN None ELSE m.capability[i]
        When(types, v) == IF m.type \in types THEN v ELSE None
        carriers == {"AttachRequest", "SecurityModeCommand"}
    IN  [type      |-> m.type,
         sht       |-> m.sht,
         identity  |-> When({"AttachRequest", "IdentityResponse"}, m.identity),
         requested |-> When({"IdentityRequest"}, m.octet % 8),
         cause     |-> When({"AuthenticationFailure", "TauReject"}, m.octet),
         eea       |-> When({"SecurityModeCommand"}, (m.octet \div 16) % 8),
         eia       |-> When({"SecurityModeCommand"}, m.octet % 8),
         ueEea     |-> When(carriers, capability(1)),
         ueEia     |-> When(carriers, capability(2))]
=============================================================================
