------------------------------ MODULE NasProofs ------------------------------
(***************************************************************************)
(* NasDecoder for any messages and any other octets: what decode_nas says  *)
(* of a whole PDU and of any cut of it.                                    *)
(***************************************************************************)
EXTENDS NasDecoder, SequenceTheorems, TLAPS

Record(type, sht, identity, requested, cause, eea, eia, ueEea, ueEia) ==
    [type |-> type, sht |-> sht, identity |-> identity, requested |-> requested,
     cause |-> cause, eea |-> eea, eia |-> eia, ueEea |-> ueEea, ueEia |-> ueEia]

\* A PDU of a known type of which no field is read yet.
Typed(t, s) == Record(t, s, None, None, None, None, None, None, None)

\* The identity and the two capability octets in a field that may not be there.
IdentityIn(values) == Optional(UNION {Identity(v) : v \in values})

CapabilityIn(values, k) == Optional({v[k] : v \in {w \in values : Len(w) >= 2}})

\* The capability of an ATTACH REQUEST stands behind its identity.
AttachCapability(p) == UNION {Lv(p, 5 + Len(v)) : v \in Lv(p, 4)}

-----------------------------------------------------------------------------
(* What each message type is decoded to                                    *)

LEMMA OptionalIn == ASSUME NEW S PROVE Optional(S) \in S \cup {None}
BY DEF Optional

LEMMA OptionalEmpty == Optional({}) = None
BY DEF Optional

LEMMA OptionalOne == ASSUME NEW x PROVE Optional({x}) = x
BY DEF Optional

LEMMA CapabilityRecord ==
    ASSUME NEW t, NEW s, NEW id, NEW r, NEW c, NEW ea, NEW ia, NEW values
    PROVE  WithCapability(Record(t, s, id, r, c, ea, ia, None, None), values) =
           Record(t, s, id, r, c, ea, ia, CapabilityIn(values, 1), CapabilityIn(values, 2))
<1> DEFINE m == Record(t, s, id, r, c, ea, ia, None, None)
           x == CapabilityIn(values, 1)
           y == CapabilityIn(values, 2)
           w == [m EXCEPT !.ueEea = x, !.ueEia = y]
<1>1. WithCapability(m, values) = w
  BY DEF WithCapability, CapabilityIn
<1>2. w \in [type : {t}, sht : {s}, identity : {id}, requested : {r}, cause : {c},
             eea : {ea}, eia : {ia}, ueEea : {x}, ueEia : {y}]
  <2> HIDE DEF x, y
  <2> QED BY DEF Record
<1> HIDE DEF w, x, y
<1>3. w = Record(t, s, id, r, c, ea, ia, x, y)
  BY <1>2 DEF Record
<1> QED BY <1>1, <1>3 DEF x, y

LEMMA DispatchIs ==
    ASSUME NEW p, NEW t, NEW s
    PROVE  /\ t = "AttachRequest" =>
                 Dispatch(p, Typed(t, s)) =
                     Record(t, s, IdentityIn(Lv(p, 4)), None, None, None, None,
                            CapabilityIn(AttachCapability(p), 1),
                            CapabilityIn(AttachCapability(p), 2))
           /\ t = "IdentityRequest" =>
                 Dispatch(p, Typed(t, s)) =
                     Record(t, s, None, Optional({o % 8 : o \in ThirdOctet(p)}), None,
                            None, None, None, None)
           /\ t = "IdentityResponse" =>
                 Dispatch(p, Typed(t, s)) =
                     Record(t, s, IdentityIn(Lv(p, 3)), None, None, None, None, None, None)
           /\ t \in {"AuthenticationFailure", "TauReject"} =>
                 Dispatch(p, Typed(t, s)) =
                     Record(t, s, None, None, Optional(ThirdOctet(p)), None, None,
                            None, None)
           /\ t = "SecurityModeCommand" =>
                 Dispatch(p, Typed(t, s)) =
                     IF Len(p) < 3 THEN Typed(t, s)
                     ELSE Record(t, s, None, None, None, (p[3] \div 16) % 8, p[3] % 8,
                                 CapabilityIn(Lv(p, 5), 1), CapabilityIn(Lv(p, 5), 2))
           /\ t \notin {"AttachRequest", "IdentityRequest", "IdentityResponse",
                        "AuthenticationFailure", "TauReject", "SecurityModeCommand"} =>
                 Dispatch(p, Typed(t, s)) = Typed(t, s)
<1> DEFINE m == Typed(t, s)
<1>1. m.type = t
  BY DEF Typed, Record
<1>2. ASSUME NEW values
      PROVE  WithIdentity(m, values) =
                 Record(t, s, IdentityIn(values), None, None, None, None, None, None)
  BY DEF WithIdentity, IdentityIn, Typed, Record
<1>3. CASE t = "AttachRequest"
  <2>1. Dispatch(p, m) = AttachRequest(p, m)
    BY <1>1, <1>3 DEF Dispatch
  <2>2. AttachRequest(p, m) = WithCapability(WithIdentity(m, Lv(p, 4)), AttachCapability(p))
    BY DEF AttachRequest, AttachCapability
  <2> QED BY <1>2, <1>3, <2>1, <2>2, CapabilityRecord
<1>4. CASE t = "IdentityRequest"
  <2>1. Dispatch(p, m) = [m EXCEPT !.requested = Optional({o % 8 : o \in ThirdOctet(p)})]
    BY <1>1, <1>4 DEF Dispatch
  <2> QED BY <1>4, <2>1 DEF Typed, Record
<1>5. CASE t = "IdentityResponse"
  <2>1. Dispatch(p, m) = WithIdentity(m, Lv(p, 3))
    BY <1>1, <1>5 DEF Dispatch
  <2> QED BY <1>2, <1>5, <2>1
<1>6. CASE t \in {"AuthenticationFailure", "TauReject"}
  <2>1. Dispatch(p, m) = [m EXCEPT !.cause = Optional(ThirdOctet(p))]
    BY <1>1, <1>6 DEF Dispatch
  <2> QED BY <1>6, <2>1 DEF Typed, Record
<1>7. CASE t = "SecurityModeCommand"
  <2>1. Dispatch(p, m) = SecurityModeCommand(p, m)
    BY <1>1, <1>7 DEF Dispatch
  <2> DEFINE x == (p[3] \div 16) % 8
             y == p[3] % 8
             n == [m EXCEPT !.eea = x, !.eia = y]
  <2>2. SecurityModeCommand(p, m) = IF Len(p) < 3 THEN m ELSE WithCapability(n, Lv(p, 5))
    BY DEF SecurityModeCommand
  <2> HIDE DEF x, y
  <2>3. n \in [type : {t}, sht : {s}, identity : {None}, requested : {None},
               cause : {None}, eea : {x}, eia : {y}, ueEea : {None}, ueEia : {None}]
    BY DEF Typed, Record
  <2> HIDE DEF n
  <2>4. n = Record(t, s, None, None, None, x, y, None, None)
    BY <2>3 DEF Record
  <2>5. WithCapability(n, Lv(p, 5)) =
            Record(t, s, None, None, None, x, y, CapabilityIn(Lv(p, 5), 1),
                   CapabilityIn(Lv(p, 5), 2))
    BY <2>4, CapabilityRecord
  <2> QED BY <1>7, <2>1, <2>2, <2>5 DEF x, y
<1>8. CASE t \notin {"AttachRequest", "IdentityRequest", "IdentityResponse",
                    "AuthenticationFailure", "TauReject", "SecurityModeCommand"}
  BY <1>1, <1>8 DEF Dispatch
<1> QED BY <1>3, <1>4, <1>5, <1>6, <1>7, <1>8

LEMMA SecurityIs ==
    ASSUME NEW p, NEW s
    PROVE  /\ Len(p) < 3 => Dispatch(p, Typed("SecurityModeCommand", s)) =
                                Typed("SecurityModeCommand", s)
           /\ ~(Len(p) < 3) => Dispatch(p, Typed("SecurityModeCommand", s)) =
                  Record("SecurityModeCommand", s, None, None, None,
                         (p[3] \div 16) % 8, p[3] % 8,
                         CapabilityIn(Lv(p, 5), 1), CapabilityIn(Lv(p, 5), 2))
BY DispatchIs

LEMMA OthersAre ==
    ASSUME NEW p, NEW s,
           NEW t, t \notin {"AttachRequest", "IdentityRequest", "IdentityResponse",
                           "AuthenticationFailure", "TauReject", "SecurityModeCommand"}
    PROVE  Dispatch(p, Typed(t, s)) = Typed(t, s)
<1>1. Typed(t, s).type = t
  BY DEF Typed, Record
<1> QED BY <1>1 DEF Dispatch

LEMMA PlainIs ==
    ASSUME NEW p, NEW s
    PROVE  Plain(p, s) = IF p = <<>> \/ TypeOf(p[2]) = {} THEN Typed(Unknown, s)
                         ELSE Dispatch(p, Typed(Optional(TypeOf(p[2])), s))
<1> DEFINE bare == Typed(Unknown, s)
<1>1. \A t : [bare EXCEPT !.type = t] = Typed(t, s)
  BY DEF Typed, Record
<1>2. bare = [type |-> Unknown, sht |-> s, identity |-> None,
              requested |-> None, cause |-> None, eea |-> None, eia |-> None,
              ueEea |-> None, ueEia |-> None]
  BY DEF Typed, Record
<1>3. Plain(p, s) = IF p = <<>> \/ TypeOf(p[2]) = {} THEN bare
                    ELSE Dispatch(p, [bare EXCEPT !.type = Optional(TypeOf(p[2]))])
  BY <1>2 DEF Plain
<1> QED BY <1>1, <1>3

-----------------------------------------------------------------------------
(* Fields of a PDU and of a cut of it                                      *)

Prefix(p, q) ==
    /\ p \in Seq(Octet) /\ q \in Seq(Octet)
    /\ Len(p) <= Len(q)
    /\ \A i \in 1 .. Len(p) : q[i] = p[i]

LEMMA OctetAt ==
    ASSUME NEW p \in Seq(Octet)
    PROVE  /\ Len(p) \in Nat /\ DOMAIN p = 1 .. Len(p)
           /\ \A i \in 1 .. Len(p) : p[i] \in Octet /\ p[i] \in Nat /\ p[i] <= 255
<1>1. Len(p) \in Nat /\ DOMAIN p = 1 .. Len(p)
  BY LenProperties
<1>2. \A i \in 1 .. Len(p) : p[i] \in Octet
  BY ElementOfSeq
<1>3. \A x \in Octet : x \in Nat /\ x <= 255
  BY DEF Octet
<1> QED BY <1>1, <1>2, <1>3

LEMMA Part ==
    ASSUME NEW p \in Seq(Octet), NEW i \in Nat \ {0}, NEW j \in Nat,
           i <= j + 1, j <= Len(p)
    PROVE  LET v == SubSeq(p, i, j)
           IN  /\ v \in Seq(Octet) /\ Len(v) = j + 1 - i
               /\ \A k \in 1 .. j + 1 - i : v[k] = p[i + k - 1]
<1>1. Len(p) \in Nat
  BY OctetAt
<1>2. \A k \in i .. j : p[k] \in Octet
  <2>1. \A k \in i .. j : k \in 1 .. Len(p)
    BY <1>1
  <2> QED BY <2>1, OctetAt
<1>3. SubSeq(p, i, j) \in Seq(Octet)
  BY <1>2, SubSeqProperties
<1>4. Len(SubSeq(p, i, j)) = j + 1 - i
  <2>1. Len(SubSeq(p, i, j)) = IF i <= j THEN j - i + 1 ELSE 0
    BY SubSeqProperties
  <2> QED BY <2>1
<1>5. \A k \in 1 .. j + 1 - i : SubSeq(p, i, j)[k] = p[i + k - 1]
  <2>1. \A k \in 1 .. j - i + 1 : SubSeq(p, i, j)[k] = p[i + k - 1]
    BY SubSeqProperties
  <2>2. j + 1 - i = j - i + 1
    OBVIOUS
  <2> QED BY <2>1, <2>2
<1> QED BY <1>3, <1>4, <1>5

LEMMA LvIs ==
    ASSUME NEW p \in Seq(Octet), NEW i \in Nat \ {0}
    PROVE  \/ Lv(p, i) = {}
           \/ /\ i <= Len(p) /\ i + p[i] <= Len(p) /\ p[i] \in Nat
              /\ Lv(p, i) = {SubSeq(p, i + 1, i + p[i])}
              /\ SubSeq(p, i + 1, i + p[i]) \in Seq(Octet)
<1> SUFFICES ASSUME Lv(p, i) # {}
             PROVE  /\ i <= Len(p) /\ i + p[i] <= Len(p) /\ p[i] \in Nat
                    /\ Lv(p, i) = {SubSeq(p, i + 1, i + p[i])}
                    /\ SubSeq(p, i + 1, i + p[i]) \in Seq(Octet)
  OBVIOUS
<1>1. /\ ~(i > Len(p)) /\ ~(i + p[i] > Len(p))
      /\ Lv(p, i) = {SubSeq(p, i + 1, i + p[i])}
  BY DEF Lv
<1>2. Len(p) \in Nat
  BY OctetAt
<1>3. i <= Len(p) /\ i \in 1 .. Len(p)
  BY <1>1, <1>2
<1>4. p[i] \in Nat
  BY <1>3, OctetAt
<1> DEFINE n == p[i]
<1> HIDE DEF n
<1>5. i + n <= Len(p) /\ i + n \in Nat /\ i + 1 \in Nat \ {0} /\ i + 1 <= (i + n) + 1
  BY <1>1, <1>2, <1>4 DEF n
<1>6. SubSeq(p, i + 1, i + n) \in Seq(Octet)
  BY <1>5, Part
<1> QED BY <1>1, <1>3, <1>4, <1>5, <1>6 DEF n

\* A field that is there whole is there in every longer PDU.
LEMMA LvStays ==
    ASSUME NEW p, NEW q, Prefix(p, q), NEW i \in Nat \ {0}
    PROVE  Lv(p, i) = {} \/ Lv(p, i) = Lv(q, i)
<1> SUFFICES ASSUME Lv(p, i) # {} PROVE Lv(p, i) = Lv(q, i)
  OBVIOUS
<1> DEFINE n == p[i]
<1>1. /\ p \in Seq(Octet) /\ q \in Seq(Octet) /\ Len(p) \in Nat /\ Len(q) \in Nat
      /\ Len(p) <= Len(q) /\ \A k \in 1 .. Len(p) : q[k] = p[k]
  BY OctetAt DEF Prefix
<1>2. /\ i <= Len(p) /\ i + n <= Len(p) /\ n \in Nat
      /\ Lv(p, i) = {SubSeq(p, i + 1, i + n)}
  BY <1>1, LvIs
<1>3. q[i] = n
  BY <1>1, <1>2
<1> HIDE DEF n
<1>4. i <= Len(q) /\ i + n <= Len(q)
  BY <1>1, <1>2
<1>5. Lv(q, i) = {SubSeq(q, i + 1, i + n)}
  <2>1. ~(i > Len(q)) /\ ~(i + n > Len(q))
    BY <1>1, <1>2, <1>4
  <2> QED BY <1>3, <2>1 DEF Lv
<1>6. SubSeq(p, i + 1, i + n) = SubSeq(q, i + 1, i + n)
  <2> DEFINE a == i + 1
             b == i + n
             v == SubSeq(p, a, b)
             w == SubSeq(q, a, b)
  <2>1. a \in Nat \ {0} /\ b \in Nat /\ a <= b + 1 /\ b + 1 - a = n
        /\ b <= Len(p) /\ b <= Len(q)
    BY <1>2, <1>4
  <2>2. \A k \in 1 .. n : a + k - 1 \in 1 .. Len(p)
    BY <1>1, <1>2
  <2> HIDE DEF a, b
  <2>3. /\ v \in Seq(Octet) /\ Len(v) = n /\ \A k \in 1 .. n : v[k] = p[a + k - 1]
    BY <1>1, <2>1, Part
  <2>4. /\ w \in Seq(Octet) /\ Len(w) = n /\ \A k \in 1 .. n : w[k] = q[a + k - 1]
    BY <1>1, <2>1, Part
  <2>5. \A k \in 1 .. n : v[k] = w[k]
    BY <1>1, <2>2, <2>3, <2>4
  <2> HIDE DEF v, w
  <2>6. v = w
    BY <2>3, <2>4, <2>5, SeqEqual
  <2> QED BY <2>6 DEF v, w, a, b
<1> QED BY <1>2, <1>5, <1>6

LEMMA IdentityType == ASSUME NEW values PROVE IdentityIn(values) \in Kinds \cup {None}
<1>1. \A v : Identity(v) \subseteq Kinds
  BY DEF Identity, Kinds
<1>2. UNION {Identity(v) : v \in values} \subseteq Kinds
  BY <1>1
<1> QED BY <1>2, OptionalIn DEF IdentityIn

LEMMA CapabilityType ==
    ASSUME NEW values \in SUBSET Seq(Octet), NEW k \in 1 .. 2
    PROVE  CapabilityIn(values, k) \in Octet \cup {None}
<1>1. ASSUME NEW w \in values, Len(w) >= 2 PROVE w[k] \in Octet
  <2>1. w \in Seq(Octet) /\ Len(w) \in Nat
    BY OctetAt
  <2>2. k \in 1 .. Len(w)
    BY <1>1, <2>1
  <2> QED BY <2>1, <2>2, OctetAt
<1>2. {v[k] : v \in {w \in values : Len(w) >= 2}} \subseteq Octet
  BY <1>1
<1> QED BY <1>2, OptionalIn DEF CapabilityIn

LEMMA LvType ==
    ASSUME NEW p \in Seq(Octet), NEW i \in Nat \ {0}
    PROVE  Lv(p, i) \subseteq Seq(Octet)
<1>1. CASE Lv(p, i) = {}
  BY <1>1
<1>2. CASE Lv(p, i) # {}
  <2>1. /\ Lv(p, i) = {SubSeq(p, i + 1, i + p[i])}
        /\ SubSeq(p, i + 1, i + p[i]) \in Seq(Octet)
    BY <1>2, LvIs
  <2> QED BY <2>1
<1> QED BY <1>1, <1>2

LEMMA AttachCapabilityIs ==
    ASSUME NEW p \in Seq(Octet)
    PROVE  /\ AttachCapability(p) \subseteq Seq(Octet)
           /\ Lv(p, 4) = {} => AttachCapability(p) = {}
           /\ \A v \in Lv(p, 4) : /\ 5 + Len(v) \in Nat \ {0}
                                  /\ AttachCapability(p) = Lv(p, 5 + Len(v))
<1>1. 4 \in Nat \ {0}
  OBVIOUS
<1>2. ASSUME NEW v \in Lv(p, 4) PROVE 5 + Len(v) \in Nat \ {0} /\ Lv(p, 4) = {v}
  <2>1. v \in Seq(Octet) /\ Lv(p, 4) = {v}
    <3>1. Lv(p, 4) # {}
      OBVIOUS
    <3>2. /\ Lv(p, 4) = {SubSeq(p, 4 + 1, 4 + p[4])}
          /\ SubSeq(p, 4 + 1, 4 + p[4]) \in Seq(Octet)
      BY <1>1, <3>1, LvIs
    <3> QED BY <3>2
  <2>2. Len(v) \in Nat
    BY <2>1, OctetAt
  <2> QED BY <2>1, <2>2
<1>3. ASSUME NEW v \in Lv(p, 4) PROVE Lv(p, 5 + Len(v)) \subseteq Seq(Octet)
  BY <1>2, LvType
<1>4. ASSUME NEW v \in Lv(p, 4) PROVE AttachCapability(p) = Lv(p, 5 + Len(v))
  BY <1>2 DEF AttachCapability
<1>5. AttachCapability(p) \subseteq Seq(Octet)
  BY <1>3 DEF AttachCapability
<1> QED BY <1>2, <1>4, <1>5 DEF AttachCapability

LEMMA RecordType ==
    ASSUME NEW t \in DOMAIN Code \cup {Unknown}, NEW s \in 0 .. 15,
           NEW id \in Kinds \cup {None}, NEW r \in 0 .. 7 \cup {None},
           NEW c \in Octet \cup {None}, NEW ea \in 0 .. 7 \cup {None},
           NEW ia \in 0 .. 7 \cup {None}, NEW x \in Octet \cup {None},
           NEW y \in Octet \cup {None}
    PROVE  Record(t, s, id, r, c, ea, ia, x, y) \in Fields
BY DEF Record, Fields

LEMMA ThirdOctetIs ==
    ASSUME NEW p \in Seq(Octet)
    PROVE  \/ ThirdOctet(p) = {} /\ Len(p) < 3
           \/ /\ Len(p) >= 3 /\ p[3] \in Octet /\ p[3] \in Nat
              /\ ThirdOctet(p) = {p[3]}
<1>1. Len(p) \in Nat
  BY OctetAt
<1>2. CASE Len(p) < 3
  BY <1>2 DEF ThirdOctet
<1>3. CASE ~(Len(p) < 3)
  <2>1. 3 \in 1 .. Len(p) /\ Len(p) >= 3
    BY <1>1, <1>3
  <2> QED BY <1>3, <2>1, OctetAt DEF ThirdOctet
<1> QED BY <1>2, <1>3

LEMMA DispatchType ==
    ASSUME NEW p \in Seq(Octet), NEW t \in DOMAIN Code \cup {Unknown}, NEW s \in 0 .. 15
    PROVE  Dispatch(p, Typed(t, s)) \in Fields /\ Dispatch(p, Typed(t, s)).sht = s
<1> DEFINE d == Dispatch(p, Typed(t, s))
<1> SUFFICES d \in Fields /\ d.sht = s
  OBVIOUS
<1>1. \A values : IdentityIn(values) \in Kinds \cup {None}
  BY IdentityType
<1>2. \A k \in 1 .. 2 : /\ CapabilityIn(AttachCapability(p), k) \in Octet \cup {None}
                        /\ CapabilityIn(Lv(p, 5), k) \in Octet \cup {None}
  <2>1. AttachCapability(p) \in SUBSET Seq(Octet)
    BY AttachCapabilityIs
  <2>2. Lv(p, 5) \in SUBSET Seq(Octet)
    <3>1. 5 \in Nat \ {0}
      OBVIOUS
    <3> QED BY <3>1, LvType
  <2> QED BY <2>1, <2>2, CapabilityType
<1>3. 1 \in 1 .. 2 /\ 2 \in 1 .. 2
  OBVIOUS
<1>4. \A n \in Nat : n % 8 \in 0 .. 7 /\ (n \div 16) % 8 \in 0 .. 7
  OBVIOUS
<1>5. Typed(t, s) \in Fields /\ Typed(t, s).sht = s
  BY RecordType DEF Typed, Record
<1>s. \A id, r, c, ea, ia, x, y : Record(t, s, id, r, c, ea, ia, x, y).sht = s
  BY DEF Record
<1>6. CASE t = "AttachRequest"
  <2> DEFINE id == IdentityIn(Lv(p, 4))
             x == CapabilityIn(AttachCapability(p), 1)
             y == CapabilityIn(AttachCapability(p), 2)
  <2>1. d = Record(t, s, id, None, None, None, None, x, y)
    BY <1>6, DispatchIs
  <2>2. id \in Kinds \cup {None} /\ x \in Octet \cup {None} /\ y \in Octet \cup {None}
    BY <1>1, <1>2, <1>3
  <2> HIDE DEF d, id, x, y
  <2>3. d \in Fields
    BY <2>1, <2>2 DEF Record, Fields
  <2> QED BY <1>s, <2>1, <2>3
<1>7. CASE t = "IdentityRequest"
  <2> DEFINE r == Optional({o % 8 : o \in ThirdOctet(p)})
  <2>1. d = Record(t, s, None, r, None, None, None, None, None)
    BY <1>7, DispatchIs
  <2>2. r \in 0 .. 7 \cup {None}
    <3>1. {o % 8 : o \in ThirdOctet(p)} \subseteq 0 .. 7
      BY <1>4, ThirdOctetIs
    <3> QED BY <3>1, OptionalIn
  <2> HIDE DEF d, r
  <2> QED BY <2>1, <2>2, RecordType DEF Record
<1>8. CASE t = "IdentityResponse"
  <2> DEFINE id == IdentityIn(Lv(p, 3))
  <2>1. d = Record(t, s, id, None, None, None, None, None, None)
    BY <1>8, DispatchIs
  <2>2. id \in Kinds \cup {None}
    BY <1>1
  <2> HIDE DEF d, id
  <2> QED BY <2>1, <2>2, RecordType DEF Record
<1>9. CASE t \in {"AuthenticationFailure", "TauReject"}
  <2> DEFINE c == Optional(ThirdOctet(p))
  <2>1. d = Record(t, s, None, None, c, None, None, None, None)
    BY <1>9, DispatchIs
  <2>2. c \in Octet \cup {None}
    <3>1. ThirdOctet(p) \subseteq Octet
      BY ThirdOctetIs
    <3> QED BY <3>1, OptionalIn
  <2> HIDE DEF d, c
  <2> QED BY <2>1, <2>2, RecordType DEF Record
<1>10. CASE t = "SecurityModeCommand" /\ Len(p) < 3
  <2>1. d = Typed(t, s)
    BY <1>10, SecurityIs
  <2> QED BY <1>5, <2>1
<1>12. CASE t = "SecurityModeCommand" /\ ~(Len(p) < 3)
  <2> DEFINE ea == (p[3] \div 16) % 8
             ia == p[3] % 8
             x == CapabilityIn(Lv(p, 5), 1)
             y == CapabilityIn(Lv(p, 5), 2)
  <2>1. d = Record(t, s, None, None, None, ea, ia, x, y)
    BY <1>12, SecurityIs
  <2>2. /\ ea \in 0 .. 7 \cup {None} /\ ia \in 0 .. 7 \cup {None}
        /\ x \in Octet \cup {None} /\ y \in Octet \cup {None}
    <3>1. p[3] \in Nat
      BY <1>12, ThirdOctetIs
    <3> QED BY <1>2, <1>3, <1>4, <3>1
  <2> HIDE DEF d, ea, ia, x, y
  <2>3. d \in Fields
    BY <2>1, <2>2 DEF Record, Fields
  <2> QED BY <1>s, <2>1, <2>3
<1>11. CASE t \notin {"AttachRequest", "IdentityRequest", "IdentityResponse",
                     "AuthenticationFailure", "TauReject", "SecurityModeCommand"}
  <2>1. d = Typed(t, s)
    BY <1>11, OthersAre
  <2> QED BY <1>5, <2>1
<1> QED BY <1>6, <1>7, <1>8, <1>9, <1>10, <1>11, <1>12

LEMMA TypedType ==
    ASSUME NEW t \in DOMAIN Code \cup {Unknown}, NEW s \in 0 .. 15
    PROVE  Typed(t, s) \in Fields /\ Typed(t, s).sht = s
BY DEF Typed, Record, Fields

LEMMA TypeIsKnown ==
    ASSUME NEW o, TypeOf(o) # {}
    PROVE  Optional(TypeOf(o)) \in DOMAIN Code
BY DEF TypeOf, Optional

LEMMA PlainType ==
    ASSUME NEW p \in Seq(Octet), NEW s \in 0 .. 15
    PROVE  Plain(p, s) \in Fields /\ Plain(p, s).sht = s
<1>1. CASE p = <<>> \/ TypeOf(p[2]) = {}
  BY <1>1, PlainIs, TypedType
<1>2. CASE ~(p = <<>> \/ TypeOf(p[2]) = {})
  <2> DEFINE t == Optional(TypeOf(p[2]))
  <2>1. t \in DOMAIN Code \cup {Unknown}
    BY <1>2, TypeIsKnown
  <2>2. Plain(p, s) = Dispatch(p, Typed(t, s))
    BY <1>2, PlainIs
  <2> HIDE DEF t
  <2> QED BY <2>1, <2>2, DispatchType
<1> QED BY <1>1, <1>2

\* The plain PDU in the octets of one that is readable so far.
Content(p) ==
    CASE p[1] \div 16 = 0 -> p
      [] p[1] \div 16 \in 1 .. 4 -> Inner(p)
      [] OTHER -> <<>>

IsNas(p) == ~(Len(p) < 2) /\ p[1] % 16 = 7

LEMMA InnerIs ==
    ASSUME NEW p \in Seq(Octet)
    PROVE  /\ Inner(p) \in Seq(Octet)
           /\ Inner(p) # <<>> => /\ Len(p) > 7 /\ p[7] % 16 = 7
                                 /\ Inner(p) = SubSeq(p, 7, Len(p))
                                 /\ Len(Inner(p)) = Len(p) - 6
                                 /\ \A k \in 1 .. Len(p) - 6 : Inner(p)[k] = p[k + 6]
<1>1. Len(p) \in Nat /\ <<>> \in Seq(Octet)
  BY OctetAt
<1>2. CASE Len(p) <= 7 \/ p[7] % 16 # 7
  BY <1>1, <1>2 DEF Inner
<1>3. CASE ~(Len(p) <= 7) /\ p[7] % 16 = 7
  <2>1. Inner(p) = SubSeq(p, 7, Len(p)) /\ Len(p) > 7
    BY <1>1, <1>3 DEF Inner
  <2> DEFINE n == Len(p)
             v == SubSeq(p, 7, n)
  <2>2. 7 \in Nat \ {0} /\ n \in Nat /\ 7 <= n + 1 /\ n + 1 - 7 = n - 6 /\ n <= Len(p)
    BY <1>1, <2>1
  <2>3. v \in Seq(Octet) /\ Len(v) = n - 6 /\ \A k \in 1 .. n + 1 - 7 : v[k] = p[7 + k - 1]
    <3> HIDE DEF n
    <3> QED BY <2>2, Part
  <2> HIDE DEF v
  <2>4. \A k \in 1 .. n - 6 : k \in 1 .. n + 1 - 7 /\ 7 + k - 1 = k + 6
    BY <2>2
  <2>5. \A k \in 1 .. n - 6 : v[k] = p[k + 6]
    BY <2>3, <2>4
  <2> QED BY <1>3, <2>1, <2>3, <2>5 DEF v
<1> QED BY <1>1, <1>2, <1>3

LEMMA DecodeIs ==
    ASSUME NEW p \in Seq(Octet)
    PROVE  /\ ~IsNas(p) => Decode(p) = Nothing
           /\ IsNas(p) => /\ Decode(p) = Plain(Content(p), p[1] \div 16)
                          /\ p[1] \div 16 \in 0 .. 15
                          /\ Content(p) \in Seq(Octet)
<1>1. CASE ~IsNas(p)
  BY <1>1 DEF IsNas, Decode
<1>2. CASE IsNas(p)
  <2>1. Decode(p) = Plain(Content(p), p[1] \div 16)
    BY <1>2 DEF IsNas, Decode, Content
  <2>2. p[1] \in Nat /\ p[1] <= 255
    <3>1. Len(p) \in Nat
      BY OctetAt
    <3>2. 1 \in 1 .. Len(p)
      BY <1>2, <3>1 DEF IsNas
    <3> QED BY <3>2, OctetAt
  <2>3. p[1] \div 16 \in 0 .. 15
    <3> DEFINE o == p[1]
    <3> HIDE DEF o
    <3>1. o \in Nat /\ o <= 255
      BY <2>2 DEF o
    <3>2. o \div 16 \in 0 .. 15
      BY <3>1
    <3> QED BY <3>2 DEF o
  <2>4. Content(p) \in Seq(Octet)
    <3>1. Inner(p) \in Seq(Octet) /\ <<>> \in Seq(Octet)
      BY InnerIs
    <3> QED BY <3>1 DEF Content
  <2> QED BY <1>2, <2>1, <2>3, <2>4
<1> QED BY <1>1, <1>2

LEMMA DecodeType ==
    ASSUME NEW p \in Seq(Octet)
    PROVE  /\ Decode(p) \in Fields \cup {Nothing}
           /\ IsNas(p) => Decode(p) \in Fields /\ Decode(p).sht = p[1] \div 16
<1>1. CASE ~IsNas(p)
  BY <1>1, DecodeIs
<1>2. CASE IsNas(p)
  <2> DEFINE c == Content(p)
             s == p[1] \div 16
  <2>1. Decode(p) = Plain(c, s) /\ s \in 0 .. 15 /\ c \in Seq(Octet)
    BY <1>2, DecodeIs
  <2> HIDE DEF c
  <2>2. Plain(c, s) \in Fields /\ Plain(c, s).sht = s
    <3> HIDE DEF s
    <3> QED BY <2>1, PlainType
  <2> QED BY <2>1, <2>2
<1> QED BY <1>1, <1>2

LEMMA FieldsIsSomething == Nothing \notin Fields
<1>1. ASSUME NEW f \in Fields PROVE f # Nothing
  <2>1. "none" \notin DOMAIN f
    BY DEF Fields
  <2>2. "none" \in DOMAIN Nothing
    BY DEF Nothing
  <2> QED BY <2>1, <2>2
<1> QED BY <1>1

-----------------------------------------------------------------------------
(* A longer PDU says no less                                               *)

LEMMA LessByField ==
    ASSUME NEW t, NEW s, NEW id, NEW r, NEW c, NEW ea, NEW ia, NEW x, NEW y,
           NEW id2, NEW r2, NEW c2, NEW ea2, NEW ia2, NEW x2, NEW y2,
           id \in {None, id2}, r \in {None, r2}, c \in {None, c2}, ea \in {None, ea2},
           ia \in {None, ia2}, x \in {None, x2}, y \in {None, y2},
           Record(t, s, id2, r2, c2, ea2, ia2, x2, y2) # Nothing
    PROVE  KnowsLess(Record(t, s, id, r, c, ea, ia, x, y),
                     Record(t, s, id2, r2, c2, ea2, ia2, x2, y2))
BY DEF KnowsLess, Record

LEMMA UnknownIsLess ==
    ASSUME NEW s, NEW e \in Fields, e.sht = s
    PROVE  KnowsLess(Typed(Unknown, s), e)
<1>1. e # Nothing
  BY FieldsIsSomething
<1> QED BY <1>1 DEF KnowsLess, Typed, Record

LEMMA SameIsLess == ASSUME NEW d \in Fields PROVE KnowsLess(d, d)
BY FieldsIsSomething DEF KnowsLess

LEMMA FieldsStay ==
    ASSUME NEW p, NEW q, Prefix(p, q)
    PROVE  /\ \A i \in Nat \ {0} : IdentityIn(Lv(p, i)) \in {None, IdentityIn(Lv(q, i))}
           /\ \A i \in Nat \ {0} : \A k \in 1 .. 2 :
                 CapabilityIn(Lv(p, i), k) \in {None, CapabilityIn(Lv(q, i), k)}
           /\ \A k \in 1 .. 2 : CapabilityIn(AttachCapability(p), k)
                                   \in {None, CapabilityIn(AttachCapability(q), k)}
           /\ ThirdOctet(p) = {} \/ ThirdOctet(p) = ThirdOctet(q)
<1>1. \A k : CapabilityIn({}, k) = None
  BY OptionalEmpty DEF CapabilityIn
<1>2. IdentityIn({}) = None
  BY OptionalEmpty DEF IdentityIn
<1>3. \A i \in Nat \ {0} : IdentityIn(Lv(p, i)) \in {None, IdentityIn(Lv(q, i))}
  <2> TAKE i \in Nat \ {0}
  <2> QED BY <1>2, LvStays
<1>4. \A i \in Nat \ {0} : \A k \in 1 .. 2 :
          CapabilityIn(Lv(p, i), k) \in {None, CapabilityIn(Lv(q, i), k)}
  <2> TAKE i \in Nat \ {0}
  <2> TAKE k \in 1 .. 2
  <2> QED BY <1>1, LvStays
<1>5. p \in Seq(Octet) /\ q \in Seq(Octet)
  BY DEF Prefix
<1>6. \A k \in 1 .. 2 : CapabilityIn(AttachCapability(p), k)
                           \in {None, CapabilityIn(AttachCapability(q), k)}
  <2> TAKE k \in 1 .. 2
  <2>1. CASE Lv(p, 4) = {}
    BY <1>1, <1>5, <2>1, AttachCapabilityIs
  <2>2. CASE Lv(p, 4) # {}
    <3>1. Lv(q, 4) = Lv(p, 4)
      <4>1. 4 \in Nat \ {0}
        OBVIOUS
      <4> QED BY <2>2, <4>1, LvStays
    <3>2. PICK v : v \in Lv(p, 4) /\ v \in Lv(q, 4)
      BY <2>2, <3>1
    <3>3. /\ 5 + Len(v) \in Nat \ {0}
          /\ AttachCapability(p) = Lv(p, 5 + Len(v))
          /\ AttachCapability(q) = Lv(q, 5 + Len(v))
      BY <1>5, <3>2, AttachCapabilityIs
    <3> QED BY <1>4, <3>3
  <2> QED BY <2>1, <2>2
<1>7. ThirdOctet(p) = {} \/ ThirdOctet(p) = ThirdOctet(q)
  <2>1. CASE Len(p) < 3
    BY <2>1 DEF ThirdOctet
  <2>2. CASE ~(Len(p) < 3)
    <3>1. Len(p) \in Nat /\ Len(q) \in Nat
      BY <1>5, OctetAt
    <3>2. 3 \in 1 .. Len(p) /\ ~(Len(q) < 3)
      BY <2>2, <3>1 DEF Prefix
    <3>3. q[3] = p[3]
      BY <3>2 DEF Prefix
    <3> QED BY <2>2, <3>2, <3>3 DEF ThirdOctet
  <2> QED BY <2>1, <2>2
<1> QED BY <1>3, <1>4, <1>6, <1>7

LEMMA DispatchMore ==
    ASSUME NEW p, NEW q, Prefix(p, q), NEW t \in DOMAIN Code, NEW s \in 0 .. 15
    PROVE  KnowsLess(Dispatch(p, Typed(t, s)), Dispatch(q, Typed(t, s)))
<1> DEFINE d == Dispatch(p, Typed(t, s))
           e == Dispatch(q, Typed(t, s))
<1> SUFFICES KnowsLess(d, e)
  OBVIOUS
<1>1. p \in Seq(Octet) /\ q \in Seq(Octet) /\ Len(p) \in Nat /\ Len(q) \in Nat
  BY OctetAt DEF Prefix
<1>2. e # Nothing
  BY <1>1, DispatchType, FieldsIsSomething
<1>3. None \in {None, None}
  OBVIOUS
<1>4. CASE t = "AttachRequest"
  <2> DEFINE id  == IdentityIn(Lv(p, 4))
             id2 == IdentityIn(Lv(q, 4))
             x   == CapabilityIn(AttachCapability(p), 1)
             x2  == CapabilityIn(AttachCapability(q), 1)
             y   == CapabilityIn(AttachCapability(p), 2)
             y2  == CapabilityIn(AttachCapability(q), 2)
  <2>1. /\ d = Record(t, s, id, None, None, None, None, x, y)
        /\ e = Record(t, s, id2, None, None, None, None, x2, y2)
    BY <1>4, DispatchIs
  <2>2. id \in {None, id2} /\ x \in {None, x2} /\ y \in {None, y2}
    <3>1. 4 \in Nat \ {0} /\ 1 \in 1 .. 2 /\ 2 \in 1 .. 2
      OBVIOUS
    <3> QED BY <3>1, FieldsStay
  <2> HIDE DEF d, e, id, id2, x, x2, y, y2
  <2> QED BY <1>2, <2>1, <2>2 DEF KnowsLess, Record
<1>5. CASE t = "IdentityRequest"
  <2> DEFINE r  == Optional({o % 8 : o \in ThirdOctet(p)})
             r2 == Optional({o % 8 : o \in ThirdOctet(q)})
  <2>1. /\ d = Record(t, s, None, r, None, None, None, None, None)
        /\ e = Record(t, s, None, r2, None, None, None, None, None)
    BY <1>5, DispatchIs
  <2>2. r \in {None, r2}
    <3>1. CASE ThirdOctet(p) = {}
      BY <3>1, OptionalEmpty
    <3>2. CASE ThirdOctet(p) = ThirdOctet(q)
      BY <3>2
    <3> QED BY <3>1, <3>2, FieldsStay
  <2> HIDE DEF d, e, r, r2
  <2> QED BY <1>2, <2>1, <2>2 DEF KnowsLess, Record
<1>6. CASE t = "IdentityResponse"
  <2> DEFINE id  == IdentityIn(Lv(p, 3))
             id2 == IdentityIn(Lv(q, 3))
  <2>1. /\ d = Record(t, s, id, None, None, None, None, None, None)
        /\ e = Record(t, s, id2, None, None, None, None, None, None)
    BY <1>6, DispatchIs
  <2>2. id \in {None, id2}
    <3>1. 3 \in Nat \ {0}
      OBVIOUS
    <3> QED BY <3>1, FieldsStay
  <2> HIDE DEF d, e, id, id2
  <2> QED BY <1>2, <2>1, <2>2 DEF KnowsLess, Record
<1>7. CASE t \in {"AuthenticationFailure", "TauReject"}
  <2> DEFINE c  == Optional(ThirdOctet(p))
             c2 == Optional(ThirdOctet(q))
  <2>1. /\ d = Record(t, s, None, None, c, None, None, None, None)
        /\ e = Record(t, s, None, None, c2, None, None, None, None)
    BY <1>7, DispatchIs
  <2>2. c \in {None, c2}
    BY FieldsStay, OptionalEmpty
  <2> HIDE DEF d, e, c, c2
  <2> QED BY <1>2, <2>1, <2>2 DEF KnowsLess, Record
<1>8. CASE t = "SecurityModeCommand" /\ ~(Len(p) < 3)
  <2> DEFINE ea == (p[3] \div 16) % 8
             ia == p[3] % 8
             x  == CapabilityIn(Lv(p, 5), 1)
             x2 == CapabilityIn(Lv(q, 5), 1)
             y  == CapabilityIn(Lv(p, 5), 2)
             y2 == CapabilityIn(Lv(q, 5), 2)
  <2>1. ~(Len(q) < 3) /\ q[3] = p[3]
    <3>1. 3 \in 1 .. Len(p)
      BY <1>1, <1>8
    <3> QED BY <1>1, <3>1 DEF Prefix
  <2>2. /\ d = Record(t, s, None, None, None, ea, ia, x, y)
        /\ e = Record(t, s, None, None, None, ea, ia, x2, y2)
    BY <1>8, <2>1, SecurityIs
  <2>3. x \in {None, x2} /\ y \in {None, y2}
    <3>1. 5 \in Nat \ {0} /\ 1 \in 1 .. 2 /\ 2 \in 1 .. 2
      OBVIOUS
    <3> QED BY <3>1, FieldsStay
  <2> HIDE DEF d, e, ea, ia, x, x2, y, y2
  <2> QED BY <1>2, <2>2, <2>3 DEF KnowsLess, Record
<1>9. CASE t = "SecurityModeCommand" /\ Len(p) < 3
  <2>1. d = Record(t, s, None, None, None, None, None, None, None)
    BY <1>9, SecurityIs DEF Typed
  <2>2. e.type = t /\ e.sht = s
    <3>1. CASE Len(q) < 3
      <4>1. e = Typed(t, s)
        BY <1>9, <3>1, SecurityIs
      <4> HIDE DEF e
      <4> QED BY <4>1 DEF Typed, Record
    <3>2. CASE ~(Len(q) < 3)
      BY <1>9, <3>2, SecurityIs DEF Record
    <3> QED BY <3>1, <3>2
  <2> HIDE DEF d, e
  <2> QED BY <1>2, <2>1, <2>2 DEF KnowsLess, Record
<1>10. CASE t \notin {"AttachRequest", "IdentityRequest", "IdentityResponse",
                     "AuthenticationFailure", "TauReject", "SecurityModeCommand"}
  <2>1. d = Typed(t, s) /\ e = Typed(t, s)
    BY <1>10, OthersAre
  <2> HIDE DEF d, e
  <2> QED BY <1>2, <2>1 DEF KnowsLess
<1> QED BY <1>4, <1>5, <1>6, <1>7, <1>8, <1>9, <1>10

LEMMA PlainMore ==
    ASSUME NEW p, NEW q, Prefix(p, q), Len(p) >= 2, NEW s \in 0 .. 15
    PROVE  KnowsLess(Plain(p, s), Plain(q, s))
<1>1. p \in Seq(Octet) /\ q \in Seq(Octet) /\ Len(p) \in Nat /\ Len(q) \in Nat
  BY OctetAt DEF Prefix
<1>2. p # <<>> /\ q # <<>> /\ q[2] = p[2]
  <2>1. 2 \in 1 .. Len(p) /\ Len(q) >= 2
    BY <1>1 DEF Prefix
  <2> QED BY <1>1, <2>1 DEF Prefix
<1>3. CASE TypeOf(p[2]) = {}
  <2>1. Plain(p, s) = Typed(Unknown, s)
    BY <1>3, PlainIs
  <2> QED BY <1>1, <2>1, PlainType, UnknownIsLess
<1>4. CASE TypeOf(p[2]) # {}
  <2> DEFINE t == Optional(TypeOf(p[2]))
  <2>1. t \in DOMAIN Code
    BY <1>4, TypeIsKnown
  <2>2. Plain(p, s) = Dispatch(p, Typed(t, s)) /\ Plain(q, s) = Dispatch(q, Typed(t, s))
    BY <1>2, <1>4, PlainIs
  <2> HIDE DEF t
  <2> QED BY <2>1, <2>2, DispatchMore
<1> QED BY <1>3, <1>4

LEMMA ContentStays ==
    ASSUME NEW p, NEW q, Prefix(p, q), IsNas(p)
    PROVE  /\ IsNas(q) /\ q[1] = p[1]
           /\ \/ Content(p) = <<>>
              \/ Prefix(Content(p), Content(q)) /\ Len(Content(p)) >= 2
<1>1. /\ p \in Seq(Octet) /\ q \in Seq(Octet) /\ Len(p) \in Nat /\ Len(q) \in Nat
      /\ Len(p) <= Len(q) /\ Len(p) >= 2
      /\ \A i \in 1 .. Len(p) : q[i] = p[i]
  BY OctetAt DEF Prefix, IsNas
<1>2. 1 \in 1 .. Len(p) /\ q[1] = p[1]
  BY <1>1
<1>3. IsNas(q)
  BY <1>1, <1>2 DEF IsNas
<1>4. CASE p[1] \div 16 = 0
  <2>1. Content(p) = p /\ Content(q) = q
    BY <1>2, <1>4 DEF Content
  <2> QED BY <1>1, <1>2, <1>3, <2>1
<1>5. CASE p[1] \div 16 # 0 /\ p[1] \div 16 \in 1 .. 4
  <2>1. Content(p) = Inner(p) /\ Content(q) = Inner(q)
    BY <1>2, <1>5 DEF Content
  <2>2. ASSUME Inner(p) # <<>> PROVE Prefix(Inner(p), Inner(q)) /\ Len(Inner(p)) >= 2
    <3>1. /\ Inner(p) \in Seq(Octet) /\ Len(p) > 7 /\ p[7] % 16 = 7
          /\ Len(Inner(p)) = Len(p) - 6
          /\ \A k \in 1 .. Len(p) - 6 : Inner(p)[k] = p[k + 6]
      BY <1>1, <2>2, InnerIs
    <3>2. q[7] = p[7] /\ ~(Len(q) <= 7)
      BY <1>1, <3>1
    <3>3. Inner(q) = SubSeq(q, 7, Len(q))
      BY <3>1, <3>2 DEF Inner
    <3>4. Inner(q) # <<>>
      <4> DEFINE n == Len(q)
      <4>1. /\ n \in Nat /\ n > 7 /\ 7 <= n + 1 /\ n <= Len(q) /\ n + 1 - 7 # 0
            /\ 7 \in Nat \ {0}
        BY <1>1, <3>2
      <4> HIDE DEF n
      <4>2. Len(SubSeq(q, 7, n)) = n + 1 - 7
        BY <1>1, <4>1, Part
      <4>3. Len(<<>>) = 0
        OBVIOUS
      <4> QED BY <3>3, <4>1, <4>2, <4>3 DEF n
    <3>5. /\ Inner(q) \in Seq(Octet) /\ Len(Inner(q)) = Len(q) - 6
          /\ \A k \in 1 .. Len(q) - 6 : Inner(q)[k] = q[k + 6]
      BY <1>1, <3>4, InnerIs
    <3>6. \A k \in 1 .. Len(p) - 6 : k \in 1 .. Len(q) - 6 /\ k + 6 \in 1 .. Len(p)
      BY <1>1
    <3>7. \A k \in 1 .. Len(p) - 6 : Inner(q)[k] = Inner(p)[k]
      BY <1>1, <3>1, <3>5, <3>6
    <3>8. Len(Inner(p)) <= Len(Inner(q)) /\ Len(Inner(p)) >= 2
      BY <1>1, <3>1, <3>5
    <3> QED BY <3>1, <3>5, <3>7, <3>8 DEF Prefix
  <2> QED BY <1>2, <1>3, <2>1, <2>2
<1>6. CASE p[1] \div 16 # 0 /\ p[1] \div 16 \notin 1 .. 4
  BY <1>2, <1>3, <1>6 DEF Content
<1> QED BY <1>2, <1>3, <1>4, <1>5, <1>6

LEMMA DecodeMore ==
    ASSUME NEW p, NEW q, Prefix(p, q)
    PROVE  KnowsLess(Decode(p), Decode(q))
<1>1. p \in Seq(Octet) /\ q \in Seq(Octet)
  BY DEF Prefix
<1>2. CASE ~IsNas(p)
  BY <1>1, <1>2, DecodeIs DEF KnowsLess
<1>3. CASE IsNas(p)
  <2> DEFINE s == p[1] \div 16
             c == Content(p)
             e == Content(q)
  <2>1. IsNas(q) /\ q[1] = p[1] /\ (c = <<>> \/ (Prefix(c, e) /\ Len(c) >= 2))
    BY <1>3, ContentStays
  <2>2. /\ Decode(p) = Plain(c, s) /\ Decode(q) = Plain(e, s) /\ s \in 0 .. 15
        /\ e \in Seq(Octet)
    BY <1>1, <1>3, <2>1, DecodeIs
  <2> HIDE DEF s, c, e
  <2>3. CASE c = <<>>
    <3>1. Plain(c, s) = Typed(Unknown, s)
      BY <2>3, PlainIs
    <3>2. Plain(e, s) \in Fields /\ Plain(e, s).sht = s
      BY <2>2, PlainType
    <3> QED BY <2>2, <3>1, <3>2, UnknownIsLess
  <2>4. CASE Prefix(c, e) /\ Len(c) >= 2
    BY <2>2, <2>4, PlainMore
  <2> QED BY <2>1, <2>3, <2>4
<1> QED BY <1>2, <1>3

-----------------------------------------------------------------------------
(* What senders encode                                                     *)

LEMMA Joined ==
    ASSUME NEW a \in Seq(Octet), NEW b \in Seq(Octet)
    PROVE  /\ a \o b \in Seq(Octet) /\ Len(a \o b) = Len(a) + Len(b)
           /\ Len(a) \in Nat /\ Len(b) \in Nat
           /\ \A i \in 1 .. Len(a) : (a \o b)[i] = a[i]
           /\ \A i \in 1 .. Len(b) : (a \o b)[Len(a) + i] = b[i]
<1>1. /\ a \o b \in Seq(Octet) /\ Len(a \o b) = Len(a) + Len(b)
      /\ \A i \in 1 .. Len(a) + Len(b) :
            (a \o b)[i] = IF i <= Len(a) THEN a[i] ELSE b[i - Len(a)]
  BY ConcatProperties
<1>2. Len(a) \in Nat /\ Len(b) \in Nat
  BY OctetAt
<1>3. \A i \in 1 .. Len(a) : i \in 1 .. Len(a) + Len(b) /\ i <= Len(a)
  BY <1>2
<1>4. \A i \in 1 .. Len(b) : /\ Len(a) + i \in 1 .. Len(a) + Len(b)
                             /\ ~(Len(a) + i <= Len(a)) /\ (Len(a) + i) - Len(a) = i
  BY <1>2
<1>5. \A i \in 1 .. Len(b) : (a \o b)[Len(a) + i] = b[i]
  <2> TAKE i \in 1 .. Len(b)
  <2> DEFINE j == Len(a) + i
  <2>1. j \in 1 .. Len(a) + Len(b) /\ ~(j <= Len(a)) /\ j - Len(a) = i
    BY <1>4
  <2> HIDE DEF j
  <2>2. (a \o b)[j] = b[i]
    BY <1>1, <2>1
  <2> QED BY <2>2 DEF j
<1> QED BY <1>1, <1>2, <1>3, <1>5

\* The field of v stands at i.
Holds(p, i, v) ==
    /\ p \in Seq(Octet) /\ v \in Seq(Octet)
    /\ i \in Nat \ {0}
    /\ i + Len(v) <= Len(p)
    /\ p[i] = Len(v)
    /\ \A k \in 1 .. Len(v) : p[i + k] = v[k]

LEMMA HeldIsRead == ASSUME NEW p, NEW i, NEW v, Holds(p, i, v) PROVE Lv(p, i) = {v}
<1> DEFINE n == Len(v)
           a == i + 1
           b == i + n
           w == SubSeq(p, a, b)
<1>1. /\ p \in Seq(Octet) /\ v \in Seq(Octet) /\ i \in Nat \ {0} /\ b <= Len(p)
      /\ p[i] = n /\ n \in Nat /\ Len(p) \in Nat
      /\ \A k \in 1 .. n : p[i + k] = v[k]
  BY OctetAt DEF Holds
<1>2. /\ a \in Nat \ {0} /\ b \in Nat /\ a <= b + 1 /\ b + 1 - a = n /\ i <= Len(p)
      /\ \A k \in 1 .. n : a + k - 1 = i + k
  BY <1>1
<1>3. Lv(p, i) = {w}
  <2>1. ~(i > Len(p)) /\ ~(i + p[i] > Len(p)) /\ i + p[i] = b
    BY <1>1, <1>2
  <2> QED BY <2>1 DEF Lv
<1> HIDE DEF n, a, b
<1>4. w \in Seq(Octet) /\ Len(w) = n /\ \A k \in 1 .. n : w[k] = p[a + k - 1]
  BY <1>1, <1>2, Part
<1> HIDE DEF w
<1>5. \A k \in 1 .. n : w[k] = v[k]
  BY <1>1, <1>2, <1>4
<1>6. w = v
  BY <1>1, <1>4, <1>5, SeqEqual DEF n
<1> QED BY <1>3, <1>6

LEMMA FieldHolds ==
    ASSUME NEW v \in Seq(Octet), Len(v) <= 255
    PROVE  /\ Field(v) \in Seq(Octet) /\ Len(Field(v)) = Len(v) + 1
           /\ Holds(Field(v), 1, v)
<1> DEFINE h == <<Len(v)>>
<1>1. Len(v) \in Octet /\ Len(v) \in Nat
  <2> DEFINE l == Len(v)
  <2>1. l \in Nat /\ l <= 255
    BY LenProperties
  <2> HIDE DEF l
  <2>2. l \in Octet
    BY <2>1 DEF Octet
  <2> QED BY <2>1, <2>2 DEF l
<1>2. h \in Seq(Octet) /\ Len(h) = 1 /\ h[1] = Len(v)
  BY <1>1
<1> HIDE DEF h
<1>3. /\ h \o v \in Seq(Octet) /\ Len(h \o v) = 1 + Len(v)
      /\ (h \o v)[1] = Len(v)
      /\ \A i \in 1 .. Len(v) : (h \o v)[1 + i] = v[i]
  <2>1. 1 \in 1 .. Len(h)
    BY <1>2
  <2> QED BY <1>2, <2>1, Joined
<1>4. Field(v) = h \o v
  BY DEF Field, h
<1>5. Len(h \o v) = Len(v) + 1 /\ 1 + Len(v) <= Len(h \o v)
  BY <1>1, <1>3
<1> QED BY <1>3, <1>4, <1>5 DEF Holds

LEMMA HoldsLeft ==
    ASSUME NEW a, NEW i, NEW v, Holds(a, i, v), NEW b \in Seq(Octet)
    PROVE  Holds(a \o b, i, v)
<1>1. /\ a \in Seq(Octet) /\ v \in Seq(Octet) /\ i \in Nat \ {0}
      /\ i + Len(v) <= Len(a) /\ a[i] = Len(v)
      /\ \A k \in 1 .. Len(v) : a[i + k] = v[k]
  BY DEF Holds
<1>2. /\ a \o b \in Seq(Octet) /\ Len(a \o b) = Len(a) + Len(b)
      /\ Len(a) \in Nat /\ Len(b) \in Nat
      /\ \A j \in 1 .. Len(a) : (a \o b)[j] = a[j]
  BY <1>1, Joined
<1>3. Len(v) \in Nat
  BY <1>1, OctetAt
<1>4. /\ i \in 1 .. Len(a) /\ i + Len(v) <= Len(a \o b)
      /\ \A k \in 1 .. Len(v) : i + k \in 1 .. Len(a)
  BY <1>1, <1>2, <1>3
<1> QED BY <1>1, <1>2, <1>4 DEF Holds

LEMMA HoldsRight ==
    ASSUME NEW a \in Seq(Octet), NEW b, NEW i, NEW v, Holds(b, i, v)
    PROVE  Holds(a \o b, Len(a) + i, v)
<1>1. /\ b \in Seq(Octet) /\ v \in Seq(Octet) /\ i \in Nat \ {0}
      /\ i + Len(v) <= Len(b) /\ b[i] = Len(v)
      /\ \A k \in 1 .. Len(v) : b[i + k] = v[k]
  BY DEF Holds
<1>2. /\ a \o b \in Seq(Octet) /\ Len(a \o b) = Len(a) + Len(b)
      /\ Len(a) \in Nat /\ Len(b) \in Nat
      /\ \A j \in 1 .. Len(b) : (a \o b)[Len(a) + j] = b[j]
  BY <1>1, Joined
<1>3. Len(v) \in Nat
  BY <1>1, OctetAt
<1>4. /\ i \in 1 .. Len(b) /\ Len(a) + i \in Nat \ {0}
      /\ Len(a) + i + Len(v) <= Len(a \o b)
      /\ \A k \in 1 .. Len(v) : i + k \in 1 .. Len(b) /\ (Len(a) + i) + k = Len(a) + (i + k)
  BY <1>1, <1>2, <1>3
<1>5. (a \o b)[Len(a) + i] = Len(v)
  BY <1>1, <1>2, <1>4
<1>6. \A k \in 1 .. Len(v) : (a \o b)[(Len(a) + i) + k] = v[k]
  BY <1>1, <1>2, <1>4
<1> QED BY <1>1, <1>2, <1>4, <1>5, <1>6 DEF Holds

LEMMA IdentityEncoded ==
    ASSUME NEW kind \in Kinds
    PROVE  /\ IdentityOctets(kind) \in Seq(Octet) /\ Len(IdentityOctets(kind)) <= 255
           /\ Identity(IdentityOctets(kind)) = {kind}
<1> DEFINE v == IdentityOctets(kind)
<1> SUFFICES v \in Seq(Octet) /\ Len(v) <= 255 /\ Identity(v) = {kind}
  OBVIOUS
<1>1. CASE kind = "IMSI"
  <2>1. v = <<9, 16, 16, 16, 50, 84, 118, 152>>
    BY <1>1 DEF IdentityOctets
  <2>2. v \in Seq(Octet) /\ Len(v) = 8 /\ v # <<>> /\ v[1] = 9
    <3> HIDE DEF v
    <3> QED BY <2>1 DEF Octet
  <2> HIDE DEF v
  <2>3. v[1] % 8 = 1 /\ ~(Len(v) < 8) /\ Len(v) <= 255
    BY <2>2
  <2>4. Identity(v) = {kind}
    BY <1>1, <2>2, <2>3 DEF Identity
  <2> QED BY <2>2, <2>3, <2>4
<1>2. CASE kind = "IMEI"
  <2>1. v = <<11, 50, 84>>
    BY <1>2 DEF IdentityOctets
  <2>2. v \in Seq(Octet) /\ Len(v) = 3 /\ v # <<>> /\ v[1] = 11
    <3> HIDE DEF v
    <3> QED BY <2>1 DEF Octet
  <2> HIDE DEF v
  <2>3. v[1] % 8 = 3 /\ ~(Len(v) < 3) /\ Len(v) <= 255
    BY <2>2
  <2>4. Identity(v) = {kind}
    BY <1>2, <2>2, <2>3 DEF Identity
  <2> QED BY <2>2, <2>3, <2>4
<1>3. CASE kind = "GUTI"
  <2>1. v = <<246, 2, 248, 57, 1, 2, 3, 10, 11, 12, 13>>
    BY <1>3 DEF IdentityOctets
  <2>2. v \in Seq(Octet) /\ Len(v) = 11 /\ v # <<>> /\ v[1] = 246
    <3> HIDE DEF v
    <3> QED BY <2>1 DEF Octet
  <2> HIDE DEF v
  <2>3. v[1] % 8 = 6 /\ ~(Len(v) < 11) /\ Len(v) <= 255
    BY <2>2
  <2>4. Identity(v) = {kind}
    BY <1>3, <2>2, <2>3 DEF Identity
  <2> QED BY <2>2, <2>3, <2>4
<1>4. CASE kind = "Other"
  <2>1. v = <<0>>
    BY <1>4 DEF IdentityOctets
  <2>2. v \in Seq(Octet) /\ Len(v) = 1 /\ v # <<>> /\ v[1] = 0
    <3> HIDE DEF v
    <3> QED BY <2>1 DEF Octet
  <2> HIDE DEF v
  <2>3. v[1] % 8 = 0 /\ ~(Len(v) < 1) /\ Len(v) <= 255
    BY <2>2
  <2>4. Identity(v) = {kind}
    BY <1>4, <2>2, <2>3 DEF Identity
  <2> QED BY <2>2, <2>3, <2>4
<1> QED BY <1>1, <1>2, <1>3, <1>4 DEF Kinds

LEMMA CapabilityEncoded ==
    ASSUME NEW c \in {<<>>} \cup Octet \X Octet
    PROVE  /\ c \in Seq(Octet) /\ Len(c) <= 255
           /\ \A k \in 1 .. 2 : CapabilityIn({c}, k) = IF c = <<>> THEN None ELSE c[k]
<1>1. CASE c = <<>>
  <2>1. c \in Seq(Octet) /\ Len(c) = 0
    BY <1>1
  <2>2. {w \in {c} : Len(w) >= 2} = {}
    BY <2>1
  <2>3. \A k : CapabilityIn({c}, k) = None
    BY <2>2, OptionalEmpty DEF CapabilityIn
  <2>4. Len(c) <= 255
    BY <2>1
  <2> QED BY <1>1, <2>1, <2>3, <2>4
<1>2. CASE c \in Octet \X Octet
  <2>1. c \in Seq(Octet) /\ Len(c) = 2 /\ c # <<>>
    <3>1. PICK a \in Octet, b \in Octet : c = <<a, b>>
      BY <1>2
    <3> QED BY <3>1
  <2>2. {w \in {c} : Len(w) >= 2} = {c}
    BY <2>1
  <2>3. ASSUME NEW k \in 1 .. 2 PROVE CapabilityIn({c}, k) = c[k]
    BY <2>2, OptionalOne DEF CapabilityIn
  <2> QED BY <2>1, <2>3
<1> QED BY <1>1, <1>2

LEMMA IdentityInOne ==
    ASSUME NEW kind \in Kinds PROVE IdentityIn({IdentityOctets(kind)}) = kind
<1>1. UNION {Identity(v) : v \in {IdentityOctets(kind)}} = {kind}
  BY IdentityEncoded
<1> QED BY <1>1, OptionalOne DEF IdentityIn

LEMMA CodeIs ==
    ASSUME NEW t \in DOMAIN Code
    PROVE  Code[t] \in Octet /\ Code[t] \in Nat /\ TypeOf(Code[t]) = {t}
<1>1. Code[t] \in Octet /\ Code[t] \in Nat
  BY DEF Code, Octet
<1>2. \A u \in DOMAIN Code : Code[u] = Code[t] => u = t
  BY DEF Code
<1> QED BY <1>1, <1>2 DEF TypeOf

PlainPdu(m) == <<7, Code[m.type]>> \o Body(m)

\* What the sender puts behind the message type.
LEMMA BodyIs ==
    ASSUME NEW m \in Sent
    PROVE  /\ Body(m) \in Seq(Octet)
           /\ m.type = "AttachRequest" =>
                 /\ m.identity \in Kinds
                 /\ Holds(Body(m), 2, IdentityOctets(m.identity))
                 /\ Holds(Body(m), 3 + Len(IdentityOctets(m.identity)), m.capability)
           /\ m.type = "IdentityResponse" =>
                 /\ m.identity \in Kinds
                 /\ Holds(Body(m), 1, IdentityOctets(m.identity))
           /\ m.type = "SecurityModeCommand" =>
                 /\ Len(Body(m)) >= 1 /\ Body(m)[1] = m.octet
                 /\ Holds(Body(m), 3, m.capability)
           /\ m.type \notin {"AttachRequest", "IdentityResponse", "SecurityModeCommand"} =>
                 Body(m) = <<m.octet>>
<1> DEFINE id == IdentityOctets(m.identity)
           c == m.capability
<1>1. /\ m \in Message
      /\ m.type \in {"AttachRequest", "IdentityResponse"} => m.identity # None
  BY SentAssumption
<1>2. /\ m.octet \in Octet /\ m.identity \in Kinds \cup {None}
      /\ m.capability \in {<<>>} \cup Octet \X Octet
  BY <1>1 DEF Message
<1>3. c \in Seq(Octet) /\ Len(c) <= 255
  BY <1>2, CapabilityEncoded
<1>4. /\ Field(c) \in Seq(Octet) /\ Len(Field(c)) = Len(c) + 1 /\ Holds(Field(c), 1, c)
  BY <1>3, FieldHolds
<1>5. ASSUME m.type \in {"AttachRequest", "IdentityResponse"}
      PROVE  /\ m.identity \in Kinds /\ id \in Seq(Octet) /\ Len(id) \in Nat
             /\ Field(id) \in Seq(Octet) /\ Len(Field(id)) = Len(id) + 1
             /\ Holds(Field(id), 1, id)
  <2>1. m.identity \in Kinds
    BY <1>1, <1>2, <1>5
  <2>2. id \in Seq(Octet) /\ Len(id) <= 255
    BY <2>1, IdentityEncoded
  <2>3. Len(id) \in Nat
    BY <2>2, LenProperties
  <2> QED BY <2>1, <2>2, <2>3, FieldHolds
<1> HIDE DEF id, c
<1>6. CASE m.type = "AttachRequest"
  <2> DEFINE a == <<113>>
             f == a \o Field(id)
             b == f \o Field(c)
  <2>1. Body(m) = b
    BY <1>6 DEF Body, id, c
  <2>2. a \in Seq(Octet) /\ Len(a) = 1
    BY DEF Octet
  <2> HIDE DEF a
  <2>3. Holds(Field(id), 1, id) /\ Len(id) \in Nat /\ Field(id) \in Seq(Octet)
        /\ Len(Field(id)) = Len(id) + 1 /\ m.identity \in Kinds
    BY <1>5, <1>6
  <2>4. f \in Seq(Octet) /\ Len(f) = 1 + (Len(id) + 1)
    BY <2>2, <2>3, Joined
  <2>5. Holds(f, 2, id)
    <3>1. Holds(f, Len(a) + 1, id)
      BY <2>2, <2>3, HoldsRight
    <3>2. Len(a) + 1 = 2
      BY <2>2
    <3> QED BY <3>1, <3>2
  <2> HIDE DEF f
  <2>6. b \in Seq(Octet)
    BY <1>4, <2>4, Joined
  <2>7. Holds(b, 2, id)
    BY <1>4, <2>5, HoldsLeft
  <2>8. Holds(b, 3 + Len(id), c)
    <3>1. Holds(b, Len(f) + 1, c)
      BY <1>4, <2>4, HoldsRight
    <3>2. Len(f) + 1 = 3 + Len(id)
      BY <2>3, <2>4
    <3> QED BY <3>1, <3>2
  <2> QED BY <1>6, <2>1, <2>3, <2>6, <2>7, <2>8 DEF id, c
<1>7. CASE m.type = "IdentityResponse"
  <2>1. Body(m) = Field(id)
    BY <1>7 DEF Body, id
  <2> QED BY <1>5, <1>7, <2>1 DEF id
<1>8. CASE m.type = "SecurityModeCommand"
  <2> DEFINE a == <<m.octet, 0>>
             b == a \o Field(c)
  <2>1. Body(m) = b
    BY <1>8 DEF Body, c
  <2>2. a \in Seq(Octet) /\ Len(a) = 2 /\ a[1] = m.octet
    BY <1>2 DEF Octet
  <2> HIDE DEF a
  <2>3. /\ b \in Seq(Octet) /\ Len(b) = 2 + Len(Field(c)) /\ Len(Field(c)) \in Nat
        /\ b[1] = m.octet
    <3>1. 1 \in 1 .. Len(a)
      BY <2>2
    <3> DEFINE f == Field(c)
    <3> HIDE DEF f
    <3>2. f \in Seq(Octet)
      BY <1>4 DEF f
    <3>3. /\ a \o f \in Seq(Octet) /\ Len(a \o f) = Len(a) + Len(f) /\ Len(f) \in Nat
          /\ (a \o f)[1] = a[1]
      BY <2>2, <3>1, <3>2, Joined
    <3> QED BY <2>2, <3>3 DEF f
  <2>4. Holds(b, 3, c)
    <3>1. Holds(b, Len(a) + 1, c)
      BY <1>4, <2>2, HoldsRight
    <3>2. Len(a) + 1 = 3
      BY <2>2
    <3> QED BY <3>1, <3>2
  <2>5. Len(b) >= 1
    BY <2>3
  <2> HIDE DEF b
  <2> QED BY <1>8, <2>1, <2>3, <2>4, <2>5 DEF c
<1>9. CASE m.type \notin {"AttachRequest", "IdentityResponse", "SecurityModeCommand"}
  <2>1. Body(m) = <<m.octet>>
    BY <1>9 DEF Body
  <2>2. <<m.octet>> \in Seq(Octet)
    BY <1>2
  <2> QED BY <1>9, <2>1, <2>2
<1> QED BY <1>6, <1>7, <1>8, <1>9

LEMMA PlainPduIs ==
    ASSUME NEW m \in Sent
    PROVE  /\ PlainPdu(m) \in Seq(Octet) /\ Len(PlainPdu(m)) = 2 + Len(Body(m))
           /\ Len(Body(m)) \in Nat
           /\ PlainPdu(m)[1] = 7 /\ PlainPdu(m)[2] = Code[m.type]
           /\ \A k \in 1 .. Len(Body(m)) : PlainPdu(m)[2 + k] = Body(m)[k]
           /\ \A i, v : Holds(Body(m), i, v) => Holds(PlainPdu(m), 2 + i, v)
<1> DEFINE h == <<7, Code[m.type]>>
           b == Body(m)
<1>1. b \in Seq(Octet)
  BY BodyIs
<1>2. Code[m.type] \in Octet
  BY SentAssumption, CodeIs DEF Message
<1>3. h \in Seq(Octet) /\ Len(h) = 2 /\ h[1] = 7 /\ h[2] = Code[m.type]
  BY <1>2 DEF Octet
<1> HIDE DEF h, b
<1>4. 1 \in 1 .. Len(h) /\ 2 \in 1 .. Len(h)
  BY <1>3
<1>5. /\ h \o b \in Seq(Octet) /\ Len(h \o b) = 2 + Len(b) /\ Len(b) \in Nat
      /\ (h \o b)[1] = 7 /\ (h \o b)[2] = Code[m.type]
      /\ \A k \in 1 .. Len(b) : (h \o b)[2 + k] = b[k]
  <2>1. /\ h \o b \in Seq(Octet) /\ Len(h \o b) = Len(h) + Len(b) /\ Len(b) \in Nat
        /\ (h \o b)[1] = h[1] /\ (h \o b)[2] = h[2]
        /\ \A k \in 1 .. Len(b) : (h \o b)[Len(h) + k] = b[k]
    BY <1>1, <1>3, <1>4, Joined
  <2> QED BY <1>3, <2>1
<1>6. ASSUME NEW i, NEW v, Holds(b, i, v) PROVE Holds(h \o b, 2 + i, v)
  BY <1>3, <1>6, HoldsRight
<1>7. PlainPdu(m) = h \o b
  BY DEF PlainPdu, h, b
<1> QED BY <1>5, <1>6, <1>7 DEF b

LEMMA DecodesPlain ==
    ASSUME NEW m \in Sent
    PROVE  Plain(PlainPdu(m), m.sht) = Meaning(m)
<1> DEFINE p == PlainPdu(m)
           t == m.type
           s == m.sht
           o == m.octet
           id == IdentityOctets(m.identity)
           c == m.capability
           x == IF c = <<>> THEN None ELSE c[1]
           y == IF c = <<>> THEN None ELSE c[2]
<1>1. /\ t \in DOMAIN Code /\ o \in Octet /\ o \in Nat
      /\ c \in {<<>>} \cup Octet \X Octet
  <2>1. m \in Message
    BY SentAssumption
  <2>2. Octet \subseteq Nat
    BY DEF Octet
  <2> QED BY <2>1, <2>2 DEF Message
<1> SUFFICES Plain(p, s) = Meaning(m)
  OBVIOUS
<1>2. p \in Seq(Octet) /\ Len(p) = 2 + Len(Body(m)) /\ Len(Body(m)) \in Nat /\ p[2] = Code[t]
  BY PlainPduIs
<1>3. Plain(p, s) = Dispatch(p, Typed(t, s))
  <2>1. p # <<>>
    BY <1>2
  <2>2. TypeOf(p[2]) = {t} /\ Optional({t}) = t
    BY <1>1, <1>2, CodeIs, OptionalOne
  <2> QED BY <2>1, <2>2, PlainIs
<1>4. Meaning(m) =
          Record(t, s, IF t \in {"AttachRequest", "IdentityResponse"} THEN m.identity ELSE None,
                 IF t \in {"IdentityRequest"} THEN o % 8 ELSE None,
                 IF t \in {"AuthenticationFailure", "TauReject"} THEN o ELSE None,
                 IF t \in {"SecurityModeCommand"} THEN (o \div 16) % 8 ELSE None,
                 IF t \in {"SecurityModeCommand"} THEN o % 8 ELSE None,
                 IF t \in {"AttachRequest", "SecurityModeCommand"} THEN x ELSE None,
                 IF t \in {"AttachRequest", "SecurityModeCommand"} THEN y ELSE None)
  BY DEF Meaning, Record
<1>5. CapabilityIn({c}, 1) = x /\ CapabilityIn({c}, 2) = y
  <2>1. 1 \in 1 .. 2 /\ 2 \in 1 .. 2
    OBVIOUS
  <2> QED BY <1>1, <2>1, CapabilityEncoded
<1>6. t \in {"IdentityRequest", "AuthenticationFailure", "TauReject"} => ThirdOctet(p) = {o}
  <2> SUFFICES ASSUME t \in {"IdentityRequest", "AuthenticationFailure", "TauReject"}
               PROVE  ThirdOctet(p) = {o}
    OBVIOUS
  <2>1. Body(m) = <<o>>
    BY BodyIs
  <2>2. Len(Body(m)) = 1 /\ Body(m)[1] = o /\ 1 \in 1 .. Len(Body(m)) /\ 2 + 1 = 3
    BY <2>1
  <2>3. p[3] = o /\ ~(Len(p) < 3)
    <3>1. p[2 + 1] = Body(m)[1]
      BY <2>2, PlainPduIs
    <3> QED BY <1>2, <2>2, <3>1
  <2> QED BY <2>3 DEF ThirdOctet
<1>7. CASE t = "AttachRequest"
  <2>1. /\ Holds(Body(m), 2, id) /\ Holds(Body(m), 3 + Len(id), c) /\ m.identity \in Kinds
    BY <1>7, BodyIs
  <2>2. Holds(p, 4, id)
    <3>1. 2 + 2 = 4
      OBVIOUS
    <3> QED BY <2>1, <3>1, PlainPduIs
  <2>3. Holds(p, 5 + Len(id), c)
    <3>1. Len(id) \in Nat
      BY <2>1, OctetAt DEF Holds
    <3>2. 2 + (3 + Len(id)) = 5 + Len(id)
      BY <3>1
    <3>3. Holds(p, 2 + (3 + Len(id)), c)
      BY <2>1, PlainPduIs
    <3> QED BY <3>2, <3>3
  <2>4. Lv(p, 4) = {id} /\ Lv(p, 5 + Len(id)) = {c}
    BY <2>2, <2>3, HeldIsRead
  <2>5. AttachCapability(p) = {c}
    BY <2>4 DEF AttachCapability
  <2>6. IdentityIn(Lv(p, 4)) = m.identity
    BY <2>1, <2>4, IdentityInOne
  <2>7. Dispatch(p, Typed(t, s)) = Record(t, s, m.identity, None, None, None, None, x, y)
    <3>1. Dispatch(p, Typed(t, s)) =
              Record(t, s, IdentityIn(Lv(p, 4)), None, None, None, None,
                     CapabilityIn(AttachCapability(p), 1),
                     CapabilityIn(AttachCapability(p), 2))
      BY <1>7, DispatchIs
    <3> QED BY <1>5, <2>5, <2>6, <3>1
  <2> HIDE DEF t, s, o, x, y
  <2> QED BY <1>3, <1>4, <1>7, <2>7
<1>8. CASE t = "IdentityRequest"
  <2>1. Optional({q % 8 : q \in ThirdOctet(p)}) = o % 8
    BY <1>6, <1>8, OptionalOne
  <2>2. Dispatch(p, Typed(t, s)) = Record(t, s, None, o % 8, None, None, None, None, None)
    BY <1>8, <2>1, DispatchIs
  <2> HIDE DEF t, s, o, x, y
  <2> QED BY <1>3, <1>4, <1>8, <2>2
<1>9. CASE t = "IdentityResponse"
  <2>1. Holds(Body(m), 1, id) /\ m.identity \in Kinds
    BY <1>9, BodyIs
  <2>2. Holds(p, 3, id)
    <3>1. 2 + 1 = 3
      OBVIOUS
    <3> QED BY <2>1, <3>1, PlainPduIs
  <2>3. IdentityIn(Lv(p, 3)) = m.identity
    BY <2>1, <2>2, HeldIsRead, IdentityInOne
  <2>4. Dispatch(p, Typed(t, s)) =
            Record(t, s, m.identity, None, None, None, None, None, None)
    BY <1>9, <2>3, DispatchIs
  <2> HIDE DEF t, s, o, x, y
  <2> QED BY <1>3, <1>4, <1>9, <2>4
<1>10. CASE t \in {"AuthenticationFailure", "TauReject"}
  <2>1. Optional(ThirdOctet(p)) = o
    BY <1>6, <1>10, OptionalOne
  <2>2. Dispatch(p, Typed(t, s)) = Record(t, s, None, None, o, None, None, None, None)
    BY <1>10, <2>1, DispatchIs
  <2> HIDE DEF t, s, o, x, y
  <2> QED BY <1>3, <1>4, <1>10, <2>2
<1>11. CASE t = "SecurityModeCommand"
  <2>1. Len(Body(m)) >= 1 /\ Body(m)[1] = o /\ Holds(Body(m), 3, c)
    BY <1>11, BodyIs
  <2>2. p[3] = o /\ ~(Len(p) < 3)
    <3>1. 1 \in 1 .. Len(Body(m)) /\ 2 + 1 = 3
      BY <1>2, <2>1
    <3> QED BY <1>2, <2>1, <3>1, PlainPduIs
  <2>3. Lv(p, 5) = {c}
    <3>1. 2 + 3 = 5
      OBVIOUS
    <3> QED BY <2>1, <3>1, PlainPduIs, HeldIsRead
  <2>4. Dispatch(p, Typed(t, s)) =
            Record(t, s, None, None, None, (p[3] \div 16) % 8, p[3] % 8,
                   CapabilityIn(Lv(p, 5), 1), CapabilityIn(Lv(p, 5), 2))
    BY <1>11, <2>2, SecurityIs
  <2>5. Dispatch(p, Typed(t, s)) =
            Record(t, s, None, None, None, (o \div 16) % 8, o % 8, x, y)
    BY <1>5, <2>2, <2>3, <2>4
  <2> HIDE DEF t, s, o, x, y
  <2> QED BY <1>3, <1>4, <1>11, <2>5
<1>12. CASE t \notin {"AttachRequest", "IdentityRequest", "IdentityResponse",
                     "AuthenticationFailure", "TauReject", "SecurityModeCommand"}
  <2>1. Dispatch(p, Typed(t, s)) = Record(t, s, None, None, None, None, None, None, None)
    BY <1>12, OthersAre DEF Typed
  <2> HIDE DEF t, s, o, x, y
  <2> QED BY <1>3, <1>4, <1>12, <2>1
<1> QED BY <1>7, <1>8, <1>9, <1>10, <1>11, <1>12

\* A message is decoded to itself, behind a security header as well as without one.
LEMMA DecodesEncoded ==
    ASSUME NEW m \in Sent
    PROVE  Encode(m) \in Seq(Octet) /\ Decode(Encode(m)) = Meaning(m)
<1> DEFINE s == m.sht
           h == <<7, Code[m.type]>>
           b == Body(m)
           p == PlainPdu(m)
           w == Encode(m)
<1>1. /\ s \in 0 .. 4 /\ h \in Seq(Octet) /\ b \in Seq(Octet) /\ p \in Seq(Octet)
      /\ Len(p) = 2 + Len(b) /\ Len(b) \in Nat /\ p[1] = 7 /\ p = h \o b
  <2>1. s \in 0 .. 4 /\ m.type \in DOMAIN Code
    BY SentAssumption DEF Message
  <2>2. h \in Seq(Octet)
    BY <2>1, CodeIs DEF Octet
  <2> QED BY <2>1, <2>2, PlainPduIs, BodyIs DEF PlainPdu
<1>2. Plain(p, s) = Meaning(m)
  BY DecodesPlain
<1> SUFFICES w \in Seq(Octet) /\ Decode(w) = Meaning(m)
  OBVIOUS
<1>3. CASE s = 0
  <2>1. w = p
    <3>1. w = (<<>> \o h) \o b
      BY <1>3 DEF Encode
    <3>2. <<>> \o h = h
      BY <1>1, ConcatEmptySeq
    <3> QED BY <1>1, <3>1, <3>2
  <2> HIDE DEF s, h, b, p, w
  <2>2. IsNas(p) /\ p[1] \div 16 = 0
    BY <1>1 DEF IsNas
  <2>3. Content(p) = p
    BY <2>2 DEF Content
  <2> QED BY <1>1, <1>2, <1>3, <2>1, <2>2, <2>3, DecodeIs
<1>4. CASE s # 0
  <2> DEFINE a == <<s * 16 + 7, 0, 0, 0, 0, 0>>
  <2>1. s \in 1 .. 4 /\ s * 16 + 7 \in Octet /\ (s * 16 + 7) % 16 = 7
        /\ (s * 16 + 7) \div 16 = s
    <3> HIDE DEF s
    <3> QED BY <1>1, <1>4 DEF Octet
  <2>2. a \in Seq(Octet) /\ Len(a) = 6 /\ a[1] = s * 16 + 7
    <3>1. 0 \in Octet
      BY DEF Octet
    <3> HIDE DEF s
    <3> QED BY <2>1, <3>1
  <2>3. w = a \o p
    <3>1. w = (a \o h) \o b
      BY <1>4 DEF Encode
    <3> HIDE DEF a, h, b, w, p
    <3>2. a \in Seq(Octet) /\ h \in Seq(Octet) /\ b \in Seq(Octet)
      BY <1>1, <2>2
    <3>3. (a \o h) \o b = a \o (h \o b)
      BY <3>2, ConcatAssociative
    <3> QED BY <1>1, <3>1, <3>3
  <2> HIDE DEF s, a, h, b, p, w
  <2>4. /\ w \in Seq(Octet) /\ Len(w) = 6 + Len(p)
        /\ w[1] = s * 16 + 7
        /\ \A i \in 1 .. Len(p) : w[6 + i] = p[i]
    <3>1. 1 \in 1 .. Len(a)
      BY <2>2
    <3>2. /\ a \o p \in Seq(Octet) /\ Len(a \o p) = Len(a) + Len(p)
          /\ (a \o p)[1] = a[1]
          /\ \A i \in 1 .. Len(p) : (a \o p)[Len(a) + i] = p[i]
      BY <1>1, <2>2, <3>1, Joined
    <3> QED BY <2>2, <2>3, <3>2
  <2>5. Len(p) \in Nat /\ Len(p) >= 2 /\ 1 \in 1 .. Len(p)
    BY <1>1
  <2>6. IsNas(w) /\ w[1] \div 16 = s
    BY <2>1, <2>4, <2>5 DEF IsNas
  <2>7. w[7] = 7
    <3>1. w[6 + 1] = p[1]
      BY <2>4, <2>5
    <3> QED BY <1>1, <3>1
  <2>8. Inner(w) = SubSeq(w, 7, Len(w))
    BY <2>4, <2>5, <2>7 DEF Inner
  <2>9. SubSeq(w, 7, Len(w)) = p
    <3> DEFINE n == Len(w)
               v == SubSeq(w, 7, n)
    <3>1. /\ 7 \in Nat \ {0} /\ n \in Nat /\ 7 <= n + 1 /\ n <= Len(w)
          /\ n + 1 - 7 = Len(p)
      BY <2>4, <2>5
    <3> HIDE DEF n
    <3>2. v \in Seq(Octet) /\ Len(v) = Len(p) /\ \A k \in 1 .. Len(p) : v[k] = w[7 + k - 1]
      BY <2>4, <3>1, Part
    <3> HIDE DEF v
    <3>3. ASSUME NEW k \in 1 .. Len(p) PROVE v[k] = p[k]
      <4>1. 7 + k - 1 = 6 + k
        OBVIOUS
      <4>2. w[6 + k] = p[k]
        BY <2>4
      <4> QED BY <3>2, <4>1, <4>2
    <3>4. v = p
      BY <1>1, <3>2, <3>3, SeqEqual
    <3> QED BY <3>4 DEF v, n
  <2>10. Content(w) = p
    BY <2>1, <2>6, <2>8, <2>9 DEF Content
  <2> QED BY <1>2, <2>4, <2>6, <2>10, DecodeIs
<1> QED BY <1>3, <1>4

-----------------------------------------------------------------------------
(* The decoder                                                             *)

\* What has arrived is the beginning of what was sent, and decoded is what it says.
NasInv ==
    /\ sent # None => sent \in Sent /\ whole = Encode(sent)
    /\ Prefix(octets, whole)
    /\ decoded = Decode(octets)

LEMMA InitNasInv == Init => NasInv
<1> SUFFICES ASSUME Init PROVE NasInv
  OBVIOUS
<1>1. sent # None => sent \in Sent /\ whole = Encode(sent)
  BY DEF Init
<1>2. whole \in Seq(Octet)
  BY DecodesEncoded, NoiseAssumption DEF Init
<1>3. octets = <<>> /\ decoded = Nothing
  BY DEF Init
<1>4. <<>> \in Seq(Octet) /\ Len(<<>>) = 0
  OBVIOUS
<1>5. Prefix(<<>>, whole)
  <2>1. Len(whole) \in Nat
    BY <1>2, LenProperties
  <2>2. 1 .. 0 = {}
    OBVIOUS
  <2> QED BY <1>2, <1>4, <2>1, <2>2 DEF Prefix
<1>6. Decode(<<>>) = Nothing
  BY <1>4 DEF Decode
<1> QED BY <1>1, <1>3, <1>5, <1>6 DEF NasInv

LEMMA Arrives ==
    ASSUME NasInv, Arrive
    PROVE  /\ Prefix(octets, octets') /\ Prefix(octets', whole)
           /\ decoded' = Decode(octets') /\ UNCHANGED <<sent, whole>>
<1>1. /\ octets \in Seq(Octet) /\ whole \in Seq(Octet)
      /\ \A i \in 1 .. Len(octets) : whole[i] = octets[i]
  BY DEF NasInv, Prefix
<1> DEFINE n == Len(octets)
           o == whole[n + 1]
<1>2. /\ n < Len(whole) /\ octets' = Append(octets, o) /\ decoded' = Decode(octets')
      /\ UNCHANGED <<sent, whole>>
  BY DEF Arrive
<1>3. n \in Nat /\ Len(whole) \in Nat
  BY <1>1, LenProperties
<1>4. o \in Octet
  <2>1. n + 1 \in 1 .. Len(whole)
    BY <1>2, <1>3
  <2> QED BY <1>1, <2>1, ElementOfSeq
<1> HIDE DEF o
<1>5. /\ octets' \in Seq(Octet) /\ Len(octets') = n + 1
      /\ \A i \in 1 .. n : octets'[i] = octets[i]
      /\ octets'[n + 1] = o
  BY <1>1, <1>2, <1>4
<1> HIDE DEF n
<1>6. \A i \in 1 .. n + 1 : i \in 1 .. n \/ i = n + 1
  BY <1>3
<1>7. \A i \in 1 .. n + 1 : whole[i] = octets'[i]
  BY <1>1, <1>5, <1>6 DEF n, o
<1>8. n <= n + 1 /\ n + 1 <= Len(whole)
  BY <1>2, <1>3
<1> QED BY <1>1, <1>2, <1>5, <1>7, <1>8 DEF Prefix, n

LEMMA NextNasInv == NasInv /\ [Next]_vars => NasInv'
<1> SUFFICES ASSUME NasInv, [Next]_vars PROVE NasInv'
  OBVIOUS
<1>1. CASE Arrive
  BY <1>1, Arrives DEF NasInv
<1>2. CASE UNCHANGED vars
  BY <1>2 DEF vars, NasInv
<1> QED BY <1>1, <1>2 DEF Next

\* Whatever octets arrive, the fields of what decode_nas returns have their ranges: no
\* octet of a PDU ends up in a field it does not fit.
THEOREM DecoderTypes == Spec => []DecoderTypeOK
<1>1. NasInv => DecoderTypeOK
  BY DecodeType DEF NasInv, Prefix, DecoderTypeOK
<1> QED
  BY <1>1, InitNasInv, NextNasInv, PTL DEF Spec

\* For every message, with every identity, capability and security header: decode_nas
\* returns its fields and no others.
THEOREM DecodesEveryMessage == Spec => []DecodesWhatWasSent
<1>1. NasInv => DecodesWhatWasSent
  BY DecodesEncoded DEF NasInv, DecodesWhatWasSent
<1> QED
  BY <1>1, InitNasInv, NextNasInv, PTL DEF Spec

\* For every string of octets, a message or not, and every place of a cut: an octet more
\* adds to what decode_nas says and takes nothing of it back.
THEOREM CutsInventNothing == Spec => TruncationNeverInvents
<1>1. ASSUME NasInv, [Next]_vars PROVE [KnowsLess(decoded, decoded')]_vars
  <2>1. CASE Arrive
    BY <1>1, <2>1, Arrives, DecodeMore DEF NasInv
  <2>2. CASE UNCHANGED vars
    BY <2>2
  <2> QED BY <1>1, <2>1, <2>2 DEF Next
<1> QED
  BY <1>1, InitNasInv, NextNasInv, PTL DEF Spec, TruncationNeverInvents
=============================================================================
