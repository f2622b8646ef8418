----------------------------- MODULE PeelProofs ------------------------------
(***************************************************************************)
(* S1apPeel for any messages, in any order of their IEs and cut at any     *)
(* octet: what peel_s1ap returns is the message, or nothing.               *)
(***************************************************************************)
EXTENDS S1apPeel, FiniteSetTheorems, SequenceTheorems, Recursion

IeIds == {"other", "MME", "ENB", "NAS", "CGI"}

IeType == [id : IeIds, octets : Seq(Nat), fragmented : BOOLEAN]

-----------------------------------------------------------------------------
(* The octets of the values.                                               *)

LEMMA SentFields ==
    ASSUME NEW m \in Sent
    PROVE  /\ m.mme \in Octets /\ m.enb \in Octets /\ m.plmn \in Octets
           /\ m.nas \in Octets /\ m.cell \in Nat \cup {None}
           /\ m.cell # None => /\ m.cell \in Nat /\ m.cell < 16 * 256 * 256 * 256
                               /\ Len(m.plmn) = 3
BY SentAssumption DEF Message

LEMMA Lengths ==
    ASSUME NEW n \in Nat
    PROVE  /\ LengthDeterminant(n) \in Seq(Nat)
           /\ Len(LengthDeterminant(n)) \in 1 .. 2
           /\ n < 128 => LengthDeterminant(n) = <<n>>
           /\ Len(LengthDeterminant(n)) = 2 => LengthDeterminant(n)[2] \in Octet
<1>1. n \div 256 \in Nat /\ n % 256 \in 0 .. 255
  OBVIOUS
<1>2. CASE n < 128
  BY <1>2 DEF LengthDeterminant
<1>3. CASE ~(n < 128)
  <2>1. LengthDeterminant(n) = <<128 + (n \div 256), n % 256>>
    BY <1>3 DEF LengthDeterminant
  <2> QED BY <1>1, <1>3, <2>1 DEF Octet
<1> QED BY <1>2, <1>3

LEMMA NasOctets ==
    ASSUME NEW nas \in Octets
    PROVE  /\ EncodeNas(nas) \in Seq(Nat) /\ Len(EncodeNas(nas)) > 0
           /\ \A i \in 2 .. Len(EncodeNas(nas)) : EncodeNas(nas)[i] \in Octet
           /\ nas # <<>> /\ Len(nas) < 128 => Inner(EncodeNas(nas)) = nas
<1> DEFINE det == LengthDeterminant(Len(nas))
<1>1. /\ det \in Seq(Nat) /\ Len(det) \in 1 .. 2
      /\ Len(nas) < 128 => det = <<Len(nas)>>
      /\ Len(det) = 2 => det[2] \in Octet
  <2>1. Len(nas) \in Nat
    BY DEF Octets
  <2> QED BY <2>1, Lengths
<1>2. nas \in Seq(Nat) /\ nas \in Seq(Octet) /\ Octet \subseteq Nat /\ Len(nas) \in Nat
  <2>1. nas \in Seq(Octet) /\ Octet \subseteq Nat
    BY DEF Octets, Octet
  <2>2. nas \in Seq(Nat)
    BY <2>1, SeqMonotonic
  <2> QED BY <2>1, <2>2, LenProperties
<1> HIDE DEF det
<1>3. /\ det \o nas \in Seq(Nat) /\ Len(det \o nas) = Len(det) + Len(nas)
      /\ \A i \in 1 .. Len(det) + Len(nas) :
            (det \o nas)[i] = IF i <= Len(det) THEN det[i] ELSE nas[i - Len(det)]
  BY <1>1, <1>2, ConcatProperties
<1>4. ASSUME NEW i \in 2 .. Len(det \o nas) PROVE (det \o nas)[i] \in Octet
  <2>1. CASE i <= Len(det)
    <3>1. i = 2 /\ Len(det) = 2
      <4>1. i \in Int /\ 2 <= i
        OBVIOUS
      <4>2. Len(det) = 1 \/ Len(det) = 2
        BY <1>1
      <4> DEFINE l == Len(det)
      <4>3. i <= l /\ (l = 1 \/ l = 2)
        BY <2>1, <4>2
      <4> HIDE DEF l
      <4>4. i = 2 /\ l = 2
        BY <4>1, <4>3
      <4> QED BY <4>4 DEF l
    <3>2. (det \o nas)[i] = det[i]
      BY <1>2, <1>3, <3>1
    <3> QED BY <1>1, <3>1, <3>2
  <2>2. CASE ~(i <= Len(det))
    <3>1. i - Len(det) \in 1 .. Len(nas) /\ (det \o nas)[i] = nas[i - Len(det)]
      BY <1>1, <1>2, <1>3, <2>2
    <3> QED BY <1>2, <3>1
  <2> QED BY <2>1, <2>2
<1>5. ASSUME nas # <<>>, Len(nas) < 128 PROVE Inner(det \o nas) = nas
  <2>1. det = <<Len(nas)>> /\ Len(nas) \in Nat \ {0}
    BY <1>1, <1>2, <1>5
  <2>2. (det \o nas)[1] = Len(nas) /\ Len(det \o nas) = Len(nas) + 1
    BY <1>2, <1>3, <2>1
  <2>3. Inner(det \o nas) = SubSeq(det \o nas, 2, Len(nas) + 1)
    BY <2>1, <2>2 DEF Inner
  <2>4. SubSeq(det \o nas, 2, Len(nas) + 1) = nas
    <3> DEFINE t == SubSeq(det \o nas, 2, Len(nas) + 1)
    <3>1. t \in Seq(Nat) /\ Len(t) = Len(nas)
      BY <1>3, <2>1, <2>2
    <3>2. ASSUME NEW i \in 1 .. Len(nas) PROVE t[i] = nas[i]
      <4>1. t[i] = (det \o nas)[i + 1]
        BY <1>3, <2>1, <2>2
      <4>2. (det \o nas)[i + 1] = nas[i]
        BY <1>2, <2>1
      <4> QED BY <4>1, <4>2
    <3> HIDE DEF t
    <3>3. t = nas
      BY <1>2, <3>1, <3>2, SeqEqual
    <3> QED BY <3>3 DEF t
  <2> QED BY <2>3, <2>4
<1>6. EncodeNas(nas) = det \o nas
  BY DEF EncodeNas, det
<1>7. Len(det \o nas) > 0
  <2>1. Len(det) = 1 \/ Len(det) = 2
    BY <1>1
  <2> QED BY <1>2, <1>3, <2>1
<1> QED BY <1>3, <1>4, <1>5, <1>6, <1>7

LEMMA CgiOctets ==
    ASSUME NEW plmn \in Octets, Len(plmn) = 3, NEW cell \in Nat, cell < 16 * 256 * 256 * 256
    PROVE  /\ EncodeCgi(plmn, cell) \in Octets /\ Len(EncodeCgi(plmn, cell)) = 8
           /\ SubSeq(EncodeCgi(plmn, cell), 2, 4) = plmn
           /\ Cell(EncodeCgi(plmn, cell)) = cell
<1> DEFINE h == cell \div 16
           g == h \div 256
           a == g \div 256
           b == g % 256
           c == h % 256
           d == (cell % 16) * 16
           cgi == EncodeCgi(plmn, cell)
<1>1. /\ a \in Octet /\ b \in Octet /\ c \in Octet /\ d \in Octet
      /\ ((a * 256 + b) * 256 + c) * 16 + (d \div 16) = cell
  <2>1. h \in Nat /\ h < 256 * 256 * 256 /\ cell = h * 16 + (cell % 16)
        /\ cell % 16 \in 0 .. 15
    OBVIOUS
  <2>2. d \div 16 = cell % 16
    BY <2>1
  <2> HIDE DEF h
  <2>3. g \in Nat /\ g < 256 * 256 /\ h = g * 256 + c /\ c \in 0 .. 255
    BY <2>1
  <2> HIDE DEF g, c
  <2>4. a \in 0 .. 255 /\ g = a * 256 + b /\ b \in 0 .. 255
    BY <2>3
  <2>5. (a * 256 + b) * 256 + c = h
    BY <2>3, <2>4
  <2>6. d \in 0 .. 255
    BY <2>1
  <2>7. h * 16 + (d \div 16) = cell
    BY <2>1, <2>2
  <2> QED BY <2>3, <2>4, <2>5, <2>6, <2>7 DEF Octet
<1>2. cgi = <<0>> \o plmn \o <<a, b, c, d>>
  BY DEF EncodeCgi
<1> HIDE DEF h, g, a, b, c, d, cgi
<1>3. plmn \in Seq(Octet) /\ Len(plmn) = 3 /\ 0 \in Octet
  BY DEF Octets, Octet
<1> DEFINE front == <<0>> \o plmn
           rest == <<a, b, c, d>>
<1>4. /\ front \in Seq(Octet) /\ Len(front) = 4
      /\ \A i \in 1 .. 3 : front[i + 1] = plmn[i]
  <2>1. <<0>> \in Seq(Octet) /\ Len(<<0>>) = 1
    BY <1>3
  <2>2. /\ front \in Seq(Octet) /\ Len(front) = Len(<<0>>) + Len(plmn)
        /\ \A i \in 1 .. Len(<<0>>) + Len(plmn) :
              front[i] = IF i <= Len(<<0>>) THEN <<0>>[i] ELSE plmn[i - Len(<<0>>)]
    BY <1>3, <2>1, ConcatProperties
  <2>3. /\ front \in Seq(Octet) /\ Len(front) = 1 + 3
        /\ \A i \in 1 .. 1 + 3 : front[i] = IF i <= 1 THEN <<0>>[i] ELSE plmn[i - 1]
    BY <1>3, <2>1, <2>2
  <2>4. \A i \in 1 .. 3 : i + 1 \in 1 .. 1 + 3 /\ ~(i + 1 <= 1) /\ (i + 1) - 1 = i
    OBVIOUS
  <2> QED BY <2>3, <2>4
<1>5. /\ rest \in Seq(Octet) /\ Len(rest) = 4
      /\ rest[1] = a /\ rest[2] = b /\ rest[3] = c /\ rest[4] = d
  BY <1>1
<1>6. cgi = front \o rest
  BY <1>2
<1> HIDE DEF front, rest
<1>7. /\ cgi \in Seq(Octet) /\ Len(cgi) = 4 + 4
      /\ \A i \in 1 .. 4 + 4 : cgi[i] = IF i <= 4 THEN front[i] ELSE rest[i - 4]
  <2>1. /\ cgi \in Seq(Octet) /\ Len(cgi) = Len(front) + Len(rest)
        /\ \A i \in 1 .. Len(front) + Len(rest) :
              cgi[i] = IF i <= Len(front) THEN front[i] ELSE rest[i - Len(front)]
    BY <1>4, <1>5, <1>6, ConcatProperties
  <2> QED BY <1>4, <1>5, <2>1
<1>8. cgi[5] = a /\ cgi[6] = b /\ cgi[7] = c /\ cgi[8] = d
  BY <1>5, <1>7
<1>9. SubSeq(cgi, 2, 4) = plmn
  <2> DEFINE t == SubSeq(cgi, 2, 4)
  <2>1. t \in Seq(Octet) /\ Len(t) = 3 /\ \A i \in 1 .. 3 : t[i] = cgi[i + 1]
    <3>1. ASSUME NEW i \in 2 .. 4 PROVE cgi[i] \in Octet
      <4>1. i \in 1 .. Len(cgi)
        BY <1>7
      <4> QED BY <1>7, <4>1, ElementOfSeq
    <3> QED BY <3>1, SubSeqProperties
  <2>2. ASSUME NEW i \in 1 .. 3 PROVE t[i] = plmn[i]
    <3>1. cgi[i + 1] = front[i + 1]
      BY <1>7
    <3> QED BY <1>4, <2>1, <3>1
  <2> HIDE DEF t
  <2>3. t = plmn
    BY <1>3, <2>1, <2>2, SeqEqual
  <2> QED BY <2>3 DEF t
<1>10. Cell(cgi) = cell
  BY <1>1, <1>8 DEF Cell
<1> QED BY <1>7, <1>9, <1>10 DEF Octets, cgi

LEMMA ValueIsNat ==
    ASSUME NEW octets \in Seq(Nat)
    PROVE  Value(octets) \in Nat
<1> DEFINE n == Len(octets)
           step == [k \in 1 .. n |-> [x \in Nat |-> x * 256 + octets[k]]]
           Is(g) == g = [k \in 0 .. n |-> IF k = 0 THEN 0 ELSE g[k - 1] * 256 + octets[k]]
           v == CHOOSE g : Is(g)
<1>1. n \in Nat /\ \A k \in 1 .. n : octets[k] \in Nat
  OBVIOUS
<1>2. ASSUME NEW k \in 1 .. n, NEW x \in Nat PROVE x * 256 + octets[k] \in Nat
  BY <1>1
<1>3. step \in [1 .. n -> [Nat -> Nat]]
  BY <1>2
<1>4. PICK f : Iterates(f, Nat, n, 0, step)
  <2> HIDE DEF step, n
  <2> QED BY <1>1, <1>3, Iterated
<1>5. Is(f)
  <2>1. f \in [0 .. n -> Nat] /\ f[0] = 0
    BY <1>4 DEF Iterates
  <2>2. ASSUME NEW k \in 0 .. n, k # 0 PROVE f[k] = f[k - 1] * 256 + octets[k]
    <3>1. k \in 1 .. n /\ k - 1 \in 0 .. n
      BY <2>2
    <3>2. f[k] = step[k][f[k - 1]] /\ f[k - 1] \in Nat
      BY <1>4, <3>1 DEF Iterates
    <3> QED BY <3>1, <3>2
  <2> QED BY <2>1, <2>2
<1>6. Is(v)
  <2> HIDE DEF step, n, Is
  <2> QED BY <1>5
<1>7. Value(octets) = v[n]
  BY DEF Value
<1> HIDE DEF v
<1>8. \A k \in Nat : k \in {j \in Nat : j <= n => v[j] \in Nat}
  <2> DEFINE S == {j \in Nat : j <= n => v[j] \in Nat}
  <2>1. 0 \in S
    BY <1>1, <1>6
  <2>2. ASSUME NEW k \in Nat, k \in S PROVE k + 1 \in S
    <3>1. CASE k + 1 <= n
      <4>1. k + 1 \in 0 .. n /\ k + 1 \in 1 .. n /\ k + 1 # 0 /\ (k + 1) - 1 = k /\ k <= n
        BY <1>1, <3>1
      <4>2. v[k + 1] = v[k] * 256 + octets[k + 1]
        BY <1>6, <4>1
      <4>3. v[k] \in Nat
        BY <2>2, <4>1
      <4> QED BY <1>2, <4>1, <4>2, <4>3
    <3> QED BY <3>1
  <2> HIDE DEF S
  <2>3. \A k \in Nat : k \in S
    BY <2>1, <2>2, Induction
  <2> QED BY <2>3 DEF S
<1> QED BY <1>1, <1>7, <1>8

-----------------------------------------------------------------------------
(* The IEs of a PDU.                                                       *)

Sends(m, id) ==
    \/ id = "other"
    \/ id = "MME" /\ m.mme # <<>>
    \/ id = "ENB" /\ m.enb # <<>>
    \/ id = "NAS" /\ m.nas # <<>>
    \/ id = "CGI" /\ m.cell # None

OctetsOf(m, id) ==
    CASE id = "MME" -> m.mme
      [] id = "ENB" -> m.enb
      [] id = "NAS" -> EncodeNas(m.nas)
      [] id = "CGI" -> EncodeCgi(m.plmn, m.cell)
      [] OTHER -> <<0>>

LEMMA IesAre ==
    ASSUME NEW m
    PROVE  Ies(m) = {Ie(id, OctetsOf(m, id), FALSE) : id \in {x \in IeIds : Sends(m, x)}}
<1> DEFINE is(id) == IF Sends(m, id) THEN {Ie(id, OctetsOf(m, id), FALSE)} ELSE {}
<1>1. Ies(m) = is("other") \cup is("MME") \cup is("ENB") \cup is("NAS") \cup is("CGI")
  BY DEF Ies, IfAny, Sends, OctetsOf
<1> QED BY <1>1 DEF IeIds

LEMMA IesFinite == ASSUME NEW m PROVE IsFiniteSet(Ies(m))
<1>1. \A x : IsFiniteSet({x})
  BY FS_Singleton
<1>2. IsFiniteSet({})
  BY FS_EmptySet
<1>3. ASSUME NEW octets, NEW id, NEW v PROVE IsFiniteSet(IfAny(octets, id, v))
  BY <1>1, <1>2 DEF IfAny
<1>4. IsFiniteSet({Ie("other", <<0>>, FALSE)} \cup IfAny(m.mme, "MME", m.mme))
  BY <1>1, <1>3, FS_Union
<1>5. IsFiniteSet({Ie("other", <<0>>, FALSE)} \cup IfAny(m.mme, "MME", m.mme)
                  \cup IfAny(m.enb, "ENB", m.enb))
  BY <1>3, <1>4, FS_Union
<1>6. IsFiniteSet({Ie("other", <<0>>, FALSE)} \cup IfAny(m.mme, "MME", m.mme)
                  \cup IfAny(m.enb, "ENB", m.enb)
                  \cup IfAny(m.nas, "NAS", EncodeNas(m.nas)))
  BY <1>3, <1>5, FS_Union
<1>7. IsFiniteSet(IF m.cell = None THEN {}
                  ELSE {Ie("CGI", EncodeCgi(m.plmn, m.cell), FALSE)})
  BY <1>1, <1>2
<1> QED BY <1>6, <1>7, FS_Union DEF Ies

\* An order of a finite set has each of its elements.
LEMMA OrderIsOnto ==
    ASSUME NEW S, IsFiniteSet(S), NEW ies \in SetToSeqs(S)
    PROVE  ies \in Seq(S) /\ \A e \in S : \E i \in DOMAIN ies : ies[i] = e
<1> DEFINE n == Cardinality(S)
<1>1. n \in Nat
  BY FS_CardinalityType
<1>2. ies \in [1 .. n -> S] /\ \A i, j \in 1 .. n : i # j => ies[i] # ies[j]
  BY DEF SetToSeqs
<1>3. ies \in Injection(1 .. n, S)
  BY <1>2 DEF Injection, IsInjective
<1>4. IsFiniteSet(1 .. n) /\ Cardinality(1 .. n) = n
  <2>1. Cardinality(1 .. n) = IF 1 > n THEN 0 ELSE n - 1 + 1
    BY <1>1, FS_Interval
  <2> QED BY <1>1, <2>1, FS_Interval
<1>5. ies \in Surjection(1 .. n, S)
  BY <1>3, <1>4, FS_Injection
<1>6. \A e \in S : \E i \in 1 .. n : ies[i] = e
  BY <1>5 DEF Surjection
<1>7. ies \in Seq(S)
  <2> HIDE DEF n
  <2> QED BY <1>1, <1>2, SeqDef
<1> QED BY <1>2, <1>6, <1>7

PduOK ==
    /\ pdu.sent \in Sent
    /\ pdu.ies \in Seq(IeType)
    /\ \A i \in DOMAIN pdu.ies :
          /\ Sends(pdu.sent, pdu.ies[i].id)
          /\ pdu.ies[i].octets = OctetsOf(pdu.sent, pdu.ies[i].id)
    /\ \A id \in IeIds :
          Sends(pdu.sent, id) => \E i \in DOMAIN pdu.ies : pdu.ies[i].id = id
    /\ pdu.cut \in Nat
    /\ pdu.claimed \in Int /\ pdu.claimed <= Body(pdu.ies)

LEMMA OctetsTyped ==
    ASSUME NEW m \in Sent, NEW id \in IeIds, Sends(m, id)
    PROVE  /\ OctetsOf(m, id) \in Seq(Nat)
           /\ \A i \in 2 .. Len(OctetsOf(m, id)) : OctetsOf(m, id)[i] \in Octet
           /\ id \in {"MME", "ENB", "NAS"} => Len(OctetsOf(m, id)) > 0
<1>0. Octet \subseteq Nat
  BY DEF Octet
<1>1. ASSUME NEW octets \in Octets
      PROVE  /\ octets \in Seq(Nat) /\ \A i \in 2 .. Len(octets) : octets[i] \in Octet
             /\ octets # <<>> => Len(octets) > 0
  <2>1. octets \in Seq(Octet)
    BY DEF Octets
  <2>2. octets \in Seq(Nat)
    BY <1>0, <2>1, SeqMonotonic
  <2>3. \A i \in 2 .. Len(octets) : i \in 1 .. Len(octets)
    BY <2>1, LenProperties
  <2> QED BY <2>1, <2>2, <2>3, ElementOfSeq, EmptySeq
<1>2. CASE id = "MME"
  BY <1>1, <1>2, SentFields DEF OctetsOf, Sends
<1>3. CASE id = "ENB"
  BY <1>1, <1>3, SentFields DEF OctetsOf, Sends
<1>4. CASE id = "NAS"
  <2>1. OctetsOf(m, id) = EncodeNas(m.nas) /\ m.nas \in Octets
    BY <1>4, SentFields DEF OctetsOf
  <2> QED BY <2>1, NasOctets
<1>5. CASE id = "CGI"
  <2>1. OctetsOf(m, id) = EncodeCgi(m.plmn, m.cell) /\ EncodeCgi(m.plmn, m.cell) \in Octets
    BY <1>5, SentFields, CgiOctets DEF OctetsOf, Sends
  <2> QED BY <1>1, <1>5, <2>1
<1>6. CASE id = "other"
  <2>1. OctetsOf(m, id) = <<0>>
    BY <1>6 DEF OctetsOf
  <2>2. <<0>> \in Octets
    BY DEF Octets, Octet
  <2> QED BY <1>1, <1>6, <2>1, <2>2
<1> QED BY <1>2, <1>3, <1>4, <1>5, <1>6 DEF IeIds

LEMMA IeFields ==
    ASSUME NEW ies \in Seq(IeType), NEW i \in 1 .. Len(ies)
    PROVE  /\ ies[i] \in IeType
           /\ ies[i].id \in IeIds /\ ies[i].octets \in Seq(Nat)
           /\ ies[i].fragmented \in BOOLEAN
           /\ Len(ies[i].octets) \in Nat
           /\ FieldHeader(ies[i]) \in Nat
<1>1. ies[i] \in IeType
  BY ElementOfSeq
<1>2. ies[i].octets \in Seq(Nat)
  BY <1>1 DEF IeType
<1>3. Len(ies[i].octets) \in Nat
  BY <1>2, LenProperties
<1>4. Len(LengthDeterminant(Len(ies[i].octets))) \in 1 .. 2
  BY <1>3, Lengths
<1>5. FieldHeader(ies[i]) \in Nat
  BY <1>4 DEF FieldHeader
<1> QED BY <1>1, <1>2, <1>3, <1>5 DEF IeType

\* The size of the first IEs, one after the other.
LEMMA UptoFacts ==
    ASSUME NEW ies \in Seq(IeType)
    PROVE  /\ Upto(ies, 0) = 3
           /\ \A k \in 0 .. Len(ies) : Upto(ies, k) \in Nat
           /\ \A k \in 1 .. Len(ies) :
                 Upto(ies, k) = Upto(ies, k - 1) + FieldHeader(ies[k]) + Len(ies[k].octets)
<1> DEFINE n == Len(ies)
           field(k) == FieldHeader(ies[k]) + Len(ies[k].octets)
           step == [k \in 1 .. n |-> [x \in Nat |-> x + field(k)]]
           Is(g) == g = [k \in 0 .. n |->
                            IF k = 0 THEN 3
                            ELSE g[k - 1] + FieldHeader(ies[k]) + Len(ies[k].octets)]
           size == CHOOSE g : Is(g)
<1>1. n \in Nat
  BY LenProperties
<1>2. ASSUME NEW k \in 1 .. n
      PROVE  FieldHeader(ies[k]) \in Nat /\ Len(ies[k].octets) \in Nat
  BY IeFields
<1>3. ASSUME NEW k \in 1 .. n, NEW x \in Nat
      PROVE  /\ x + field(k) \in Nat
             /\ x + field(k) = x + FieldHeader(ies[k]) + Len(ies[k].octets)
  BY <1>2
<1>4. step \in [1 .. n -> [Nat -> Nat]]
  <2> HIDE DEF field
  <2> QED BY <1>3
<1>5. PICK f : Iterates(f, Nat, n, 3, step)
  <2> HIDE DEF step, n
  <2>1. 3 \in Nat
    OBVIOUS
  <2> QED BY <1>1, <1>4, <2>1, Iterated
<1>6. Is(f)
  <2>1. f \in [0 .. n -> Nat] /\ f[0] = 3
    BY <1>5 DEF Iterates
  <2>2. ASSUME NEW k \in 0 .. n, k # 0
        PROVE  f[k] = f[k - 1] + FieldHeader(ies[k]) + Len(ies[k].octets)
    <3>1. k \in 1 .. n /\ k - 1 \in 0 .. n
      BY <2>2
    <3>2. f[k] = step[k][f[k - 1]] /\ f[k - 1] \in Nat
      BY <1>5, <3>1 DEF Iterates
    <3> HIDE DEF field
    <3>3. f[k] = f[k - 1] + field(k)
      BY <3>1, <3>2
    <3> QED BY <1>3, <3>1, <3>2, <3>3
  <2> QED BY <2>1, <2>2
<1>7. Is(size)
  <2> HIDE DEF step, n, field, Is
  <2> QED BY <1>6
<1>8. ASSUME NEW k \in 0 .. n PROVE Upto(ies, k) = size[k]
  BY DEF Upto
<1> HIDE DEF size
<1>9. size[0] = 3
  BY <1>1, <1>7
<1>10. ASSUME NEW k \in 1 .. n
       PROVE  size[k] = size[k - 1] + FieldHeader(ies[k]) + Len(ies[k].octets)
  <2>1. k \in 0 .. n /\ k # 0
    OBVIOUS
  <2> QED BY <1>7, <2>1
<1> DEFINE S == {k \in Nat : k <= n => size[k] \in Nat}
<1>11. 0 \in S
  BY <1>9
<1>12. ASSUME NEW k \in Nat, k \in S PROVE k + 1 \in S
  <2>1. CASE k + 1 <= n
    <3>1. k + 1 \in 1 .. n /\ (k + 1) - 1 = k /\ size[k] \in Nat
      BY <1>1, <1>12, <2>1
    <3>2. size[k + 1] = size[k] + FieldHeader(ies[k + 1]) + Len(ies[k + 1].octets)
      BY <1>10, <3>1
    <3>3. FieldHeader(ies[k + 1]) \in Nat /\ Len(ies[k + 1].octets) \in Nat
      BY <1>2, <3>1
    <3> QED BY <3>1, <3>2, <3>3
  <2> QED BY <2>1
<1> HIDE DEF S
<1>13. \A k \in Nat : k \in S
  BY <1>11, <1>12, Induction
<1>14. \A k \in 0 .. n : size[k] \in Nat
  BY <1>13 DEF S
<1>15. 0 \in 0 .. n /\ \A k \in 1 .. n : k \in 0 .. n /\ k - 1 \in 0 .. n
  BY <1>1
<1> QED BY <1>8, <1>9, <1>10, <1>14, <1>15

LEMMA UptoRises ==
    ASSUME NEW ies \in Seq(IeType), NEW k \in 0 .. Len(ies)
    PROVE  Upto(ies, k) <= Body(ies)
<1> DEFINE n == Len(ies)
           S == {j \in Nat : k + j <= n => Upto(ies, k) <= Upto(ies, k + j)}
<1>1. n \in Nat /\ Upto(ies, k) \in Nat
  BY LenProperties, UptoFacts
<1>2. 0 \in S
  BY <1>1
<1>3. ASSUME NEW j \in Nat, j \in S PROVE j + 1 \in S
  <2> SUFFICES ASSUME k + (j + 1) <= n PROVE Upto(ies, k) <= Upto(ies, k + (j + 1))
    OBVIOUS
  <2> DEFINE l == k + (j + 1)
  <2>1. l \in 1 .. n /\ l - 1 = k + j /\ k + j <= n /\ k + j \in 0 .. n
    BY <1>1
  <2> HIDE DEF l
  <2>2. /\ Upto(ies, l) = Upto(ies, l - 1) + FieldHeader(ies[l]) + Len(ies[l].octets)
        /\ Upto(ies, k + j) \in Nat
    BY <2>1, UptoFacts
  <2>3. FieldHeader(ies[l]) \in Nat /\ Len(ies[l].octets) \in Nat
    BY <2>1, IeFields
  <2>4. Upto(ies, k) <= Upto(ies, k + j)
    BY <1>3, <2>1
  <2>5. Upto(ies, k) <= Upto(ies, l)
    BY <1>1, <2>1, <2>2, <2>3, <2>4
  <2> QED BY <2>5 DEF l
<1> HIDE DEF S
<1>4. n - k \in Nat /\ k + (n - k) = n
  BY <1>1
<1>5. n - k \in S
  BY <1>2, <1>3, <1>4, Induction
<1> QED BY <1>1, <1>4, <1>5 DEF S, Body

-----------------------------------------------------------------------------
(* Types                                                                   *)

TInv == PduOK /\ PeelTypeOK

LEMMA InitTInv == Init => TInv /\ phase = "header" /\ next = 1 /\ peel = NoPeel
<1> SUFFICES ASSUME Init
             PROVE  TInv /\ phase = "header" /\ next = 1 /\ peel = NoPeel
  OBVIOUS
<1>a. PICK m \in Sent : \E ies \in SetToSeqs(Ies(m)) :
          \E last \in {ies, [ies EXCEPT ![Len(ies)].fragmented = TRUE]} :
          \E cut \in 0 .. Header(last) + Body(last), less \in {0, 1, Body(last) - 2} :
             pdu = [sent |-> m, ies |-> last, cut |-> cut, claimed |-> Body(last) - less]
  BY DEF Init
<1>b. PICK ies \in SetToSeqs(Ies(m)) :
          \E last \in {ies, [ies EXCEPT ![Len(ies)].fragmented = TRUE]} :
          \E cut \in 0 .. Header(last) + Body(last), less \in {0, 1, Body(last) - 2} :
             pdu = [sent |-> m, ies |-> last, cut |-> cut, claimed |-> Body(last) - less]
  BY <1>a
<1>c. PICK last \in {ies, [ies EXCEPT ![Len(ies)].fragmented = TRUE]} :
          \E cut \in 0 .. Header(last) + Body(last), less \in {0, 1, Body(last) - 2} :
             pdu = [sent |-> m, ies |-> last, cut |-> cut, claimed |-> Body(last) - less]
  BY <1>b
<1>1. PICK cut \in 0 .. Header(last) + Body(last), less \in {0, 1, Body(last) - 2} :
          pdu = [sent |-> m, ies |-> last, cut |-> cut, claimed |-> Body(last) - less]
  BY <1>c
<1>2. ies \in Seq(Ies(m)) /\ \A e \in Ies(m) : \E i \in DOMAIN ies : ies[i] = e
  BY IesFinite, OrderIsOnto
<1>3. \A e \in Ies(m) :
          /\ e.id \in IeIds /\ Sends(m, e.id) /\ e.octets = OctetsOf(m, e.id)
          /\ e = [id |-> e.id, octets |-> e.octets, fragmented |-> FALSE]
  BY IesAre DEF Ie
<1>4. \A id \in IeIds : Sends(m, id) => \E e \in Ies(m) : e.id = id
  <2> TAKE id \in IeIds
  <2> HAVE Sends(m, id)
  <2> DEFINE e == Ie(id, OctetsOf(m, id), FALSE)
  <2>1. e \in Ies(m)
    BY IesAre
  <2>2. e.id = id
    BY DEF Ie
  <2> QED BY <2>1, <2>2
<1>5. /\ Len(last) = Len(ies) /\ DOMAIN last = 1 .. Len(ies) /\ Len(ies) \in Nat
      /\ \A i \in 1 .. Len(ies) : \E b \in BOOLEAN :
            last[i] = [id |-> ies[i].id, octets |-> ies[i].octets, fragmented |-> b]
  <2>1. Len(ies) \in Nat /\ DOMAIN ies = 1 .. Len(ies)
        /\ \A i \in 1 .. Len(ies) : ies[i] \in Ies(m)
    BY <1>2, LenProperties, ElementOfSeq
  <2>2. \A i \in 1 .. Len(ies) :
           ies[i] = [id |-> ies[i].id, octets |-> ies[i].octets, fragmented |-> FALSE]
    BY <1>3, <2>1
  <2>3. CASE last = ies
    BY <2>1, <2>2, <2>3
  <2>4. CASE last = [ies EXCEPT ![Len(ies)].fragmented = TRUE]
    <3>1. DOMAIN last = 1 .. Len(ies) /\ Len(last) = Len(ies)
      <4>1. last \in [1 .. Len(ies) -> {last[i] : i \in 1 .. Len(ies)}]
        BY <2>1, <2>4
      <4>2. last \in Seq({last[i] : i \in 1 .. Len(ies)})
        BY <2>1, <4>1, SeqDef
      <4>3. DOMAIN last = 1 .. Len(ies)
        BY <2>1, <2>4
      <4>4. DOMAIN last = 1 .. Len(last) /\ Len(last) \in Nat
        BY <4>2, LenProperties
      <4> QED BY <2>1, <4>3, <4>4
    <3>2. ASSUME NEW i \in 1 .. Len(ies), i # Len(ies) PROVE last[i] = ies[i]
      BY <2>1, <2>4, <3>2
    <3>3. ASSUME NEW i \in 1 .. Len(ies), i = Len(ies)
          PROVE  last[i] = [ies[i] EXCEPT !.fragmented = TRUE]
      BY <2>1, <2>4, <3>3
    <3>4. ASSUME NEW i \in 1 .. Len(ies), i = Len(ies)
          PROVE  last[i] = [id |-> ies[i].id, octets |-> ies[i].octets, fragmented |-> TRUE]
      BY <2>2, <3>3, <3>4
    <3> QED BY <2>1, <2>2, <3>1, <3>2, <3>4
  <2> QED BY <2>3, <2>4
<1>6. \A i \in 1 .. Len(ies) : ies[i] \in Ies(m)
  BY <1>2, ElementOfSeq
<1>p. \A i \in 1 .. Len(ies) :
          /\ last[i].id = ies[i].id /\ last[i].octets = ies[i].octets
          /\ last[i].fragmented \in BOOLEAN
          /\ last[i] = [id |-> last[i].id, octets |-> last[i].octets,
                        fragmented |-> last[i].fragmented]
  BY <1>5
<1>7. \A i \in 1 .. Len(ies) : last[i] \in IeType
  <2> TAKE i \in 1 .. Len(ies)
  <2>1. ies[i].id \in IeIds /\ Sends(m, ies[i].id) /\ ies[i].octets = OctetsOf(m, ies[i].id)
    BY <1>3, <1>6
  <2>2. ies[i].octets \in Seq(Nat)
    BY <2>1, OctetsTyped
  <2>3. PICK b \in BOOLEAN :
            last[i] = [id |-> ies[i].id, octets |-> ies[i].octets, fragmented |-> b]
    BY <1>5
  <2> QED BY <2>1, <2>2, <2>3 DEF IeType
<1>8. last \in Seq(IeType)
  <2>1. last \in [1 .. Len(ies) -> IeType]
    <3>1. last = [i \in 1 .. Len(ies) |-> last[i]]
      <4>1. CASE last = ies
        BY <1>2, <4>1, LenProperties
      <4>2. CASE last # ies
        BY <1>2, <4>2, LenProperties
      <4> QED BY <4>1, <4>2
    <3> QED BY <1>7, <3>1
  <2> QED BY <1>5, <2>1, SeqDef
<1>9. PduOK
  <2>1. Body(last) \in Nat
    <3>1. Len(last) \in 0 .. Len(last)
      BY <1>5
    <3> QED BY <1>8, <3>1, UptoFacts DEF Body
  <2>2. cut \in Nat
    <3>1. Header(last) \in Nat
      BY <2>1, Lengths DEF Header
    <3> QED BY <2>1, <3>1
  <2>3. pdu.claimed \in Int /\ pdu.claimed <= Body(pdu.ies)
    <3> DEFINE b == Body(last)
    <3>1. pdu.claimed = b - less /\ Body(pdu.ies) = b /\ less \in {0, 1, b - 2}
      BY <1>1
    <3>2. b >= 3
      <4>1. 0 \in 0 .. Len(last)
        BY <1>5
      <4>2. Upto(last, 0) <= b
        BY <1>8, <4>1, UptoRises
      <4> QED BY <1>8, <2>1, <4>2, UptoFacts
    <3> HIDE DEF b
    <3>3. b \in Nat
      BY <2>1 DEF b
    <3> QED BY <3>1, <3>2, <3>3
  <2>4. \A i \in DOMAIN pdu.ies :
          /\ Sends(pdu.sent, pdu.ies[i].id)
          /\ pdu.ies[i].octets = OctetsOf(pdu.sent, pdu.ies[i].id)
    BY <1>1, <1>3, <1>5, <1>6, <1>p
  <2>5. \A id \in IeIds :
          Sends(pdu.sent, id) => \E i \in DOMAIN pdu.ies : pdu.ies[i].id = id
    <3>1. DOMAIN ies = 1 .. Len(ies)
      BY <1>2, LenProperties
    <3> QED BY <1>1, <1>2, <1>4, <1>5, <1>p, <3>1
  <2> QED BY <1>1, <1>8, <2>2, <2>3, <2>4, <2>5 DEF PduOK
<1>10. PeelTypeOK
  <2>1. phase = "header" /\ next = 1 /\ left = 0 /\ peel = NoPeel
    BY DEF Init
  <2>2. Len(pdu.ies) \in Nat /\ <<>> \in Octets
    BY <1>1, <1>5, EmptySeq DEF Octets
  <2> QED BY <2>1, <2>2 DEF PeelTypeOK, Peel, NoPeel
<1> QED BY <1>9, <1>10 DEF TInv, Init

LEMMA TakenTyped ==
    ASSUME TInv, NEW i \in 1 .. Len(pdu.ies), ~BadId(pdu.ies[i])
    PROVE  Taken(pdu.ies[i]) \in Peel
<1> DEFINE ie == pdu.ies[i]
           o == ie.octets
<1>0. peel \in Peel
  BY DEF TInv, PeelTypeOK
<1>1. pdu.ies \in Seq(IeType) /\ pdu.sent \in Sent /\ DOMAIN pdu.ies = 1 .. Len(pdu.ies)
  BY LenProperties DEF TInv, PduOK
<1>2. ie.id \in IeIds /\ o \in Seq(Nat) /\ Len(o) \in Nat
  BY <1>1, IeFields
<1>3. /\ \A j \in 2 .. Len(o) : o[j] \in Octet
      /\ ie.id \in {"MME", "ENB", "NAS"} => Len(o) > 0
  <2>1. Sends(pdu.sent, ie.id) /\ o = OctetsOf(pdu.sent, ie.id)
    BY <1>1 DEF TInv, PduOK
  <2> QED BY <1>1, <1>2, <2>1, OctetsTyped
<1>4. Value(o) \in Nat
  BY <1>2, ValueIsNat
<1>5. CASE ie.id = "MME"
  <2>1. Taken(ie) = [peel EXCEPT !.mme = Value(o)]
    BY <1>5 DEF Taken
  <2> QED BY <1>0, <1>4, <2>1 DEF Peel
<1>6. CASE ie.id = "ENB"
  <2>1. Taken(ie) = [peel EXCEPT !.enb = Value(o)]
    BY <1>6 DEF Taken
  <2> QED BY <1>0, <1>4, <2>1 DEF Peel
<1>7. CASE ie.id = "NAS" /\ Inner(o) # <<>>
  <2> DEFINE n == o[1]
  <2>1. Inner(o) = SubSeq(o, 2, n + 1) /\ n + 1 <= Len(o)
    BY <1>7 DEF Inner
  <2>2. n \in Nat
    <3>1. 1 \in 1 .. Len(o)
      BY <1>2, <1>3, <1>7
    <3> QED BY <1>2, <3>1, ElementOfSeq
  <2> HIDE DEF n
  <2>3. \A j \in 2 .. n + 1 : o[j] \in Octet
    BY <1>2, <1>3, <2>1, <2>2
  <2>4. SubSeq(o, 2, n + 1) \in Seq(Octet)
    BY <2>2, <2>3, SubSeqProperties
  <2>5. Taken(ie) = [peel EXCEPT !.nas = Inner(o)]
    BY <1>7 DEF Taken
  <2> QED BY <1>0, <2>1, <2>4, <2>5 DEF Peel, Octets
<1>8. CASE ie.id = "CGI" /\ Len(o) >= 8
  <2>1. \A j \in 2 .. 8 : o[j] \in Octet
    <3> DEFINE l == Len(o)
    <3>1. l \in Nat /\ l >= 8 /\ \A j \in 2 .. l : o[j] \in Octet
      BY <1>2, <1>3, <1>8
    <3> HIDE DEF l
    <3>2. \A j \in 2 .. 8 : j \in 2 .. l
      BY <3>1
    <3> QED BY <3>1, <3>2
  <2>2. SubSeq(o, 2, 4) \in Seq(Octet)
    <3>1. \A j \in 2 .. 4 : o[j] \in Octet
      BY <2>1
    <3> QED BY <3>1, SubSeqProperties
  <2>3. Cell(o) \in Nat
    <3>1. o[5] \in Nat /\ o[6] \in Nat /\ o[7] \in Nat /\ o[8] \in Nat
      <4>1. 5 \in 2 .. 8 /\ 6 \in 2 .. 8 /\ 7 \in 2 .. 8 /\ 8 \in 2 .. 8
        OBVIOUS
      <4>2. Octet \subseteq Nat
        BY DEF Octet
      <4> QED BY <2>1, <4>1, <4>2
    <3> DEFINE x == o[5]
               y == o[6]
               z == o[7]
               w == o[8]
               e == w \div 16
    <3>2. x \in Nat /\ y \in Nat /\ z \in Nat /\ w \in Nat
      BY <3>1
    <3>3. Cell(o) = ((x * 256 + y) * 256 + z) * 16 + e
      BY DEF Cell
    <3> HIDE DEF x, y, z, w
    <3>4. e \in Nat
      BY <3>2
    <3> HIDE DEF e
    <3>5. x * 256 + y \in Nat
      BY <3>2
    <3> DEFINE f == x * 256 + y
    <3> HIDE DEF f
    <3>6. f \in Nat /\ f * 256 + z \in Nat
      BY <3>2, <3>5 DEF f
    <3> DEFINE g == f * 256 + z
    <3> HIDE DEF g
    <3>7. g \in Nat /\ g * 16 + e \in Nat
      BY <3>4, <3>6 DEF g
    <3> QED BY <3>3, <3>7 DEF f, g
  <2>4. Taken(ie) = [peel EXCEPT !.plmn = SubSeq(o, 2, 4), !.cell = Cell(o)]
    BY <1>8 DEF Taken
  <2> QED BY <1>0, <2>2, <2>3, <2>4 DEF Peel, Octets
<1>9. CASE /\ ie.id \notin {"MME", "ENB"} /\ ~(ie.id = "NAS" /\ Inner(o) # <<>>)
           /\ ~(ie.id = "CGI" /\ Len(o) >= 8)
  <2>1. Taken(ie) = peel
    BY <1>9 DEF Taken
  <2> QED BY <1>0, <2>1
<1> QED BY <1>5, <1>6, <1>7, <1>8, <1>9

LEMMA NextTInv == TInv /\ [Next]_vars => TInv'
<1> SUFFICES ASSUME TInv, [Next]_vars
             PROVE  TInv'
  OBVIOUS
<1>1. /\ phase \in {"header", "ies", "peeled", "rejected"}
      /\ next \in 1 .. Len(pdu.ies) + 1 /\ left \in Nat
      /\ pdu.ies \in Seq(IeType) /\ Len(pdu.ies) \in Nat
      /\ pdu.claimed \in Int
  BY LenProperties DEF TInv, PeelTypeOK, PduOK
<1>2. CASE OpenBody
  <2>1. left' = pdu.claimed - 3 /\ 3 <= pdu.claimed /\ phase' = "ies"
        /\ UNCHANGED <<pdu, next, peel>>
    BY <1>2 DEF OpenBody, Acceptable
  <2>2. left' \in Nat
    BY <1>1, <2>1
  <2> QED BY <2>1, <2>2 DEF TInv, PduOK, PeelTypeOK
<1>3. CASE ReadIe
  <2> DEFINE ie == pdu.ies[next]
  <2>1. /\ next <= Len(pdu.ies) /\ CanRead(ie) /\ ~BadId(ie) /\ peel' = Taken(ie)
        /\ left' = left - FieldHeader(ie) - Len(ie.octets)
        /\ next' = next + 1 /\ UNCHANGED <<pdu, phase>>
    BY <1>3 DEF ReadIe
  <2>2. next \in 1 .. Len(pdu.ies)
    BY <1>1, <2>1
  <2>3. Len(ie.octets) \in Nat /\ FieldHeader(ie) \in Nat
    BY <1>1, <2>2, IeFields
  <2>4. left' \in Nat /\ next' \in 1 .. Len(pdu.ies) + 1
    <3> DEFINE h == FieldHeader(ie)
               l == Len(ie.octets)
               n == Len(pdu.ies)
    <3>1. /\ h \in Nat /\ l \in Nat /\ h + l <= left /\ left' = left - h - l
          /\ n \in Nat /\ next \in 1 .. n /\ next' = next + 1
      BY <1>1, <2>1, <2>2, <2>3 DEF CanRead
    <3> HIDE DEF h, l, n
    <3>2. left' \in Nat /\ next' \in 1 .. n + 1
      BY <1>1, <3>1
    <3> QED BY <3>2 DEF n
  <2>5. peel' \in Peel
    BY <2>1, <2>2, TakenTyped
  <2> QED BY <1>1, <2>1, <2>4, <2>5 DEF TInv, PduOK, PeelTypeOK
<1>4. CASE Reject
  BY <1>4 DEF Reject, TInv, PduOK, PeelTypeOK
<1>5. CASE Return
  <2>1. phase' \in {"peeled", "rejected"} /\ UNCHANGED <<pdu, next, left, peel>>
    BY <1>5 DEF Return
  <2> QED BY <2>1 DEF TInv, PduOK, PeelTypeOK
<1>6. CASE UNCHANGED vars
  BY <1>6 DEF vars, TInv, PduOK, PeelTypeOK
<1> QED BY <1>2, <1>3, <1>4, <1>5, <1>6 DEF Next

\* Whatever is sent, reordered, fragmented and cut, the reader stays inside the body:
\* what is left of it is never negative, and what is found has the type of its field
\* (peel_s1ap, parse_ie_container).
THEOREM PeelTypes == Spec => []PeelTypeOK
<1>1. TInv => PeelTypeOK
  BY DEF TInv
<1> QED
  BY <1>1, InitTInv, NextTInv, PTL DEF Spec

-----------------------------------------------------------------------------
(* The message or nothing                                                  *)

\* What the code can read of a message: a NAS PDU whose length takes one octet, and
\* UE ids of up to four octets.
Readable == \A m \in Sent : Len(m.nas) < 128 /\ Len(m.mme) <= 4 /\ Len(m.enb) <= 4

\* The first k IEs have one of this kind.
Has(k, id) == \E i \in 1 .. k : pdu.ies[i].id = id

\* What the message says in its first k IEs.
Found(k) ==
    [mme  |-> IF Has(k, "MME") THEN IdOf(pdu.sent.mme) ELSE None,
     enb  |-> IF Has(k, "ENB") THEN IdOf(pdu.sent.enb) ELSE None,
     plmn |-> IF Has(k, "CGI") THEN pdu.sent.plmn ELSE None,
     cell |-> IF Has(k, "CGI") THEN pdu.sent.cell ELSE None,
     nas  |-> IF Has(k, "NAS") THEN pdu.sent.nas ELSE <<>>]

\* The body is counted down IE by IE, and what is found is what these IEs say.
ReadInv ==
    /\ phase = "header" => next = 1 /\ peel = NoPeel
    /\ phase = "ies" =>
          /\ Acceptable
          /\ left = pdu.claimed - Upto(pdu.ies, next - 1)
          /\ \A i \in 1 .. next - 1 : ~pdu.ies[i].fragmented
          /\ peel = Found(next - 1)

PInv == ReadInv /\ PeelIsTheMessage

LEMMA FoundNext ==
    ASSUME TInv, Readable, NEW i \in 1 .. Len(pdu.ies), peel = Found(i - 1)
    PROVE  Taken(pdu.ies[i]) = Found(i) /\ ~BadId(pdu.ies[i])
<1> DEFINE m == pdu.sent
           ie == pdu.ies[i]
<1>1. /\ pdu.ies \in Seq(IeType) /\ m \in Sent /\ DOMAIN pdu.ies = 1 .. Len(pdu.ies)
      /\ Len(pdu.ies) \in Nat
  BY LenProperties DEF TInv, PduOK
<1>2. ie.id \in IeIds /\ Sends(m, ie.id) /\ ie.octets = OctetsOf(m, ie.id)
  BY <1>1, IeFields DEF TInv, PduOK
<1>3. \A id : Has(i, id) <=> Has(i - 1, id) \/ ie.id = id
  <2>1. 1 .. i = 1 .. i - 1 \cup {i}
    BY <1>1
  <2> QED BY <2>1 DEF Has
<1>4. /\ m.mme \in Seq(Octet) /\ m.enb \in Seq(Octet) /\ m.nas \in Octets
      /\ Len(m.mme) \in Nat /\ Len(m.enb) \in Nat
      /\ m.mme # <<>> => Len(m.mme) > 0
      /\ m.enb # <<>> => Len(m.enb) > 0
  BY <1>1, SentFields, EmptySeq, LenProperties DEF Octets
<1>5. Len(m.nas) < 128 /\ Len(m.mme) <= 4 /\ Len(m.enb) <= 4
  BY <1>1 DEF Readable
<1> HIDE DEF m, ie
<1> DEFINE p == pdu.sent
<1>6. p = m
  BY DEF m
<1> SUFFICES Taken(ie) = Found(i) /\ ~BadId(ie)
  BY DEF ie
<1>7. CASE ie.id = "MME"
  <2>1. m.mme # <<>> /\ ie.octets = m.mme
    BY <1>2, <1>7 DEF Sends, OctetsOf
  <2>2. ~BadId(ie)
    <3> DEFINE l == Len(m.mme)
    <3>1. l \in Nat /\ l > 0 /\ l <= 4
      BY <1>4, <1>5, <2>1
    <3> HIDE DEF l
    <3>2. l \in 1 .. 4
      BY <3>1
    <3> QED BY <2>1, <3>2 DEF BadId, l
  <2>3. Taken(ie) = [peel EXCEPT !.mme = IdOf(m.mme)]
    BY <1>7, <2>1 DEF Taken, IdOf
  <2>4. Found(i) = [Found(i - 1) EXCEPT !.mme = IdOf(m.mme)]
    BY <1>3, <1>6, <1>7 DEF Found
  <2> QED BY <2>2, <2>3, <2>4
<1>8. CASE ie.id = "ENB"
  <2>1. m.enb # <<>> /\ ie.octets = m.enb
    BY <1>2, <1>8 DEF Sends, OctetsOf
  <2>2. ~BadId(ie)
    <3> DEFINE l == Len(m.enb)
    <3>1. l \in Nat /\ l > 0 /\ l <= 4
      BY <1>4, <1>5, <2>1
    <3> HIDE DEF l
    <3>2. l \in 1 .. 4
      BY <3>1
    <3> QED BY <2>1, <3>2 DEF BadId, l
  <2>3. Taken(ie) = [peel EXCEPT !.enb = IdOf(m.enb)]
    BY <1>8, <2>1 DEF Taken, IdOf
  <2>4. Found(i) = [Found(i - 1) EXCEPT !.enb = IdOf(m.enb)]
    BY <1>3, <1>6, <1>8 DEF Found
  <2> QED BY <2>2, <2>3, <2>4
<1>9. CASE ie.id = "NAS"
  <2>1. m.nas # <<>> /\ ie.octets = EncodeNas(m.nas)
    BY <1>2, <1>9 DEF Sends, OctetsOf
  <2>2. Inner(ie.octets) = m.nas
    BY <1>4, <1>5, <2>1, NasOctets
  <2>3. Taken(ie) = [peel EXCEPT !.nas = m.nas]
    BY <1>9, <2>1, <2>2 DEF Taken
  <2>4. Found(i) = [Found(i - 1) EXCEPT !.nas = m.nas]
    BY <1>3, <1>6, <1>9 DEF Found
  <2> QED BY <1>9, <2>3, <2>4 DEF BadId
<1>10. CASE ie.id = "CGI"
  <2>1. /\ m.cell # None /\ m.cell \in Nat /\ m.cell < 16 * 256 * 256 * 256
        /\ m.plmn \in Octets /\ Len(m.plmn) = 3
    BY <1>1, <1>2, <1>6, <1>10, SentFields DEF Sends
  <2>2. ie.octets = EncodeCgi(m.plmn, m.cell)
    BY <1>2, <1>10 DEF OctetsOf
  <2>3. /\ Len(ie.octets) = 8 /\ SubSeq(ie.octets, 2, 4) = m.plmn
        /\ Cell(ie.octets) = m.cell
    BY <2>1, <2>2, CgiOctets
  <2>4. Taken(ie) = [peel EXCEPT !.plmn = m.plmn, !.cell = m.cell]
    <3>1. ie.id = "CGI" /\ Len(ie.octets) >= 8
      BY <1>10, <2>3
    <3>2. Taken(ie) = [peel EXCEPT !.plmn = SubSeq(ie.octets, 2, 4),
                                   !.cell = Cell(ie.octets)]
      BY <3>1 DEF Taken
    <3> QED BY <2>3, <3>2
  <2>5. Found(i) = [Found(i - 1) EXCEPT !.plmn = m.plmn, !.cell = m.cell]
    <3>1. /\ Has(i, "MME") <=> Has(i - 1, "MME")
          /\ Has(i, "ENB") <=> Has(i - 1, "ENB")
          /\ Has(i, "NAS") <=> Has(i - 1, "NAS")
          /\ Has(i, "CGI")
      BY <1>3, <1>10
    <3>2. Found(i) = [mme |-> Found(i - 1).mme, enb |-> Found(i - 1).enb,
                      plmn |-> m.plmn, cell |-> m.cell, nas |-> Found(i - 1).nas]
      BY <1>6, <3>1 DEF Found
    <3> DEFINE r == Found(i - 1)
               t == [r EXCEPT !.plmn = m.plmn, !.cell = m.cell]
    <3>3. r \in Peel
      BY DEF TInv, PeelTypeOK
    <3> HIDE DEF r
    <3>4. t = [mme |-> r.mme, enb |-> r.enb, plmn |-> m.plmn, cell |-> m.cell,
               nas |-> r.nas]
      <4>1. t \in [mme : {r.mme}, enb : {r.enb}, plmn : {m.plmn}, cell : {m.cell},
                   nas : {r.nas}]
        BY <3>3 DEF Peel
      <4> HIDE DEF t
      <4> QED BY <4>1
    <3> QED BY <3>2, <3>4 DEF r
  <2> QED BY <1>10, <2>4, <2>5 DEF BadId
<1>11. CASE ie.id = "other"
  <2>1. Taken(ie) = peel
    BY <1>11 DEF Taken
  <2>2. Found(i) = Found(i - 1)
    BY <1>3, <1>11 DEF Found
  <2> QED BY <1>11, <2>1, <2>2 DEF BadId
<1> QED BY <1>2, <1>7, <1>8, <1>9, <1>10, <1>11 DEF IeIds

\* All IEs are the whole message.
LEMMA FoundAll ==
    ASSUME TInv
    PROVE  Found(Len(pdu.ies)) = Meaning(pdu.sent)
<1> DEFINE m == pdu.sent
<1>1. /\ pdu.ies \in Seq(IeType) /\ DOMAIN pdu.ies = 1 .. Len(pdu.ies)
  BY LenProperties DEF TInv, PduOK
<1>2. \A id \in IeIds : Has(Len(pdu.ies), id) <=> Sends(m, id)
  BY <1>1 DEF TInv, PduOK, Has
<1>3. /\ Has(Len(pdu.ies), "MME") <=> m.mme # <<>>
      /\ Has(Len(pdu.ies), "ENB") <=> m.enb # <<>>
      /\ Has(Len(pdu.ies), "NAS") <=> m.nas # <<>>
      /\ Has(Len(pdu.ies), "CGI") <=> m.cell # None
  BY <1>2 DEF IeIds, Sends
<1> QED BY <1>3 DEF Found, Meaning, IdOf

LEMMA InitPInv == Init => PInv
<1> SUFFICES ASSUME Init PROVE PInv
  OBVIOUS
<1>1. phase = "header" /\ next = 1 /\ peel = NoPeel
  BY InitTInv
<1> QED BY <1>1 DEF PInv, ReadInv, PeelIsTheMessage

LEMMA NextPInv == Readable /\ TInv /\ PInv /\ [Next]_vars => PInv'
<1> SUFFICES ASSUME Readable, TInv, PInv, [Next]_vars
             PROVE  PInv'
  OBVIOUS
<1> DEFINE n == Len(pdu.ies)
           body == Body(pdu.ies)
           before == Upto(pdu.ies, next - 1)
<1>1. /\ pdu.ies \in Seq(IeType) /\ DOMAIN pdu.ies = 1 .. n /\ n \in Nat
      /\ next \in 1 .. n + 1 /\ left \in Nat
      /\ pdu.cut \in Nat /\ pdu.claimed \in Int /\ pdu.claimed <= body
  BY LenProperties DEF TInv, PeelTypeOK, PduOK
<1>2. /\ next - 1 \in 0 .. n
      /\ before \in Nat /\ Upto(pdu.ies, 0) = 3 /\ body \in Nat /\ body >= 3
  <2>1. 0 \in 0 .. n /\ n \in 0 .. n /\ next - 1 \in 0 .. n
    BY <1>1
  <2>2. /\ Upto(pdu.ies, next - 1) \in Nat /\ Upto(pdu.ies, n) \in Nat
        /\ Upto(pdu.ies, 0) = 3
    BY <1>1, <2>1, UptoFacts
  <2>3. Upto(pdu.ies, 0) <= body
    BY <1>1, <2>1, UptoRises
  <2> HIDE DEF n
  <2>4. body = Upto(pdu.ies, n)
    BY DEF Body, n
  <2> QED BY <2>1, <2>2, <2>3, <2>4
<1> HIDE DEF n, body, before
<1>3. CASE OpenBody
  <2>1. /\ phase = "header" /\ Acceptable /\ phase' = "ies" /\ left' = pdu.claimed - 3
        /\ UNCHANGED <<pdu, next, peel>>
    BY <1>3 DEF OpenBody
  <2>2. next = 1 /\ peel = NoPeel
    BY <2>1 DEF PInv, ReadInv
  <2>3. 1 - 1 = 0 /\ 1 .. 0 = {}
    OBVIOUS
  <2>4. Found(0) = NoPeel
    BY <2>3 DEF Found, Has, NoPeel
  <2>5. Acceptable' /\ Found(0)' = Found(0)
    BY <2>1 DEF Acceptable, Available, Found, Has
  <2> QED BY <1>2, <2>1, <2>2, <2>3, <2>4, <2>5 DEF PInv, ReadInv, PeelIsTheMessage
<1>4. CASE ReadIe
  <2> DEFINE ie == pdu.ies[next]
  <2>1. /\ phase = "ies" /\ next <= n /\ CanRead(ie) /\ peel' = Taken(ie)
        /\ left' = left - FieldHeader(ie) - Len(ie.octets)
        /\ next' = next + 1 /\ UNCHANGED <<pdu, phase>>
    BY <1>4 DEF ReadIe, n
  <2>2. /\ Acceptable /\ left = pdu.claimed - before /\ peel = Found(next - 1)
        /\ \A i \in 1 .. next - 1 : ~pdu.ies[i].fragmented
    BY <2>1 DEF PInv, ReadInv, before
  <2>3. next \in 1 .. n /\ (next + 1) - 1 = next
    BY <1>1, <2>1
  <2>4. peel' = Found(next)
    BY <2>1, <2>2, <2>3, FoundNext DEF n
  <2>5. Upto(pdu.ies, next) = before + FieldHeader(ie) + Len(ie.octets)
    BY <1>1, <2>3, UptoFacts DEF before, n
  <2>6. FieldHeader(ie) \in Nat /\ Len(ie.octets) \in Nat
    BY <1>1, <2>3, IeFields DEF n
  <2>7. left' = pdu.claimed - Upto(pdu.ies, next)
    <3> DEFINE h == FieldHeader(ie)
               l == Len(ie.octets)
               u == Upto(pdu.ies, next)
               c == pdu.claimed
    <3>1. h \in Nat /\ l \in Nat /\ before \in Nat /\ c \in Int
      BY <1>1, <1>2, <2>6
    <3>2. left' = left - h - l /\ left = c - before /\ u = before + h + l
      BY <2>1, <2>2, <2>5
    <3> HIDE DEF h, l, u, c
    <3>3. left' = c - u
      BY <3>1, <3>2
    <3> QED BY <3>3 DEF c, u
  <2>8. \A i \in 1 .. next : ~pdu.ies[i].fragmented
    <3>1. 1 .. next = 1 .. next - 1 \cup {next}
      BY <2>3
    <3> QED BY <2>1, <2>2, <3>1 DEF CanRead
  <2>9. next' - 1 = next
    BY <2>1, <2>3
  <2>10. ReadInv'
    BY <2>1, <2>2, <2>4, <2>7, <2>8, <2>9 DEF ReadInv, Acceptable, Available, Found, Has
  <2> QED BY <2>1, <2>10 DEF PInv, PeelIsTheMessage
<1>5. CASE Reject
  <2>1. phase' = "rejected" /\ UNCHANGED <<pdu, next, left, peel>>
    BY <1>5 DEF Reject
  <2>2. ASSUME Arrived PROVE FALSE
    <3>1. /\ pdu.cut = 0 /\ pdu.claimed = body /\ CarriesNas(pdu.sent)
          /\ \A i \in 1 .. n : ~pdu.ies[i].fragmented
      BY <1>1, <2>2 DEF Arrived, body
    <3>2. Acceptable
      BY <1>2, <3>1 DEF Acceptable, Available, body
    <3> DEFINE ie == pdu.ies[next]
    <3>3. phase = "ies" /\ next <= n /\ (~CanRead(ie) \/ BadId(ie))
      BY <1>5, <3>2 DEF Reject, n
    <3>4. next \in 1 .. n /\ next \in 0 .. n
      BY <1>1, <3>3
    <3>5. left = pdu.claimed - before /\ peel = Found(next - 1)
      BY <3>3 DEF PInv, ReadInv, before
    <3>6. ~BadId(ie)
      BY <3>4, <3>5, FoundNext DEF n
    <3>7. Upto(pdu.ies, next) = before + FieldHeader(ie) + Len(ie.octets)
      BY <1>1, <3>4, UptoFacts DEF before, n
    <3>8. Upto(pdu.ies, next) <= body
      BY <1>1, <3>4, UptoRises DEF n, body
    <3>9. FieldHeader(ie) \in Nat /\ Len(ie.octets) \in Nat
      BY <1>1, <3>4, IeFields DEF n
    <3>10. FieldHeader(ie) + Len(ie.octets) <= left
      <4> DEFINE h == FieldHeader(ie)
                 l == Len(ie.octets)
                 u == Upto(pdu.ies, next)
      <4>1. h \in Nat /\ l \in Nat /\ before \in Nat /\ body \in Nat
        BY <1>2, <3>9
      <4>2. left = body - before /\ u = before + h + l /\ u <= body
        BY <3>1, <3>5, <3>7, <3>8
      <4> HIDE DEF h, l, u
      <4>3. h + l <= left
        BY <4>1, <4>2
      <4> QED BY <4>3 DEF h, l
    <3> QED BY <3>1, <3>3, <3>4, <3>6, <3>10 DEF CanRead
  <2>3. ~Arrived'
    BY <2>1, <2>2 DEF Arrived
  <2> QED BY <2>1, <2>3 DEF PInv, ReadInv, PeelIsTheMessage
<1>6. CASE Return
  <2>1. /\ phase = "ies" /\ next > n /\ UNCHANGED <<pdu, next, left, peel>>
        /\ phase' = IF peel.nas = <<>> THEN "rejected" ELSE "peeled"
    BY <1>6 DEF Return, n
  <2>2. next - 1 = n
    BY <1>1, <2>1
  <2>3. /\ Acceptable /\ left = pdu.claimed - body /\ peel = Found(n)
        /\ \A i \in 1 .. n : ~pdu.ies[i].fragmented
    <3>1. Upto(pdu.ies, n) = body
      BY DEF Body, n, body
    <3> QED BY <2>1, <2>2, <3>1 DEF PInv, ReadInv
  <2>4. peel = Meaning(pdu.sent)
    BY <2>3, FoundAll DEF n
  <2>5. pdu.claimed = body /\ pdu.cut = 0 /\ CarriesNas(pdu.sent)
    BY <1>1, <1>2, <2>3 DEF Acceptable, Available, body
  <2>6. Arrived <=> peel.nas # <<>>
    BY <1>1, <2>3, <2>4, <2>5 DEF Arrived, Meaning, body
  <2>7. Arrived' <=> Arrived
    BY <2>1 DEF Arrived
  <2> QED BY <2>1, <2>4, <2>6, <2>7 DEF PInv, ReadInv, PeelIsTheMessage
<1>7. CASE UNCHANGED vars
  BY <1>7 DEF vars, PInv, ReadInv, PeelIsTheMessage, Arrived, Acceptable, Available,
              Found, Has
<1> QED BY <1>3, <1>4, <1>5, <1>6, <1>7 DEF Next

\* For any messages the code can read, sent with their IEs in any order, fragmented, cut
\* or with a wrong length: peel_s1ap returns exactly the message when the whole PDU is
\* there, and nothing when it is not, never the fields before the cut.
THEOREM PeelsTheMessage == ASSUME Readable PROVE Spec => []PeelIsTheMessage
<1>1. PInv => PeelIsTheMessage
  BY DEF PInv
<1>2. TInv /\ PInv /\ [Next]_vars => PInv'
  BY NextPInv
<1> QED
  BY <1>1, <1>2, InitTInv, NextTInv, InitPInv, PTL DEF Spec
=============================================================================
