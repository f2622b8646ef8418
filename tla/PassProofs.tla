------------------------------ MODULE PassProofs ------------------------------
(***************************************************************************)
(* The pass as a function, for every table: that it takes its rows in      *)
(* their order, that each of its turns is what RowRead says, and that what *)
(* it has built is what SessionStore lets a commit publish.                *)
(***************************************************************************)
EXTENDS Pass, Recursion, FiniteSetTheorems, FunctionTheorems

-----------------------------------------------------------------------------
(* The operators of a single step.                                         *)

LEMMA ResolveInKey ==
    ASSUME NEW row \in Row, row.enb # None,
           NEW opened, DOMAIN opened \subseteq Key,
           NEW key \in Resolve(opened, row)
    PROVE  /\ key \in Key
           /\ key.enb = row.enb
           /\ row.cell # None => key = RowKey(row)
BY DEF Resolve, RowKey, Candidates, ByMme, IsSingleton, Row, Key

LEMMA EntryType ==
    ASSUME NEW sid \in Nat, NEW row \in Row, NEW mme \in Mme \cup {None}
    PROVE  /\ Entry(sid, row, mme) \in OpenSession
           /\ Entry(sid, row, mme).session = sid
           /\ Entry(sid, row, mme).lastTs = row.ts
           /\ Entry(sid, row, mme).closedByDetach = (row.type = "DetachRequest")
           /\ Entry(sid, row, mme).mme = mme
BY DEF Entry, OpenSession, Row

LEMMA LatchType ==
    ASSUME NEW row \in Row, NEW mme \in Mme \cup {None}
    PROVE  Latch(mme, row) \in Mme \cup {None}
BY DEF Latch, Row

LEMMA AkaObserveType ==
    ASSUME NEW st \in RuleState, NEW mid \in Nat, NEW row \in Row
    PROVE  AkaObserve(st, mid, row) \in RuleState
<1>1. /\ st.imsiFired \in BOOLEAN
      /\ (st.attachSeen \/ (~st.akaFired /\ row.type = "AttachRequest")) \in BOOLEAN
      /\ (st.authReq \/ (AkaJudges(st) /\ row.type = "AuthenticationRequest"))
            \in BOOLEAN
      /\ AkaCompleted(st, row) \in BOOLEAN
      /\ (st.akaFired \/ AkaFires(st, row)) \in BOOLEAN
  BY DEF RuleState, AkaCompleted
<1>2. AkaFailure(st, mid, row) \in Nat \cup {None}
  BY DEF RuleState, AkaFailure
<1> QED BY <1>1, <1>2 DEF AkaObserve, RuleState

LEMMA ObserveType ==
    ASSUME NEW st \in RuleState, NEW mid \in Nat, NEW row \in Row
    PROVE  ObserveAll(st, mid, row) \in RuleState
<1>1. ImsiObserve(st, row) \in RuleState
  BY DEF ImsiObserve, RuleState
<1> QED BY <1>1, AkaObserveType DEF ObserveAll

LEMMA NoStateType == NoState \in RuleState
BY DEF NoState, RuleState

LEMMA AlertsType ==
    ASSUME NEW sid \in Nat, NEW st \in RuleState, NEW mid \in Nat, NEW row \in Row
    PROVE  AlertsOf(sid, st, mid, row) \in Seq(Alert)
<1>1. ASSUME AkaFires(st, row)
      PROVE  [session |-> sid, trigger |-> AkaTrigger(st, mid),
              kind |-> AkaKind(st), severity |-> 8] \in Alert
  BY <1>1 DEF Alert, AlertKinds, AkaTrigger, AkaKind, RuleState
<1>2. [session |-> sid, trigger |-> mid, kind |-> "imsi", severity |-> 5] \in Alert
  BY DEF Alert, AlertKinds
<1> QED BY <1>1, <1>2 DEF AlertsOf

LEMMA NewSessionType ==
    ASSUME NEW key \in Key, NEW row \in Row
    PROVE  /\ NewSession(key, row) \in Session
           /\ NewSession(key, row).plmn = key.plmn
           /\ NewSession(key, row).cell = key.cell
           /\ NewSession(key, row).enb = key.enb
BY DEF NewSession, Session, Key, Row
LEMMA AppendFacts ==
    ASSUME NEW S, NEW s \in Seq(S), NEW x \in S
    PROVE  /\ Append(s, x) \in Seq(S)
           /\ DOMAIN s = 1 .. Len(s)
           /\ Len(Append(s, x)) = Len(s) + 1
           /\ DOMAIN Append(s, x) = DOMAIN s \cup {Len(s) + 1}
           /\ Len(s) + 1 \notin DOMAIN s
           /\ \A i \in DOMAIN s : Append(s, x)[i] = s[i]
           /\ Append(s, x)[Len(s) + 1] = x
OBVIOUS

LEMMA ConcatFacts ==
    ASSUME NEW S, NEW s \in Seq(S), NEW t \in Seq(S)
    PROVE  /\ s \o t \in Seq(S)
           /\ Len(s \o t) = Len(s) + Len(t)
           /\ DOMAIN (s \o t) = 1 .. (Len(s) + Len(t))
           /\ \A i \in DOMAIN s : i \in DOMAIN (s \o t) /\ (s \o t)[i] = s[i]
           /\ \A i \in DOMAIN (s \o t) \ DOMAIN s :
                 i - Len(s) \in DOMAIN t /\ (s \o t)[i] = t[i - Len(s)]
OBVIOUS

-----------------------------------------------------------------------------
(* The order of the rows.                                                  *)

Earlier(table, rowIds, m) == {n \in rowIds : Before(table, n, m)}

Rank(table, rowIds, m) == Cardinality(Earlier(table, rowIds, m))

\* Before is a strict total order.
LEMMA BeforeOrder ==
    ASSUME NEW table \in Seq(Row), NEW l \in DOMAIN table, NEW m \in DOMAIN table,
           NEW n \in DOMAIN table
    PROVE  /\ ~Before(table, m, m)
           /\ Before(table, l, m) /\ Before(table, m, n) => Before(table, l, n)
           /\ m # n => Before(table, m, n) \/ Before(table, n, m)
           /\ ~(Before(table, m, n) /\ Before(table, n, m))
<1>1. /\ table[l] \in Row /\ table[m] \in Row /\ table[n] \in Row
      /\ l \in Nat /\ m \in Nat /\ n \in Nat
  OBVIOUS
<1>2. table[l].ts \in Nat /\ table[m].ts \in Nat /\ table[n].ts \in Nat
  BY <1>1 DEF Row
<1> QED BY <1>1, <1>2 DEF Before

LEMMA FiniteIds ==
    ASSUME NEW table \in Seq(Row), NEW rowIds \in SUBSET DOMAIN table
    PROVE  IsFiniteSet(rowIds) /\ Cardinality(rowIds) \in Nat
<1>1. Len(table) \in Nat /\ DOMAIN table = 1 .. Len(table)
  OBVIOUS
<1>2. IsFiniteSet(1 .. Len(table))
  BY <1>1, FS_Interval
<1>3. IsFiniteSet(rowIds)
  BY <1>1, <1>2, FS_Subset
<1> QED BY <1>3, FS_CardinalityType

LEMMA RankFacts ==
    ASSUME NEW table \in Seq(Row), NEW rowIds \in SUBSET DOMAIN table,
           NEW m \in rowIds
    PROVE  /\ Rank(table, rowIds, m) \in Nat
           /\ Rank(table, rowIds, m) < Cardinality(rowIds)
           /\ \A n \in rowIds : Before(table, m, n) =>
                 Rank(table, rowIds, m) < Rank(table, rowIds, n)
<1>1. IsFiniteSet(rowIds) /\ Cardinality(rowIds) \in Nat
  BY FiniteIds
<1>2. ASSUME NEW n \in rowIds
      PROVE  /\ IsFiniteSet(Earlier(table, rowIds, n))
             /\ Rank(table, rowIds, n) \in Nat
  <2>1. Earlier(table, rowIds, n) \in SUBSET rowIds
    BY DEF Earlier
  <2>2. IsFiniteSet(Earlier(table, rowIds, n))
    BY <1>1, <2>1, FS_Subset
  <2> QED BY <2>2, FS_CardinalityType DEF Rank
<1>3. m \notin Earlier(table, rowIds, m)
  BY BeforeOrder DEF Earlier
<1> DEFINE upto == Earlier(table, rowIds, m) \cup {m}
<1>4. IsFiniteSet(upto) /\ Cardinality(upto) = Rank(table, rowIds, m) + 1
  BY <1>2, <1>3, FS_AddElement DEF Rank
<1>5. ASSUME NEW T, IsFiniteSet(T), Cardinality(T) \in Nat, upto \subseteq T
      PROVE  Rank(table, rowIds, m) < Cardinality(T)
  <2>1. Cardinality(upto) <= Cardinality(T)
    BY <1>5, FS_Subset
  <2>2. Rank(table, rowIds, m) \in Nat
    BY <1>2
  <2> HIDE DEF upto
  <2> QED BY <1>4, <1>5, <2>1, <2>2
<1>6. upto \subseteq rowIds
  BY DEF Earlier
<1>7. ASSUME NEW n \in rowIds, Before(table, m, n)
      PROVE  upto \subseteq Earlier(table, rowIds, n)
  BY <1>7, BeforeOrder DEF Earlier
<1> HIDE DEF upto
<1>8. Rank(table, rowIds, m) < Cardinality(rowIds)
  BY <1>1, <1>5, <1>6
<1>9. ASSUME NEW n \in rowIds, Before(table, m, n)
      PROVE  Rank(table, rowIds, m) < Rank(table, rowIds, n)
  BY <1>2, <1>5, <1>7, <1>9 DEF Rank
<1> QED BY <1>2, <1>8, <1>9

LEMMA SameRank ==
    ASSUME NEW table \in Seq(Row), NEW rowIds \in SUBSET DOMAIN table,
           NEW m \in rowIds, NEW n \in rowIds,
           Rank(table, rowIds, m) = Rank(table, rowIds, n)
    PROVE  m = n
<1> SUFFICES ASSUME m # n PROVE FALSE
  OBVIOUS
<1>1. Before(table, m, n) \/ Before(table, n, m)
  BY BeforeOrder
<1>2. Rank(table, rowIds, m) \in Nat /\ Rank(table, rowIds, n) \in Nat
  BY RankFacts
<1>3. /\ Before(table, m, n) => Rank(table, rowIds, m) < Rank(table, rowIds, n)
      /\ Before(table, n, m) => Rank(table, rowIds, n) < Rank(table, rowIds, m)
  BY RankFacts
<1> QED BY <1>1, <1>2, <1>3

\* ORDER BY gives each row the place after the rows that are before it.
LEMMA OrderedFacts ==
    ASSUME NEW table \in Seq(Row), NEW rowIds \in SUBSET DOMAIN table
    PROVE  \A i \in 1 .. Cardinality(rowIds) :
              /\ Ordered(table, rowIds)[i] \in rowIds
              /\ Rank(table, rowIds, Ordered(table, rowIds)[i]) = i - 1
<1>1. IsFiniteSet(rowIds) /\ Cardinality(rowIds) \in Nat
  BY FiniteIds
<1> DEFINE N == Cardinality(rowIds)
           rank == [m \in rowIds |-> Rank(table, rowIds, m)]
<1>2. rank \in [rowIds -> 0 .. N - 1]
  <2>1. ASSUME NEW m \in rowIds PROVE rank[m] \in 0 .. N - 1
    <3>1. Rank(table, rowIds, m) \in Nat /\ Rank(table, rowIds, m) < N
      BY RankFacts
    <3> HIDE DEF N
    <3> QED BY <1>1, <3>1 DEF N
  <2> QED BY <2>1
<1>3. \A m, n \in rowIds : rank[m] = rank[n] => m = n
  BY SameRank
<1>4. rank \in Injection(rowIds, 0 .. N - 1)
  BY <1>2, <1>3 DEF Injection, IsInjective
<1>5. IsFiniteSet(0 .. N - 1) /\ Cardinality(0 .. N - 1) = N
  <2>1. N - 1 \in Int /\ 0 \in Int
    BY <1>1
  <2>2. IsFiniteSet(0 .. N - 1) /\ Cardinality(0 .. N - 1) = IF 0 > N - 1 THEN 0 ELSE N - 1 - 0 + 1
    BY <2>1, FS_Interval
  <2> HIDE DEF N
  <2> QED BY <1>1, <2>2 DEF N
<1>6. rank \in Surjection(rowIds, 0 .. N - 1)
  BY <1>4, <1>5, FS_Injection
<1>7. ASSUME NEW i \in 1 .. N
      PROVE  /\ Ordered(table, rowIds)[i] \in rowIds
             /\ Rank(table, rowIds, Ordered(table, rowIds)[i]) = i - 1
  <2>1. i - 1 \in 0 .. N - 1
    BY <1>1
  <2>2. \E m \in rowIds : Rank(table, rowIds, m) = i - 1
    BY <1>6, <2>1 DEF Surjection
  <2>3. Ordered(table, rowIds)[i] =
          CHOOSE m \in rowIds : Rank(table, rowIds, m) = i - 1
    BY DEF Ordered, Rank, Earlier
  <2> QED BY <2>2, <2>3
<1> QED BY <1>7

\* So that a row is found at its place.
LEMMA OrderedAt ==
    ASSUME NEW table \in Seq(Row), NEW rowIds \in SUBSET DOMAIN table,
           NEW m \in rowIds
    PROVE  /\ Rank(table, rowIds, m) + 1 \in 1 .. Cardinality(rowIds)
           /\ Ordered(table, rowIds)[Rank(table, rowIds, m) + 1] = m
<1>1. /\ Rank(table, rowIds, m) \in Nat /\ Rank(table, rowIds, m) < Cardinality(rowIds)
      /\ Cardinality(rowIds) \in Nat
  BY RankFacts, FiniteIds
<1> DEFINE i == Rank(table, rowIds, m) + 1
<1>2. i \in 1 .. Cardinality(rowIds) /\ i - 1 = Rank(table, rowIds, m)
  BY <1>1
<1>3. /\ Ordered(table, rowIds)[i] \in rowIds
      /\ Rank(table, rowIds, Ordered(table, rowIds)[i]) = i - 1
  BY <1>2, OrderedFacts
<1> QED BY <1>2, <1>3, SameRank

-----------------------------------------------------------------------------
(* The turns of the loop.                                                  *)

\* A dict with keys in K and values in V.
Dict(K, V) == UNION {[D -> V] : D \in SUBSET K}

Passes == [open    : Dict(Key, OpenSession),
           states  : Dict(Nat, RuleState),
           table   : Seq(Session),
           owner   : Dict(Nat, Nat),
           alerts  : Seq(Alert),
           refused : BOOLEAN]

\* Every session id that a pass knows is one of its table, and it has the rule
\* states of the open ones.
SoundPasses ==
    {p \in Passes :
        /\ \A k \in DOMAIN p.open : /\ p.open[k].session \in DOMAIN p.table
                                    /\ p.open[k].session \in DOMAIN p.states
        /\ \A m \in DOMAIN p.owner : p.owner[m] \in DOMAIN p.table}

LEMMA DictFacts ==
    ASSUME NEW K, NEW V, NEW f \in Dict(K, V)
    PROVE  /\ DOMAIN f \subseteq K /\ f \in [DOMAIN f -> V]
           /\ \A x \in DOMAIN f : f[x] \in V
BY DEF Dict

LEMMA PutFacts ==
    ASSUME NEW K, NEW V, NEW f \in Dict(K, V), NEW k \in K, NEW v \in V
    PROVE  /\ Put(f, k, v) \in Dict(K, V)
           /\ DOMAIN Put(f, k, v) = DOMAIN f \cup {k}
           /\ Put(f, k, v)[k] = v
           /\ \A x \in DOMAIN f \ {k} : Put(f, k, v)[x] = f[x]
<1>1. DOMAIN f \subseteq K /\ \A x \in DOMAIN f : f[x] \in V
  BY DictFacts
<1>2. Put(f, k, v) \in [DOMAIN f \cup {k} -> V]
  BY <1>1 DEF Put
<1>3. DOMAIN f \cup {k} \in SUBSET K
  BY <1>1
<1> QED BY <1>2, <1>3 DEF Put, Dict

\* ended_at of a session, kept up to date.
Stamped(table, sid, ts) == [table EXCEPT ![sid].endedAt = ts]

LEMMA EndsAt ==
    ASSUME NEW table \in Seq(Session), NEW sid \in DOMAIN table, NEW ts \in Nat
    PROVE  LET ended == Stamped(table, sid, ts)
           IN  /\ ended \in Seq(Session)
               /\ DOMAIN ended = DOMAIN table
               /\ \A i \in DOMAIN table \ {sid} : ended[i] = table[i]
               /\ ended[sid] = [table[sid] EXCEPT !.endedAt = ts]
<1> DEFINE s == [table[sid] EXCEPT !.endedAt = ts]
<1>1. table[sid] \in Session
  OBVIOUS
<1>2. s \in Session
  BY <1>1 DEF Session
<1>3. [table EXCEPT ![sid].endedAt = ts] = [table EXCEPT ![sid] = s]
  OBVIOUS
<1> HIDE DEF s
<1>4. /\ [table EXCEPT ![sid] = s] \in Seq(Session)
      /\ DOMAIN [table EXCEPT ![sid] = s] = DOMAIN table
      /\ \A i \in DOMAIN table \ {sid} : [table EXCEPT ![sid] = s][i] = table[i]
      /\ [table EXCEPT ![sid] = s][sid] = s
  BY <1>2
<1> QED BY <1>3, <1>4 DEF s, Stamped

\* What p is when a row is placed.
PlacedAs(p, pass, mid, row, key, sid, mme, st) ==
    /\ p \in Passes
    /\ p.open = Put(pass.open, key, Entry(sid, row, mme))
    /\ p.states = Put(pass.states, sid, ObserveAll(st, mid, row))
    /\ p.table = Stamped(pass.table, sid, row.ts)
    /\ p.owner = Put(pass.owner, mid, sid)
    /\ p.alerts = pass.alerts \o AlertsOf(sid, st, mid, row)
    /\ p.refused = pass.refused

LEMMA PlacedFacts ==
    ASSUME NEW pass \in Passes, NEW mid \in Nat, NEW row \in Row, NEW key \in Key,
           NEW sid, sid \in DOMAIN pass.table, NEW mme \in Mme \cup {None},
           NEW st \in RuleState
    PROVE  PlacedAs(Placed(pass, mid, row, key, sid, mme, st),
                    pass, mid, row, key, sid, mme, st)
<1> DEFINE opened == Put(pass.open, key, Entry(sid, row, mme))
           ruled == Put(pass.states, sid, ObserveAll(st, mid, row))
           stamped == Stamped(pass.table, sid, row.ts)
           owned == Put(pass.owner, mid, sid)
           raised == pass.alerts \o AlertsOf(sid, st, mid, row)
<1>1. /\ pass.open \in Dict(Key, OpenSession) /\ pass.states \in Dict(Nat, RuleState)
      /\ pass.table \in Seq(Session) /\ pass.owner \in Dict(Nat, Nat)
      /\ pass.alerts \in Seq(Alert) /\ pass.refused \in BOOLEAN
  BY DEF Passes
<1>2. sid \in Nat /\ row.ts \in Nat
  BY <1>1 DEF Row
<1>3. opened \in Dict(Key, OpenSession)
  BY <1>1, <1>2, PutFacts, EntryType
<1>4. ruled \in Dict(Nat, RuleState)
  BY <1>1, <1>2, PutFacts, ObserveType
<1>5. stamped \in Seq(Session)
  BY <1>1, <1>2, EndsAt
<1>6. owned \in Dict(Nat, Nat)
  BY <1>1, <1>2, PutFacts
<1>7. raised \in Seq(Alert)
  BY <1>1, <1>2, AlertsType, ConcatFacts
<1>8. Placed(pass, mid, row, key, sid, mme, st) =
        [pass EXCEPT !.open = opened, !.states = ruled, !.table = stamped,
                     !.owner = owned, !.alerts = raised]
  BY DEF Placed, Stamped
<1> HIDE DEF opened, ruled, stamped, owned, raised
<1>9. LET p == [pass EXCEPT !.open = opened, !.states = ruled, !.table = stamped,
                            !.owner = owned, !.alerts = raised]
      IN  /\ p \in Passes
          /\ p.open = opened /\ p.states = ruled /\ p.table = stamped
          /\ p.owner = owned /\ p.alerts = raised /\ p.refused = pass.refused
  BY <1>1, <1>3, <1>4, <1>5, <1>6, <1>7 DEF Passes
<1> QED BY <1>8, <1>9 DEF opened, ruled, stamped, owned, raised, PlacedAs

LEMMA ResolveOne ==
    ASSUME NEW row, NEW known, NEW key \in Resolve(known, row)
    PROVE  Resolve(known, row) = {key}
BY DEF Resolve, IsSingleton

\* The three things that a turn may make of a pass.
LEMMA TurnSkips ==
    ASSUME NEW pass, NEW mid, NEW row,
           pass.refused \/ row.enb = None \/ Resolve(pass.open, row) = {}
    PROVE  RowRead(pass, mid, row) = {pass}
BY DEF RowRead

LEMMA TurnPlaces ==
    ASSUME NEW pass, NEW mid, NEW row, ~pass.refused, row.enb # None,
           NEW key \in Resolve(pass.open, row)
    PROVE  RowRead(pass, mid, row) =
              {IF Reusable(pass.open, key, row) THEN Reused(pass, mid, row, key)
                                                ELSE Opened(pass, mid, row, key)}
<1>1. Resolve(pass.open, row) = {key}
  BY ResolveOne
<1> QED BY <1>1 DEF RowRead

LEMMA ReusedFacts ==
    ASSUME NEW pass \in SoundPasses, NEW mid \in Nat, NEW row \in Row,
           NEW key \in Key, key \in DOMAIN pass.open
    PROVE  /\ Reused(pass, mid, row, key) \in SoundPasses
           /\ pass.open[key].session \in DOMAIN pass.table
           /\ PlacedAs(Reused(pass, mid, row, key), pass, mid, row, key,
                       pass.open[key].session, Latch(pass.open[key].mme, row),
                       pass.states[pass.open[key].session])
<1> DEFINE p == Reused(pass, mid, row, key)
           sid == pass.open[key].session
           mme == Latch(pass.open[key].mme, row)
<1>1. /\ pass \in Passes /\ sid \in DOMAIN pass.table /\ sid \in DOMAIN pass.states
      /\ \A k \in DOMAIN pass.open : /\ pass.open[k].session \in DOMAIN pass.table
                                     /\ pass.open[k].session \in DOMAIN pass.states
      /\ \A m \in DOMAIN pass.owner : pass.owner[m] \in DOMAIN pass.table
  BY DEF SoundPasses
<1>2. /\ pass.open \in Dict(Key, OpenSession) /\ pass.states \in Dict(Nat, RuleState)
      /\ pass.table \in Seq(Session) /\ pass.owner \in Dict(Nat, Nat)
  BY <1>1 DEF Passes
<1>3. pass.open[key] \in OpenSession /\ pass.states[sid] \in RuleState
  BY <1>1, <1>2, DictFacts
<1>4. mme \in Mme \cup {None}
  BY <1>3, LatchType DEF OpenSession
<1>5. p = Placed(pass, mid, row, key, sid, mme, pass.states[sid])
  BY DEF Reused
<1> HIDE DEF p, sid, mme
<1>6. PlacedAs(p, pass, mid, row, key, sid, mme, pass.states[sid])
  BY <1>1, <1>3, <1>4, <1>5, PlacedFacts
<1>7. sid \in Nat /\ row.ts \in Nat
  BY <1>1, <1>2 DEF Row
<1>8. Entry(sid, row, mme) \in OpenSession /\ Entry(sid, row, mme).session = sid
  BY <1>4, <1>7, EntryType
<1>9. /\ DOMAIN p.open = DOMAIN pass.open \cup {key}
      /\ p.open[key] = Entry(sid, row, mme)
      /\ \A k \in DOMAIN pass.open \ {key} : p.open[k] = pass.open[k]
  BY <1>6 DEF PlacedAs, Put
<1>10. DOMAIN p.states = DOMAIN pass.states \cup {sid}
  BY <1>6 DEF PlacedAs, Put
<1>11. /\ DOMAIN p.owner = DOMAIN pass.owner \cup {mid}
       /\ p.owner[mid] = sid
       /\ \A m \in DOMAIN pass.owner \ {mid} : p.owner[m] = pass.owner[m]
  BY <1>6 DEF PlacedAs, Put
<1>12. DOMAIN p.table = DOMAIN pass.table
  BY <1>6 DEF PlacedAs, Stamped
<1>13. p \in SoundPasses
  BY <1>1, <1>6, <1>8, <1>9, <1>10, <1>11, <1>12 DEF PlacedAs, SoundPasses
<1> QED BY <1>1, <1>6, <1>13 DEF p, sid, mme

\* Whether the INSERT of a session meets the UNIQUE constraint.
Met(table, key, row) == \E i \in DOMAIN table : Clash(table[i], NewSession(key, row))

LEMMA OpenedRefused ==
    ASSUME NEW pass \in SoundPasses, NEW mid, NEW row, NEW key,
           Met(pass.table, key, row)
    PROVE  /\ Opened(pass, mid, row, key) \in SoundPasses
           /\ Opened(pass, mid, row, key).refused
<1>1. Opened(pass, mid, row, key) = [pass EXCEPT !.refused = TRUE]
  BY DEF Opened, Met
<1>2. [pass EXCEPT !.refused = TRUE] \in SoundPasses /\ [pass EXCEPT !.refused = TRUE].refused
  BY DEF SoundPasses, Passes
<1> QED BY <1>1, <1>2

\* The pass with the new session in its table.
Grown(pass, key, row) == [pass EXCEPT !.table = Append(@, NewSession(key, row))]

LEMMA GrownFacts ==
    ASSUME NEW pass \in Passes, NEW row \in Row, NEW key \in Key
    PROVE  /\ Grown(pass, key, row) \in Passes
           /\ Grown(pass, key, row).table = Append(pass.table, NewSession(key, row))
           /\ Grown(pass, key, row).open = pass.open
           /\ Grown(pass, key, row).states = pass.states
           /\ Grown(pass, key, row).owner = pass.owner
           /\ Grown(pass, key, row).alerts = pass.alerts
           /\ Grown(pass, key, row).refused = pass.refused
<1> DEFINE grown == Append(pass.table, NewSession(key, row))
<1>1. grown \in Seq(Session)
  BY NewSessionType, AppendFacts DEF Passes
<1>2. Grown(pass, key, row) = [pass EXCEPT !.table = grown]
  BY DEF Grown
<1> HIDE DEF grown
<1>3. LET g == [pass EXCEPT !.table = grown]
      IN  /\ g \in Passes
          /\ g.table = grown /\ g.open = pass.open /\ g.states = pass.states
          /\ g.owner = pass.owner /\ g.alerts = pass.alerts /\ g.refused = pass.refused
  BY <1>1 DEF Passes
<1> QED BY <1>2, <1>3 DEF grown

LEMMA OpenedFacts ==
    ASSUME NEW pass \in SoundPasses, NEW mid \in Nat, NEW row \in Row,
           NEW key \in Key, ~Met(pass.table, key, row)
    PROVE  /\ Opened(pass, mid, row, key) \in SoundPasses
           /\ PlacedAs(Opened(pass, mid, row, key), Grown(pass, key, row), mid, row,
                       key, Len(pass.table) + 1, row.mme, NoState)
<1> DEFINE p == Opened(pass, mid, row, key)
           sid == Len(pass.table) + 1
           larger == Grown(pass, key, row)
<1>1. /\ pass \in Passes
      /\ \A k \in DOMAIN pass.open : /\ pass.open[k].session \in DOMAIN pass.table
                                     /\ pass.open[k].session \in DOMAIN pass.states
      /\ \A m \in DOMAIN pass.owner : pass.owner[m] \in DOMAIN pass.table
  BY DEF SoundPasses
<1>2. pass.table \in Seq(Session) /\ sid \in Nat
  BY <1>1 DEF Passes
<1>3. p = Placed(larger, mid, row, key, sid, row.mme, NoState)
  BY DEF Opened, Met, Grown
<1>4. /\ larger \in Passes /\ larger.open = pass.open /\ larger.states = pass.states
      /\ larger.owner = pass.owner
      /\ DOMAIN larger.table = DOMAIN pass.table \cup {sid}
  BY <1>1, <1>2, GrownFacts, NewSessionType, AppendFacts
<1> HIDE DEF p, sid, larger
<1>5. row.mme \in Mme \cup {None}
  BY DEF Row
<1>6. PlacedAs(p, larger, mid, row, key, sid, row.mme, NoState)
  BY <1>3, <1>4, <1>5, NoStateType, PlacedFacts
<1>7. Entry(sid, row, row.mme).session = sid
  BY DEF Entry
<1>8. /\ DOMAIN p.open = DOMAIN pass.open \cup {key}
      /\ p.open[key] = Entry(sid, row, row.mme)
      /\ \A k \in DOMAIN pass.open \ {key} : p.open[k] = pass.open[k]
  BY <1>4, <1>6 DEF PlacedAs, Put
<1>9. DOMAIN p.states = DOMAIN pass.states \cup {sid}
  BY <1>4, <1>6 DEF PlacedAs, Put
<1>10. /\ DOMAIN p.owner = DOMAIN pass.owner \cup {mid}
       /\ p.owner[mid] = sid
       /\ \A m \in DOMAIN pass.owner \ {mid} : p.owner[m] = pass.owner[m]
  BY <1>4, <1>6 DEF PlacedAs, Put
<1>11. DOMAIN p.table = DOMAIN larger.table
  BY <1>6 DEF PlacedAs, Stamped
<1>12. p \in SoundPasses
  BY <1>1, <1>4, <1>6, <1>7, <1>8, <1>9, <1>10, <1>11 DEF PlacedAs, SoundPasses
<1> QED BY <1>6, <1>12 DEF p, sid, larger

\* A turn has one outcome, and it is a pass again.
LEMMA TurnIsOne ==
    ASSUME NEW pass \in SoundPasses, NEW mid \in Nat, NEW row \in Row
    PROVE  \E p \in SoundPasses : RowRead(pass, mid, row) = {p}
<1>1. CASE pass.refused \/ row.enb = None \/ Resolve(pass.open, row) = {}
  BY <1>1, TurnSkips
<1>2. CASE ~pass.refused /\ row.enb # None /\ Resolve(pass.open, row) # {}
  <2>1. PICK key : key \in Resolve(pass.open, row)
    BY <1>2
  <2>2. pass.open \in Dict(Key, OpenSession)
    BY DEF SoundPasses, Passes
  <2>3. key \in Key
    BY <1>2, <2>1, <2>2, DictFacts, ResolveInKey
  <2>4. RowRead(pass, mid, row) =
          {IF Reusable(pass.open, key, row) THEN Reused(pass, mid, row, key)
                                            ELSE Opened(pass, mid, row, key)}
    BY <1>2, <2>1, TurnPlaces
  <2>5. CASE Reusable(pass.open, key, row)
    <3>1. key \in DOMAIN pass.open
      BY <2>5 DEF Reusable
    <3>2. Reused(pass, mid, row, key) \in SoundPasses
      BY <2>3, <3>1, ReusedFacts
    <3> QED BY <2>4, <2>5, <3>2
  <2>6. CASE ~Reusable(pass.open, key, row)
    <3>1. Opened(pass, mid, row, key) \in SoundPasses
      BY <2>3, OpenedFacts, OpenedRefused
    <3> QED BY <2>4, <2>6, <3>1
  <2> QED BY <2>5, <2>6
<1> QED BY <1>1, <1>2

-----------------------------------------------------------------------------
(* The passes after each row.                                              *)

\* The row that turn i reads.
Taken(table, rowIds, i) == Ordered(table, rowIds)[i]

LEMMA NoProgressSound ==
    ASSUME NEW found \in Seq(Session) PROVE NoProgress(found) \in SoundPasses
<1>1. <<>> \in Dict(Key, OpenSession) /\ <<>> \in Dict(Nat, RuleState) /\ <<>> \in Dict(Nat, Nat)
  <2>1. ASSUME NEW K, NEW V PROVE <<>> \in Dict(K, V)
    <3>1. <<>> \in [{} -> V]
      OBVIOUS
    <3> QED BY <3>1 DEF Dict
  <2> QED BY <2>1
<1>2. <<>> \in Seq(Alert)
  OBVIOUS
<1>3. NoProgress(found) \in Passes
  BY <1>1, <1>2 DEF NoProgress, Passes
<1> QED BY <1>3 DEF NoProgress, SoundPasses

\* f has a pass for every row: the recursion by which Turns is defined.
AreTurns(f, table, rowIds, found) ==
    /\ f[0] = {NoProgress(found)}
    /\ \A i \in 0 .. Cardinality(rowIds) : \E p \in SoundPasses : f[i] = {p}
    /\ \A i \in 1 .. Cardinality(rowIds) : \A p : f[i - 1] = {p} =>
          f[i] = RowRead(p, Taken(table, rowIds, i), table[Taken(table, rowIds, i)])

LEMMA TurnsFacts ==
    ASSUME NEW table \in Seq(Row), NEW rowIds \in SUBSET DOMAIN table,
           NEW found \in Seq(Session)
    PROVE  AreTurns(Turns(table, rowIds, found), table, rowIds, found)
<1> DEFINE N == Cardinality(rowIds)
           order == Ordered(table, rowIds)
           V == {{p} : p \in SoundPasses}
           step == [i \in 1 .. N |->
                      [P \in V |-> UNION {RowRead(pass, order[i], table[order[i]]) : pass \in P}]]
           Is(g) == g = [i \in 0 .. N |->
                           IF i = 0 THEN {NoProgress(found)}
                           ELSE UNION {RowRead(pass, order[i], table[order[i]]) : pass \in g[i - 1]}]
           f == CHOOSE g : Is(g)
<1>1. N \in Nat
  BY FiniteIds
<1>2. \A i \in 1 .. N : order[i] \in Nat /\ table[order[i]] \in Row
  BY OrderedFacts
<1>3. ASSUME NEW i \in 1 .. N, NEW p \in SoundPasses
      PROVE  /\ step[i][{p}] = RowRead(p, order[i], table[order[i]])
             /\ step[i][{p}] \in V
  <2>1. {p} \in V
    OBVIOUS
  <2>2. UNION {RowRead(pass, order[i], table[order[i]]) : pass \in {p}}
          = RowRead(p, order[i], table[order[i]])
    OBVIOUS
  <2>3. \E q \in SoundPasses : RowRead(p, order[i], table[order[i]]) = {q}
    BY <1>2, TurnIsOne
  <2> HIDE DEF order
  <2>4. RowRead(p, order[i], table[order[i]]) \in V
    BY <2>3
  <2>5. step[i][{p}] = UNION {RowRead(pass, order[i], table[order[i]]) : pass \in {p}}
    BY <2>1
  <2> QED BY <2>2, <2>4, <2>5
<1>4. step \in [1 .. N -> [V -> V]]
  <2>1. ASSUME NEW i \in 1 .. N, NEW P \in V
        PROVE  UNION {RowRead(pass, order[i], table[order[i]]) : pass \in P} \in V
    <3>1. PICK p \in SoundPasses : P = {p}
      OBVIOUS
    <3>2. step[i][P] = UNION {RowRead(pass, order[i], table[order[i]]) : pass \in P}
      OBVIOUS
    <3> QED BY <1>3, <3>1, <3>2
  <2> QED BY <2>1
<1>5. {NoProgress(found)} \in V
  BY NoProgressSound
<1>6. PICK g : Iterates(g, V, N, {NoProgress(found)}, step)
  <2> HIDE DEF step, V, N
  <2> QED BY <1>1, <1>4, <1>5, Iterated
<1>7. Is(g)
  <2>1. ASSUME NEW i \in 0 .. N
        PROVE  g[i] = IF i = 0 THEN {NoProgress(found)}
                      ELSE UNION {RowRead(pass, order[i], table[order[i]]) : pass \in g[i - 1]}
    <3>1. CASE i = 0
      BY <1>6, <3>1 DEF Iterates
    <3>2. CASE i # 0
      <4>1. i \in 1 .. N /\ i - 1 \in 0 .. N
        BY <1>1, <3>2
      <4>2. g[i] = step[i][g[i - 1]] /\ g[i - 1] \in V
        <5> HIDE DEF step, V
        <5> QED BY <1>6, <4>1 DEF Iterates
      <4>3. step[i][g[i - 1]] = UNION {RowRead(pass, order[i], table[order[i]]) : pass \in g[i - 1]}
        BY <4>1, <4>2
      <4> QED BY <3>2, <4>2, <4>3
    <3> QED BY <3>1, <3>2
  <2>2. g \in [0 .. N -> V]
    BY <1>6 DEF Iterates
  <2> HIDE DEF order, V, N
  <2> QED BY <2>1, <2>2
<1>8. Is(f)
  <2> HIDE DEF Is
  <2> QED BY <1>7
<1>9. Turns(table, rowIds, found) = f
  BY DEF Turns
<1> HIDE DEF f
<1>10. f[0] = {NoProgress(found)}
  BY <1>1, <1>8
<1>11. ASSUME NEW i \in 1 .. N, NEW p, f[i - 1] = {p}
       PROVE  f[i] = RowRead(p, order[i], table[order[i]])
  <2>1. i \in 0 .. N /\ i # 0
    BY <1>1
  <2> HIDE DEF order
  <2>2. f[i] = UNION {RowRead(pass, order[i], table[order[i]]) : pass \in f[i - 1]}
    BY <1>8, <2>1
  <2> QED BY <1>11, <2>2
<1>12. \A i \in 0 .. N : \E p \in SoundPasses : f[i] = {p}
  <2> DEFINE S == {i \in Nat : i <= N => \E p \in SoundPasses : f[i] = {p}}
  <2>1. 0 \in S
    BY <1>10, NoProgressSound
  <2>2. ASSUME NEW n \in Nat, n \in S PROVE n + 1 \in S
    <3>1. SUFFICES ASSUME n + 1 <= N PROVE \E p \in SoundPasses : f[n + 1] = {p}
      OBVIOUS
    <3>2. n + 1 \in 1 .. N /\ (n + 1) - 1 = n /\ n <= N
      BY <1>1, <3>1
    <3>3. PICK p \in SoundPasses : f[n] = {p}
      BY <2>2, <3>2
    <3>4. f[n + 1] = RowRead(p, order[n + 1], table[order[n + 1]])
      BY <1>11, <3>2, <3>3
    <3>5. order[n + 1] \in Nat /\ table[order[n + 1]] \in Row
      BY <1>2, <3>2
    <3>6. \A m \in Nat, row \in Row : \E q \in SoundPasses : RowRead(p, m, row) = {q}
      BY TurnIsOne
    <3> HIDE DEF order
    <3> QED BY <3>4, <3>5, <3>6
  <2> HIDE DEF S
  <2>3. \A n \in Nat : n \in S
    BY <2>1, <2>2, Induction
  <2> QED BY <1>1, <2>3 DEF S
<1> HIDE DEF order
<1>13. \A i \in 1 .. N : Taken(table, rowIds, i) = order[i]
  BY DEF Taken, order
<1> QED BY <1>1, <1>9, <1>10, <1>11, <1>12, <1>13 DEF AreTurns

\* A pass that was refused ends refused.
LEMMA RefusedStays ==
    ASSUME NEW table \in Seq(Row), NEW rowIds \in SUBSET DOMAIN table,
           NEW found \in Seq(Session), NEW i \in 0 .. Cardinality(rowIds),
           NEW p, Turns(table, rowIds, found)[i] = {p}, p.refused
    PROVE  Turns(table, rowIds, found)[Cardinality(rowIds)] = {p}
<1> DEFINE N == Cardinality(rowIds)
           f == Turns(table, rowIds, found)
           S == {n \in Nat : i <= n /\ n <= N => f[n] = {p}}
<1>1. N \in Nat
  BY FiniteIds
<1>2. \A n \in 1 .. N : f[n - 1] = {p} => f[n] = {p}
  <2>1. ASSUME NEW n \in 1 .. N, f[n - 1] = {p} PROVE f[n] = {p}
    <3>1. AreTurns(f, table, rowIds, found)
      BY TurnsFacts
    <3>2. f[n] = RowRead(p, Taken(table, rowIds, n), table[Taken(table, rowIds, n)])
      BY <2>1, <3>1 DEF AreTurns
    <3> QED BY <3>2, TurnSkips
  <2> QED BY <2>1
<1> HIDE DEF f, N
<1>3. 0 \in S
  BY <1>1 DEF f, N
<1>4. ASSUME NEW n \in Nat, n \in S PROVE n + 1 \in S
  <2>1. SUFFICES ASSUME i <= n + 1, n + 1 <= N PROVE f[n + 1] = {p}
    OBVIOUS
  <2>2. CASE i = n + 1
    BY <2>2 DEF f
  <2>3. CASE i # n + 1
    <3>1. i \in 0 .. N
      BY DEF N
    <3>2. i <= n /\ n <= N /\ n + 1 \in 1 .. N /\ (n + 1) - 1 = n
      BY <1>1, <2>1, <2>3, <3>1
    <3>3. f[n] = {p}
      BY <1>4, <3>2
    <3> QED BY <1>2, <3>2, <3>3
  <2> QED BY <2>2, <2>3
<1> HIDE DEF S
<1>5. N \in S
  BY <1>1, <1>3, <1>4, Induction
<1>6. i \in 0 .. N
  BY DEF N
<1> QED BY <1>1, <1>5, <1>6 DEF S, f, N

\* Rows that are added to the table later change nothing for a pass.
LEMMA TurnsKept ==
    ASSUME NEW table \in Seq(Row), NEW longer \in Seq(Row),
           NEW rowIds \in SUBSET DOMAIN table, DOMAIN table \subseteq DOMAIN longer,
           \A m \in rowIds : longer[m] = table[m],
           NEW found \in Seq(Session), NEW i \in 0 .. Cardinality(rowIds)
    PROVE  Turns(longer, rowIds, found)[i] = Turns(table, rowIds, found)[i]
<1> DEFINE N == Cardinality(rowIds)
           f == Turns(table, rowIds, found)
           g == Turns(longer, rowIds, found)
           S == {n \in Nat : n <= N => g[n] = f[n]}
<1>1. N \in Nat /\ rowIds \in SUBSET DOMAIN longer
  BY FiniteIds
<1>2. ASSUME NEW k \in 1 .. N
      PROVE  /\ Taken(longer, rowIds, k) = Taken(table, rowIds, k)
             /\ Taken(table, rowIds, k) \in rowIds
  <2> DEFINE m == Taken(table, rowIds, k)
  <2>1. m \in rowIds /\ Rank(table, rowIds, m) = k - 1
    BY OrderedFacts DEF Taken
  <2>2. Earlier(longer, rowIds, m) = Earlier(table, rowIds, m)
    BY <2>1 DEF Earlier, Before
  <2>3. Rank(longer, rowIds, m) = k - 1
    BY <2>1, <2>2 DEF Rank
  <2> HIDE DEF m
  <2>4. Ordered(longer, rowIds)[Rank(longer, rowIds, m) + 1] = m
    BY <1>1, <2>1, OrderedAt
  <2>5. (k - 1) + 1 = k
    OBVIOUS
  <2>6. Ordered(longer, rowIds)[k] = m
    BY <2>3, <2>4, <2>5
  <2> QED BY <2>1, <2>6 DEF Taken, m
<1>0. AreTurns(f, table, rowIds, found) /\ AreTurns(g, longer, rowIds, found)
  BY <1>1, TurnsFacts
<1>3. /\ f[0] = {NoProgress(found)} /\ g[0] = {NoProgress(found)}
      /\ \A k \in 0 .. N : \E p \in SoundPasses : f[k] = {p}
  BY <1>0 DEF AreTurns
<1>4. ASSUME NEW k \in 1 .. N, NEW p, f[k - 1] = {p}, g[k - 1] = {p}
      PROVE  g[k] = f[k]
  <2>1. f[k] = RowRead(p, Taken(table, rowIds, k), table[Taken(table, rowIds, k)])
    BY <1>0, <1>4 DEF AreTurns
  <2>2. g[k] = RowRead(p, Taken(longer, rowIds, k), longer[Taken(longer, rowIds, k)])
    BY <1>0, <1>4 DEF AreTurns
  <2>3. /\ Taken(longer, rowIds, k) = Taken(table, rowIds, k)
        /\ longer[Taken(table, rowIds, k)] = table[Taken(table, rowIds, k)]
    BY <1>2
  <2> QED BY <2>1, <2>2, <2>3
<1> HIDE DEF f, g, N
<1>5. 0 \in S
  BY <1>3
<1>6. ASSUME NEW n \in Nat, n \in S PROVE n + 1 \in S
  <2>1. SUFFICES ASSUME n + 1 <= N PROVE g[n + 1] = f[n + 1]
    OBVIOUS
  <2>2. n \in 0 .. N /\ n + 1 \in 1 .. N /\ (n + 1) - 1 = n /\ n <= N
    BY <1>1, <2>1
  <2>3. PICK p \in SoundPasses : f[n] = {p}
    BY <1>3, <2>2
  <2>4. g[n] = {p}
    BY <1>6, <2>2, <2>3
  <2> QED BY <1>4, <2>2, <2>3, <2>4
<1> HIDE DEF S
<1>7. \A n \in Nat : n \in S
  BY <1>5, <1>6, Induction
<1>8. i \in 0 .. N
  BY DEF N
<1>9. i \in Nat /\ i <= N
  BY <1>1, <1>8
<1> QED BY <1>7, <1>9 DEF S, f, g

-----------------------------------------------------------------------------
(* One message and one session: what the rules add.                        *)

\* A rule that has spoken about an open session is marked in its state.
Spoken(st, rule) ==
    IF rule = "imsi_cleartext_attach" THEN st.imsiFired ELSE st.akaFired

LEMMA OneFacts ==
    ASSUME NEW S, NEW a \in S, NEW s, s = <<a>> \o <<>> \/ s = <<>> \o <<a>>
    PROVE  DOMAIN s = {1} /\ s[1] = a
<1>1. s = <<a>>
  OBVIOUS
<1> QED BY <1>1

LEMMA TwoFacts ==
    ASSUME NEW S, NEW a \in S, NEW b \in S, NEW s, s = <<a>> \o <<b>>
    PROVE  DOMAIN s = {1, 2} /\ s[1] = a /\ s[2] = b
OBVIOUS

ImsiAlert(sid, mid) ==
    [session |-> sid, trigger |-> mid, kind |-> "imsi", severity |-> 5]

AkaAlert(sid, st, mid) ==
    [session |-> sid, trigger |-> AkaTrigger(st, mid), kind |-> AkaKind(st), severity |-> 8]

\* The alerts of one message, one by one.
LEMMA AlertsShape ==
    ASSUME NEW sid \in Nat, NEW st \in RuleState, NEW mid \in Nat, NEW row \in Row,
           NEW out, out = AlertsOf(sid, st, mid, row)
    PROVE  /\ \A i \in DOMAIN out :
                 \/ ImsiFires(st, row) /\ i = 1 /\ out[i] = ImsiAlert(sid, mid)
                 \/ /\ AkaFires(st, row)
                    /\ i = (IF ImsiFires(st, row) THEN 2 ELSE 1)
                    /\ out[i] = AkaAlert(sid, st, mid)
           /\ ImsiFires(st, row) => \E i \in DOMAIN out : out[i] = ImsiAlert(sid, mid)
           /\ AkaFires(st, row) => \E i \in DOMAIN out : out[i] = AkaAlert(sid, st, mid)
<1> DEFINE a == ImsiAlert(sid, mid)
           b == AkaAlert(sid, st, mid)
<1>1. /\ out = (IF ImsiFires(st, row) THEN <<a>> ELSE <<>>)
               \o (IF AkaFires(st, row) THEN <<b>> ELSE <<>>)
      /\ ImsiFires(st, row) \in BOOLEAN /\ AkaFires(st, row) \in BOOLEAN
  BY DEF AlertsOf, ImsiFires, AkaFires, ImsiAlert, AkaAlert
<1> HIDE DEF a, b
<1>2. /\ \A i \in DOMAIN out :
            \/ ImsiFires(st, row) /\ i = 1 /\ out[i] = a
            \/ AkaFires(st, row) /\ i = (IF ImsiFires(st, row) THEN 2 ELSE 1) /\ out[i] = b
      /\ ImsiFires(st, row) => \E i \in DOMAIN out : out[i] = a
      /\ AkaFires(st, row) => \E i \in DOMAIN out : out[i] = b
  <2> DEFINE S == {a, b}
  <2>1. a \in S /\ b \in S
    OBVIOUS
  <2> HIDE DEF S
  <2>2. CASE ImsiFires(st, row) /\ AkaFires(st, row)
    <3>1. out = <<a>> \o <<b>>
      BY <1>1, <2>2
    <3>2. DOMAIN out = {1, 2} /\ out[1] = a /\ out[2] = b
      BY <2>1, <3>1, TwoFacts
    <3> QED BY <2>2, <3>2
  <2>3. CASE ImsiFires(st, row) /\ ~AkaFires(st, row)
    <3>1. out = <<a>> \o <<>>
      BY <1>1, <2>3
    <3>2. DOMAIN out = {1} /\ out[1] = a
      BY <2>1, <3>1, OneFacts
    <3> QED BY <2>3, <3>2
  <2>4. CASE ~ImsiFires(st, row) /\ AkaFires(st, row)
    <3>1. out = <<>> \o <<b>>
      BY <1>1, <2>4
    <3>2. DOMAIN out = {1} /\ out[1] = b
      BY <2>1, <3>1, OneFacts
    <3> QED BY <2>4, <3>2
  <2>5. CASE ~ImsiFires(st, row) /\ ~AkaFires(st, row)
    <3>1. out = <<>>
      BY <1>1, <2>5
    <3> QED BY <2>5, <3>1
  <2> QED BY <2>2, <2>3, <2>4, <2>5
<1> QED BY <1>2 DEF a, b

\* The alerts of one message: at most one of each rule, each from a rule that
\* had not spoken and now has, triggered by this message or the held failure.
LEMMA AlertsFacts ==
    ASSUME NEW sid \in Nat, NEW st \in RuleState, NEW mid \in Nat, NEW row \in Row
    PROVE  LET out == AlertsOf(sid, st, mid, row)
               now == ObserveAll(st, mid, row)
           IN  /\ \A i \in DOMAIN out :
                     /\ out[i].session = sid
                     /\ \/ out[i].trigger = mid
                        \/ st.authFailure # None /\ out[i].trigger = st.authFailure
                     /\ ~Spoken(st, RuleOf(out[i].kind))
                     /\ Spoken(now, RuleOf(out[i].kind))
               /\ \A i, j \in DOMAIN out :
                     i # j => RuleOf(out[i].kind) # RuleOf(out[j].kind)
               /\ st.imsiFired => now.imsiFired
               /\ st.akaFired => now.akaFired
               /\ now.authFailure = st.authFailure \/ now.authFailure = None
                  \/ now.authFailure = mid
<1> DEFINE now == ObserveAll(st, mid, row)
           a == ImsiAlert(sid, mid)
           b == AkaAlert(sid, st, mid)
           out == AlertsOf(sid, st, mid, row)
<1>1. /\ now.imsiFired <=> (st.imsiFired \/ row.type = "AttachRequest")
      /\ now.akaFired <=> (st.akaFired \/ AkaFires(st, row))
      /\ now.authFailure = AkaFailure(st, mid, row)
  BY DEF ObserveAll, AkaObserve, ImsiObserve, AkaFires, AkaJudges, AkaFailure,
         RuleState
<1>2. /\ a.session = sid /\ a.trigger = mid /\ a.kind = "imsi"
      /\ b.session = sid /\ b.kind = AkaKind(st) /\ b.trigger = AkaTrigger(st, mid)
  BY DEF ImsiAlert, AkaAlert
<1>3. /\ RuleOf(a.kind) = "imsi_cleartext_attach"
      /\ RuleOf(b.kind) = "aka_skipped_or_failed"
  BY DEF RuleOf, AkaKind, ImsiAlert, AkaAlert
<1>4. \/ b.trigger = mid
      \/ st.authFailure # None /\ b.trigger = st.authFailure
  BY <1>2 DEF AkaTrigger, AkaKind
<1>5. /\ ImsiFires(st, row) =>
            ~Spoken(st, RuleOf(a.kind)) /\ Spoken(now, RuleOf(a.kind))
      /\ AkaFires(st, row) =>
            ~Spoken(st, RuleOf(b.kind)) /\ Spoken(now, RuleOf(b.kind))
  BY <1>1, <1>3 DEF Spoken, ImsiFires, AkaFires, AkaJudges
<1>7. \A i \in DOMAIN out :
        \/ ImsiFires(st, row) /\ i = 1 /\ out[i] = a
        \/ AkaFires(st, row) /\ i = (IF ImsiFires(st, row) THEN 2 ELSE 1) /\ out[i] = b
  BY AlertsShape
<1> HIDE DEF a, b, out, now
<1>8. \A i \in DOMAIN out :
        /\ out[i].session = sid
        /\ \/ out[i].trigger = mid
           \/ st.authFailure # None /\ out[i].trigger = st.authFailure
        /\ ~Spoken(st, RuleOf(out[i].kind))
        /\ Spoken(now, RuleOf(out[i].kind))
  BY <1>2, <1>4, <1>5, <1>7
<1>9. \A i, j \in DOMAIN out : i # j => RuleOf(out[i].kind) # RuleOf(out[j].kind)
  BY <1>3, <1>7
<1>10. /\ st.imsiFired => now.imsiFired
       /\ st.akaFired => now.akaFired
       /\ now.authFailure = st.authFailure \/ now.authFailure = None
          \/ now.authFailure = mid
  BY <1>1 DEF AkaFailure
<1> QED BY <1>8, <1>9, <1>10 DEF out, now

LEMMA PrefixFacts ==
    ASSUME NEW S, NEW s \in Seq(S), NEW t \in Seq(S),
           DOMAIN s \subseteq DOMAIN t, \A i \in DOMAIN s : t[i] = s[i]
    PROVE  IsPrefix(s, t)
<1>1. /\ Len(s) \in Nat /\ Len(t) \in Nat
      /\ DOMAIN s = 1 .. Len(s) /\ DOMAIN t = 1 .. Len(t)
  OBVIOUS
<1>2. Len(s) <= Len(t)
  BY <1>1
<1>3. SubSeq(s, 1, Len(s)) = SubSeq(t, 1, Len(s))
  BY <1>1, <1>2
<1> QED BY <1>2, <1>3 DEF IsPrefix

-----------------------------------------------------------------------------
(* What a pass has to publish when it is not lost.                         *)

\* The sessions it has opened, in a table that began as found.
Fresh(p, found) == DOMAIN p.table \ DOMAIN found

\* The sessions that were there are left alone, and the rows of mids that the
\* pass assigned are in sessions of its own and of their eNB-UE id.
Kept(p, table, mids, found) ==
    /\ DOMAIN p.owner \subseteq mids
    /\ DOMAIN found \subseteq DOMAIN p.table
    /\ \A i \in DOMAIN found : p.table[i] = found[i]
    /\ \A m \in DOMAIN p.owner :
          /\ p.owner[m] \in Fresh(p, found)
          /\ p.table[p.owner[m]].enb = table[m].enb
    /\ \A k \in DOMAIN p.open :
          /\ p.open[k].session \in Fresh(p, found)
          /\ p.table[p.open[k].session].enb = k.enb

\* Session sid starts at its first message and ends at its last.
Spanned(p, table, sid) ==
    /\ \E m \in DOMAIN p.owner : p.owner[m] = sid /\ table[m].ts = p.table[sid].startedAt
    /\ \E m \in DOMAIN p.owner : p.owner[m] = sid /\ table[m].ts = p.table[sid].endedAt
    /\ \A m \in DOMAIN p.owner :
          p.owner[m] = sid => /\ p.table[sid].startedAt <= table[m].ts
                              /\ table[m].ts <= p.table[sid].endedAt

Apart(p, found) ==
    \A i \in Fresh(p, found) : \A j \in DOMAIN p.table \ {i} :
        ~Clash(p.table[i], p.table[j])

\* A rule speaks once about a session, of a message that the session has, and
\* a failure that is held is such a message.
Alerted(p) ==
    /\ \A i \in DOMAIN p.alerts :
          /\ p.alerts[i].trigger \in DOMAIN p.owner
          /\ p.owner[p.alerts[i].trigger] = p.alerts[i].session
          /\ p.alerts[i].session \in DOMAIN p.states =>
                Spoken(p.states[p.alerts[i].session], RuleOf(p.alerts[i].kind))
    /\ \A i, j \in DOMAIN p.alerts :
          i # j /\ p.alerts[i].session = p.alerts[j].session =>
              RuleOf(p.alerts[i].kind) # RuleOf(p.alerts[j].kind)
    /\ \A sid \in DOMAIN p.states :
          p.states[sid].authFailure # None =>
              /\ p.states[sid].authFailure \in DOMAIN p.owner
              /\ p.owner[p.states[sid].authFailure] = sid

Whole(p, table, mids, found) ==
    /\ Kept(p, table, mids, found)
    /\ \A sid \in Fresh(p, found) : Spanned(p, table, sid)
    /\ Apart(p, found)
    /\ Alerted(p)

LEMMA AlertsPlaced ==
    ASSUME NEW pass \in Passes, Alerted(pass), NEW mid \in Nat, NEW row \in Row,
           NEW key, NEW sid \in Nat, NEW mme, NEW st \in RuleState,
           NEW q, PlacedAs(q, pass, mid, row, key, sid, mme, st),
           mid \notin DOMAIN pass.owner,
           \A i \in DOMAIN pass.alerts :
               pass.alerts[i].session = sid => Spoken(st, RuleOf(pass.alerts[i].kind)),
           st.authFailure # None =>
               /\ st.authFailure \in DOMAIN pass.owner
               /\ pass.owner[st.authFailure] = sid
    PROVE  Alerted(q)
<1> DEFINE out == AlertsOf(sid, st, mid, row)
           now == ObserveAll(st, mid, row)
           said == pass.alerts
<1>1. said \in Seq(Alert) /\ out \in Seq(Alert)
  BY AlertsType DEF Passes
<1>2. /\ \A i \in DOMAIN out :
            /\ out[i].session = sid
            /\ \/ out[i].trigger = mid
               \/ st.authFailure # None /\ out[i].trigger = st.authFailure
            /\ ~Spoken(st, RuleOf(out[i].kind))
            /\ Spoken(now, RuleOf(out[i].kind))
      /\ \A i, j \in DOMAIN out : i # j => RuleOf(out[i].kind) # RuleOf(out[j].kind)
      /\ st.imsiFired => now.imsiFired
      /\ st.akaFired => now.akaFired
      /\ now.authFailure = st.authFailure \/ now.authFailure = None
         \/ now.authFailure = mid
  BY AlertsFacts
<1>3. \A rule : Spoken(st, rule) => Spoken(now, rule)
  BY <1>2 DEF Spoken
<1> HIDE DEF out, now
<1>4. /\ DOMAIN q.owner = DOMAIN pass.owner \cup {mid}
      /\ q.owner[mid] = sid
      /\ \A m \in DOMAIN pass.owner : q.owner[m] = pass.owner[m]
      /\ DOMAIN q.states = DOMAIN pass.states \cup {sid}
      /\ q.states[sid] = now
      /\ \A s \in DOMAIN pass.states \ {sid} : q.states[s] = pass.states[s]
  BY DEF PlacedAs, Put, now
<1>5. /\ q.alerts = said \o out
      /\ \A i \in DOMAIN said : i \in DOMAIN q.alerts /\ q.alerts[i] = said[i]
      /\ \A i \in DOMAIN q.alerts \ DOMAIN said :
            i - Len(said) \in DOMAIN out /\ q.alerts[i] = out[i - Len(said)]
      /\ \A i \in DOMAIN q.alerts : i \in Int
  <2>1. q.alerts = said \o out
    BY DEF PlacedAs, out
  <2>2. /\ DOMAIN (said \o out) = 1 .. (Len(said) + Len(out))
        /\ \A i \in DOMAIN said : i \in DOMAIN (said \o out) /\ (said \o out)[i] = said[i]
        /\ \A i \in DOMAIN (said \o out) \ DOMAIN said :
              i - Len(said) \in DOMAIN out /\ (said \o out)[i] = out[i - Len(said)]
    BY <1>1, ConcatFacts
  <2>3. \A i \in DOMAIN (said \o out) : i \in Int
    BY <2>2
  <2> QED BY <2>1, <2>2, <2>3
<1>6. ASSUME NEW i \in DOMAIN q.alerts
      PROVE  /\ q.alerts[i].trigger \in DOMAIN q.owner
             /\ q.owner[q.alerts[i].trigger] = q.alerts[i].session
             /\ q.alerts[i].session \in DOMAIN q.states =>
                   Spoken(q.states[q.alerts[i].session], RuleOf(q.alerts[i].kind))
  <2>1. CASE i \in DOMAIN said
    <3>1. /\ said[i].trigger \in DOMAIN pass.owner
          /\ pass.owner[said[i].trigger] = said[i].session
          /\ said[i].session \in DOMAIN pass.states =>
                Spoken(pass.states[said[i].session], RuleOf(said[i].kind))
      BY <2>1 DEF Alerted
    <3>2. CASE said[i].session = sid
      BY <1>3, <1>4, <1>5, <2>1, <3>1, <3>2
    <3>3. CASE said[i].session # sid
      BY <1>4, <1>5, <2>1, <3>1, <3>3
    <3> QED BY <3>2, <3>3
  <2>2. CASE i \notin DOMAIN said
    <3>1. PICK j \in DOMAIN out : q.alerts[i] = out[j]
      BY <1>5, <2>2
    <3> QED BY <1>2, <1>4, <3>1
  <2> QED BY <2>1, <2>2
<1>7. ASSUME NEW i \in DOMAIN q.alerts, NEW j \in DOMAIN q.alerts, i # j,
             q.alerts[i].session = q.alerts[j].session
      PROVE  RuleOf(q.alerts[i].kind) # RuleOf(q.alerts[j].kind)
  <2>1. CASE i \in DOMAIN said /\ j \in DOMAIN said
    BY <1>5, <1>7, <2>1 DEF Alerted
  <2>2. CASE i \in DOMAIN said /\ j \notin DOMAIN said
    BY <1>2, <1>5, <1>7, <2>2
  <2>3. CASE i \notin DOMAIN said /\ j \in DOMAIN said
    BY <1>2, <1>5, <1>7, <2>3
  <2>4. CASE i \notin DOMAIN said /\ j \notin DOMAIN said
    <3>1. i - Len(said) # j - Len(said)
      BY <1>1, <1>5, <1>7
    <3> QED BY <1>2, <1>5, <2>4, <3>1
  <2> QED BY <2>1, <2>2, <2>3, <2>4
<1>8. ASSUME NEW s \in DOMAIN q.states, q.states[s].authFailure # None
      PROVE  /\ q.states[s].authFailure \in DOMAIN q.owner
             /\ q.owner[q.states[s].authFailure] = s
  <2>1. CASE s = sid
    BY <1>2, <1>4, <1>8, <2>1
  <2>2. CASE s # sid
    <3>1. s \in DOMAIN pass.states /\ q.states[s] = pass.states[s]
      BY <1>4, <2>2
    <3> QED BY <1>4, <1>8, <3>1 DEF Alerted
  <2> QED BY <2>1, <2>2
<1> QED BY <1>6, <1>7, <1>8 DEF Alerted

LEMMA ReusedWhole ==
    ASSUME NEW table \in Seq(Row), NEW mids \in SUBSET DOMAIN table, NEW found,
           NEW p \in SoundPasses, Whole(p, table, mids, found),
           NEW mid \in DOMAIN table \ mids,
           \A m \in mids : table[m].ts <= table[mid].ts,
           NEW key \in Key, key \in DOMAIN p.open, key.enb = table[mid].enb
    PROVE  Whole(Reused(p, mid, table[mid], key), table, mids \cup {mid}, found)
<1> DEFINE row == table[mid]
           sid == p.open[key].session
           q == Reused(p, mid, row, key)
           st == p.states[sid]
           mme == Latch(p.open[key].mme, row)
<1>1. mid \in Nat /\ row \in Row /\ row.ts \in Nat /\ row.ts <= row.ts
  <2>1. mid \in DOMAIN table
    OBVIOUS
  <2>2. mid \in Nat /\ row \in Row
    BY <2>1
  <2>3. row.ts \in Nat
    BY <2>2 DEF Row
  <2> QED BY <2>2, <2>3
<1>2. /\ p \in Passes /\ p.table \in Seq(Session)
      /\ sid \in DOMAIN p.table /\ sid \in DOMAIN p.states
  BY DEF SoundPasses, Passes
<1>3. PlacedAs(q, p, mid, row, key, sid, mme, st)
  BY <1>1, ReusedFacts
<1> HIDE DEF q, mme
<1>4. sid \in Nat /\ st \in RuleState
  BY <1>2, DictFacts DEF Passes
<1>5. sid \in Fresh(p, found) /\ p.table[sid].enb = row.enb /\ mid \notin DOMAIN p.owner
  BY DEF Whole, Kept
<1>6. Alerted(q)
  <2>1. st.authFailure # None =>
           st.authFailure \in DOMAIN p.owner /\ p.owner[st.authFailure] = sid
    BY <1>2 DEF Whole, Alerted
  <2>2. \A i \in DOMAIN p.alerts :
           p.alerts[i].session = sid => Spoken(st, RuleOf(p.alerts[i].kind))
    BY <1>2 DEF Whole, Alerted
  <2>3. Alerted(p)
    BY DEF Whole
  <2> HIDE DEF sid, st, row
  <2> QED BY <1>1, <1>2, <1>3, <1>4, <1>5, <2>1, <2>2, <2>3, AlertsPlaced
<1> HIDE DEF st
<1>7. /\ DOMAIN q.owner = DOMAIN p.owner \cup {mid} /\ q.owner[mid] = sid
      /\ \A m \in DOMAIN p.owner : q.owner[m] = p.owner[m]
  BY <1>3, <1>5 DEF PlacedAs, Put
<1>8. /\ DOMAIN q.table = DOMAIN p.table
      /\ \A i \in DOMAIN p.table \ {sid} : q.table[i] = p.table[i]
      /\ q.table[sid] = [p.table[sid] EXCEPT !.endedAt = row.ts]
  BY <1>1, <1>2, <1>3, EndsAt DEF PlacedAs
<1>9. /\ q.table[sid].enb = p.table[sid].enb /\ q.table[sid].cell = p.table[sid].cell
      /\ q.table[sid].startedAt = p.table[sid].startedAt /\ q.table[sid].endedAt = row.ts
  <2>1. p.table[sid] \in Session
    BY <1>2
  <2> QED BY <1>8, <2>1 DEF Session
<1>10. /\ DOMAIN q.open = DOMAIN p.open \cup {key} /\ q.open[key].session = sid
       /\ \A k \in DOMAIN p.open \ {key} : q.open[k] = p.open[k]
  BY <1>3 DEF PlacedAs, Put, Entry
<1> HIDE DEF sid
<1>11. Fresh(q, found) = Fresh(p, found)
  BY <1>8 DEF Fresh
<1>12. Kept(q, table, mids \cup {mid}, found)
  <2>1. DOMAIN q.owner \subseteq mids \cup {mid}
    BY <1>7 DEF Whole, Kept
  <2>2. \A i \in DOMAIN found : i \in DOMAIN q.table /\ q.table[i] = found[i]
    BY <1>5, <1>8 DEF Whole, Kept, Fresh
  <2>3. \A i \in DOMAIN p.table : q.table[i].enb = p.table[i].enb
    BY <1>8, <1>9
  <2>4. \A m \in DOMAIN q.owner :
           q.owner[m] \in Fresh(p, found) /\ q.table[q.owner[m]].enb = table[m].enb
    BY <1>5, <1>7, <2>3 DEF Whole, Kept, Fresh
  <2>5. \A k \in DOMAIN q.open :
           q.open[k].session \in Fresh(p, found) /\ q.table[q.open[k].session].enb = k.enb
    BY <1>5, <1>10, <2>3 DEF Whole, Kept, Fresh
  <2> QED BY <1>11, <2>1, <2>2, <2>4, <2>5 DEF Kept
<1>13. ASSUME NEW s \in Fresh(q, found) PROVE Spanned(q, table, s)
  <2>1. Spanned(p, table, s) /\ s \in DOMAIN p.table
    BY <1>11 DEF Whole, Fresh
  <2>2. CASE s # sid
    BY <1>7, <1>8, <2>1, <2>2 DEF Spanned
  <2>3. CASE s = sid
    <3>1. PICK first \in DOMAIN p.owner :
            p.owner[first] = s /\ table[first].ts = p.table[s].startedAt
      BY <2>1 DEF Spanned
    <3>2. \A m \in DOMAIN p.owner : table[m].ts <= row.ts
      BY DEF Whole, Kept
    <3>3. p.table[s].startedAt <= row.ts
      BY <3>1, <3>2
    <3> QED BY <1>1, <1>7, <1>9, <2>1, <2>3, <3>1, <3>2, <3>3 DEF Spanned
  <2> QED BY <2>2, <2>3
<1>14. Apart(q, found)
  <2>1. \A i \in DOMAIN p.table : /\ q.table[i].enb = p.table[i].enb
                                  /\ q.table[i].cell = p.table[i].cell
                                  /\ q.table[i].startedAt = p.table[i].startedAt
    BY <1>8, <1>9
  <2>2. Apart(p, found)
    BY DEF Whole
  <2> QED BY <1>8, <1>11, <2>1, <2>2 DEF Apart, Clash, Fresh
<1> QED BY <1>6, <1>12, <1>13, <1>14 DEF Whole, q

LEMMA OpenedWhole ==
    ASSUME NEW table \in Seq(Row), NEW mids \in SUBSET DOMAIN table,
           NEW found \in Seq(Session),
           NEW p \in SoundPasses, Whole(p, table, mids, found),
           NEW mid \in DOMAIN table \ mids,
           NEW key \in Key, key.enb = table[mid].enb,
           ~Met(p.table, key, table[mid])
    PROVE  Whole(Opened(p, mid, table[mid], key), table, mids \cup {mid}, found)
<1> DEFINE row == table[mid]
           new == NewSession(key, row)
           sid == Len(p.table) + 1
           q == Opened(p, mid, row, key)
           g == Grown(p, key, row)
<1>1. mid \in Nat /\ row \in Row /\ row.ts \in Nat /\ row.ts <= row.ts
  <2>1. mid \in DOMAIN table
    OBVIOUS
  <2>2. mid \in Nat /\ row \in Row
    BY <2>1
  <2>3. row.ts \in Nat
    BY <2>2 DEF Row
  <2> QED BY <2>2, <2>3
<1>2. /\ p \in Passes /\ p.table \in Seq(Session) /\ new \in Session
      /\ \A m \in DOMAIN p.owner : p.owner[m] \in DOMAIN p.table
  BY <1>1, NewSessionType DEF SoundPasses, Passes
<1>3. PlacedAs(q, g, mid, row, key, sid, row.mme, NoState)
  BY <1>1, OpenedFacts
<1>4. /\ g \in Passes /\ g.table = Append(p.table, new)
      /\ g.open = p.open /\ g.states = p.states /\ g.owner = p.owner
      /\ g.alerts = p.alerts
  BY <1>1, <1>2, GrownFacts
<1>5. /\ new.enb = row.enb /\ new.startedAt = row.ts
  BY DEF NewSession
<1> HIDE DEF q, g, new
<1>6. /\ g.table \in Seq(Session) /\ DOMAIN g.table = DOMAIN p.table \cup {sid}
      /\ sid \notin DOMAIN p.table /\ sid \in Nat
      /\ \A i \in DOMAIN p.table : g.table[i] = p.table[i]
      /\ g.table[sid] = new
  BY <1>2, <1>4, AppendFacts
<1> HIDE DEF sid
<1>7. mid \notin DOMAIN p.owner /\ \A m \in DOMAIN p.owner : p.owner[m] # sid
  BY <1>2, <1>6 DEF Whole, Kept
<1>8. Alerted(q)
  <2>1. NoState \in RuleState /\ NoState.authFailure = None
    BY NoStateType DEF NoState
  <2>2. \A i \in DOMAIN g.alerts : g.alerts[i].session # sid
    BY <1>4, <1>7 DEF Whole, Alerted
  <2>3. Alerted(g)
    BY <1>4 DEF Whole, Alerted
  <2>4. mid \notin DOMAIN g.owner
    BY <1>4, <1>7
  <2> HIDE DEF row
  <2> QED BY <1>1, <1>3, <1>4, <1>6, <2>1, <2>2, <2>3, <2>4, AlertsPlaced
<1>9. /\ DOMAIN q.owner = DOMAIN p.owner \cup {mid} /\ q.owner[mid] = sid
      /\ \A m \in DOMAIN p.owner : q.owner[m] = p.owner[m]
  BY <1>3, <1>4, <1>7 DEF PlacedAs, Put
<1>10. /\ DOMAIN q.table = DOMAIN p.table \cup {sid}
       /\ \A i \in DOMAIN p.table : q.table[i] = p.table[i]
       /\ q.table[sid] = [new EXCEPT !.endedAt = row.ts]
  <2>1. q.table = Stamped(g.table, sid, row.ts)
    BY <1>3 DEF PlacedAs
  <2>2. sid \in DOMAIN g.table
    BY <1>6
  <2> DEFINE t == g.table
             ts == row.ts
  <2>3. t \in Seq(Session) /\ sid \in DOMAIN t /\ ts \in Nat
    BY <1>1, <1>6, <2>2
  <2> HIDE DEF t, ts
  <2>4. /\ DOMAIN Stamped(t, sid, ts) = DOMAIN t
        /\ \A i \in DOMAIN t \ {sid} : Stamped(t, sid, ts)[i] = t[i]
        /\ Stamped(t, sid, ts)[sid] = [t[sid] EXCEPT !.endedAt = ts]
    BY <2>3, EndsAt
  <2>5. /\ DOMAIN q.table = DOMAIN g.table
        /\ \A i \in DOMAIN g.table \ {sid} : q.table[i] = g.table[i]
        /\ q.table[sid] = [g.table[sid] EXCEPT !.endedAt = row.ts]
    BY <2>1, <2>4 DEF t, ts
  <2>6. \A i \in DOMAIN p.table : i \in DOMAIN g.table \ {sid}
    BY <1>6
  <2> QED BY <1>6, <2>5, <2>6
<1>11. /\ q.table[sid].enb = row.enb /\ q.table[sid].cell = new.cell
       /\ q.table[sid].startedAt = row.ts /\ q.table[sid].endedAt = row.ts
  BY <1>2, <1>5, <1>10 DEF Session
<1>12. /\ DOMAIN q.open = DOMAIN p.open \cup {key} /\ q.open[key].session = sid
       /\ \A k \in DOMAIN p.open \ {key} : q.open[k] = p.open[k]
  BY <1>3, <1>4 DEF PlacedAs, Put, Entry
<1>13. Fresh(q, found) = Fresh(p, found) \cup {sid}
  BY <1>6, <1>10 DEF Fresh, Whole, Kept
<1>14. Kept(q, table, mids \cup {mid}, found)
  <2>1. DOMAIN q.owner \subseteq mids \cup {mid}
    BY <1>9 DEF Whole, Kept
  <2>2. \A i \in DOMAIN found : i \in DOMAIN q.table /\ q.table[i] = found[i]
    BY <1>10 DEF Whole, Kept
  <2>3. ASSUME NEW m \in DOMAIN q.owner
        PROVE  q.owner[m] \in Fresh(q, found) /\ q.table[q.owner[m]].enb = table[m].enb
    <3>1. CASE m = mid
      BY <1>9, <1>11, <1>13, <3>1
    <3>2. CASE m # mid
      <4>1. m \in DOMAIN p.owner /\ q.owner[m] = p.owner[m]
        BY <1>9, <3>2
      <4>2. p.owner[m] \in Fresh(p, found) /\ p.table[p.owner[m]].enb = table[m].enb
        BY <4>1 DEF Whole, Kept
      <4> QED BY <1>10, <1>13, <4>1, <4>2 DEF Fresh
    <3> QED BY <3>1, <3>2
  <2>4. ASSUME NEW k \in DOMAIN q.open
        PROVE  q.open[k].session \in Fresh(q, found) /\ q.table[q.open[k].session].enb = k.enb
    <3>1. CASE k = key
      BY <1>11, <1>12, <1>13, <3>1
    <3>2. CASE k # key
      <4>1. k \in DOMAIN p.open /\ q.open[k] = p.open[k]
        BY <1>12, <3>2
      <4>2. p.open[k].session \in Fresh(p, found) /\ p.table[p.open[k].session].enb = k.enb
        BY <4>1 DEF Whole, Kept
      <4> QED BY <1>10, <1>13, <4>1, <4>2 DEF Fresh
    <3> QED BY <3>1, <3>2
  <2> QED BY <2>1, <2>2, <2>3, <2>4 DEF Kept
<1>15. ASSUME NEW s \in Fresh(q, found) PROVE Spanned(q, table, s)
  <2>1. CASE s # sid
    <3>1. Spanned(p, table, s) /\ s \in DOMAIN p.table
      BY <1>13, <2>1 DEF Whole, Fresh
    <3> QED BY <1>9, <1>10, <2>1, <3>1 DEF Spanned
  <2>2. CASE s = sid
    BY <1>1, <1>7, <1>9, <1>11, <2>2 DEF Spanned
  <2> QED BY <2>1, <2>2
<1>16. Apart(q, found)
  <2>1. ASSUME NEW i \in DOMAIN p.table
        PROVE  ~Clash(q.table[i], q.table[sid]) /\ ~Clash(q.table[sid], q.table[i])
    <3>1. ~Clash(p.table[i], new)
      BY DEF Met, new
    <3>2. q.table[i] = p.table[i]
      BY <1>10
    <3> QED BY <1>5, <1>11, <3>1, <3>2 DEF Clash
  <2>2. Apart(p, found)
    BY DEF Whole
  <2> QED BY <1>10, <1>13, <2>1, <2>2 DEF Apart, Fresh
<1> QED BY <1>8, <1>14, <1>15, <1>16 DEF Whole, q

LEMMA TurnWhole ==
    ASSUME NEW table \in Seq(Row), NEW mids \in SUBSET DOMAIN table,
           NEW found \in Seq(Session),
           NEW p \in SoundPasses, Whole(p, table, mids, found),
           NEW mid \in DOMAIN table \ mids,
           \A m \in mids : table[m].ts <= table[mid].ts,
           NEW q, RowRead(p, mid, table[mid]) = {q}
    PROVE  Whole(q, table, mids \cup {mid}, found)
<1> DEFINE row == table[mid]
<1>1. p.open \in Dict(Key, OpenSession) /\ row \in Row
  BY DEF SoundPasses, Passes
<1>2. DOMAIN p.open \subseteq Key
  BY <1>1, DictFacts
<1>3. CASE q = p
  BY <1>3 DEF Whole, Kept
<1>4. CASE q # p
  <2>1. ~p.refused /\ row.enb # None /\ Resolve(p.open, row) # {}
    <3>1. RowRead(p, mid, row) # {p}
      BY <1>4
    <3> QED BY <3>1, TurnSkips
  <2>2. PICK key : key \in Resolve(p.open, row)
    BY <2>1
  <2>3. key \in Key /\ key.enb = row.enb
    BY <1>1, <1>2, <2>1, <2>2, ResolveInKey
  <2>4. q = IF Reusable(p.open, key, row) THEN Reused(p, mid, row, key)
                                          ELSE Opened(p, mid, row, key)
    <3>1. RowRead(p, mid, row) =
            {IF Reusable(p.open, key, row) THEN Reused(p, mid, row, key)
                                           ELSE Opened(p, mid, row, key)}
      BY <2>1, <2>2, TurnPlaces
    <3> QED BY <3>1
  <2>5. CASE Reusable(p.open, key, row)
    BY <2>3, <2>4, <2>5, ReusedWhole DEF Reusable
  <2>6. CASE ~Reusable(p.open, key, row) /\ ~Met(p.table, key, row)
    BY <2>3, <2>4, <2>6, OpenedWhole
  <2>7. CASE ~Reusable(p.open, key, row) /\ Met(p.table, key, row)
    <3>1. q = [p EXCEPT !.refused = TRUE]
      BY <2>4, <2>7 DEF Opened, Met
    <3>2. /\ q.open = p.open /\ q.states = p.states /\ q.table = p.table
          /\ q.owner = p.owner /\ q.alerts = p.alerts
      BY <3>1 DEF SoundPasses, Passes
    <3> QED BY <3>2 DEF Whole, Kept, Fresh, Spanned, Apart, Alerted
  <2> QED BY <2>5, <2>6, <2>7
<1> QED BY <1>3, <1>4

\* The rows of the first i turns.
ReadBy(table, rowIds, i) == {m \in rowIds : Rank(table, rowIds, m) < i}

LEMMA ReadByFacts ==
    ASSUME NEW table \in Seq(Row), NEW rowIds \in SUBSET DOMAIN table
    PROVE  /\ ReadBy(table, rowIds, 0) = {}
           /\ ReadBy(table, rowIds, Cardinality(rowIds)) = rowIds
           /\ \A i \in 1 .. Cardinality(rowIds) :
                 /\ Taken(table, rowIds, i) \in rowIds \ ReadBy(table, rowIds, i - 1)
                 /\ ReadBy(table, rowIds, i)
                       = ReadBy(table, rowIds, i - 1) \cup {Taken(table, rowIds, i)}
                 /\ \A m \in ReadBy(table, rowIds, i - 1) :
                       table[m].ts <= table[Taken(table, rowIds, i)].ts
<1>1. \A m \in rowIds : /\ Rank(table, rowIds, m) \in Nat
                        /\ Rank(table, rowIds, m) < Cardinality(rowIds)
  BY RankFacts
<1>2. ASSUME NEW i \in 1 .. Cardinality(rowIds)
      PROVE  LET mid == Taken(table, rowIds, i)
             IN  /\ mid \in rowIds \ ReadBy(table, rowIds, i - 1)
                 /\ ReadBy(table, rowIds, i) = ReadBy(table, rowIds, i - 1) \cup {mid}
                 /\ \A m \in ReadBy(table, rowIds, i - 1) : table[m].ts <= table[mid].ts
  <2> DEFINE mid == Taken(table, rowIds, i)
  <2>1. mid \in rowIds /\ Rank(table, rowIds, mid) = i - 1
    BY OrderedFacts DEF Taken
  <2>2. i \in Int
    BY FiniteIds
  <2> HIDE DEF mid
  <2>3. mid \notin ReadBy(table, rowIds, i - 1)
    BY <2>1, <2>2 DEF ReadBy
  <2>4. \A m \in rowIds : Rank(table, rowIds, m) = i - 1 => m = mid
    BY <2>1, SameRank
  <2>5. ReadBy(table, rowIds, i) = ReadBy(table, rowIds, i - 1) \cup {mid}
    BY <1>1, <2>1, <2>2, <2>4 DEF ReadBy
  <2>6. ASSUME NEW m \in ReadBy(table, rowIds, i - 1) PROVE table[m].ts <= table[mid].ts
    <3>1. m \in rowIds /\ Rank(table, rowIds, m) < i - 1
      BY DEF ReadBy
    <3>2. ~Before(table, mid, m)
      <4>1. Before(table, mid, m) => Rank(table, rowIds, mid) < Rank(table, rowIds, m)
        BY <2>1, <3>1, RankFacts
      <4> QED BY <1>1, <2>1, <2>2, <3>1, <4>1
    <3>3. table[m] \in Row /\ table[mid] \in Row
      BY <2>1, <3>1
    <3>4. m # mid
      BY <2>3
    <3>5. Before(table, m, mid)
      BY <2>1, <3>1, <3>2, <3>4, BeforeOrder
    <3> QED BY <3>3, <3>5 DEF Before, Row
  <2> QED BY <2>1, <2>3, <2>5, <2>6 DEF mid
<1>3. ReadBy(table, rowIds, 0) = {} /\ ReadBy(table, rowIds, Cardinality(rowIds)) = rowIds
  BY <1>1 DEF ReadBy
<1> QED BY <1>2, <1>3

\* Whatever the rows and the sessions that are there, what a pass has to publish
\* in the end is whole.
LEMMA OutcomeWhole ==
    ASSUME NEW table \in Seq(Row), NEW rowIds \in SUBSET DOMAIN table,
           NEW found \in Seq(Session)
    PROVE  \E p \in SoundPasses :
              /\ Turns(table, rowIds, found)[Cardinality(rowIds)] = {p}
              /\ Whole(p, table, rowIds, found)
<1> DEFINE N == Cardinality(rowIds)
           f == Turns(table, rowIds, found)
           R(i) == ReadBy(table, rowIds, i)
           S == {n \in Nat : n <= N => \E p \in SoundPasses :
                    f[n] = {p} /\ Whole(p, table, R(n), found)}
<1>1. N \in Nat
  BY FiniteIds
<1>2. AreTurns(f, table, rowIds, found)
  BY TurnsFacts
<1>3. /\ R(0) = {} /\ R(N) = rowIds
      /\ \A i \in 1 .. N :
            /\ Taken(table, rowIds, i) \in rowIds \ R(i - 1)
            /\ R(i) = R(i - 1) \cup {Taken(table, rowIds, i)}
            /\ \A m \in R(i - 1) : table[m].ts <= table[Taken(table, rowIds, i)].ts
  BY ReadByFacts
<1>4. \A i : R(i) \in SUBSET DOMAIN table
  BY DEF ReadBy
<1>5. f[0] = {NoProgress(found)} /\ \A i \in 0 .. N : \E p \in SoundPasses : f[i] = {p}
  BY <1>2 DEF AreTurns
<1>6. \A i \in 1 .. N : \A p : f[i - 1] = {p} =>
          f[i] = RowRead(p, Taken(table, rowIds, i), table[Taken(table, rowIds, i)])
  BY <1>2 DEF AreTurns
<1> HIDE DEF f, R, N
<1>7. 0 \in S
  <2>1. Whole(NoProgress(found), table, R(0), found)
    BY DEF NoProgress, Whole, Kept, Fresh, Apart, Alerted
  <2> QED BY <1>5, <2>1, NoProgressSound
<1>8. ASSUME NEW n \in Nat, n \in S PROVE n + 1 \in S
  <2>1. SUFFICES ASSUME n + 1 <= N
                 PROVE  \E p \in SoundPasses :
                           f[n + 1] = {p} /\ Whole(p, table, R(n + 1), found)
    OBVIOUS
  <2>2. n + 1 \in 1 .. N /\ n + 1 \in 0 .. N /\ (n + 1) - 1 = n /\ n <= N
    BY <1>1, <2>1
  <2>3. PICK p \in SoundPasses : f[n] = {p} /\ Whole(p, table, R(n), found)
    BY <1>8, <2>2
  <2>4. PICK q \in SoundPasses : f[n + 1] = {q}
    BY <1>5, <2>2
  <2> DEFINE mid == Taken(table, rowIds, n + 1)
  <2>5. RowRead(p, mid, table[mid]) = {q}
    BY <1>6, <2>2, <2>3, <2>4
  <2>6. /\ mid \in DOMAIN table \ R(n) /\ R(n + 1) = R(n) \cup {mid}
        /\ \A m \in R(n) : table[m].ts <= table[mid].ts
    BY <1>3, <2>2
  <2> HIDE DEF mid
  <2>7. Whole(q, table, R(n) \cup {mid}, found)
    BY <1>4, <2>3, <2>5, <2>6, TurnWhole
  <2> QED BY <2>4, <2>6, <2>7
<1> HIDE DEF S
<1>9. N \in S
  BY <1>1, <1>7, <1>8, Induction
<1>10. N <= N
  BY <1>1
<1> QED BY <1>3, <1>9, <1>10 DEF S, f, N

-----------------------------------------------------------------------------
(* The commit of a pass publishes it.                                      *)

StoreOK ==
    /\ messages \in Seq(Row) /\ sessions \in Seq(Session) /\ alerts \in Seq(Alert)
    /\ DOMAIN sessionOf \subseteq DOMAIN messages
    /\ sessionOf \in [DOMAIN sessionOf -> DOMAIN sessions]
    /\ \A i \in DOMAIN alerts : alerts[i].session \in DOMAIN sessions

\* The COMMIT of a pass over the rows rowIds that ended as p.
Committed(p) ==
    /\ messages' = messages
    /\ sessions' = p.table
    /\ sessionOf' = Overlay(p.owner, sessionOf)
    /\ alerts' = alerts \o p.alerts

\* The tables after the commit.
LEMMA TablesAfter ==
    ASSUME StoreOK, NEW rowIds \in SUBSET (DOMAIN messages \ DOMAIN sessionOf),
           NEW p \in SoundPasses, Whole(p, messages, rowIds, sessions), Committed(p)
    PROVE  /\ sessions' \in Seq(Session) /\ alerts' \in Seq(Alert)
           /\ DOMAIN sessions \subseteq DOMAIN sessions'
           /\ \A i \in DOMAIN sessions : sessions'[i] = sessions[i]
           /\ DOMAIN sessionOf' = DOMAIN sessionOf \cup DOMAIN p.owner
           /\ \A m \in DOMAIN sessionOf :
                 /\ m \notin DOMAIN p.owner
                 /\ sessionOf'[m] = sessionOf[m]
                 /\ sessionOf[m] \in DOMAIN sessions
           /\ \A m \in DOMAIN p.owner : /\ m \in DOMAIN messages
                                        /\ sessionOf'[m] = p.owner[m]
                                        /\ p.owner[m] \in Fresh(p, sessions)
           /\ \A i \in DOMAIN alerts : i \in DOMAIN alerts' /\ alerts'[i] = alerts[i]
           /\ \A i \in DOMAIN alerts' \ DOMAIN alerts :
                 /\ i - Len(alerts) \in DOMAIN p.alerts
                 /\ alerts'[i] = p.alerts[i - Len(alerts)]
                 /\ alerts'[i].session \in Fresh(p, sessions)
           /\ \A i \in DOMAIN alerts' : i \in Int
           /\ Len(alerts) \in Int
<1>1. p.table \in Seq(Session) /\ p.alerts \in Seq(Alert) /\ alerts \in Seq(Alert)
  BY DEF SoundPasses, Passes, StoreOK
<1>2. /\ DOMAIN p.owner \subseteq rowIds
      /\ DOMAIN sessions \subseteq DOMAIN p.table
      /\ \A i \in DOMAIN sessions : p.table[i] = sessions[i]
      /\ \A m \in DOMAIN p.owner : p.owner[m] \in Fresh(p, sessions)
  BY DEF Whole, Kept
<1>3. /\ sessions' = p.table /\ alerts' = alerts \o p.alerts
      /\ sessionOf' = Overlay(p.owner, sessionOf)
  BY DEF Committed
<1>4. /\ DOMAIN sessionOf' = DOMAIN sessionOf \cup DOMAIN p.owner
      /\ \A m \in DOMAIN p.owner : sessionOf'[m] = p.owner[m]
      /\ \A m \in DOMAIN sessionOf \ DOMAIN p.owner : sessionOf'[m] = sessionOf[m]
  BY <1>3 DEF Overlay
<1>5. \A m \in DOMAIN sessionOf : m \notin DOMAIN p.owner /\ sessionOf[m] \in DOMAIN sessions
  BY <1>2 DEF StoreOK
<1>6. /\ alerts' \in Seq(Alert)
      /\ DOMAIN alerts' = 1 .. (Len(alerts) + Len(p.alerts))
      /\ \A i \in DOMAIN alerts : i \in DOMAIN alerts' /\ alerts'[i] = alerts[i]
      /\ \A i \in DOMAIN alerts' \ DOMAIN alerts :
            i - Len(alerts) \in DOMAIN p.alerts /\ alerts'[i] = p.alerts[i - Len(alerts)]
  BY <1>1, <1>3, ConcatFacts
<1>7. \A i \in DOMAIN p.alerts : p.alerts[i].session \in Fresh(p, sessions)
  BY <1>2 DEF Whole, Alerted
<1>8. \A i \in DOMAIN alerts' : i \in Int
  BY <1>6
<1>9. Len(alerts) \in Int
  BY <1>1
<1> QED BY <1>1, <1>2, <1>3, <1>4, <1>5, <1>6, <1>7, <1>8, <1>9

\* Even one that takes rows from the sessions of another leaves the tables sound.
LEMMA PassKeepsStore ==
    ASSUME StoreOK, NEW rowIds \in SUBSET DOMAIN messages,
           NEW p \in SoundPasses, Whole(p, messages, rowIds, sessions), Committed(p)
    PROVE  StoreOK'
<1>1. p.table \in Seq(Session) /\ p.alerts \in Seq(Alert) /\ alerts \in Seq(Alert)
  BY DEF SoundPasses, Passes, StoreOK
<1>2. /\ DOMAIN p.owner \subseteq rowIds
      /\ DOMAIN sessions \subseteq DOMAIN sessions'
      /\ \A m \in DOMAIN p.owner : p.owner[m] \in DOMAIN sessions'
  BY DEF Whole, Kept, Fresh, Committed
<1>3. messages' \in Seq(Row) /\ sessions' \in Seq(Session)
  BY <1>1 DEF StoreOK, Committed
<1>4. DOMAIN sessionOf' \subseteq DOMAIN messages'
  BY <1>2 DEF StoreOK, Committed, Overlay
<1>5. sessionOf' \in [DOMAIN sessionOf' -> DOMAIN sessions']
  <2>1. \A m \in DOMAIN sessionOf' : sessionOf'[m] \in DOMAIN sessions'
    BY <1>2 DEF StoreOK, Committed, Overlay
  <2>2. sessionOf' = [m \in DOMAIN sessionOf' |-> sessionOf'[m]]
    BY DEF Committed, Overlay
  <2> QED BY <2>1, <2>2
<1>6. /\ alerts' \in Seq(Alert)
      /\ \A i \in DOMAIN alerts' :
            \/ i \in DOMAIN alerts /\ alerts'[i] = alerts[i]
            \/ \E j \in DOMAIN p.alerts : alerts'[i] = p.alerts[j]
  BY <1>1, ConcatFacts DEF Committed
<1>7. \A j \in DOMAIN p.alerts : p.alerts[j].session \in DOMAIN sessions'
  BY <1>2 DEF Whole, Alerted
<1>8. \A i \in DOMAIN alerts' : alerts'[i].session \in DOMAIN sessions'
  BY <1>2, <1>6, <1>7 DEF StoreOK
<1> QED BY <1>3, <1>4, <1>5, <1>6, <1>8 DEF StoreOK

LEMMA PassWellFormed ==
    ASSUME StoreOK, NEW rowIds \in SUBSET (DOMAIN messages \ DOMAIN sessionOf),
           NEW p \in SoundPasses, Whole(p, messages, rowIds, sessions), Committed(p),
           NEW sid \in Fresh(p, sessions)
    PROVE  WellFormed(sessions', sessionOf', messages, sid)
<1> DEFINE of == {m \in DOMAIN sessionOf' : sessionOf'[m] = sid}
<1>1. of = {m \in DOMAIN p.owner : p.owner[m] = sid}
  <2>1. /\ DOMAIN sessionOf' = DOMAIN sessionOf \cup DOMAIN p.owner
        /\ \A m \in DOMAIN p.owner : sessionOf'[m] = p.owner[m]
    BY TablesAfter
  <2>2. \A m \in DOMAIN sessionOf : sessionOf'[m] \in DOMAIN sessions
    BY TablesAfter
  <2>3. \A m \in DOMAIN sessionOf : sessionOf'[m] # sid
    BY <2>2 DEF Fresh
  <2> QED BY <2>1, <2>3
<1>2. sessions' = p.table
  BY DEF Committed
<1>3. /\ \E m \in of : messages[m].ts = sessions'[sid].startedAt
      /\ \E m \in of : messages[m].ts = sessions'[sid].endedAt
      /\ \A m \in of : /\ messages[m].enb = sessions'[sid].enb
                       /\ sessions'[sid].startedAt <= messages[m].ts
                       /\ messages[m].ts <= sessions'[sid].endedAt
  BY <1>1, <1>2 DEF Whole, Spanned, Kept
<1>4. \A other \in DOMAIN sessions' \ {sid} : ~Clash(sessions'[sid], sessions'[other])
  BY <1>2 DEF Whole, Apart
<1> QED BY <1>3, <1>4 DEF WellFormed

LEMMA PassAlerts ==
    ASSUME StoreOK, NEW rowIds \in SUBSET (DOMAIN messages \ DOMAIN sessionOf),
           NEW p \in SoundPasses, Whole(p, messages, rowIds, sessions), Committed(p),
           NEW i \in DOMAIN alerts' \ DOMAIN alerts
    PROVE  alerts'[i].session \in Fresh(p, sessions) /\ AlertInPlace(alerts', sessionOf', i)
<1>1. /\ i - Len(alerts) \in DOMAIN p.alerts
      /\ alerts'[i] = p.alerts[i - Len(alerts)]
      /\ alerts'[i].session \in Fresh(p, sessions)
  BY TablesAfter
<1>2. /\ alerts'[i].trigger \in DOMAIN sessionOf'
      /\ sessionOf'[alerts'[i].trigger] = alerts'[i].session
  <2>1. /\ alerts'[i].trigger \in DOMAIN p.owner
        /\ p.owner[alerts'[i].trigger] = alerts'[i].session
    BY <1>1 DEF Whole, Alerted
  <2> QED BY <2>1, TablesAfter
<1>3. ASSUME NEW j \in DOMAIN alerts' \ {i}, alerts'[j].session = alerts'[i].session
      PROVE  RuleOf(alerts'[j].kind) # RuleOf(alerts'[i].kind)
  <2>1. j \notin DOMAIN alerts
    <3>1. j \in DOMAIN alerts => alerts'[j].session \in DOMAIN sessions
      BY TablesAfter DEF StoreOK
    <3> QED BY <1>1, <1>3, <3>1 DEF Fresh
  <2>2. j - Len(alerts) \in DOMAIN p.alerts /\ alerts'[j] = p.alerts[j - Len(alerts)]
    <3>1. \A l \in DOMAIN alerts' \ DOMAIN alerts :
              l - Len(alerts) \in DOMAIN p.alerts /\ alerts'[l] = p.alerts[l - Len(alerts)]
      BY TablesAfter
    <3> QED BY <2>1, <3>1
  <2>3. i \in Int /\ j \in Int /\ Len(alerts) \in Int
    BY TablesAfter
  <2>4. i - Len(alerts) # j - Len(alerts)
    BY <1>3, <2>3
  <2> QED BY <1>1, <1>3, <2>2, <2>4 DEF Whole, Alerted
<1> QED BY <1>1, <1>2, <1>3 DEF AlertInPlace

LEMMA PassPublishes ==
    ASSUME StoreOK, NEW rowIds \in SUBSET (DOMAIN messages \ DOMAIN sessionOf),
           NEW p \in SoundPasses, Whole(p, messages, rowIds, sessions), Committed(p)
    PROVE  Publish \/ UNCHANGED storeVars
<1>1. CASE Fresh(p, sessions) # {}
  <2>1. IsPrefix(sessions, sessions')
    <3>1. sessions \in Seq(Session) /\ sessions' \in Seq(Session)
      BY TablesAfter DEF StoreOK
    <3>2. /\ DOMAIN sessions \subseteq DOMAIN sessions'
          /\ \A i \in DOMAIN sessions : sessions'[i] = sessions[i]
      BY TablesAfter
    <3> QED BY <3>1, <3>2, PrefixFacts
  <2>2. IsPrefix(alerts, alerts')
    <3>1. alerts \in Seq(Alert) /\ alerts' \in Seq(Alert)
      BY TablesAfter DEF StoreOK
    <3>2. DOMAIN alerts \subseteq DOMAIN alerts' /\ \A i \in DOMAIN alerts : alerts'[i] = alerts[i]
      BY TablesAfter
    <3> QED BY <3>1, <3>2, PrefixFacts
  <2>3. /\ DOMAIN sessionOf \subseteq DOMAIN sessionOf'
        /\ DOMAIN sessionOf' \subseteq DOMAIN messages
        /\ \A m \in DOMAIN sessionOf : sessionOf'[m] = sessionOf[m]
        /\ \A m \in DOMAIN sessionOf' \ DOMAIN sessionOf : sessionOf'[m] \in Fresh(p, sessions)
    BY TablesAfter DEF StoreOK
  <2>4. Fresh(p, sessions) = DOMAIN sessions' \ DOMAIN sessions /\ UNCHANGED messages
    BY DEF Fresh, Committed
  <2> QED BY <1>1, <2>1, <2>2, <2>3, <2>4, PassWellFormed, PassAlerts DEF Publish
<1>2. CASE Fresh(p, sessions) = {}
  <2>1. DOMAIN p.owner = {}
    BY <1>2 DEF Whole, Kept
  <2>2. sessionOf' = sessionOf
    BY <2>1 DEF Committed, Overlay, StoreOK
  <2>3. alerts' = alerts
    <3>1. p.alerts \in Seq(Alert) /\ alerts \in Seq(Alert)
      BY DEF SoundPasses, Passes, StoreOK
    <3>2. DOMAIN p.alerts = {}
      BY <2>1 DEF Whole, Alerted
    <3>3. \A s \in Seq(Alert) : DOMAIN s = {} => s = <<>>
      OBVIOUS
    <3>4. p.alerts = <<>>
      BY <3>1, <3>2, <3>3
    <3> QED BY <3>1, <3>4 DEF Committed
  <2>4. sessions' = sessions
    <3>1. /\ sessions' \in Seq(Session) /\ sessions \in Seq(Session)
          /\ DOMAIN sessions' = DOMAIN sessions
          /\ \A i \in DOMAIN sessions : sessions'[i] = sessions[i]
      BY <1>2, TablesAfter DEF StoreOK, Fresh, Committed
    <3> QED BY <3>1
  <2> QED BY <2>2, <2>3, <2>4 DEF Committed, storeVars
<1> QED BY <1>1, <1>2
=============================================================================
