---------------------------- MODULE Sessionizer -----------------------------
(***************************************************************************)
(* The decisions of _Sessionizer over its map of open sessions: which key  *)
(* a row belongs to, and whether the session found there is continued.     *)
(* The map is a function from keys to records; an entry stays in it after  *)
(* a DetachRequest and after the gap has passed, until the next row of its *)
(* key replaces it.                                                        *)
(***************************************************************************)
EXTENDS Messages

CONSTANT Gap   \* the longest silence inside one session

ASSUME GapAssumption == Gap \in Nat

Key == [plmn : Plmn \cup {None}, cell : Cell \cup {None}, enb : Enb]

OpenSession == [session        : Nat,
                lastTs         : Nat,
                closedByDetach : BOOLEAN,
                mme            : Mme \cup {None}]

MRowKey(row) == [plmn |-> None, cell |-> None, enb |-> row.enb]

RowKey(row) == [plmn |-> row.plmn, cell |-> row.cell, enb |-> row.enb]

Candidates(open, row) == {k \in DOMAIN open : k.enb = row.enb}

ByMme(open, row) == {k \in Candidates(open, row) : open[k].mme = row.mme}

IsSingleton(S) == \E x \in S : S = {x}

MResolve(open, row) ==
    IF row.cell # None THEN {RowKey(row)}
    ELSE IF row.mme # None /\ IsSingleton(ByMme(open, row)) THEN ByMme(open, row)
    ELSE IF IsSingleton(Candidates(open, row)) THEN Candidates(open, row)
    ELSE {}

\* The keys the row belongs to: one key, or none when the row is ambiguous.
Resolve(open, row) ==
    IF row.cell # None \/ Candidates(open, row) = {} THEN {RowKey(row)}
    ELSE IF row.mme # None /\ IsSingleton(ByMme(open, row)) THEN ByMme(open, row)
    ELSE IF IsSingleton(Candidates(open, row)) THEN Candidates(open, row)
    ELSE {}

MReusableAfterGap(open, key, row) ==
    key \in DOMAIN open /\ ~open[key].closedByDetach

MReusableAfterDetach(open, key, row) ==
    key \in DOMAIN open /\ row.ts - open[key].lastTs <= Gap

MReusableStrict(open, key, row) ==
    /\ key \in DOMAIN open
    /\ ~open[key].closedByDetach
    /\ row.ts - open[key].lastTs < Gap

Reusable(open, key, row) ==
    /\ key \in DOMAIN open
    /\ ~open[key].closedByDetach
    /\ row.ts - open[key].lastTs <= Gap

MLatch(mme, row) == IF row.mme = None THEN mme ELSE row.mme

\* The first MME id seen in a session is kept, a later one does not replace it.
Latch(mme, row) == IF mme = None THEN row.mme ELSE mme

Entry(sid, row, mme) == [session |-> sid, lastTs |-> row.ts,
                         closedByDetach |-> row.type = "DetachRequest",
                         mme |-> mme]

NewSession(key, row) ==
    [plmn |-> key.plmn, cell |-> key.cell, enb |-> key.enb, mme |-> row.mme,
     startedAt |-> row.ts, endedAt |-> None]

-----------------------------------------------------------------------------
(* Dictionaries: d[k] = v, del d[k], and the flush of one over a column.   *)

Put(f, k, v) == [x \in DOMAIN f \cup {k} |-> IF x = k THEN v ELSE f[x]]

Without(f, K) == [x \in DOMAIN f \ K |-> f[x]]

\* UPDATE of the column g with the pairs of f.
Overlay(f, g) ==
    [x \in DOMAIN f \cup DOMAIN g |-> IF x \in DOMAIN f THEN f[x] ELSE g[x]]
=============================================================================
