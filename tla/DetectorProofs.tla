--------------------------- MODULE DetectorProofs ---------------------------
(***************************************************************************)
(* Proofs about Detector for every value of its constants: the shapes and  *)
(* contexts of sessions, the order of what is in them and what splits them,*)
(* what a pass counts and what it adds up to, that its commits implement   *)
(* SessionStore, and that the alerts they publish are the ones the rules   *)
(* call for.                                                               *)
(***************************************************************************)
EXTENDS Detector, PassProofs

\* The session ids the running pass has inserted.
NewIds == DOMAIN txSessions \ DOMAIN sessions

\* What holds between the tables and the objects of a pass.
PassInv ==
    /\ phase = "idle" =>
          /\ rows = {} /\ done = {}
          /\ open = <<>> /\ states = <<>> /\ txSessions = sessions
          /\ assignments = <<>> /\ lastTs = <<>> /\ pending = <<>>
    /\ phase = "streaming" => stats \in Stats
    /\ rows \cap DOMAIN sessionOf = {}
    /\ DOMAIN assignments \subseteq done
    /\ DOMAIN sessions \subseteq DOMAIN txSessions
    /\ \A i \in DOMAIN sessions : txSessions[i] = sessions[i]
    /\ \A m \in DOMAIN assignments : assignments[m] \in NewIds
    /\ DOMAIN lastTs \subseteq NewIds
    /\ \A k \in DOMAIN open : open[k].session \in NewIds

\* The session under a key is a session of that key, and a message is in a
\* session of its own context, in the tables and in the buffers.
Fits(row, s) ==
    /\ row.enb = s.enb
    /\ row.cell # None => row.cell = s.cell /\ row.plmn = s.plmn

KeyInv ==
    \A k \in DOMAIN open :
        LET s == txSessions[open[k].session]
        IN  s.plmn = k.plmn /\ s.cell = k.cell /\ s.enb = k.enb

ContextInv ==
    \A m \in DOMAIN assignments : Fits(messages[m], txSessions[assignments[m]])

IInv == /\ TypeOK /\ PassInv /\ RunnerTracksOpenSessions
        /\ KeyInv /\ ContextInv /\ SessionIsOneContext

-----------------------------------------------------------------------------
(* Initial state, and the steps outside the loop.                          *)

LEMMA InitInv == Init => IInv
<1> SUFFICES ASSUME Init PROVE IInv
  OBVIOUS
<1> USE DEF Init, StoreInit
<1>1. TypeOK
  BY MaxMessagesAssumption, MaxFailuresAssumption DEF TypeOK, ZeroStats, Stats
<1>2. PassInv
  BY DEF PassInv, NewIds
<1>3. RunnerTracksOpenSessions /\ KeyInv /\ ContextInv /\ SessionIsOneContext
  BY DEF RunnerTracksOpenSessions, KeyInv, ContextInv, SessionIsOneContext
<1> QED BY <1>1, <1>2, <1>3 DEF IInv

LEMMA IngestInv ==
    ASSUME IInv, Ingest PROVE IInv'
<1> USE DEF Ingest, Arrive, passVars
<1>1. PICK capture \in Seq(Row) : messages' = messages \o capture
  BY CapturesAssumption
<1>2. /\ messages' \in Seq(Row) /\ Len(messages') <= MaxMessages
      /\ DOMAIN messages \subseteq DOMAIN messages'
      /\ \A m \in DOMAIN messages : messages'[m] = messages[m]
  BY <1>1, ConcatFacts DEF IInv, TypeOK
<1>3. TypeOK'
  BY <1>2, MaxMessagesAssumption DEF IInv, TypeOK
<1>4. PassInv'
  BY DEF IInv, PassInv, NewIds
<1>5. (RunnerTracksOpenSessions /\ KeyInv)'
  BY DEF IInv, RunnerTracksOpenSessions, KeyInv
<1>6. ContextInv'
  <2>1. UNCHANGED <<assignments, txSessions>> /\ ContextInv
        /\ DOMAIN assignments \subseteq DOMAIN messages
    BY DEF IInv, TypeOK
  <2> HIDE DEF Ingest, Arrive, passVars
  <2> QED BY <2>1, <1>2 DEF ContextInv, Fits
<1>7. SessionIsOneContext'
  <2>1. UNCHANGED <<sessionOf, sessions>> /\ SessionIsOneContext
        /\ DOMAIN sessionOf \subseteq DOMAIN messages
    BY DEF IInv, TypeOK
  <2> HIDE DEF Ingest, Arrive, passVars
  <2> QED BY <2>1, <1>2 DEF SessionIsOneContext
<1> QED BY <1>3, <1>4, <1>5, <1>6, <1>7 DEF IInv

LEMMA SelectInv ==
    ASSUME IInv, Select PROVE IInv'
<1> USE DEF Select, storeVars, Unassigned
<1>1. TypeOK'
  BY DEF IInv, TypeOK, PassInv, ZeroStats, Stats
<1>2. PassInv'
  BY DEF IInv, PassInv, NewIds, ZeroStats, Stats
<1>3. (RunnerTracksOpenSessions /\ KeyInv /\ ContextInv /\ SessionIsOneContext)'
  BY DEF IInv, PassInv, RunnerTracksOpenSessions, KeyInv, ContextInv, Fits,
         SessionIsOneContext
<1> QED BY <1>1, <1>2, <1>3 DEF IInv

LEMMA RollbackInv ==
    ASSUME IInv, Rollback, failures' \in 0 .. MaxFailures PROVE IInv'
<1> USE DEF Rollback, PassOver, storeVars
<1>1. TypeOK'
  BY DEF IInv, TypeOK
<1>2. PassInv'
  BY DEF IInv, PassInv, NewIds
<1>3. (RunnerTracksOpenSessions /\ KeyInv /\ ContextInv /\ SessionIsOneContext)'
  BY DEF IInv, PassInv, RunnerTracksOpenSessions, KeyInv, ContextInv, Fits,
         SessionIsOneContext
<1> QED BY <1>1, <1>2, <1>3 DEF IInv

\* The flush touches no session's columns but ended_at.
LEMMA FlushedFacts ==
    ASSUME IInv
    PROVE  /\ Flushed \in Seq(Session)
           /\ DOMAIN Flushed = DOMAIN txSessions
           /\ \A i \in DOMAIN txSessions :
                 /\ Flushed[i].plmn = txSessions[i].plmn
                 /\ Flushed[i].cell = txSessions[i].cell
                 /\ Flushed[i].enb = txSessions[i].enb
                 /\ Flushed[i].startedAt = txSessions[i].startedAt
                 /\ i \in DOMAIN lastTs => Flushed[i].endedAt = lastTs[i]
           /\ \A i \in DOMAIN sessions : Flushed[i] = sessions[i]
<1>1. txSessions \in Seq(Session) /\ DOMAIN txSessions = 1 .. Len(txSessions)
  BY DEF IInv, TypeOK
<1>2. \A i \in DOMAIN txSessions : txSessions[i] \in Session
  BY <1>1
<1>3. \A i \in DOMAIN txSessions :
        /\ Flushed[i] \in Session
        /\ Flushed[i].plmn = txSessions[i].plmn
        /\ Flushed[i].cell = txSessions[i].cell
        /\ Flushed[i].enb = txSessions[i].enb
        /\ Flushed[i].startedAt = txSessions[i].startedAt
        /\ i \in DOMAIN lastTs => Flushed[i].endedAt = lastTs[i]
  <2> SUFFICES ASSUME NEW i \in DOMAIN txSessions
               PROVE  /\ Flushed[i] \in Session
                      /\ Flushed[i].plmn = txSessions[i].plmn
                      /\ Flushed[i].cell = txSessions[i].cell
                      /\ Flushed[i].enb = txSessions[i].enb
                      /\ Flushed[i].startedAt = txSessions[i].startedAt
                      /\ i \in DOMAIN lastTs => Flushed[i].endedAt = lastTs[i]
    OBVIOUS
  <2>1. Flushed[i] = IF i \in DOMAIN lastTs
                     THEN [txSessions[i] EXCEPT !.endedAt = lastTs[i]]
                     ELSE txSessions[i]
    BY DEF Flushed
  <2>2. i \in DOMAIN lastTs => lastTs[i] \in Nat
    BY DEF IInv, TypeOK
  <2> QED
    BY <1>2, <2>1, <2>2 DEF Session
<1>4. Flushed \in Seq(Session)
  BY <1>1, <1>3 DEF Flushed
<1>5. \A i \in DOMAIN sessions : Flushed[i] = sessions[i]
  BY DEF IInv, PassInv, NewIds, Flushed
<1> QED BY <1>3, <1>4, <1>5 DEF Flushed

LEMMA CommitInv ==
    ASSUME IInv, Commit PROVE IInv'
<1> USE DEF Commit, PassOver
<1>1. /\ DOMAIN sessionOf' = DOMAIN sessionOf \cup DOMAIN assignments
      /\ \A m \in DOMAIN assignments : sessionOf'[m] = assignments[m]
      /\ \A m \in DOMAIN sessionOf : sessionOf'[m] = sessionOf[m]
  BY DEF IInv, PassInv, TypeOK, Overlay
<1>2. TypeOK'
  <2>1. alerts' \in Seq(Alert) /\ pending' \in Seq(Alert)
    BY ConcatFacts DEF IInv, TypeOK
  <2>2. stats' \in Stats
    <3>1. stats \in Stats /\ Len(pending) \in Nat
      BY DEF IInv, PassInv, TypeOK
    <3> QED BY <3>1 DEF Stats
  <2>3. /\ sessions' \in Seq(Session) /\ txSessions' \in Seq(Session)
        /\ DOMAIN sessions' = DOMAIN txSessions
    BY FlushedFacts
  <2>4. sessionOf' \in [DOMAIN sessionOf' -> DOMAIN sessions']
    <3>1. \A m \in DOMAIN sessionOf' : sessionOf'[m] \in DOMAIN sessions'
      BY <1>1, <2>3 DEF IInv, TypeOK, PassInv
    <3> QED BY <3>1 DEF Overlay
  <2> QED BY <1>1, <2>1, <2>2, <2>3, <2>4 DEF IInv, TypeOK
<1>3. PassInv'
  BY DEF IInv, PassInv, NewIds
<1>4. (RunnerTracksOpenSessions /\ KeyInv /\ ContextInv)'
  BY DEF RunnerTracksOpenSessions, KeyInv, ContextInv
<1>5. SessionIsOneContext'
  BY <1>1, FlushedFacts DEF IInv, TypeOK, PassInv, SessionIsOneContext, ContextInv, Fits
<1> QED BY <1>2, <1>3, <1>4, <1>5 DEF IInv

-----------------------------------------------------------------------------
(* One turn of the loop.                                                   *)

\* What every turn finds.
LEMMA TurnFacts ==
    ASSUME IInv, ReadRow, NEW mid \in NextRow
    PROVE  /\ mid \in rows \ done
           /\ mid \in DOMAIN messages /\ mid \in Nat
           /\ mid \notin DOMAIN sessionOf /\ mid \notin DOMAIN assignments
           /\ messages[mid] \in Row
           /\ stats \in Stats
           /\ txSessions \in Seq(Session) /\ pending \in Seq(Alert)
BY DEF IInv, TypeOK, PassInv, ReadRow, NextRow

LEMMA CountStats ==
    ASSUME stats \in Stats, NEW field \in {"noEnb", "ambiguous", "assigned"}
    PROVE  Count(field) \in Stats
BY DEF Count, Stats

LEMMA SkipInv ==
    ASSUME IInv, ReadRow, NEW mid \in NextRow, done' = done \cup {mid},
           SkipNoEnb(mid) \/ SkipAmbiguous(mid)
    PROVE  IInv'
<1>0. stats' = Count("noEnb") \/ stats' = Count("ambiguous")
  BY DEF SkipNoEnb, SkipAmbiguous
<1>1. stats' \in Stats
  BY <1>0, TurnFacts, CountStats
<1> USE DEF ReadRow, storeVars
<1>2. UNCHANGED <<open, states, txSessions, assignments, lastTs, pending>>
  BY DEF SkipNoEnb, SkipAmbiguous
<1>3. TypeOK'
  BY <1>1, <1>2, TurnFacts DEF IInv, TypeOK
<1>4. PassInv'
  BY <1>1, <1>2, TurnFacts DEF IInv, PassInv, NewIds
<1>5. (RunnerTracksOpenSessions /\ KeyInv /\ ContextInv /\ SessionIsOneContext)'
  BY <1>2 DEF IInv, RunnerTracksOpenSessions, KeyInv, ContextInv, Fits,
              SessionIsOneContext
<1> QED BY <1>3, <1>4, <1>5 DEF IInv

LEMMA ContinueInv ==
    ASSUME IInv, ReadRow, NEW mid \in NextRow, done' = done \cup {mid},
           Continue(mid)
    PROVE  IInv'
<1> DEFINE row == messages[mid]
<1> USE DEF ReadRow, storeVars
<1>1. PICK key \in Resolve(open, row) :
        /\ Reusable(open, key, row)
        /\ open' = Put(open, key, Entry(open[key].session, row,
                                       Latch(open[key].mme, row)))
        /\ Assign(mid, open[key].session, states[open[key].session], states)
  BY DEF Continue
<1> DEFINE sid == open[key].session
           e == Entry(sid, row, Latch(open[key].mme, row))
<1>2. /\ key \in DOMAIN open /\ key \in Key
      /\ key.enb = row.enb
      /\ row.cell # None => key = RowKey(row)
  BY <1>1, TurnFacts, ResolveInKey DEF IInv, TypeOK, Reusable, Continue
<1>3. /\ open[key] \in OpenSession
      /\ sid \in Nat /\ sid \in NewIds /\ sid \in DOMAIN states
      /\ states[sid] \in RuleState
  BY <1>2 DEF IInv, TypeOK, PassInv, RunnerTracksOpenSessions, OpenSession
<1>4. e \in OpenSession /\ e.session = sid
  BY <1>3, TurnFacts, LatchType, EntryType DEF OpenSession
<1>5. /\ txSessions' = txSessions
      /\ NewIds' = NewIds
      /\ DOMAIN open' = DOMAIN open
      /\ \A k \in DOMAIN open : open'[k].session = open[k].session
      /\ DOMAIN states' = DOMAIN states
  <2>1. txSessions' = txSessions /\ NewIds' = NewIds
    BY DEF Continue, NewIds
  <2>2. DOMAIN states' = DOMAIN states
    BY <1>1, <1>3 DEF Put, Assign
  <2> QED BY <1>1, <1>2, <1>4, <2>1, <2>2 DEF Put
<1>6. stats' \in Stats
  <2>1. stats' = Count("assigned")
    BY DEF Continue
  <2> QED BY <2>1, TurnFacts, CountStats
<1>7. TypeOK'
  <2>1. pending' \in Seq(Alert)
    BY <1>1, <1>3, TurnFacts, AlertsType, ConcatFacts DEF Assign
  <2>2. \A s \in DOMAIN states' : states'[s] \in RuleState
    BY <1>1, <1>3, TurnFacts, ObserveType DEF Assign, Put, IInv, TypeOK
  <2>3. \A k \in DOMAIN open' : open'[k] \in OpenSession
    BY <1>1, <1>4 DEF Put, IInv, TypeOK
  <2>4. /\ DOMAIN assignments' \subseteq DOMAIN messages
        /\ \A m \in DOMAIN assignments' : assignments'[m] \in DOMAIN txSessions'
    BY <1>1, <1>3, <1>5, TurnFacts DEF Assign, Put, IInv, TypeOK, NewIds
  <2>5. /\ DOMAIN lastTs' \subseteq DOMAIN txSessions'
        /\ \A s \in DOMAIN lastTs' : lastTs'[s] \in Nat
    BY <1>1, <1>3, <1>5, TurnFacts DEF Assign, Put, IInv, TypeOK, NewIds, Row
  <2> QED
    BY <1>5, <1>6, <2>1, <2>2, <2>3, <2>4, <2>5, TurnFacts DEF IInv, TypeOK
<1>8. PassInv'
  <2>1. \A m \in DOMAIN assignments' : assignments'[m] \in NewIds
    BY <1>1, <1>3 DEF Assign, Put, IInv, PassInv
  <2>2. /\ DOMAIN assignments' \subseteq done' /\ DOMAIN lastTs' \subseteq NewIds
    BY <1>1, <1>3 DEF Assign, Put, IInv, PassInv
  <2> QED BY <1>5, <1>6, <2>1, <2>2 DEF IInv, PassInv
<1>9. (RunnerTracksOpenSessions /\ KeyInv)'
  BY <1>5 DEF IInv, RunnerTracksOpenSessions, KeyInv
<1>10. Fits(row, txSessions[sid])
  BY <1>2 DEF IInv, KeyInv, Fits, RowKey
<1>11. ContextInv'
  BY <1>1, <1>5, <1>10 DEF IInv, ContextInv, Assign, Put
<1>12. SessionIsOneContext'
  BY DEF IInv, SessionIsOneContext
<1> QED BY <1>7, <1>8, <1>9, <1>11, <1>12 DEF IInv

LEMMA OpenInv ==
    ASSUME IInv, ReadRow, NEW mid \in NextRow, done' = done \cup {mid},
           Open(mid)
    PROVE  IInv'
<1> DEFINE row == messages[mid]
           sid == Len(txSessions) + 1
           e == Entry(sid, row, row.mme)
<1> USE DEF ReadRow, storeVars
<1>1. PICK key \in Resolve(open, row) :
        /\ txSessions' = Append(txSessions, NewSession(key, row))
        /\ open' = Put(open, key, e)
        /\ Assign(mid, sid, NoState, Without(states, Stale(key)))
  BY DEF Open
<1>2. /\ key \in Key /\ key.enb = row.enb
      /\ row.cell # None => key = RowKey(row)
  <2>1. row \in Row /\ row.enb # None /\ DOMAIN open \subseteq Key
    BY TurnFacts DEF IInv, TypeOK, Open
  <2>2. key \in Resolve(open, row)
    BY <1>1
  <2> QED BY <2>1, <2>2, ResolveInKey
<1>3. e \in OpenSession /\ e.session = sid
  <2>1. row \in Row /\ row.mme \in Mme \cup {None} /\ sid \in Nat
    BY TurnFacts DEF Row
  <2> QED BY <2>1, EntryType
<1>4. /\ txSessions' \in Seq(Session)
      /\ DOMAIN txSessions' = DOMAIN txSessions \cup {sid}
      /\ sid \notin DOMAIN txSessions /\ sid \in Nat
      /\ \A i \in DOMAIN txSessions : txSessions'[i] = txSessions[i]
      /\ txSessions'[sid] = NewSession(key, row)
  BY <1>1, <1>2, TurnFacts, NewSessionType, AppendFacts
<1>5. /\ sid \in NewIds' /\ NewIds \subseteq NewIds'
      /\ DOMAIN open' = DOMAIN open \cup {key}
      /\ open'[key] = e
      /\ \A k \in DOMAIN open \ {key} : open'[k] = open[k]
  BY <1>1, <1>4 DEF NewIds, Put, IInv, PassInv
<1>6. /\ DOMAIN states' = (DOMAIN states \ Stale(key)) \cup {sid}
      /\ \A s \in DOMAIN states' : states'[s] \in RuleState
  BY <1>1, TurnFacts, ObserveType, NoStateType
     DEF Assign, Put, Without, IInv, TypeOK
<1>7. stats' \in Stats
  <2>1. stats' = [stats EXCEPT !.created = @ + 1, !.assigned = @ + 1]
    BY DEF Open
  <2>2. stats.created + 1 \in Nat /\ stats.assigned + 1 \in Nat
    BY TurnFacts DEF Stats
  <2> QED BY <2>1, <2>2, TurnFacts DEF Stats
<1>8. TypeOK'
  <2>1. pending' \in Seq(Alert)
    BY <1>1, <1>4, TurnFacts, NoStateType, AlertsType, ConcatFacts DEF Assign
  <2>2. DOMAIN open' \subseteq Key /\ \A k \in DOMAIN open' : open'[k] \in OpenSession
    BY <1>2, <1>3, <1>5 DEF IInv, TypeOK
  <2>3. /\ DOMAIN assignments' \subseteq DOMAIN messages
        /\ \A m \in DOMAIN assignments' : assignments'[m] \in DOMAIN txSessions'
    BY <1>1, <1>4, TurnFacts DEF Assign, Put, IInv, TypeOK
  <2>4. /\ DOMAIN lastTs' \subseteq DOMAIN txSessions'
        /\ \A s \in DOMAIN lastTs' : lastTs'[s] \in Nat
    BY <1>1, <1>4, TurnFacts DEF Assign, Put, IInv, TypeOK, Row
  <2> QED
    BY <1>4, <1>6, <1>7, <2>1, <2>2, <2>3, <2>4, TurnFacts DEF IInv, TypeOK
<1>9. PassInv'
  <2>1. \A m \in DOMAIN assignments' : assignments'[m] \in NewIds'
    BY <1>1, <1>5 DEF Assign, Put, IInv, PassInv
  <2>2. DOMAIN assignments' \subseteq done' /\ DOMAIN lastTs' \subseteq NewIds'
    BY <1>1, <1>5 DEF Assign, Put, IInv, PassInv
  <2>3. \A k \in DOMAIN open' : open'[k].session \in NewIds'
    BY <1>3, <1>5 DEF IInv, PassInv
  <2> QED BY <1>4, <1>7, <2>1, <2>2, <2>3 DEF IInv, PassInv
<1>10. RunnerTracksOpenSessions'
  <2>1. \A k \in DOMAIN open : open[k].session # sid
    BY <1>4 DEF IInv, PassInv, NewIds
  <2>2. Stale(key) = {open[k].session : k \in DOMAIN open \cap {key}}
    BY DEF Stale
  <2>3. DOMAIN states \ Stale(key) = {open[k].session : k \in DOMAIN open \ {key}}
    BY <2>2 DEF IInv, RunnerTracksOpenSessions
  <2> QED BY <1>3, <1>5, <1>6, <2>1, <2>3 DEF IInv, RunnerTracksOpenSessions
<1>11. KeyInv'
  BY <1>2, <1>3, <1>4, <1>5, TurnFacts, NewSessionType
     DEF IInv, KeyInv, PassInv, NewIds
<1>12. ContextInv'
  <2>1. Fits(row, txSessions'[sid])
    BY <1>2, <1>4, TurnFacts, NewSessionType DEF Fits, RowKey
  <2> QED BY <1>1, <1>4, <2>1 DEF IInv, ContextInv, TypeOK, Assign, Put
<1>13. SessionIsOneContext'
  BY DEF IInv, SessionIsOneContext, Fits
<1> QED BY <1>8, <1>9, <1>10, <1>11, <1>12, <1>13 DEF IInv

LEMMA StepInv == IInv /\ [Next]_vars => IInv'
<1> SUFFICES ASSUME IInv, [Next]_vars PROVE IInv'
  OBVIOUS
<1>1. CASE Ingest
  BY <1>1, IngestInv
<1>2. CASE Select
  BY <1>2, SelectInv
<1>3. CASE ReadRow
  <2>1. PICK mid \in NextRow :
          /\ SkipNoEnb(mid) \/ SkipAmbiguous(mid) \/ Continue(mid) \/ Open(mid)
          /\ done' = done \cup {mid}
    BY <1>3 DEF ReadRow
  <2> QED BY <1>3, <2>1, SkipInv, ContinueInv, OpenInv
<1>4. CASE Abort
  BY <1>4, RollbackInv DEF Abort, IInv, TypeOK
<1>5. CASE Commit
  BY <1>5, CommitInv
<1>6. CASE Fail
  BY <1>6, RollbackInv, MaxFailuresAssumption DEF Fail, IInv, TypeOK
<1>7. CASE UNCHANGED vars
  <2>1. TypeOK'
    BY <1>7 DEF vars, storeVars, passVars, IInv, TypeOK
  <2>2. RunnerTracksOpenSessions' /\ KeyInv'
    BY <1>7 DEF vars, storeVars, passVars, IInv, RunnerTracksOpenSessions, KeyInv
  <2>3. ContextInv' /\ SessionIsOneContext'
    BY <1>7 DEF vars, storeVars, passVars, IInv, ContextInv, Fits,
                SessionIsOneContext
  <2>4. PassInv'
    BY <1>7 DEF vars, storeVars, passVars, IInv, PassInv, NewIds
  <2> QED BY <2>1, <2>2, <2>3, <2>4 DEF IInv
<1> QED BY <1>1, <1>2, <1>3, <1>4, <1>5, <1>6, <1>7 DEF Next

LEMMA Invariance == Spec => []IInv
BY InitInv, StepInv, PTL DEF Spec

-----------------------------------------------------------------------------

\* Every table, dict and buffer of the detector keeps its shape, for every
\* traffic, gap and number of rows and lost passes.
THEOREM TypeCorrect == Spec => []TypeOK
BY Invariance, PTL DEF IInv

\* No published session ever mixes two contexts (_resolve_key and step).
THEOREM OneContext == Spec => []SessionIsOneContext
BY Invariance, PTL DEF IInv

\* on_open, on_message and on_close are called in an order that never misses
\* a key of the dict of rule states.
THEOREM RunnerNeverMisses == Spec => []RunnerTracksOpenSessions
BY Invariance, PTL DEF IInv

-----------------------------------------------------------------------------
(* The order of the messages of a session.                                 *)

\* The rows read so far come before those that are left.
ReadInOrder == \A m \in done, n \in rows \ done : Follows(m, n)

\* Under each key is the state of its session's last message.
LastInv ==
    \A k \in DOMAIN open :
        \E last \in DOMAIN assignments :
            /\ assignments[last] = open[k].session
            /\ messages[last].ts = open[k].lastTs
            /\ open[k].closedByDetach <=> messages[last].type = "DetachRequest"
            /\ \A m \in DOMAIN assignments :
                  assignments[m] = open[k].session => m = last \/ Follows(m, last)

\* NoGapInside and DetachEndsSession, said of the buffered assignments.
PairInv ==
    \A m, n \in DOMAIN assignments :
        assignments[m] = assignments[n] /\ Follows(m, n) =>
            /\ messages[m].type # "DetachRequest"
            /\ \E next \in DOMAIN assignments :
                  /\ assignments[next] = assignments[m]
                  /\ Follows(m, next)
                  /\ messages[next].ts - messages[m].ts <= Gap

OInv == ReadInOrder /\ LastInv /\ PairInv /\ NoGapInside /\ DetachEndsSession

LEMMA FollowsOrder ==
    ASSUME messages \in Seq(Row),
           NEW m \in DOMAIN messages, NEW n \in DOMAIN messages
    PROVE  /\ ~(Follows(m, n) /\ Follows(n, m))
           /\ Follows(m, n) => m # n
<1>1. messages[m] \in Row /\ messages[n] \in Row /\ m \in Nat /\ n \in Nat
  OBVIOUS
<1> QED BY <1>1 DEF Follows, Before, Row

\* Rows of the table are never changed, so that the order of two stays.
LEMMA TableGrows ==
    ASSUME IInv, Ingest
    PROVE  /\ DOMAIN messages \subseteq DOMAIN messages'
           /\ \A m \in DOMAIN messages : messages'[m] = messages[m]
<1>1. PICK capture \in Seq(Row) : messages' = messages \o capture
  BY CapturesAssumption DEF Ingest, Arrive
<1> QED BY <1>1, ConcatFacts DEF IInv, TypeOK

LEMMA InitOrder == Init => OInv
BY DEF Init, StoreInit, OInv, ReadInOrder, LastInv, PairInv, NoGapInside,
       DetachEndsSession

LEMMA IngestOrder ==
    ASSUME IInv, OInv, Ingest PROVE OInv'
<1>1. /\ \A m \in DOMAIN messages : messages'[m] = messages[m]
      /\ UNCHANGED <<rows, done, open, assignments, sessionOf>>
  BY TableGrows DEF Ingest, Arrive, passVars
<1>2. /\ DOMAIN assignments \subseteq DOMAIN messages
      /\ DOMAIN sessionOf \subseteq DOMAIN messages
      /\ rows \subseteq DOMAIN messages /\ done \subseteq DOMAIN messages
  BY DEF IInv, TypeOK
<1>3. \A m, n \in DOMAIN messages : Follows(m, n)' <=> Follows(m, n)
  BY <1>1 DEF Follows, Before
<1>4. ReadInOrder'
  BY <1>1, <1>2, <1>3 DEF OInv, ReadInOrder
<1>5. LastInv'
  BY <1>1, <1>2, <1>3 DEF OInv, LastInv
<1>6. PairInv'
  BY <1>1, <1>2, <1>3 DEF OInv, PairInv
<1>7. NoGapInside' /\ DetachEndsSession'
  BY <1>1, <1>2, <1>3 DEF OInv, NoGapInside, DetachEndsSession, Members
<1> QED BY <1>4, <1>5, <1>6, <1>7 DEF OInv

LEMMA EmptyPassOrder ==
    ASSUME OInv, UNCHANGED <<messages, sessionOf>>, done' = {}, open' = <<>>,
           assignments' = <<>>
    PROVE  OInv'
<1>1. (ReadInOrder /\ LastInv /\ PairInv)'
  BY DEF ReadInOrder, LastInv, PairInv
<1>2. (NoGapInside /\ DetachEndsSession)'
  BY DEF OInv, NoGapInside, DetachEndsSession, Members, Follows, Before
<1> QED BY <1>1, <1>2 DEF OInv

LEMMA CommitOrder ==
    ASSUME IInv, OInv, Commit PROVE OInv'
<1> USE DEF Commit, PassOver
<1>1. (ReadInOrder /\ LastInv /\ PairInv)'
  BY DEF ReadInOrder, LastInv, PairInv
<1>2. /\ DOMAIN sessionOf' = DOMAIN sessionOf \cup DOMAIN assignments
      /\ \A m \in DOMAIN assignments : sessionOf'[m] = assignments[m]
      /\ \A m \in DOMAIN sessionOf : sessionOf'[m] = sessionOf[m]
  BY DEF IInv, PassInv, TypeOK, Overlay
<1>3. \A m \in DOMAIN assignments, n \in DOMAIN sessionOf :
        assignments[m] # sessionOf[n]
  BY DEF IInv, PassInv, TypeOK, NewIds
<1>4. \A m, n : Follows(m, n)' <=> Follows(m, n)
  BY DEF Follows, Before
<1>5. SUFFICES ASSUME NEW m \in DOMAIN sessionOf', NEW n \in DOMAIN sessionOf',
                      sessionOf'[m] = sessionOf'[n], Follows(m, n)
               PROVE  /\ messages[m].type # "DetachRequest"
                      /\ \E next \in DOMAIN sessionOf' :
                            /\ sessionOf'[next] = sessionOf'[m]
                            /\ Follows(m, next)
                            /\ messages[next].ts - messages[m].ts <= Gap
  BY <1>1, <1>4 DEF OInv, NoGapInside, DetachEndsSession, Members
<1>6. CASE m \in DOMAIN assignments /\ n \in DOMAIN assignments
  BY <1>2, <1>5, <1>6 DEF OInv, PairInv
<1>7. CASE m \in DOMAIN sessionOf /\ n \in DOMAIN sessionOf
  BY <1>2, <1>5, <1>7 DEF OInv, NoGapInside, DetachEndsSession, Members
<1> QED BY <1>2, <1>3, <1>5, <1>6, <1>7

\* The row just read comes after all the rows read before.
LEMMA ReadInOrderStep ==
    ASSUME IInv, OInv, ReadRow, NEW mid \in NextRow, done' = done \cup {mid}
    PROVE  /\ ReadInOrder'
           /\ \A m \in DOMAIN assignments : Follows(m, mid) /\ ~Follows(mid, m)
           /\ ~Follows(mid, mid)
<1>1. \A m, n : Follows(m, n)' <=> Follows(m, n)
  BY DEF ReadRow, storeVars, Follows, Before
<1>2. \A n \in (rows \ done) \ {mid} : Follows(mid, n)
  BY DEF NextRow, Follows
<1>3. \A m \in done : Follows(m, mid)
  BY TurnFacts DEF OInv, ReadInOrder
<1>4. ReadInOrder'
  BY <1>1, <1>2 DEF OInv, ReadInOrder, ReadRow
<1>5. \A m \in DOMAIN assignments : m \in done /\ m \in DOMAIN messages
  BY DEF IInv, PassInv, TypeOK
<1> QED BY <1>3, <1>4, <1>5, TurnFacts, FollowsOrder DEF IInv, TypeOK

LEMMA SkipOrder ==
    ASSUME IInv, OInv, ReadRow, NEW mid \in NextRow, done' = done \cup {mid},
           SkipNoEnb(mid) \/ SkipAmbiguous(mid)
    PROVE  OInv'
<1>1. UNCHANGED <<messages, sessionOf, open, assignments>>
  BY DEF SkipNoEnb, SkipAmbiguous, ReadRow, storeVars
<1>2. (LastInv /\ PairInv /\ NoGapInside /\ DetachEndsSession)'
  BY <1>1 DEF OInv, LastInv, PairInv, NoGapInside, DetachEndsSession, Members,
              Follows, Before
<1> QED BY <1>2, ReadInOrderStep DEF OInv

\* A row is assigned to session sid under key: what both steps have in common.
LEMMA AssignOrder ==
    ASSUME IInv, OInv, ReadRow, NEW mid \in NextRow, done' = done \cup {mid},
           NEW key, NEW sid, NEW e,
           open' = Put(open, key, e),
           assignments' = Put(assignments, mid, sid),
           e.session = sid,
           e.lastTs = messages[mid].ts,
           e.closedByDetach = (messages[mid].type = "DetachRequest"),
           \A k \in DOMAIN open \ {key} : open[k].session # sid,
           \A m \in DOMAIN assignments : assignments[m] = sid =>
               /\ messages[m].type # "DetachRequest"
               /\ messages[mid].ts - messages[m].ts <= Gap
                  \/ \E n \in DOMAIN assignments :
                        assignments[n] = sid /\ Follows(m, n)
    PROVE  OInv'
<1> USE DEF ReadRow, storeVars
<1>1. \A m, n : Follows(m, n)' <=> Follows(m, n)
  BY DEF Follows, Before
<1>2. mid \notin DOMAIN assignments
  BY TurnFacts
<1>3. /\ DOMAIN assignments' = DOMAIN assignments \cup {mid}
      /\ assignments'[mid] = sid
      /\ \A m \in DOMAIN assignments : assignments'[m] = assignments[m]
      /\ DOMAIN open' = DOMAIN open \cup {key}
      /\ open'[key] = e
      /\ \A k \in DOMAIN open \ {key} : open'[k] = open[k]
  BY <1>2 DEF Put
<1>4. LastInv'
  <2>1. ASSUME NEW k \in DOMAIN open \ {key}
        PROVE  \E last \in DOMAIN assignments' :
                 /\ assignments'[last] = open'[k].session
                 /\ messages[last].ts = open'[k].lastTs
                 /\ open'[k].closedByDetach <=> messages[last].type = "DetachRequest"
                 /\ \A m \in DOMAIN assignments' :
                       assignments'[m] = open'[k].session => m = last \/ Follows(m, last)
    BY <1>3 DEF OInv, LastInv
  <2>2. \A m \in DOMAIN assignments' : m = mid \/ Follows(m, mid)
    BY <1>3, ReadInOrderStep
  <2>3. /\ assignments'[mid] = open'[key].session
        /\ messages[mid].ts = open'[key].lastTs
        /\ open'[key].closedByDetach <=> messages[mid].type = "DetachRequest"
    BY <1>3
  <2>4. ASSUME NEW k \in DOMAIN open'
        PROVE  \E last \in DOMAIN assignments' :
                 /\ assignments'[last] = open'[k].session
                 /\ messages[last].ts = open'[k].lastTs
                 /\ open'[k].closedByDetach <=> messages[last].type = "DetachRequest"
                 /\ \A m \in DOMAIN assignments' :
                       assignments'[m] = open'[k].session => m = last \/ Follows(m, last)
    <3>1. CASE k = key
      BY <1>3, <2>2, <2>3, <3>1
    <3>2. CASE k # key
      BY <1>3, <2>1, <3>2
    <3> QED BY <3>1, <3>2
  <2> QED BY <1>1, <2>4 DEF LastInv
<1>5. PairInv'
  <2> SUFFICES ASSUME NEW m \in DOMAIN assignments', NEW n \in DOMAIN assignments',
                      assignments'[m] = assignments'[n], Follows(m, n)
               PROVE  /\ messages[m].type # "DetachRequest"
                      /\ \E next \in DOMAIN assignments' :
                            /\ assignments'[next] = assignments'[m]
                            /\ Follows(m, next)
                            /\ messages[next].ts - messages[m].ts <= Gap
    BY <1>1 DEF PairInv
  <2>1. m \in DOMAIN assignments
    BY <1>3, ReadInOrderStep
  <2>2. CASE n \in DOMAIN assignments
    BY <1>3, <2>1, <2>2 DEF OInv, PairInv
  <2>3. CASE n = mid
    <3>1. assignments[m] = sid
      BY <1>3, <2>1, <2>3
    <3>2. CASE messages[mid].ts - messages[m].ts <= Gap
      BY <1>3, <2>1, <2>3, <3>1, <3>2
    <3>3. CASE \E n2 \in DOMAIN assignments : assignments[n2] = sid /\ Follows(m, n2)
      BY <1>3, <2>1, <3>1, <3>3 DEF OInv, PairInv
    <3> QED BY <2>1, <3>1, <3>2, <3>3
  <2> QED BY <1>3, <2>2, <2>3
<1>6. (NoGapInside /\ DetachEndsSession)'
  BY <1>1 DEF OInv, NoGapInside, DetachEndsSession, Members
<1> QED BY <1>4, <1>5, <1>6, ReadInOrderStep DEF OInv

LEMMA ContinueOrder ==
    ASSUME IInv, OInv, ReadRow, NEW mid \in NextRow, done' = done \cup {mid},
           Continue(mid)
    PROVE  OInv'
<1> DEFINE row == messages[mid]
<1>1. PICK key \in Resolve(open, row) :
        /\ Reusable(open, key, row)
        /\ open' = Put(open, key, Entry(open[key].session, row,
                                       Latch(open[key].mme, row)))
        /\ Assign(mid, open[key].session, states[open[key].session], states)
  BY DEF Continue
<1> DEFINE sid == open[key].session
           e == Entry(sid, row, Latch(open[key].mme, row))
<1>2. key \in DOMAIN open /\ ~open[key].closedByDetach /\ row.ts - open[key].lastTs <= Gap
  BY <1>1 DEF Reusable
<1>3. assignments' = Put(assignments, mid, sid)
  BY <1>1 DEF Assign
<1>4. /\ e.session = sid /\ e.lastTs = row.ts
      /\ e.closedByDetach = (row.type = "DetachRequest")
  BY DEF Entry
<1>5. \A k \in DOMAIN open \ {key} : open[k].session # sid
  BY <1>2 DEF IInv, RunnerTracksOpenSessions
<1>6. PICK last \in DOMAIN assignments :
        /\ assignments[last] = sid
        /\ messages[last].ts = open[key].lastTs
        /\ open[key].closedByDetach <=> messages[last].type = "DetachRequest"
        /\ \A m \in DOMAIN assignments :
              assignments[m] = sid => m = last \/ Follows(m, last)
  BY <1>2 DEF OInv, LastInv
<1>7. ASSUME NEW m \in DOMAIN assignments, assignments[m] = sid
      PROVE  /\ messages[m].type # "DetachRequest"
             /\ row.ts - messages[m].ts <= Gap
                \/ \E n \in DOMAIN assignments :
                      assignments[n] = sid /\ Follows(m, n)
  BY <1>2, <1>6, <1>7 DEF OInv, PairInv
<1> HIDE DEF e, sid
<1>8. open' = Put(open, key, e)
  BY <1>1 DEF e, sid
<1> QED BY <1>3, <1>4, <1>5, <1>7, <1>8, AssignOrder

LEMMA OpenOrder ==
    ASSUME IInv, OInv, ReadRow, NEW mid \in NextRow, done' = done \cup {mid},
           Open(mid)
    PROVE  OInv'
<1> DEFINE row == messages[mid]
           sid == Len(txSessions) + 1
           e == Entry(sid, row, row.mme)
<1>1. PICK key \in Resolve(open, row) :
        /\ open' = Put(open, key, e)
        /\ Assign(mid, sid, NoState, Without(states, Stale(key)))
  BY DEF Open
<1>2. assignments' = Put(assignments, mid, sid)
  BY <1>1 DEF Assign
<1>3. /\ e.session = sid /\ e.lastTs = row.ts
      /\ e.closedByDetach = (row.type = "DetachRequest")
  BY DEF Entry
<1>4. sid \notin DOMAIN txSessions
  BY TurnFacts
<1>5. /\ \A k \in DOMAIN open \ {key} : open[k].session # sid
      /\ \A m \in DOMAIN assignments : assignments[m] # sid
  BY <1>4 DEF IInv, PassInv, NewIds
<1> HIDE DEF e, sid
<1> QED BY <1>1, <1>2, <1>3, <1>5, AssignOrder

LEMMA StepOrder == IInv /\ OInv /\ [Next]_vars => OInv'
<1> SUFFICES ASSUME IInv, OInv, [Next]_vars PROVE OInv'
  OBVIOUS
<1>1. CASE Ingest
  BY <1>1, IngestOrder
<1>2. CASE Select
  BY <1>2, EmptyPassOrder DEF Select, storeVars, IInv, PassInv
<1>3. CASE ReadRow
  <2>1. PICK mid \in NextRow :
          /\ SkipNoEnb(mid) \/ SkipAmbiguous(mid) \/ Continue(mid) \/ Open(mid)
          /\ done' = done \cup {mid}
    BY <1>3 DEF ReadRow
  <2> QED BY <1>3, <2>1, SkipOrder, ContinueOrder, OpenOrder
<1>4. CASE Abort \/ Fail
  BY <1>4, EmptyPassOrder DEF Abort, Fail, Rollback, PassOver, storeVars
<1>5. CASE Commit
  BY <1>5, CommitOrder
<1>6. CASE UNCHANGED vars
  BY <1>6 DEF vars, storeVars, passVars, OInv, ReadInOrder, LastInv, PairInv,
              NoGapInside, DetachEndsSession, Members, Follows, Before
<1> QED BY <1>1, <1>2, <1>3, <1>4, <1>5, <1>6 DEF Next

LEMMA OrderInvariance == Spec => []OInv
BY Invariance, InitOrder, StepOrder, PTL DEF Spec

\* However passes are cut, no published session bridges a silence longer than
\* the gap (step, engine.py:136-140).
THEOREM GapEndsSessions == Spec => []NoGapInside
BY OrderInvariance, PTL DEF OInv

\* No published session goes on after a DetachRequest (step, engine.py:167).
THEOREM DetachEndsSessions == Spec => []DetachEndsSession
BY OrderInvariance, PTL DEF OInv

-----------------------------------------------------------------------------
(* What splits the messages of a context inside one pass.                  *)

\* Between m and the row last read, something has ended m's session: a
\* DetachRequest, or a silence longer than the gap.
Cut(m) ==
    \E d \in DOMAIN assignments :
        /\ d = m \/ Follows(m, d)
        /\ Detach(d) \/ messages[d].ts - messages[m].ts > Gap

\* What is open under a message's own key is its session, unless it was cut.
SplitInv ==
    \A m \in DOMAIN assignments :
        LET key == RowKey(messages[m])
        IN  messages[m].cell # None =>
                /\ key \in DOMAIN open
                /\ open[key].session = assignments[m] \/ Cut(m)

\* PassSplitsOnlyByGapOrDetach, said of the buffered assignments.
Severed(m, n) ==
    \/ messages[n].ts - messages[m].ts > Gap
    \/ \E d \in DOMAIN assignments :
          (d = m \/ Follows(m, d)) /\ Follows(d, n) /\ Detach(d)

ApartInv ==
    \A m, n \in DOMAIN assignments :
        SameContext(m, n) /\ Follows(m, n) /\ assignments[m] # assignments[n] =>
            Severed(m, n)

SInv == SplitInv /\ ApartInv

LEMMA FollowsFacts ==
    ASSUME messages \in Seq(Row), NEW m \in DOMAIN messages,
           NEW d \in DOMAIN messages, NEW n \in DOMAIN messages
    PROVE  /\ Follows(m, d) => messages[m].ts <= messages[d].ts
           /\ Follows(m, d) /\ Follows(d, n) => Follows(m, n)
           /\ messages[m].ts \in Nat /\ messages[d].ts \in Nat
<1>1. /\ messages[m] \in Row /\ messages[d] \in Row /\ messages[n] \in Row
      /\ m \in Nat /\ d \in Nat /\ n \in Nat
  OBVIOUS
<1> QED BY <1>1 DEF Follows, Before, Row

\* A message is assigned only with an eNB-UE id.
LEMMA AssignedHasEnb ==
    ASSUME IInv, NEW m \in DOMAIN assignments PROVE messages[m].enb # None
<1>1. txSessions[assignments[m]] \in Session
  BY DEF IInv, TypeOK
<1>2. messages[m].enb \in Enb
  BY <1>1 DEF IInv, ContextInv, Fits, Session
<1> QED BY <1>2, NoneAssumption

\* A row is assigned to session sid under key, which is not the session found
\* there only when that one has ended.
LEMMA AssignSplit ==
    ASSUME IInv, OInv, SInv, ReadRow, NEW mid \in NextRow,
           NEW key \in Resolve(open, messages[mid]), NEW sid, NEW e,
           open' = Put(open, key, e),
           assignments' = Put(assignments, mid, sid),
           e.session = sid, done' = done \cup {mid},
           key \in DOMAIN open =>
               \/ sid = open[key].session
               \/ open[key].closedByDetach
               \/ messages[mid].ts - open[key].lastTs > Gap
    PROVE  SInv'
<1> USE DEF ReadRow, storeVars
<1>1. \A m, n : (Follows(m, n)' <=> Follows(m, n)) /\ (Detach(m)' <=> Detach(m))
  BY DEF Follows, Before, Detach
<1>2. mid \notin DOMAIN assignments /\ mid \in DOMAIN messages
  BY TurnFacts
<1>3. /\ DOMAIN assignments' = DOMAIN assignments \cup {mid}
      /\ assignments'[mid] = sid
      /\ \A m \in DOMAIN assignments : assignments'[m] = assignments[m]
      /\ DOMAIN open' = DOMAIN open \cup {key}
      /\ open'[key] = e
      /\ \A k \in DOMAIN open \ {key} : open'[k] = open[k]
  BY <1>2 DEF Put
<1>4. /\ messages \in Seq(Row) /\ DOMAIN assignments \subseteq DOMAIN messages
      /\ Gap \in Nat
  BY GapAssumption DEF IInv, TypeOK
<1>5. messages[mid].cell # None => key = RowKey(messages[mid])
  BY DEF Resolve
<1>6. \A d \in DOMAIN assignments : Follows(d, mid)
  BY ReadInOrderStep
<1>7. ASSUME NEW m \in DOMAIN assignments, messages[m].cell # None,
             RowKey(messages[m]) = key, sid # assignments[m]
      PROVE  Severed(m, mid)
  <2>1. key \in DOMAIN open /\ (open[key].session = assignments[m] \/ Cut(m))
    BY <1>7 DEF SInv, SplitInv
  <2>2. CASE Cut(m)
    <3>1. PICK d \in DOMAIN assignments :
            /\ d = m \/ Follows(m, d)
            /\ Detach(d) \/ messages[d].ts - messages[m].ts > Gap
      BY <2>2 DEF Cut
    <3>2. CASE Detach(d)
      BY <1>6, <3>1, <3>2 DEF Severed
    <3>3. CASE messages[d].ts - messages[m].ts > Gap
      <4>1. messages[d].ts <= messages[mid].ts /\ messages[mid].ts \in Nat
            /\ messages[d].ts \in Nat /\ messages[m].ts \in Nat
        BY <1>2, <1>4, <1>6, FollowsFacts
      <4> QED BY <1>4, <3>3, <4>1 DEF Severed
    <3> QED BY <3>1, <3>2, <3>3
  <2>3. CASE open[key].session = assignments[m]
    <3>1. PICK last \in DOMAIN assignments :
            /\ assignments[last] = open[key].session
            /\ messages[last].ts = open[key].lastTs
            /\ open[key].closedByDetach <=> messages[last].type = "DetachRequest"
            /\ \A n \in DOMAIN assignments :
                  assignments[n] = open[key].session => n = last \/ Follows(n, last)
      BY <2>1 DEF OInv, LastInv
    <3>2. m = last \/ Follows(m, last)
      BY <2>3, <3>1
    <3>3. CASE open[key].closedByDetach
      <4>1. Detach(last)
        BY <3>1, <3>3, AssignedHasEnb DEF Detach
      <4> QED BY <1>6, <3>2, <4>1 DEF Severed
    <3>4. CASE messages[mid].ts - open[key].lastTs > Gap
      <4>1. /\ messages[m].ts <= messages[last].ts
            /\ messages[mid].ts \in Nat /\ messages[last].ts \in Nat
            /\ messages[m].ts \in Nat
        BY <1>2, <1>4, <3>2, FollowsFacts
      <4>2. messages[mid].ts - messages[last].ts > Gap
        BY <3>1, <3>4
      <4>3. messages[mid].ts - messages[m].ts > Gap
        BY <1>4, <4>1, <4>2
      <4> QED BY <4>3 DEF Severed
    <3> QED BY <1>7, <2>1, <2>3, <3>3, <3>4
  <2> QED BY <2>1, <2>2, <2>3
<1>8. SplitInv'
  <2> SUFFICES ASSUME NEW m \in DOMAIN assignments', messages[m].cell # None
               PROVE  /\ RowKey(messages[m]) \in DOMAIN open'
                      /\ \/ open'[RowKey(messages[m])].session = assignments'[m]
                         \/ Cut(m)'
    BY DEF SplitInv, RowKey
  <2>1. CASE m = mid
    BY <1>3, <1>5, <2>1
  <2>2. CASE m \in DOMAIN assignments
    <3>1. Cut(m) => Cut(m)'
      BY <1>1, <1>3 DEF Cut
    <3>2. /\ RowKey(messages[m]) \in DOMAIN open
          /\ open[RowKey(messages[m])].session = assignments[m] \/ Cut(m)
      BY <2>2 DEF SInv, SplitInv
    <3>3. CASE RowKey(messages[m]) # key
      BY <1>3, <2>2, <3>1, <3>2, <3>3
    <3>4. CASE RowKey(messages[m]) = key /\ sid = assignments[m]
      BY <1>3, <2>2, <3>4
    <3>5. CASE RowKey(messages[m]) = key /\ sid # assignments[m]
      <4>1. Severed(m, mid)
        BY <1>7, <2>2, <3>5
      <4>2. CASE messages[mid].ts - messages[m].ts > Gap
        <5>1. Follows(m, mid)'
          BY <1>1, <1>6, <2>2
        <5>2. Cut(m)'
          BY <1>3, <4>2, <5>1 DEF Cut
        <5> QED BY <1>3, <3>5, <5>2
      <4>3. CASE \E d \in DOMAIN assignments : (d = m \/ Follows(m, d)) /\ Detach(d)
        <5>1. Cut(m)'
          BY <1>1, <1>3, <4>3 DEF Cut
        <5> QED BY <1>3, <3>5, <5>1
      <4> QED BY <4>1, <4>2, <4>3 DEF Severed
    <3> QED BY <3>3, <3>4, <3>5
  <2> QED BY <1>3, <2>1, <2>2
<1>9. ApartInv'
  <2> SUFFICES ASSUME NEW m \in DOMAIN assignments', NEW n \in DOMAIN assignments',
                      SameContext(m, n), Follows(m, n),
                      assignments'[m] # assignments'[n]
               PROVE  Severed(m, n)'
    BY <1>1 DEF ApartInv, SameContext, RowKey
  <2>1. Severed(m, n) => Severed(m, n)'
    BY <1>1, <1>3 DEF Severed
  <2>2. m \in DOMAIN assignments
    BY <1>3, ReadInOrderStep
  <2>3. CASE n \in DOMAIN assignments
    BY <1>3, <2>1, <2>2, <2>3 DEF SInv, ApartInv
  <2>4. CASE n = mid
    <3>1. messages[m].cell # None /\ RowKey(messages[m]) = RowKey(messages[mid])
      BY <2>4 DEF SameContext
    <3>2. messages[mid].cell # None
      BY <3>1 DEF RowKey
    <3> QED BY <1>3, <1>5, <1>7, <2>1, <2>2, <2>4, <3>1, <3>2
  <2> QED BY <1>3, <2>3, <2>4
<1> QED BY <1>8, <1>9 DEF SInv

LEMMA StepSplit ==
    ASSUME IInv, OInv, SInv, [Next]_vars PROVE SInv'
<1>1. CASE Ingest
  <2>1. /\ \A m \in DOMAIN messages : messages'[m] = messages[m]
        /\ UNCHANGED <<open, assignments>> /\ DOMAIN assignments \subseteq DOMAIN messages
    BY <1>1, TableGrows DEF Ingest, passVars, IInv, TypeOK
  <2>2. \A m, n \in DOMAIN assignments : Follows(m, n)' <=> Follows(m, n)
    BY <2>1 DEF Follows, Before
  <2>3. \A m \in DOMAIN assignments : (Detach(m)' <=> Detach(m)) /\ (Cut(m) => Cut(m)')
    BY <2>1, <2>2 DEF Detach, Cut
  <2>4. SplitInv'
    BY <2>1, <2>3 DEF SInv, SplitInv
  <2>5. ApartInv'
    BY <2>1, <2>2, <2>3 DEF SInv, ApartInv, SameContext, Severed
  <2> QED BY <2>4, <2>5 DEF SInv
<1>2. CASE Select \/ Abort \/ Fail \/ Commit
  <2>1. assignments' = <<>>
    BY <1>2 DEF Select, Abort, Fail, Commit, Rollback, PassOver, IInv, PassInv
  <2> QED BY <2>1 DEF SInv, SplitInv, ApartInv
<1>3. CASE ReadRow
  <2>1. PICK mid \in NextRow :
          /\ SkipNoEnb(mid) \/ SkipAmbiguous(mid) \/ Continue(mid) \/ Open(mid)
          /\ done' = done \cup {mid}
    BY <1>3 DEF ReadRow
  <2>2. CASE SkipNoEnb(mid) \/ SkipAmbiguous(mid)
    <3>1. UNCHANGED <<messages, open, assignments>>
      BY <1>3, <2>2 DEF SkipNoEnb, SkipAmbiguous, ReadRow, storeVars
    <3> QED BY <3>1 DEF SInv, SplitInv, ApartInv, SameContext, Severed, Cut, Detach,
                        Follows, Before
  <2>3. CASE Continue(mid)
    <3>1. PICK key \in Resolve(open, messages[mid]) :
            /\ open' = Put(open, key, Entry(open[key].session, messages[mid],
                                            Latch(open[key].mme, messages[mid])))
            /\ assignments' = Put(assignments, mid, open[key].session)
      BY <2>3 DEF Continue, Assign
    <3>2. Entry(open[key].session, messages[mid], Latch(open[key].mme, messages[mid])).session
            = open[key].session
      BY DEF Entry
    <3> QED BY <1>3, <2>1, <3>1, <3>2, AssignSplit
  <2>4. CASE Open(mid)
    <3> DEFINE sid == Len(txSessions) + 1
               e == Entry(sid, messages[mid], messages[mid].mme)
    <3>1. PICK key \in Resolve(open, messages[mid]) :
            /\ ~Reusable(open, key, messages[mid])
            /\ open' = Put(open, key, e)
            /\ assignments' = Put(assignments, mid, sid)
      BY <2>4 DEF Open, Assign
    <3>2. e.session = sid
      BY DEF Entry
    <3>3. key \in DOMAIN open =>
            \/ open[key].closedByDetach
            \/ messages[mid].ts - open[key].lastTs > Gap
      <4>1. key \in DOMAIN open => open[key] \in OpenSession
        BY DEF IInv, TypeOK
      <4>2. messages[mid].ts \in Nat
        BY <1>3, TurnFacts DEF Row
      <4> QED BY <3>1, <4>1, <4>2, GapAssumption DEF Reusable, OpenSession
    <3> HIDE DEF e, sid
    <3> QED BY <1>3, <2>1, <3>1, <3>2, <3>3, AssignSplit
  <2> QED BY <2>1, <2>2, <2>3, <2>4
<1>4. CASE UNCHANGED vars
  BY <1>4 DEF vars, storeVars, passVars, SInv, SplitInv, ApartInv, SameContext,
              Severed, Cut, Detach, Follows, Before
<1> QED BY <1>1, <1>2, <1>3, <1>4 DEF Next

\* Two messages of one cell context that a pass assigns end up in one session
\* unless a silence longer than the gap or a DetachRequest lies between them: no
\* other context, no ambiguous downlink and no skipped row ever splits a session
\* (_resolve_key and step, engine.py:100-167).
THEOREM PassSplitsNothingElse == Spec => PassSplitsOnlyByGapOrDetach
<1> DEFINE Unsplit == \A m, n \in Published :
                         BelongTogether(Published, m, n) => sessionOf'[m] = sessionOf'[n]
<1>1. ASSUME IInv, SInv, Commit PROVE Unsplit
  <2>1. /\ Published = DOMAIN assignments
        /\ \A m \in DOMAIN assignments : sessionOf'[m] = assignments[m]
    BY <1>1 DEF Commit, Overlay, Published, IInv, PassInv, TypeOK
  <2>2. SUFFICES ASSUME NEW m \in DOMAIN assignments, NEW n \in DOMAIN assignments,
                        BelongTogether(DOMAIN assignments, m, n),
                        assignments[m] # assignments[n]
                 PROVE  FALSE
    BY <2>1
  <2>3. /\ messages \in Seq(Row) /\ DOMAIN assignments \subseteq DOMAIN messages
        /\ Gap \in Nat
    BY <1>1, GapAssumption DEF IInv, TypeOK
  <2>4. Severed(m, n)
    BY <1>1, <2>2 DEF SInv, ApartInv, BelongTogether
  <2>5. ~(messages[n].ts - messages[m].ts > Gap)
    <3>1. messages[m].ts \in Nat /\ messages[n].ts \in Nat
      BY <2>3, FollowsFacts
    <3> QED BY <2>2, <2>3, <3>1 DEF BelongTogether
  <2>6. PICK d \in DOMAIN assignments :
          (d = m \/ Follows(m, d)) /\ Follows(d, n) /\ Detach(d)
    BY <2>4, <2>5 DEF Severed
  <2>7. Follows(d, m) \/ n = d \/ Follows(n, d)
    BY <2>2, <2>6 DEF BelongTogether
  <2>8. ~Follows(n, d) /\ n # d
    BY <2>3, <2>6, FollowsOrder
  <2>9. ~Follows(d, m)
    BY <2>3, <2>6, FollowsOrder
  <2> QED BY <2>7, <2>8, <2>9
<1>2. ASSUME IInv, SInv, [Next]_vars PROVE Unsplit
  <2>1. CASE Commit
    BY <1>1, <1>2, <2>1
  <2>2. CASE ~Commit
    BY <1>2, <2>2 DEF Next, Ingest, Arrive, Select, ReadRow, Abort, Fail, Rollback,
                      vars, storeVars, Published
  <2> QED BY <2>1, <2>2
<1>3. Init => SInv
  BY DEF Init, SInv, SplitInv, ApartInv
<1>4. IInv /\ SInv /\ [Next]_vars => [Unsplit]_vars
  BY <1>2
<1> QED BY <1>3, <1>4, StepSplit, Invariance, OrderInvariance, PTL
        DEF Spec, PassSplitsOnlyByGapOrDetach

-----------------------------------------------------------------------------
(* What a pass reports and that it gets on.                                *)

\* A row with an eNB-UE id is passed over only when a session is open by then.
AdvanceInv == DOMAIN assignments = {} => \A m \in done : messages[m].enb = None

\* The counters count the buffers.
CountInv ==
    phase = "streaming" =>
        /\ Len(txSessions) = Len(sessions) + stats.created
        /\ stats.assigned = Cardinality(DOMAIN assignments)
        /\ stats.noEnb + stats.ambiguous = Cardinality(done \ DOMAIN assignments)

LEMMA FiniteRows ==
    ASSUME IInv
    PROVE  /\ IsFiniteSet(DOMAIN assignments)
           /\ IsFiniteSet(done \ DOMAIN assignments)
<1>1. messages \in Seq(Row) /\ DOMAIN messages = 1 .. Len(messages)
      /\ Len(messages) \in Nat
  BY DEF IInv, TypeOK
<1>2. IsFiniteSet(DOMAIN messages)
  BY <1>1, FS_Interval
<1>3. DOMAIN assignments \subseteq DOMAIN messages
      /\ done \ DOMAIN assignments \subseteq DOMAIN messages
  BY DEF IInv, TypeOK
<1> QED BY <1>2, <1>3, FS_Subset

\* The rows of the turn, on both sides of the counters.
LEMMA AssignCount ==
    ASSUME IInv, ReadRow, NEW mid \in NextRow, done' = done \cup {mid},
           NEW sid, assignments' = Put(assignments, mid, sid)
    PROVE  /\ DOMAIN assignments' = DOMAIN assignments \cup {mid}
           /\ Cardinality(DOMAIN assignments') = Cardinality(DOMAIN assignments) + 1
           /\ done' \ DOMAIN assignments' = done \ DOMAIN assignments
<1>1. mid \notin DOMAIN assignments /\ mid \notin done
  BY TurnFacts
<1>2. DOMAIN assignments' = DOMAIN assignments \cup {mid}
  BY DEF Put
<1> QED BY <1>1, <1>2, FiniteRows, FS_AddElement

LEMMA SkipCount ==
    ASSUME IInv, ReadRow, NEW mid \in NextRow, done' = done \cup {mid},
           assignments' = assignments
    PROVE  /\ Cardinality(done' \ DOMAIN assignments') =
                 Cardinality(done \ DOMAIN assignments) + 1
           /\ Cardinality(done \ DOMAIN assignments) \in Nat
<1> DEFINE skipped == done \ DOMAIN assignments
<1>1. mid \notin skipped /\ done' \ DOMAIN assignments' = skipped \cup {mid}
  BY TurnFacts
<1>2. IsFiniteSet(skipped)
  BY FiniteRows
<1> HIDE DEF skipped
<1> QED BY <1>1, <1>2, FS_AddElement, FS_CardinalityType DEF skipped

LEMMA CountStep ==
    ASSUME IInv, CountInv, [Next]_vars PROVE CountInv'
<1>1. CASE Ingest
  BY <1>1 DEF Ingest, Arrive, passVars, CountInv
<1>2. CASE Select
  <2>1. /\ DOMAIN assignments' = {} /\ done' = {} /\ txSessions' = sessions'
        /\ stats' = ZeroStats
    BY <1>2 DEF Select, storeVars, IInv, PassInv
  <2>2. sessions \in Seq(Session) /\ Len(sessions) \in Nat /\ sessions' = sessions
    BY <1>2 DEF Select, storeVars, IInv, TypeOK
  <2> QED BY <2>1, <2>2, FS_EmptySet DEF CountInv, ZeroStats
<1>3. CASE Abort \/ Fail \/ Commit
  BY <1>3 DEF Abort, Fail, Commit, Rollback, PassOver, CountInv
<1>4. CASE ReadRow
  <2>1. PICK mid \in NextRow :
          /\ SkipNoEnb(mid) \/ SkipAmbiguous(mid) \/ Continue(mid) \/ Open(mid)
          /\ done' = done \cup {mid}
    BY <1>4 DEF ReadRow
  <2>2. /\ stats \in Stats /\ phase' = phase /\ phase = "streaming"
        /\ sessions' = sessions /\ txSessions \in Seq(Session)
        /\ Len(sessions) \in Nat
    BY <1>4, <2>1, TurnFacts DEF ReadRow, storeVars, IInv, TypeOK
  <2>3. /\ stats.created \in Nat /\ stats.assigned \in Nat
        /\ stats.noEnb \in Nat /\ stats.ambiguous \in Nat
    BY <2>2 DEF Stats
  <2>4. CASE SkipNoEnb(mid) \/ SkipAmbiguous(mid)
    <3>1. UNCHANGED <<txSessions, assignments>>
      BY <2>4 DEF SkipNoEnb, SkipAmbiguous
    <3>2. Cardinality(done' \ DOMAIN assignments') =
            Cardinality(done \ DOMAIN assignments) + 1
      BY <1>4, <2>1, <3>1, SkipCount
    <3>3. /\ stats'.created = stats.created /\ stats'.assigned = stats.assigned
          /\ stats'.noEnb + stats'.ambiguous = stats.noEnb + stats.ambiguous + 1
      BY <2>2, <2>3, <2>4 DEF SkipNoEnb, SkipAmbiguous, Count, Stats
    <3> QED BY <2>2, <3>1, <3>2, <3>3 DEF CountInv
  <2>5. CASE Continue(mid)
    <3>1. txSessions' = txSessions /\ stats' = Count("assigned")
          /\ \E sid : assignments' = Put(assignments, mid, sid)
      BY <2>5 DEF Continue, Assign
    <3>2. /\ Cardinality(DOMAIN assignments') = Cardinality(DOMAIN assignments) + 1
          /\ done' \ DOMAIN assignments' = done \ DOMAIN assignments
      BY <1>4, <2>1, <3>1, AssignCount
    <3>3. /\ stats'.created = stats.created /\ stats'.assigned = stats.assigned + 1
          /\ stats'.noEnb = stats.noEnb /\ stats'.ambiguous = stats.ambiguous
      BY <2>2, <2>3, <3>1 DEF Count, Stats
    <3> QED BY <2>2, <3>1, <3>2, <3>3 DEF CountInv
  <2>6. CASE Open(mid)
    <3>1. PICK key \in Resolve(open, messages[mid]) :
            /\ txSessions' = Append(txSessions, NewSession(key, messages[mid]))
            /\ \E sid : assignments' = Put(assignments, mid, sid)
      BY <2>6 DEF Open, Assign
    <3>2. /\ Cardinality(DOMAIN assignments') = Cardinality(DOMAIN assignments) + 1
          /\ done' \ DOMAIN assignments' = done \ DOMAIN assignments
      BY <1>4, <2>1, <3>1, AssignCount
    <3>3. stats' = [stats EXCEPT !.created = @ + 1, !.assigned = @ + 1]
      BY <2>6 DEF Open
    <3>4. /\ stats'.created = stats.created + 1 /\ stats'.assigned = stats.assigned + 1
          /\ stats'.noEnb = stats.noEnb /\ stats'.ambiguous = stats.ambiguous
      BY <2>2, <2>3, <3>3 DEF Stats
    <3>5. Len(txSessions') = Len(txSessions) + 1
      BY <2>2, <3>1
    <3>6. Len(txSessions) = Len(sessions) + stats.created
          /\ stats.assigned = Cardinality(DOMAIN assignments)
          /\ stats.noEnb + stats.ambiguous = Cardinality(done \ DOMAIN assignments)
      BY <2>2 DEF CountInv
    <3>7. Len(txSessions') = Len(sessions') + stats'.created
      BY <2>2, <2>3, <3>4, <3>5, <3>6
    <3>8. stats'.assigned = Cardinality(DOMAIN assignments')
      BY <3>2, <3>4, <3>6
    <3>9. stats'.noEnb + stats'.ambiguous = Cardinality(done' \ DOMAIN assignments')
      BY <3>2, <3>4, <3>6
    <3> QED BY <3>7, <3>8, <3>9 DEF CountInv
  <2> QED BY <2>1, <2>4, <2>5, <2>6
<1>5. CASE UNCHANGED vars
  BY <1>5 DEF vars, storeVars, passVars, CountInv
<1> QED BY <1>1, <1>2, <1>3, <1>4, <1>5 DEF Next

\* The Stats a finished pass prints count what its commit changed and what it
\* left, however many passes were lost before it (process_stream, flush).
THEOREM StatsAreTrue == Spec => StatsTellTheCommit
<1> DEFINE Told == /\ stats'.created = Len(sessions') - Len(sessions)
                   /\ stats'.assigned = Cardinality(DOMAIN sessionOf' \ DOMAIN sessionOf)
                   /\ stats'.alerts = Len(alerts') - Len(alerts)
                   /\ stats'.noEnb + stats'.ambiguous =
                         Cardinality(rows \ DOMAIN sessionOf')
           Finished == phase = "streaming" /\ phase' = "idle" /\ stats' # None
<1>1. ASSUME IInv, CountInv, Commit, phase = "streaming" PROVE Told
  <2>1. /\ alerts \in Seq(Alert) /\ pending \in Seq(Alert) /\ alerts' = alerts \o pending
        /\ sessions \in Seq(Session) /\ sessions' \in Seq(Session)
        /\ txSessions \in Seq(Session)
    BY <1>1, FlushedFacts DEF Commit, IInv, TypeOK
  <2>2. Len(alerts') = Len(alerts) + Len(pending) /\ Len(sessions') = Len(txSessions)
    <3>1. DOMAIN sessions' = DOMAIN txSessions
      BY <1>1, FlushedFacts DEF Commit
    <3> QED BY <2>1, <3>1
  <2>3. /\ DOMAIN sessionOf' \ DOMAIN sessionOf = DOMAIN assignments
        /\ rows \ DOMAIN sessionOf' = done \ DOMAIN assignments
    BY <1>1 DEF Commit, Overlay, IInv, PassInv, TypeOK
  <2>4. /\ stats \in Stats /\ stats' = [stats EXCEPT !.alerts = Len(pending)]
    BY <1>1 DEF Commit, IInv, PassInv
  <2>5. /\ stats'.created = stats.created /\ stats'.assigned = stats.assigned
        /\ stats'.noEnb = stats.noEnb /\ stats'.ambiguous = stats.ambiguous
        /\ stats'.alerts = Len(pending) /\ stats.created \in Nat
    BY <2>4 DEF Stats
  <2>6. Len(alerts) \in Nat /\ Len(pending) \in Nat /\ Len(sessions) \in Nat
    BY <2>1
  <2>7. /\ Len(txSessions) = Len(sessions) + stats.created
        /\ stats.assigned = Cardinality(DOMAIN assignments)
        /\ stats.noEnb + stats.ambiguous = Cardinality(done \ DOMAIN assignments)
    BY <1>1 DEF CountInv
  <2>8. /\ stats'.created = Len(sessions') - Len(sessions)
        /\ stats'.alerts = Len(alerts') - Len(alerts)
    BY <2>2, <2>5, <2>6, <2>7
  <2>9. /\ stats'.assigned = Cardinality(DOMAIN sessionOf' \ DOMAIN sessionOf)
        /\ stats'.noEnb + stats'.ambiguous = Cardinality(rows \ DOMAIN sessionOf')
    BY <2>3, <2>5, <2>7
  <2> QED BY <2>8, <2>9
<1>2. ASSUME IInv, CountInv, [Next]_vars, Finished PROVE Told
  <2>1. CASE Commit
    BY <1>1, <1>2, <2>1
  <2>2. CASE ~Commit
    BY <1>2, <2>2 DEF Next, Ingest, passVars, Select, ReadRow, Abort, Fail, Rollback,
                      vars
  <2> QED BY <2>1, <2>2
<1>3. Init => CountInv
  BY DEF Init, CountInv
<1>4. IInv /\ CountInv /\ [Next]_vars => [Finished => Told]_vars
  BY <1>2
<1> QED BY <1>3, <1>4, CountStep, Invariance, PTL DEF Spec, StatsTellTheCommit

-----------------------------------------------------------------------------

LEMMA AdvanceStep ==
    ASSUME IInv, OInv, AdvanceInv, [Next]_vars PROVE AdvanceInv'
<1>1. CASE Ingest
  <2>1. /\ \A m \in DOMAIN messages : messages'[m] = messages[m]
        /\ UNCHANGED <<assignments, done>> /\ done \subseteq DOMAIN messages
    BY <1>1, TableGrows DEF Ingest, passVars, IInv, TypeOK
  <2> QED BY <2>1 DEF AdvanceInv
<1>2. CASE Select \/ Abort \/ Fail \/ Commit
  BY <1>2 DEF Select, Abort, Fail, Commit, Rollback, PassOver, AdvanceInv, IInv, PassInv
<1>3. CASE ReadRow
  <2>1. PICK mid \in NextRow :
          /\ SkipNoEnb(mid) \/ SkipAmbiguous(mid) \/ Continue(mid) \/ Open(mid)
          /\ done' = done \cup {mid}
    BY <1>3 DEF ReadRow
  <2>2. CASE SkipNoEnb(mid)
    BY <1>3, <2>1, <2>2 DEF SkipNoEnb, ReadRow, storeVars, AdvanceInv
  <2>3. CASE SkipAmbiguous(mid)
    <3>1. DOMAIN open # {}
      <4>1. DOMAIN open \subseteq Key /\ Resolve(open, messages[mid]) = {}
        BY <2>3 DEF SkipAmbiguous, IInv, TypeOK
      <4> QED BY <4>1 DEF Resolve, Candidates
    <3>2. DOMAIN assignments # {}
      BY <3>1 DEF OInv, LastInv
    <3> QED BY <2>3, <3>2 DEF SkipAmbiguous, AdvanceInv
  <2>4. CASE Continue(mid) \/ Open(mid)
    <3>1. \E sid : assignments' = Put(assignments, mid, sid)
      BY <2>4 DEF Continue, Open, Assign
    <3>2. mid \in DOMAIN assignments'
      BY <3>1 DEF Put
    <3> QED BY <3>2 DEF AdvanceInv
  <2> QED BY <2>1, <2>2, <2>3, <2>4
<1>4. CASE UNCHANGED vars
  BY <1>4 DEF vars, storeVars, passVars, AdvanceInv
<1> QED BY <1>1, <1>2, <1>3, <1>4 DEF Next

\* A pass that finds a row with an eNB-UE id and is not lost assigns one: skipped
\* downlinks are not skipped for ever (_resolve_key, the empty list of candidates).
THEOREM PassesAdvance == Spec => EveryPassAdvances
<1> DEFINE Advanced == \/ \A m \in rows : messages[m].enb = None
                       \/ DOMAIN sessionOf' # DOMAIN sessionOf
           Finished == phase = "streaming" /\ phase' = "idle" /\ stats' # None
<1>1. ASSUME IInv, AdvanceInv, Commit PROVE Advanced
  <2>1. done = rows /\ DOMAIN sessionOf' = DOMAIN assignments \cup DOMAIN sessionOf
    BY <1>1 DEF Commit, Overlay
  <2>2. DOMAIN assignments \cap DOMAIN sessionOf = {}
    BY <1>1 DEF IInv, PassInv, TypeOK
  <2> QED BY <1>1, <2>1, <2>2 DEF AdvanceInv
<1>2. ASSUME IInv, AdvanceInv, [Next]_vars, Finished PROVE Advanced
  <2>1. CASE Commit
    BY <1>1, <1>2, <2>1
  <2>2. CASE ~Commit
    BY <1>2, <2>2 DEF Next, Ingest, passVars, Select, ReadRow, Abort, Fail, Rollback,
                      vars
  <2> QED BY <2>1, <2>2
<1>3. Init => AdvanceInv
  BY DEF Init, AdvanceInv
<1>4. IInv /\ AdvanceInv /\ [Next]_vars => [Finished => Advanced]_vars
  BY <1>2
<1> QED BY <1>3, <1>4, AdvanceStep, Invariance, OrderInvariance, PTL
        DEF Spec, EveryPassAdvances

-----------------------------------------------------------------------------
(* What the steps of a pass add up to.                                     *)

\* The pass so far is what the function makes of the rows read so far.  The
\* function keeps the rule states of sessions that were left behind.
Mirrors(p) ==
    /\ p.open = open
    /\ \A sid \in DOMAIN states : p.states[sid] = states[sid]
    /\ p.table = Flushed
    /\ p.owner = assignments
    /\ p.alerts = pending
    /\ ~p.refused

SoFar == Turns(messages, rows, sessions)[Cardinality(done)]

OneInv ==
    phase = "streaming" => \E p \in SoundPasses : SoFar = {p} /\ Mirrors(p)

\* The row read next is the one whose turn it is.
LEMMA MyTurn ==
    ASSUME IInv, OInv, ReadRow \/ phase = "streaming", NEW mid \in NextRow
    PROVE  /\ Cardinality(done) + 1 \in 1 .. Cardinality(rows)
           /\ Cardinality(done) \in Nat
           /\ Taken(messages, rows, Cardinality(done) + 1) = mid
           /\ Cardinality(done \cup {mid}) = Cardinality(done) + 1
<1>1. /\ messages \in Seq(Row) /\ rows \in SUBSET DOMAIN messages /\ done \subseteq rows
      /\ mid \in rows /\ mid \notin done
  BY DEF IInv, TypeOK, NextRow
<1>2. Earlier(messages, rows, mid) = done
  <2>1. \A m \in done : Before(messages, m, mid)
    BY <1>1 DEF OInv, ReadInOrder, Follows
  <2>2. ASSUME NEW n \in rows \ done PROVE ~Before(messages, n, mid)
    <3>1. n = mid \/ Before(messages, mid, n)
      BY DEF NextRow
    <3>2. n \in DOMAIN messages /\ mid \in DOMAIN messages
      BY <1>1
    <3> QED BY <1>1, <3>1, <3>2, BeforeOrder
  <2> QED BY <1>1, <2>1, <2>2 DEF Earlier
<1>3. Rank(messages, rows, mid) = Cardinality(done)
  BY <1>2 DEF Rank
<1>4. /\ Cardinality(done) + 1 \in 1 .. Cardinality(rows)
      /\ Ordered(messages, rows)[Cardinality(done) + 1] = mid
  BY <1>1, <1>3, OrderedAt
<1>5. IsFiniteSet(done) /\ Cardinality(done) \in Nat
  BY <1>1, FiniteIds
<1> QED BY <1>1, <1>4, <1>5, FS_AddElement DEF Taken

LEMMA NextTurn ==
    ASSUME IInv, OInv, phase = "streaming", NEW mid \in NextRow,
           NEW p \in SoundPasses, SoFar = {p}
    PROVE  Turns(messages, rows, sessions)[Cardinality(done) + 1] =
              RowRead(p, mid, messages[mid])
<1> DEFINE i == Cardinality(done) + 1
           f == Turns(messages, rows, sessions)
<1>1. /\ messages \in Seq(Row) /\ rows \in SUBSET DOMAIN messages
      /\ sessions \in Seq(Session)
  BY DEF IInv, TypeOK
<1>2. i \in 1 .. Cardinality(rows) /\ Taken(messages, rows, i) = mid
      /\ Cardinality(done) \in Nat
  BY MyTurn
<1>3. AreTurns(f, messages, rows, sessions)
  BY <1>1, TurnsFacts
<1>4. i - 1 = Cardinality(done)
  BY <1>2
<1>5. f[i - 1] = {p}
  BY <1>4 DEF SoFar
<1> HIDE DEF i, f
<1>6. f[i] = RowRead(p, Taken(messages, rows, i), messages[Taken(messages, rows, i)])
  BY <1>2, <1>3, <1>5 DEF AreTurns
<1> QED BY <1>2, <1>6 DEF i, f

\* ended_at is written at the end or kept up to date: the table is the same.
LEMMA StampedAgain ==
    ASSUME NEW s \in Session, NEW t \in Nat, NEW u \in Nat
    PROVE  [[s EXCEPT !.endedAt = t] EXCEPT !.endedAt = u] = [s EXCEPT !.endedAt = u]
BY DEF Session

\* The INSERT meets the constraint in the table of the function or in neither.
LEMMA MetOrRefused ==
    ASSUME IInv, NEW key, NEW row
    PROVE  Met(Flushed, key, row) <=> Refused(key, row)
BY FlushedFacts DEF Met, Refused, Clash

LEMMA ContinueMirrors ==
    ASSUME IInv, ReadRow, NEW mid \in NextRow, Continue(mid),
           NEW p \in SoundPasses, Mirrors(p)
    PROVE  \E q \in SoundPasses : RowRead(p, mid, messages[mid]) = {q} /\ Mirrors(q)'
<1> DEFINE row == messages[mid]
<1>1. PICK key \in Resolve(open, row) :
        /\ Reusable(open, key, row)
        /\ open' = Put(open, key, Entry(open[key].session, row,
                                       Latch(open[key].mme, row)))
        /\ Assign(mid, open[key].session, states[open[key].session], states)
  BY DEF Continue
<1> DEFINE sid == open[key].session
<1>2. row \in Row /\ mid \in Nat /\ row.enb # None
  BY TurnFacts DEF Continue
<1>3. key \in DOMAIN open /\ key \in Key /\ sid \in DOMAIN states /\ sid \in DOMAIN txSessions
  BY <1>1 DEF Reusable, IInv, TypeOK, PassInv, NewIds, RunnerTracksOpenSessions
<1>4. RowRead(p, mid, row) = {Reused(p, mid, row, key)}
  BY <1>1, <1>2, TurnPlaces DEF Mirrors
<1>5. PICK q \in SoundPasses :
        /\ q = Reused(p, mid, row, key)
        /\ PlacedAs(q, p, mid, row, key, sid, Latch(open[key].mme, row), states[sid])
  <2>1. p.open = open /\ p.states[sid] = states[sid]
    BY <1>3 DEF Mirrors
  <2>2. /\ Reused(p, mid, row, key) \in SoundPasses
        /\ PlacedAs(Reused(p, mid, row, key), p, mid, row, key, p.open[key].session,
                    Latch(p.open[key].mme, row), p.states[p.open[key].session])
    BY <1>2, <1>3, <2>1, ReusedFacts
  <2> QED BY <2>1, <2>2
<1>6. p.table = Flushed /\ DOMAIN p.states \in SUBSET Nat
  <2>1. p.states \in Dict(Nat, RuleState)
    BY DEF SoundPasses, Passes
  <2> QED BY <2>1, DictFacts DEF Mirrors
<1> HIDE DEF sid
<1>7. /\ lastTs' = Put(lastTs, sid, row.ts) /\ txSessions' = txSessions
      /\ states' = Put(states, sid, ObserveAll(states[sid], mid, row))
      /\ assignments' = Put(assignments, mid, sid)
      /\ pending' = pending \o AlertsOf(sid, states[sid], mid, row)
  BY <1>1 DEF Continue, Assign, sid
<1>8. q.table = Flushed'
  <2>1. q.table = Stamped(Flushed, sid, row.ts)
    BY <1>5, <1>6 DEF PlacedAs
  <2>2. /\ Flushed \in Seq(Session) /\ DOMAIN Flushed = DOMAIN txSessions
        /\ txSessions[sid] \in Session /\ row.ts \in Nat
    BY <1>2, <1>3, FlushedFacts DEF IInv, TypeOK, Row
  <2>3. /\ DOMAIN Stamped(Flushed, sid, row.ts) = DOMAIN Flushed
        /\ \A i \in DOMAIN Flushed \ {sid} : Stamped(Flushed, sid, row.ts)[i] = Flushed[i]
        /\ Stamped(Flushed, sid, row.ts)[sid] = [Flushed[sid] EXCEPT !.endedAt = row.ts]
    BY <1>3, <2>2, EndsAt
  <2>4. [Flushed[sid] EXCEPT !.endedAt = row.ts] = [txSessions[sid] EXCEPT !.endedAt = row.ts]
    <3>1. CASE sid \in DOMAIN lastTs
      <4>1. lastTs[sid] \in Nat
        BY <3>1 DEF IInv, TypeOK
      <4>2. Flushed[sid] = [txSessions[sid] EXCEPT !.endedAt = lastTs[sid]]
        BY <1>3, <3>1 DEF Flushed
      <4> QED BY <2>2, <4>1, <4>2, StampedAgain
    <3>2. CASE sid \notin DOMAIN lastTs
      BY <1>3, <3>2 DEF Flushed
    <3> QED BY <3>1, <3>2
  <2>5. /\ DOMAIN lastTs' = DOMAIN lastTs \cup {sid} /\ lastTs'[sid] = row.ts
        /\ \A i \in DOMAIN lastTs \ {sid} : lastTs'[i] = lastTs[i]
    BY <1>7 DEF Put
  <2>6. ASSUME NEW i \in DOMAIN txSessions
        PROVE  Stamped(Flushed, sid, row.ts)[i] =
                 IF i \in DOMAIN lastTs' THEN [txSessions[i] EXCEPT !.endedAt = lastTs'[i]]
                 ELSE txSessions[i]
    <3>1. CASE i = sid
      BY <2>3, <2>4, <2>5, <3>1
    <3>2. CASE i # sid
      <4>1. Stamped(Flushed, sid, row.ts)[i] = Flushed[i]
        BY <2>2, <2>3, <3>2
      <4> QED BY <2>5, <3>2, <4>1 DEF Flushed
    <3> QED BY <3>1, <3>2
  <2>7. Stamped(Flushed, sid, row.ts) = [i \in DOMAIN txSessions |-> Stamped(Flushed, sid, row.ts)[i]]
    BY <2>2, <2>3 DEF Stamped
  <2>8. Stamped(Flushed, sid, row.ts) =
           [i \in DOMAIN txSessions |->
                 IF i \in DOMAIN lastTs' THEN [txSessions[i] EXCEPT !.endedAt = lastTs'[i]]
                 ELSE txSessions[i]]
    BY <2>6, <2>7
  <2> QED BY <1>7, <2>1, <2>8 DEF Flushed
<1>9. \A s \in DOMAIN states' : q.states[s] = states'[s]
  <2>1. q.states = Put(p.states, sid, ObserveAll(states[sid], mid, row))
    BY <1>5 DEF PlacedAs
  <2>2. \A s \in DOMAIN states : s \in DOMAIN p.states
    <3>1. \A k \in DOMAIN open : open[k].session \in DOMAIN p.states
      BY DEF SoundPasses, Mirrors
    <3> QED BY <3>1 DEF IInv, RunnerTracksOpenSessions
  <2> QED BY <1>7, <2>1, <2>2 DEF Put, Mirrors
<1>10. Mirrors(q)'
  <2>1. q.open = open'
    BY <1>1, <1>5 DEF PlacedAs, Mirrors, sid
  <2>2. q.owner = assignments' /\ q.alerts = pending' /\ ~q.refused
    BY <1>5, <1>7 DEF PlacedAs, Mirrors
  <2> QED BY <1>8, <1>9, <2>1, <2>2 DEF Mirrors
<1> QED BY <1>4, <1>5, <1>10

\* The new session has the same ended_at at once or in the end.
LEMMA OpenMirrors ==
    ASSUME IInv, ReadRow, NEW mid \in NextRow, Open(mid),
           NEW p \in SoundPasses, Mirrors(p)
    PROVE  \E q \in SoundPasses : RowRead(p, mid, messages[mid]) = {q} /\ Mirrors(q)'
<1> DEFINE row == messages[mid]
           sid == Len(txSessions) + 1
<1>1. PICK key \in Resolve(open, row) :
        /\ ~Reusable(open, key, row)
        /\ ~Refused(key, row)
        /\ txSessions' = Append(txSessions, NewSession(key, row))
        /\ open' = Put(open, key, Entry(sid, row, row.mme))
        /\ Assign(mid, sid, NoState, Without(states, Stale(key)))
  BY DEF Open
<1>2. row \in Row /\ mid \in Nat /\ row.enb # None /\ DOMAIN open \subseteq Key
  BY TurnFacts DEF Open, IInv, TypeOK
<1>3. key \in Key
  BY <1>1, <1>2, ResolveInKey
<1>4. RowRead(p, mid, row) = {Opened(p, mid, row, key)}
  BY <1>1, <1>2, TurnPlaces DEF Mirrors
<1>5. /\ p.table = Flushed /\ Flushed \in Seq(Session) /\ txSessions \in Seq(Session)
      /\ DOMAIN Flushed = DOMAIN txSessions /\ Len(p.table) + 1 = sid
  <2>1. /\ p.table = Flushed /\ Flushed \in Seq(Session) /\ txSessions \in Seq(Session)
        /\ DOMAIN Flushed = DOMAIN txSessions
    BY FlushedFacts DEF Mirrors, IInv, TypeOK
  <2>2. Len(Flushed) = Len(txSessions)
    BY <2>1
  <2> QED BY <2>1, <2>2
<1> DEFINE new == NewSession(key, row)
           grown == Append(Flushed, new)
<1>6. PICK q \in SoundPasses :
        /\ q = Opened(p, mid, row, key)
        /\ q.open = Put(open, key, Entry(sid, row, row.mme))
        /\ q.states = Put(p.states, sid, ObserveAll(NoState, mid, row))
        /\ q.table = Stamped(grown, sid, row.ts)
        /\ q.owner = Put(assignments, mid, sid)
        /\ q.alerts = pending \o AlertsOf(sid, NoState, mid, row)
        /\ ~q.refused
  <2>1. ~Met(p.table, key, row)
    BY <1>1, <1>5, MetOrRefused
  <2>2. /\ Opened(p, mid, row, key) \in SoundPasses
        /\ PlacedAs(Opened(p, mid, row, key), Grown(p, key, row), mid, row,
                    key, sid, row.mme, NoState)
    BY <1>2, <1>3, <1>5, <2>1, OpenedFacts
  <2>3. /\ Grown(p, key, row).table = grown
        /\ Grown(p, key, row).open = open /\ Grown(p, key, row).states = p.states
        /\ Grown(p, key, row).owner = assignments /\ Grown(p, key, row).alerts = pending
        /\ ~Grown(p, key, row).refused
    <3>1. p \in Passes
      BY DEF SoundPasses
    <3> QED BY <1>2, <1>3, <1>5, <3>1, GrownFacts DEF Mirrors
  <2> HIDE DEF grown
  <2> QED BY <2>2, <2>3 DEF PlacedAs
<1>7. /\ lastTs' = Put(lastTs, sid, row.ts)
      /\ states' = Put(Without(states, Stale(key)), sid, ObserveAll(NoState, mid, row))
      /\ assignments' = Put(assignments, mid, sid)
      /\ pending' = pending \o AlertsOf(sid, NoState, mid, row)
  BY <1>1 DEF Assign
<1>8. new \in Session /\ row.ts \in Nat
  BY <1>2, <1>3, NewSessionType DEF Row
<1> HIDE DEF new
<1>9. /\ grown \in Seq(Session) /\ DOMAIN grown = DOMAIN txSessions \cup {sid}
      /\ sid \notin DOMAIN txSessions
      /\ \A i \in DOMAIN txSessions : grown[i] = Flushed[i]
      /\ grown[sid] = new
      /\ DOMAIN txSessions' = DOMAIN txSessions \cup {sid}
      /\ \A i \in DOMAIN txSessions : txSessions'[i] = txSessions[i]
      /\ txSessions'[sid] = new
  <2>1. Len(Flushed) = Len(txSessions)
    BY <1>5
  <2>2. /\ grown \in Seq(Session) /\ DOMAIN grown = DOMAIN Flushed \cup {Len(Flushed) + 1}
        /\ Len(Flushed) + 1 \notin DOMAIN Flushed
        /\ \A i \in DOMAIN Flushed : grown[i] = Flushed[i]
        /\ grown[Len(Flushed) + 1] = new
    BY <1>5, <1>8, AppendFacts
  <2>3. txSessions' = Append(txSessions, new)
    BY <1>1 DEF new
  <2>4. /\ DOMAIN txSessions' = DOMAIN txSessions \cup {sid}
        /\ \A i \in DOMAIN txSessions : txSessions'[i] = txSessions[i]
        /\ txSessions'[sid] = new
    BY <1>5, <1>8, <2>3, AppendFacts
  <2> HIDE DEF grown
  <2> QED BY <1>5, <2>1, <2>2, <2>4
<1> HIDE DEF grown, sid
<1>10. q.table = Flushed'
  <2>1. /\ DOMAIN Stamped(grown, sid, row.ts) = DOMAIN grown
        /\ \A i \in DOMAIN grown \ {sid} : Stamped(grown, sid, row.ts)[i] = grown[i]
        /\ Stamped(grown, sid, row.ts)[sid] = [new EXCEPT !.endedAt = row.ts]
    BY <1>8, <1>9, EndsAt
  <2>2. /\ DOMAIN lastTs' = DOMAIN lastTs \cup {sid} /\ lastTs'[sid] = row.ts
        /\ \A i \in DOMAIN lastTs \ {sid} : lastTs'[i] = lastTs[i]
    BY <1>7 DEF Put
  <2>3. ASSUME NEW i \in DOMAIN txSessions'
        PROVE  Stamped(grown, sid, row.ts)[i] =
                 IF i \in DOMAIN lastTs' THEN [txSessions'[i] EXCEPT !.endedAt = lastTs'[i]]
                 ELSE txSessions'[i]
    <3>1. CASE i = sid
      BY <1>9, <2>1, <2>2, <3>1
    <3>2. CASE i # sid
      <4>1. i \in DOMAIN txSessions /\ txSessions'[i] = txSessions[i]
        BY <1>9, <3>2
      <4>2. Stamped(grown, sid, row.ts)[i] = Flushed[i]
        BY <1>9, <2>1, <3>2, <4>1
      <4> QED BY <2>2, <3>2, <4>1, <4>2 DEF Flushed
    <3> QED BY <3>1, <3>2
  <2>4. Stamped(grown, sid, row.ts) =
          [i \in DOMAIN grown |-> Stamped(grown, sid, row.ts)[i]]
    BY DEF Stamped
  <2>5. DOMAIN grown = DOMAIN txSessions'
    BY <1>9
  <2>6. Stamped(grown, sid, row.ts) =
           [i \in DOMAIN txSessions' |->
                 IF i \in DOMAIN lastTs' THEN [txSessions'[i] EXCEPT !.endedAt = lastTs'[i]]
                 ELSE txSessions'[i]]
    BY <2>3, <2>4, <2>5
  <2> QED BY <1>6, <2>6 DEF Flushed
<1>11. \A s \in DOMAIN states' : q.states[s] = states'[s]
  <2>1. \A s \in DOMAIN states : s \in DOMAIN p.states /\ p.states[s] = states[s]
    <3>1. \A k \in DOMAIN open : open[k].session \in DOMAIN p.states
      BY DEF SoundPasses, Mirrors
    <3> QED BY <3>1 DEF IInv, RunnerTracksOpenSessions, Mirrors
  <2>2. q.states[sid] = ObserveAll(NoState, mid, row) /\ states'[sid] = q.states[sid]
    BY <1>6, <1>7 DEF Put
  <2>3. ASSUME NEW s \in DOMAIN states', s # sid PROVE q.states[s] = states'[s]
    <3>1. s \in DOMAIN Without(states, Stale(key)) /\ s \in DOMAIN states
      BY <1>7, <2>3 DEF Put, Without
    <3>2. states'[s] = states[s]
      BY <1>7, <2>3, <3>1 DEF Put, Without
    <3>3. q.states[s] = p.states[s]
      BY <1>6, <2>1, <2>3, <3>1 DEF Put
    <3> QED BY <2>1, <3>1, <3>2, <3>3
  <2> QED BY <2>2, <2>3
<1>12. Mirrors(q)'
  BY <1>1, <1>6, <1>7, <1>10, <1>11 DEF Mirrors, sid
<1> QED BY <1>4, <1>6, <1>12

LEMMA AbortRefuses ==
    ASSUME IInv, phase = "streaming", NEW mid \in NextRow, AbortUnique(mid),
           NEW p \in SoundPasses, Mirrors(p)
    PROVE  \E q \in SoundPasses : RowRead(p, mid, messages[mid]) = {q} /\ q.refused
<1> DEFINE row == messages[mid]
<1>1. PICK key \in Resolve(open, row) : ~Reusable(open, key, row) /\ Refused(key, row)
  BY DEF AbortUnique
<1>2. RowRead(p, mid, row) = {Opened(p, mid, row, key)}
  BY <1>1, TurnPlaces DEF Mirrors, AbortUnique
<1>3. Met(p.table, key, row)
  BY <1>1, MetOrRefused DEF Mirrors
<1> QED BY <1>2, <1>3, OpenedRefused

LEMMA StepOne ==
    ASSUME IInv, OInv, OneInv, [Next]_vars PROVE OneInv'
<1>1. CASE Ingest
  <2>1. SUFFICES ASSUME phase = "streaming"
                 PROVE  \E p \in SoundPasses : SoFar' = {p} /\ Mirrors(p)'
    BY <1>1 DEF OneInv, Ingest, passVars
  <2>2. PICK p \in SoundPasses : SoFar = {p} /\ Mirrors(p)
    BY <2>1 DEF OneInv
  <2>3. /\ DOMAIN messages \subseteq DOMAIN messages'
        /\ \A m \in DOMAIN messages : messages'[m] = messages[m]
        /\ UNCHANGED <<rows, done, sessions, open, states, txSessions, lastTs,
                       assignments, pending>>
    BY <1>1, TableGrows DEF Ingest, Arrive, passVars
  <2>4. /\ messages \in Seq(Row) /\ messages' \in Seq(Row) /\ sessions \in Seq(Session)
        /\ rows \in SUBSET DOMAIN messages /\ done \subseteq rows
    BY <1>1, IngestInv DEF IInv, TypeOK
  <2>5. Cardinality(done) \in 0 .. Cardinality(rows)
    <3>1. /\ IsFiniteSet(rows) /\ Cardinality(rows) \in Nat /\ Cardinality(done) \in Nat
      BY <2>4, FiniteIds
    <3>2. Cardinality(done) <= Cardinality(rows)
      BY <2>4, <3>1, FS_Subset
    <3> QED BY <3>1, <3>2
  <2>6. Turns(messages', rows, sessions)[Cardinality(done)] = SoFar
    BY <2>3, <2>4, <2>5, TurnsKept DEF SoFar
  <2>7. Mirrors(p)'
    BY <2>2, <2>3 DEF Mirrors, Flushed
  <2> QED BY <2>2, <2>3, <2>6, <2>7 DEF SoFar
<1>2. CASE Select
  <2>1. /\ phase = "idle" /\ sessions' = sessions /\ txSessions' = sessions
        /\ messages' = messages /\ rows' \in SUBSET DOMAIN messages
        /\ UNCHANGED <<done, open, states, assignments, lastTs, pending>>
    BY <1>2 DEF Select, storeVars, Unassigned
  <2>2. /\ done = {} /\ open = <<>> /\ states = <<>> /\ assignments = <<>>
        /\ lastTs = <<>> /\ pending = <<>>
        /\ messages \in Seq(Row) /\ sessions \in Seq(Session)
    BY <2>1 DEF IInv, PassInv, TypeOK
  <2>3. AreTurns(Turns(messages, rows', sessions), messages, rows', sessions)
    BY <2>1, <2>2, TurnsFacts
  <2>4. Cardinality(done') = 0
    BY <2>1, <2>2, FS_EmptySet
  <2>5. SoFar' = {NoProgress(sessions)}
    BY <2>1, <2>3, <2>4 DEF SoFar, AreTurns
  <2>6. Flushed' = sessions
    BY <2>1, <2>2 DEF Flushed
  <2>7. \E p \in SoundPasses : p = NoProgress(sessions)
    BY <2>2, NoProgressSound
  <2>8. PICK p \in SoundPasses : p = NoProgress(sessions)
    BY <2>7
  <2>9. Mirrors(p)'
    BY <2>1, <2>2, <2>6, <2>8 DEF Mirrors, NoProgress
  <2> QED BY <2>5, <2>8, <2>9 DEF OneInv
<1>3. CASE ReadRow
  <2>1. PICK mid \in NextRow :
          /\ SkipNoEnb(mid) \/ SkipAmbiguous(mid) \/ Continue(mid) \/ Open(mid)
          /\ done' = done \cup {mid}
    BY <1>3 DEF ReadRow
  <2>2. phase = "streaming" /\ UNCHANGED <<messages, rows, sessions>>
    BY <1>3 DEF ReadRow, storeVars
  <2>3. PICK p \in SoundPasses : SoFar = {p} /\ Mirrors(p)
    BY <2>2 DEF OneInv
  <2>4. SoFar' = RowRead(p, mid, messages[mid])
    BY <2>1, <2>2, <2>3, MyTurn, NextTurn DEF SoFar
  <2>5. \E q \in SoundPasses : RowRead(p, mid, messages[mid]) = {q} /\ Mirrors(q)'
    <3>1. CASE SkipNoEnb(mid) \/ SkipAmbiguous(mid)
      <4>1. RowRead(p, mid, messages[mid]) = {p}
        BY <2>3, <3>1, TurnSkips DEF SkipNoEnb, SkipAmbiguous, Mirrors
      <4>2. Mirrors(p)'
        BY <2>3, <3>1 DEF SkipNoEnb, SkipAmbiguous, Mirrors, Flushed
      <4> QED BY <4>1, <4>2
    <3> QED BY <1>3, <2>1, <2>3, <3>1, ContinueMirrors, OpenMirrors
  <2> QED BY <2>4, <2>5 DEF OneInv
<1>4. CASE Abort \/ Fail \/ Commit
  BY <1>4 DEF Abort, Fail, Commit, Rollback, PassOver, OneInv
<1>5. CASE UNCHANGED vars
  BY <1>5 DEF vars, storeVars, passVars, OneInv, SoFar, Mirrors, Flushed
<1> QED BY <1>1, <1>2, <1>3, <1>4, <1>5 DEF Next

\* However many rows a pass reads, and however many captures and lost passes come
\* between, a pass that is not lost is the one function of its rows and of the
\* sessions it found that Pass.tla says it is: that is what Pipeline.tla takes a
\* commit to be (process_stream, engine.py:244-291).
THEOREM PassesAreFunctions == Spec => PassIsOneFunction
<1> DEFINE Same == \A pass \in Outcomes(rows, sessions) :
              IF pass.refused THEN stats' = None
              ELSE /\ sessions' = pass.table
                   /\ sessionOf' = Overlay(pass.owner, sessionOf)
                   /\ alerts' = alerts \o pass.alerts
           Ends == phase = "streaming" /\ phase' = "idle" /\ UNCHANGED failures
<1>1. ASSUME IInv, OneInv, Commit, phase = "streaming" PROVE Same
  <2>1. PICK p \in SoundPasses : SoFar = {p} /\ Mirrors(p)
    BY <1>1 DEF OneInv
  <2>2. Outcomes(rows, sessions) = {p}
    BY <1>1, <2>1 DEF Outcomes, SoFar, Commit
  <2> QED BY <1>1, <2>1, <2>2 DEF Commit, Mirrors
<1>2. ASSUME IInv, OInv, OneInv, Abort, phase = "streaming" PROVE Same
  <2>1. PICK p \in SoundPasses : SoFar = {p} /\ Mirrors(p)
    BY <1>2 DEF OneInv
  <2>2. PICK mid \in NextRow : AbortUnique(mid)
    BY <1>2 DEF Abort
  <2>3. PICK q \in SoundPasses : RowRead(p, mid, messages[mid]) = {q} /\ q.refused
    BY <1>2, <2>1, <2>2, AbortRefuses
  <2>4. Turns(messages, rows, sessions)[Cardinality(done) + 1] = {q}
    BY <1>2, <2>1, <2>3, NextTurn
  <2>5. /\ messages \in Seq(Row) /\ rows \in SUBSET DOMAIN messages
        /\ sessions \in Seq(Session)
        /\ Cardinality(done) + 1 \in 0 .. Cardinality(rows)
    <3>1. Cardinality(done) + 1 \in 1 .. Cardinality(rows)
      BY <1>2, <2>2, MyTurn
    <3> QED BY <1>2, <3>1 DEF IInv, TypeOK
  <2>6. Outcomes(rows, sessions) = {q}
    BY <2>3, <2>4, <2>5, RefusedStays DEF Outcomes
  <2> QED BY <1>2, <2>3, <2>6 DEF Abort, Rollback
<1>3. ASSUME IInv, OInv, OneInv, [Next]_vars, Ends PROVE Same
  <2>1. CASE Commit \/ Abort
    BY <1>1, <1>2, <1>3, <2>1
  <2>2. CASE ~(Commit \/ Abort)
    <3>1. ASSUME Fail PROVE FALSE
      <4>1. failures \in Nat
        BY <1>3 DEF IInv, TypeOK
      <4> QED BY <1>3, <3>1, <4>1 DEF Fail
    <3> QED BY <1>3, <2>2, <3>1 DEF Next, Ingest, passVars, Select, ReadRow, vars
  <2> QED BY <2>1, <2>2
<1>4. Init => OneInv
  BY DEF Init, OneInv
<1>5. IInv /\ OInv /\ OneInv /\ [Next]_vars => [Ends => Same]_vars
  BY <1>3
<1> QED BY <1>4, <1>5, StepOne, Invariance, OrderInvariance, PTL
        DEF Spec, PassIsOneFunction

-----------------------------------------------------------------------------
(* Detector implements SessionStore: every step of a pass is invisible but *)
(* its commit, and what the commit publishes is whole.                     *)

\* A commit is that of the pass its rows make, and that pass is whole.
LEMMA CommitIsWhole ==
    ASSUME IInv, OneInv, Commit
    PROVE  \E p \in SoundPasses : /\ Whole(p, messages, rows, sessions)
                                  /\ Committed(p) /\ Mirrors(p)
<1>1. PICK p \in SoundPasses : SoFar = {p} /\ Mirrors(p)
  BY DEF OneInv, Commit
<1>2. /\ messages \in Seq(Row) /\ rows \in SUBSET DOMAIN messages
      /\ sessions \in Seq(Session)
  BY DEF IInv, TypeOK
<1>3. PICK q \in SoundPasses :
        /\ Turns(messages, rows, sessions)[Cardinality(rows)] = {q}
        /\ Whole(q, messages, rows, sessions)
  BY <1>2, OutcomeWhole
<1>4. q = p
  BY <1>1, <1>3 DEF SoFar, Commit
<1>5. Committed(p)
  BY <1>1 DEF Commit, Committed, Mirrors
<1> QED BY <1>1, <1>3, <1>4, <1>5

LEMMA StepStore ==
    ASSUME IInv, OneInv, StoreOK, [Next]_vars
    PROVE  StoreOK' /\ [StoreNext]_storeVars
<1>1. CASE Ingest
  <2>1. /\ messages' \in Seq(Row) /\ DOMAIN messages \subseteq DOMAIN messages'
    BY <1>1, IngestInv, TableGrows DEF IInv, TypeOK
  <2>2. UNCHANGED <<sessionOf, sessions, alerts>> /\ Arrive
    BY <1>1 DEF Ingest, Arrive
  <2> QED BY <2>1, <2>2 DEF StoreOK, StoreNext
<1>2. CASE Select \/ ReadRow \/ Abort \/ Fail \/ UNCHANGED vars
  BY <1>2 DEF Select, ReadRow, Abort, Fail, Rollback, vars, storeVars, StoreOK
<1>3. CASE Commit
  <2>1. PICK p \in SoundPasses : Whole(p, messages, rows, sessions) /\ Committed(p)
    BY <1>3, CommitIsWhole
  <2>2. rows \in SUBSET (DOMAIN messages \ DOMAIN sessionOf)
    BY DEF IInv, TypeOK, PassInv
  <2>3. StoreOK' /\ (Publish \/ UNCHANGED storeVars)
    BY <2>1, <2>2, PassKeepsStore, PassPublishes
  <2> QED BY <2>3 DEF StoreNext
<1> QED BY <1>1, <1>2, <1>3 DEF Next

LEMMA StoreInvariance == Spec => [](StoreOK /\ OneInv)
<1>1. Init => StoreOK /\ OneInv
  BY DEF Init, StoreInit, StoreOK, OneInv
<1>2. IInv /\ OInv /\ StoreOK /\ OneInv /\ [Next]_vars => (StoreOK /\ OneInv)'
  BY StepStore, StepOne
<1> QED BY <1>1, <1>2, Invariance, OrderInvariance, PTL DEF Spec

\* The detector implements the abstract store: readers of the tables see rows
\* arrive and finished sessions appear whole, with their alerts, and nothing
\* that has appeared ever changes, for every traffic, gap and number of rows
\* and lost passes (process_stream inside transaction).
THEOREM Implements == Spec => StoreSpec
<1>1. Init => StoreInit
  BY DEF Init
<1>2. IInv /\ OneInv /\ StoreOK /\ [Next]_vars => [StoreNext]_storeVars
  BY StepStore
<1> QED BY <1>1, <1>2, Invariance, StoreInvariance, PTL DEF Spec, StoreSpec

\* The tables after a commit, in terms of the pass.
LEMMA CommitTables ==
    ASSUME IInv, OneInv, StoreOK, Commit
    PROVE  /\ DOMAIN sessionOf' = DOMAIN sessionOf \cup DOMAIN assignments
           /\ \A m \in DOMAIN assignments : sessionOf'[m] = assignments[m]
           /\ \A m \in DOMAIN sessionOf : sessionOf'[m] = sessionOf[m]
           /\ \A i \in DOMAIN alerts : alerts[i].session \in DOMAIN sessions
           /\ \A i \in DOMAIN pending : pending[i].session \in NewIds
<1>1. /\ DOMAIN sessionOf' = DOMAIN sessionOf \cup DOMAIN assignments
      /\ \A m \in DOMAIN assignments : sessionOf'[m] = assignments[m]
      /\ \A m \in DOMAIN sessionOf : sessionOf'[m] = sessionOf[m]
  BY DEF IInv, PassInv, TypeOK, Overlay, Commit
<1>2. PICK p \in SoundPasses : Whole(p, messages, rows, sessions) /\ Mirrors(p)
  BY CommitIsWhole
<1>3. \A i \in DOMAIN pending : pending[i].session \in NewIds
  BY <1>2 DEF Whole, Alerted, Mirrors, IInv, PassInv
<1> QED BY <1>1, <1>3 DEF StoreOK

-----------------------------------------------------------------------------
(* What the engine and the rules remember of an open session is what its   *)
(* messages say, and so the alerts that a pass publishes are the ones the  *)
(* whole session calls for.                                                *)

\* Message mid is later than every message of held.
Later(table, held, mid) ==
    /\ mid \notin held
    /\ ~Before(table, mid, mid)
    /\ \A m \in held : Before(table, m, mid) /\ ~Before(table, mid, m)

-----------------------------------------------------------------------------
(* The MME id                                                              *)

\* The id is settled by the first message that has one.
LEMMA KnownAsStep ==
    ASSUME NEW table, NEW held, NEW mid, Later(table, held, mid),
           NEW mme, KnownAs(table, held, mme),
           NEW row, row = table[mid]
    PROVE  KnownAs(table, held \cup {mid}, Latch(mme, row))
<1> DEFINE named(S) == {m \in S : table[m].mme # None}
<1>1. CASE named(held) = {} /\ row.mme = None
  <2>1. named(held \cup {mid}) = {} /\ mme = None
    BY <1>1 DEF KnownAs
  <2> QED BY <1>1, <2>1 DEF KnownAs, Latch
<1>2. CASE named(held) = {} /\ row.mme # None
  <2>1. named(held \cup {mid}) = {mid} /\ mme = None
    BY <1>2 DEF KnownAs
  <2> QED BY <1>2, <2>1 DEF KnownAs, Latch
<1>3. CASE named(held) # {}
  <2>1. PICK m \in named(held) :
            table[m].mme = mme /\ \A n \in named(held) \ {m} : Before(table, m, n)
    BY <1>3 DEF KnownAs
  <2>2. m \in named(held \cup {mid}) /\ Latch(mme, row) = mme
    BY <2>1 DEF Latch
  <2>3. \A n \in named(held \cup {mid}) \ {m} : Before(table, m, n)
    BY <2>1 DEF Later
  <2> QED BY <2>1, <2>2, <2>3 DEF KnownAs
<1> QED BY <1>1, <1>2, <1>3

\* A session of no messages is known by no id.
LEMMA KnownAsNobody == ASSUME NEW table PROVE KnownAs(table, {}, None)
BY DEF KnownAs

\* Rows added behind the table change nothing for those in it.
LEMMA KnownAsKept ==
    ASSUME NEW table, NEW longer, NEW held, NEW mme,
           \A m \in held : longer[m] = table[m],
           KnownAs(table, held, mme)
    PROVE  KnownAs(longer, held, mme)
<1> DEFINE named == {m \in held : table[m].mme # None}
<1>1. named = {m \in held : longer[m].mme # None}
  OBVIOUS
<1>2. CASE named = {}
  BY <1>1, <1>2 DEF KnownAs
<1>3. CASE named # {}
  <2>1. PICK m \in named :
            table[m].mme = mme /\ \A n \in named \ {m} : Before(table, m, n)
    BY <1>3 DEF KnownAs
  <2>2. longer[m].mme = mme /\ \A n \in named \ {m} : Before(longer, m, n)
    BY <2>1 DEF Before
  <2> QED BY <1>1, <1>3, <2>2 DEF KnownAs
<1> QED BY <1>2, <1>3

-----------------------------------------------------------------------------
(* What a step of the pass does to the sessions in flight.                 *)

LEMMA HeldStep ==
    ASSUME IInv, OInv, ReadRow, NEW mid \in NextRow, done' = done \cup {mid},
           NEW sid, assignments' = Put(assignments, mid, sid)
    PROVE  /\ messages' = messages
           /\ \A s : s # sid => Held(assignments', s) = Held(assignments, s)
           /\ Held(assignments', sid) = Held(assignments, sid) \cup {mid}
           /\ Later(messages, Held(assignments, sid), mid)
<1>1. mid \notin DOMAIN assignments
  BY TurnFacts
<1>2. \A m \in DOMAIN assignments : Before(messages, m, mid) /\ ~Before(messages, mid, m)
  BY ReadInOrderStep DEF Follows
<1>3. ~Before(messages, mid, mid)
  BY ReadInOrderStep DEF Follows
<1> QED BY <1>1, <1>2, <1>3 DEF ReadRow, storeVars, Held, Put, Later

LEMMA IngestHeld ==
    ASSUME IInv, Ingest
    PROVE  /\ assignments' = assignments
           /\ \A s : \A m \in Held(assignments, s) : messages'[m] = messages[m]
BY TableGrows DEF Ingest, passVars, IInv, TypeOK, Held

LEMMA MmeStep ==
    ASSUME IInv, OInv, MmeIsFirstSeen, [Next]_vars PROVE MmeIsFirstSeen'
<1>1. CASE Ingest
  <2>1. open' = open
    BY <1>1 DEF Ingest, passVars
  <2> QED BY <1>1, <2>1, IngestHeld, KnownAsKept DEF MmeIsFirstSeen
<1>2. CASE Select \/ Abort \/ Fail \/ Commit
  <2>1. open' = <<>>
    BY <1>2 DEF Select, Abort, Fail, Commit, Rollback, PassOver, IInv, PassInv
  <2> QED BY <2>1 DEF MmeIsFirstSeen
<1>3. CASE ReadRow
  <2>1. PICK mid \in NextRow :
          /\ SkipNoEnb(mid) \/ SkipAmbiguous(mid) \/ Continue(mid) \/ Open(mid)
          /\ done' = done \cup {mid}
    BY <1>3 DEF ReadRow
  <2> DEFINE row == messages[mid]
  <2>2. CASE SkipNoEnb(mid) \/ SkipAmbiguous(mid)
    BY <1>3, <2>2 DEF SkipNoEnb, SkipAmbiguous, ReadRow, storeVars, MmeIsFirstSeen
  <2>3. CASE Continue(mid)
    <3>1. PICK key \in Resolve(open, row) :
            /\ Reusable(open, key, row)
            /\ open' = Put(open, key, Entry(open[key].session, row,
                                           Latch(open[key].mme, row)))
            /\ Assign(mid, open[key].session, states[open[key].session], states)
      BY <2>3 DEF Continue
    <3> DEFINE sid == open[key].session
               mme == Latch(open[key].mme, row)
    <3>2. key \in DOMAIN open /\ \A k \in DOMAIN open \ {key} : open[k].session # sid
      BY <3>1 DEF Reusable, IInv, RunnerTracksOpenSessions
    <3>3. assignments' = Put(assignments, mid, sid)
      BY <3>1 DEF Assign
    <3>4. /\ messages' = messages
          /\ \A s : s # sid => Held(assignments', s) = Held(assignments, s)
          /\ Held(assignments', sid) = Held(assignments, sid) \cup {mid}
          /\ Later(messages, Held(assignments, sid), mid)
      BY <1>3, <2>1, <3>3, HeldStep
    <3>5. KnownAs(messages, Held(assignments, sid) \cup {mid}, mme)
      BY <3>2, <3>4, KnownAsStep DEF MmeIsFirstSeen
    <3>6. /\ DOMAIN open' = DOMAIN open
          /\ open'[key].session = sid /\ open'[key].mme = mme
          /\ \A k \in DOMAIN open \ {key} : open'[k] = open[k]
      BY <3>1, <3>2 DEF Put, Entry
    <3> HIDE DEF sid, mme
    <3> QED
      BY <3>2, <3>4, <3>5, <3>6 DEF MmeIsFirstSeen
  <2>4. CASE Open(mid)
    <3> DEFINE sid == Len(txSessions) + 1
    <3>1. PICK key \in Resolve(open, row) :
            /\ open' = Put(open, key, Entry(sid, row, row.mme))
            /\ Assign(mid, sid, NoState, Without(states, Stale(key)))
      BY <2>4 DEF Open
    <3>2. /\ Held(assignments, sid) = {}
          /\ \A k \in DOMAIN open : open[k].session # sid
      <4>1. sid \notin DOMAIN txSessions
        BY <1>3, TurnFacts
      <4> QED BY <4>1 DEF IInv, PassInv, NewIds, Held
    <3>3. assignments' = Put(assignments, mid, sid)
      BY <3>1 DEF Assign
    <3>4. /\ messages' = messages
          /\ \A s : s # sid => Held(assignments', s) = Held(assignments, s)
          /\ Held(assignments', sid) = Held(assignments, sid) \cup {mid}
          /\ Later(messages, Held(assignments, sid), mid)
      BY <1>3, <2>1, <3>3, HeldStep
    <3>5. KnownAs(messages, Held(assignments, sid) \cup {mid}, Latch(None, row))
      BY <3>2, <3>4, KnownAsStep, KnownAsNobody
    <3>6. /\ DOMAIN open' = DOMAIN open \cup {key}
          /\ open'[key].session = sid /\ open'[key].mme = Latch(None, row)
          /\ \A k \in DOMAIN open \ {key} : open'[k] = open[k]
      BY <3>1 DEF Put, Entry, Latch
    <3> HIDE DEF sid
    <3> QED
      BY <3>2, <3>4, <3>5, <3>6 DEF MmeIsFirstSeen
  <2> QED BY <2>1, <2>2, <2>3, <2>4
<1>4. CASE UNCHANGED vars
  BY <1>4 DEF vars, storeVars, passVars, MmeIsFirstSeen
<1> QED BY <1>1, <1>2, <1>3, <1>4 DEF Next

\* The MME id by which a downlink without a cell finds its session is the first
\* one seen in it, for every traffic and every interleaving of captures and
\* passes (_Sessionizer.step).
THEOREM MmeLatched == Spec => []MmeIsFirstSeen
<1>1. Init => MmeIsFirstSeen
  BY DEF Init, MmeIsFirstSeen
<1> QED BY <1>1, MmeStep, Invariance, OrderInvariance, PTL DEF Spec

-----------------------------------------------------------------------------
(* The IMSI rule                                                           *)

\* Row mid of the table joins the messages of held.
Joins(table, held, mid, row, both) ==
    /\ Later(table, held, mid)
    /\ mid \in Nat /\ row = table[mid]
    /\ both = held \cup {mid}

\* imsiFired stands for "an AttachRequest has been seen".
ImsiTracks(table, held, st) ==
    st.imsiFired <=> OfType(table, held, "AttachRequest") # {}

ImsiSays(table, held, said) ==
    {a.trigger : a \in said} = FirstAttachWithImsi(table, held)

LEMMA ImsiStep ==
    ASSUME NEW table, NEW held, NEW mid, NEW row, NEW both,
           Joins(table, held, mid, row, both),
           NEW st \in RuleState, ImsiTracks(table, held, st),
           NEW said, ImsiSays(table, held, said),
           NEW sid, NEW add,
           add = IF ImsiFires(st, row) THEN {ImsiAlert(sid, mid)} ELSE {}
    PROVE  /\ ImsiTracks(table, both, ObserveAll(st, mid, row))
           /\ ImsiSays(table, both, said \cup add)
<1> DEFINE attaches(S) == OfType(table, S, "AttachRequest")
<1>1. ObserveAll(st, mid, row).imsiFired <=> st.imsiFired \/ row.type = "AttachRequest"
  BY DEF ObserveAll, AkaObserve, ImsiObserve, RuleState
<1>2. attaches(both) = attaches(held) \cup {m \in {mid} : row.type = "AttachRequest"}
  BY DEF OfType, Joins
<1>3. FirstAttachWithImsi(table, both) =
        FirstAttachWithImsi(table, held)
          \cup {m \in {mid} : /\ row.type = "AttachRequest" /\ row.identity = "IMSI"
                              /\ attaches(held) = {}}
  BY <1>2 DEF FirstAttachWithImsi, OfType, Joins, Later
<1>4. {a.trigger : a \in said \cup add} =
        {a.trigger : a \in said} \cup {m \in {mid} : ImsiFires(st, row)}
  <2>1. CASE ImsiFires(st, row)
    <3>1. add = {ImsiAlert(sid, mid)} /\ ImsiAlert(sid, mid).trigger = mid
      BY <2>1 DEF ImsiAlert
    <3> QED BY <2>1, <3>1
  <2>2. CASE ~ImsiFires(st, row)
    BY <2>2
  <2> QED BY <2>1, <2>2
<1>5. ImsiFires(st, row) <=> /\ row.type = "AttachRequest" /\ row.identity = "IMSI"
                             /\ attaches(held) = {}
  BY DEF ImsiFires, ImsiTracks
<1>6. ImsiTracks(table, both, ObserveAll(st, mid, row))
  BY <1>1, <1>2 DEF ImsiTracks
<1>7. ImsiSays(table, both, said \cup add)
  BY <1>3, <1>4, <1>5 DEF ImsiSays
<1> QED BY <1>6, <1>7

-----------------------------------------------------------------------------
(* The AKA rule                                                            *)

\* The challenge that is pending after all messages of held, and its answers.
Pending(table, held) ==
    {c \in OfType(table, held, "AuthenticationRequest") :
        /\ \E a \in OfType(table, held, "AttachRequest") : Before(table, a, c)
        /\ \A d \in OfType(table, held, "AuthenticationRequest") : ~Before(table, c, d)}

Replies(table, held, type) ==
    {r \in OfType(table, held, type) :
        \E c \in Pending(table, held) : Before(table, c, r)}

\* Until the rule fires its dict says what is pending; after that it is not read.
AkaTracks(table, held, st) ==
    /\ st.attachSeen <=> OfType(table, held, "AttachRequest") # {}
    /\ st.akaFired <=> Offence(table, held) # {}
    /\ ~st.akaFired =>
          /\ \A p \in held : ~Unauthenticated(table, held, p)
          /\ st.authReq <=> Pending(table, held) # {}
          /\ st.authCompleted <=> Replies(table, held, "AuthenticationResponse") # {}
          /\ IF Replies(table, held, "AuthenticationFailure") = {}
             THEN st.authFailure = None
             ELSE /\ st.authFailure # None
                  /\ st.authFailure \in Replies(table, held, "AuthenticationFailure")
                  /\ \A r \in Replies(table, held, "AuthenticationFailure") :
                        ~Before(table, st.authFailure, r)

AkaSays(table, held, said) ==
    /\ said # {} <=> Offence(table, held) # {}
    /\ \A a \in said, p \in Offence(table, held) : RightEvidence(table, held, p, a)

\* What was pending at a message does not depend on later ones.
LEMMA PastIsSettled ==
    ASSUME NEW table, NEW held, NEW mid, NEW row, NEW both,
           Joins(table, held, mid, row, both), NEW p \in held
    PROVE  /\ LastChallenge(table, both, p) = LastChallenge(table, held, p)
           /\ \A type : Answers(table, both, p, type)
                          = Answers(table, held, p, type)
           /\ Unauthenticated(table, both, p)
                <=> Unauthenticated(table, held, p)
<1>1. LastChallenge(table, both, p) = LastChallenge(table, held, p)
  BY DEF LastChallenge, OfType, Later, Joins
<1>2. \A type : Answers(table, both, p, type) = Answers(table, held, p, type)
  BY <1>1 DEF Answers, OfType, Later, Joins
<1>3. (\E a \in OfType(table, both, "AttachRequest") : Before(table, a, p))
        <=> \E a \in OfType(table, held, "AttachRequest") : Before(table, a, p)
  BY DEF OfType, Later, Joins
<1> QED BY <1>1, <1>2, <1>3 DEF Unauthenticated

\* At the message just read, what is pending is what the messages before leave.
LEMMA PresentIsPending ==
    ASSUME NEW table, NEW held, NEW mid, NEW row, NEW both,
           Joins(table, held, mid, row, both),
           row.type # "AuthenticationRequest"
    PROVE  /\ LastChallenge(table, both, mid) = Pending(table, held)
           /\ \A type : Answers(table, both, mid, type)
                          = Replies(table, held, type)
<1>1. LastChallenge(table, both, mid) = Pending(table, held)
  BY DEF LastChallenge, Pending, OfType, Later, Joins
<1> QED BY <1>1 DEF Answers, Replies, OfType, Later, Joins

\* The first offence stays the first; there is a new one only if there was none.
LEMMA OffenceStep ==
    ASSUME NEW table, NEW held, NEW mid, NEW row, NEW both,
           Joins(table, held, mid, row, both)
    PROVE  /\ Offence(table, held) # {} =>
                 Offence(table, both) = Offence(table, held)
           /\ (\A p \in held : ~Unauthenticated(table, held, p)) =>
                 Offence(table, both) =
                     IF Unauthenticated(table, both, mid) THEN {mid} ELSE {}
<1>1. \A p \in held : Unauthenticated(table, both, p)
                        <=> Unauthenticated(table, held, p)
  BY PastIsSettled
<1>2. ASSUME Offence(table, held) # {}
      PROVE  Offence(table, both) = Offence(table, held)
  BY <1>1, <1>2 DEF Offence, Later, Joins
<1>3. ASSUME \A p \in held : ~Unauthenticated(table, held, p)
      PROVE  Offence(table, both) =
               IF Unauthenticated(table, both, mid) THEN {mid} ELSE {}
  BY <1>1, <1>3 DEF Offence, Later, Joins
<1> QED BY <1>2, <1>3

\* What a challenge, and what any other message, changes about what is pending.
LEMMA ChallengeStep ==
    ASSUME NEW table, NEW held, NEW mid, NEW row, NEW both,
           Joins(table, held, mid, row, both),
           row.type = "AuthenticationRequest"
    PROVE  /\ Pending(table, both) =
                 IF OfType(table, held, "AttachRequest") = {} THEN {} ELSE {mid}
           /\ \A type : Replies(table, both, type) = {}
<1>1. Pending(table, both) =
        IF OfType(table, held, "AttachRequest") = {} THEN {} ELSE {mid}
  BY DEF Pending, OfType, Joins, Later
<1>2. ASSUME NEW type PROVE Replies(table, both, type) = {}
  BY <1>1 DEF Replies, OfType, Joins, Later
<1> QED BY <1>1, <1>2

LEMMA OtherStep ==
    ASSUME NEW table, NEW held, NEW mid, NEW row, NEW both,
           Joins(table, held, mid, row, both),
           row.type # "AuthenticationRequest"
    PROVE  /\ Pending(table, both) = Pending(table, held)
           /\ \A type : Replies(table, both, type) =
                 IF row.type = type /\ Pending(table, held) # {}
                 THEN Replies(table, held, type) \cup {mid}
                 ELSE Replies(table, held, type)
<1>1. Pending(table, both) = Pending(table, held)
  BY DEF Pending, OfType, Joins, Later
<1>2. ASSUME NEW type
      PROVE  Replies(table, both, type) =
               IF row.type = type /\ Pending(table, held) # {}
               THEN Replies(table, held, type) \cup {mid}
               ELSE Replies(table, held, type)
  <2>1. Pending(table, held) \subseteq held
    BY DEF Pending, OfType
  <2> QED BY <1>1, <2>1 DEF Replies, OfType, Joins, Later
<1> QED BY <1>1, <1>2

LEMMA NothingPending ==
    ASSUME NEW table, NEW held, OfType(table, held, "AttachRequest") = {}
    PROVE  Pending(table, held) = {}
BY DEF Pending

\* A message that fires the rule: it is the session's first offence, and the
\* alert names what RightEvidence asks for.
LEMMA AkaFiring ==
    ASSUME NEW table, NEW held, NEW mid, NEW row, NEW both,
           Joins(table, held, mid, row, both),
           NEW st \in RuleState, AkaTracks(table, held, st), ~st.akaFired
    PROVE  /\ AkaFires(st, row) <=> Unauthenticated(table, both, mid)
           /\ AkaFires(st, row) =>
                 \A sid : RightEvidence(table, both, mid, AkaAlert(sid, st, mid))
<1>1. (\E a \in OfType(table, both, "AttachRequest") : Before(table, a, mid))
        <=> st.attachSeen
  BY DEF AkaTracks, OfType, Joins, Later
<1>2. ASSUME row.type \in PostAuth
      PROVE  /\ LastChallenge(table, both, mid) = Pending(table, held)
             /\ \A type : Answers(table, both, mid, type) = Replies(table, held, type)
  BY <1>2, PresentIsPending DEF PostAuth
<1>3. AkaFires(st, row) <=> Unauthenticated(table, both, mid)
  BY <1>1, <1>2 DEF AkaFires, AkaJudges, Unauthenticated, AkaTracks, Joins
<1>4. ASSUME AkaFires(st, row), NEW sid
      PROVE  RightEvidence(table, both, mid, AkaAlert(sid, st, mid))
  <2> DEFINE refusals == Replies(table, held, "AuthenticationFailure")
  <2>1. /\ LastChallenge(table, both, mid) = Pending(table, held)
        /\ Answers(table, both, mid, "AuthenticationFailure") = refusals
    BY <1>2, <1>4 DEF AkaFires
  <2>2. /\ AkaAlert(sid, st, mid).kind = AkaKind(st)
        /\ AkaAlert(sid, st, mid).trigger = AkaTrigger(st, mid)
    BY DEF AkaAlert
  <2>3. CASE Pending(table, held) = {}
    BY <2>1, <2>2, <2>3 DEF RightEvidence, AkaKind, AkaTrigger, AkaTracks
  <2>4. CASE Pending(table, held) # {} /\ refusals = {}
    BY <2>1, <2>2, <2>4 DEF RightEvidence, AkaKind, AkaTrigger, AkaTracks
  <2>5. CASE Pending(table, held) # {} /\ refusals # {}
    BY <2>1, <2>2, <2>5 DEF RightEvidence, AkaKind, AkaTrigger, AkaTracks
  <2> QED BY <2>3, <2>4, <2>5
<1> QED BY <1>3, <1>4

\* The dict keeps track of the session.
LEMMA AkaTrackStep ==
    ASSUME NEW table, NEW held, NEW mid, NEW row, NEW both,
           Joins(table, held, mid, row, both),
           NEW st \in RuleState, AkaTracks(table, held, st), None \notin Nat
    PROVE  AkaTracks(table, both, AkaObserve(st, mid, row))
<1> DEFINE now == AkaObserve(st, mid, row)
<1>1. /\ now.attachSeen <=> st.attachSeen \/ (~st.akaFired /\ row.type = "AttachRequest")
      /\ now.authReq <=> st.authReq \/ (AkaJudges(st) /\ row.type = "AuthenticationRequest")
      /\ now.authCompleted <=> AkaCompleted(st, row)
      /\ now.authFailure = AkaFailure(st, mid, row)
      /\ now.akaFired <=> st.akaFired \/ AkaFires(st, row)
  <2>1. now.attachSeen = (st.attachSeen \/ (~st.akaFired /\ row.type = "AttachRequest"))
    BY DEF AkaObserve
  <2>2. now.authReq =
          (st.authReq \/ (AkaJudges(st) /\ row.type = "AuthenticationRequest"))
    BY DEF AkaObserve
  <2>3. now.authCompleted = AkaCompleted(st, row) /\ now.authFailure = AkaFailure(st, mid, row)
    BY DEF AkaObserve
  <2>4. now.akaFired = (st.akaFired \/ AkaFires(st, row))
    BY DEF AkaObserve
  <2> HIDE DEF now
  <2> QED BY <2>1, <2>2, <2>3, <2>4
<1> SUFFICES AkaTracks(table, both, now)
  OBVIOUS
<1> HIDE DEF now
<1>2. OfType(table, both, "AttachRequest") = OfType(table, held, "AttachRequest")
         \cup {m \in {mid} : row.type = "AttachRequest"}
  BY DEF OfType, Joins
<1>3. CASE st.akaFired
  <2>1. Offence(table, held) # {} /\ Offence(table, both) = Offence(table, held)
    BY <1>3, OffenceStep DEF AkaTracks
  <2>2. OfType(table, held, "AttachRequest") # {}
    BY <2>1 DEF Offence, Unauthenticated, OfType
  <2> QED BY <1>1, <1>2, <1>3, <2>1, <2>2 DEF AkaTracks
<1>4. CASE ~st.akaFired
  <2>1. /\ now.akaFired <=> Unauthenticated(table, both, mid)
        /\ Offence(table, both) = 
               IF Unauthenticated(table, both, mid) THEN {mid} ELSE {}
    BY <1>1, <1>4, AkaFiring, OffenceStep DEF AkaTracks
  <2>2. now.attachSeen <=> OfType(table, both, "AttachRequest") # {}
    BY <1>1, <1>2, <1>4 DEF AkaTracks
  <2>3. now.akaFired <=> Offence(table, both) # {}
    BY <2>1
  <2>4. ASSUME ~now.akaFired
        PROVE  \A p \in both : ~Unauthenticated(table, both, p)
    <3>1. \A p \in held : ~Unauthenticated(table, both, p)
      BY <1>4, PastIsSettled DEF AkaTracks
    <3>2. both = held \cup {mid}
      BY DEF Joins
    <3> QED BY <2>1, <2>4, <3>1, <3>2
  <2>5. AkaJudges(st) <=> OfType(table, held, "AttachRequest") # {}
    BY <1>4 DEF AkaJudges, AkaTracks
  <2>6. /\ now.authReq <=> Pending(table, both) # {}
        /\ now.authCompleted <=> Replies(table, both, "AuthenticationResponse") # {}
        /\ IF Replies(table, both, "AuthenticationFailure") = {}
           THEN now.authFailure = None
           ELSE /\ now.authFailure # None
                /\ now.authFailure \in Replies(table, both, "AuthenticationFailure")
                /\ \A r \in Replies(table, both, "AuthenticationFailure") :
                      ~Before(table, now.authFailure, r)
    <3> DEFINE refusals(S) == Replies(table, S, "AuthenticationFailure")
    <3> HIDE DEF refusals
    <3>1. CASE row.type = "AuthenticationRequest" /\ AkaJudges(st)
      <4>1. /\ Pending(table, both) # {}
            /\ \A type : Replies(table, both, type) = {}
        <5>1. row.type = "AuthenticationRequest" /\ OfType(table, held, "AttachRequest") # {}
          BY <2>5, <3>1
        <5>2. \A type : Replies(table, both, type) = {}
          BY <5>1, ChallengeStep
        <5>3. Pending(table, both) = {mid}
          BY <5>1, ChallengeStep
        <5> QED BY <5>2, <5>3
      <4> QED BY <1>1, <3>1, <4>1 DEF AkaCompleted, AkaFailure
    <3>2. CASE row.type = "AuthenticationRequest" /\ ~AkaJudges(st)
      <4>1. /\ Pending(table, both) = {} /\ Pending(table, held) = {}
            /\ \A type : Replies(table, both, type) = {}
        BY <2>5, <3>2, ChallengeStep, NothingPending
      <4>2. \A type : Replies(table, held, type) = {}
        BY <4>1 DEF Replies
      <4> QED BY <1>1, <1>4, <3>2, <4>1, <4>2 DEF AkaCompleted, AkaFailure, AkaTracks
    <3>3. CASE row.type # "AuthenticationRequest"
      <4>1. /\ Pending(table, both) = Pending(table, held)
            /\ \A type : Replies(table, both, type) =
                  IF row.type = type /\ Pending(table, held) # {}
                  THEN Replies(table, held, type) \cup {mid}
                  ELSE Replies(table, held, type)
            /\ Pending(table, held) # {} => AkaJudges(st)
        <5>1. Pending(table, both) = Pending(table, held)
          BY <3>3, OtherStep
        <5>2. \A type : Replies(table, both, type) =
                IF row.type = type /\ Pending(table, held) # {}
                THEN Replies(table, held, type) \cup {mid}
                ELSE Replies(table, held, type)
          BY <3>3, OtherStep
        <5>3. Pending(table, held) # {} => AkaJudges(st)
          BY <2>5, NothingPending
        <5> QED BY <5>1, <5>2, <5>3
      <4>2. st.authReq <=> Pending(table, held) # {}
        BY <1>4 DEF AkaTracks
      <4>3. now.authReq <=> Pending(table, both) # {}
        BY <1>1, <3>3, <4>1, <4>2
      <4>4. now.authCompleted <=> Replies(table, both, "AuthenticationResponse") # {}
        BY <1>1, <1>4, <3>3, <4>1, <4>2 DEF AkaCompleted, AkaTracks
      <4>5. CASE row.type = "AuthenticationFailure" /\ Pending(table, held) # {}
        <5>1. now.authFailure = mid /\ refusals(both) = refusals(held) \cup {mid}
          BY <1>1, <4>1, <4>2, <4>5 DEF AkaFailure, refusals
        <5>2. mid # None /\ \A r \in refusals(both) : ~Before(table, mid, r)
          BY <5>1 DEF Joins, Later, Replies, OfType, refusals
        <5> QED BY <4>3, <4>4, <5>1, <5>2 DEF refusals
      <4>6. CASE ~(row.type = "AuthenticationFailure" /\ Pending(table, held) # {})
        <5>1. now.authFailure = st.authFailure /\ refusals(both) = refusals(held)
          BY <1>1, <3>3, <4>1, <4>2, <4>6 DEF AkaFailure, refusals
        <5> QED BY <1>4, <4>3, <4>4, <5>1 DEF AkaTracks, refusals
      <4> QED BY <4>5, <4>6
    <3> QED BY <3>1, <3>2, <3>3
  <2> QED BY <2>2, <2>3, <2>4, <2>6 DEF AkaTracks
<1> QED BY <1>3, <1>4

LEMMA AkaStep ==
    ASSUME NEW table, NEW held, NEW mid, NEW row, NEW both,
           Joins(table, held, mid, row, both),
           NEW st \in RuleState, AkaTracks(table, held, st),
           NEW said, AkaSays(table, held, said),
           NEW sid, NEW add,
           add = IF AkaFires(st, row) THEN {AkaAlert(sid, st, mid)} ELSE {}
    PROVE  AkaSays(table, both, said \cup add)
<1>1. CASE st.akaFired
  <2>1. Offence(table, both) = Offence(table, held) /\ add = {}
    BY <1>1, OffenceStep DEF AkaTracks, AkaFires, AkaJudges
  <2>2. ASSUME NEW p \in Offence(table, held), NEW a
        PROVE  RightEvidence(table, both, p, a) <=> RightEvidence(table, held, p, a)
    <3>1. p \in held
      BY DEF Offence
    <3> QED BY <3>1, PastIsSettled DEF RightEvidence
  <2> QED BY <2>1, <2>2 DEF AkaSays
<1>2. CASE ~st.akaFired
  <2>1. said = {} /\ Offence(table, both) = IF AkaFires(st, row) THEN {mid} ELSE {}
    BY <1>2, AkaFiring, OffenceStep DEF AkaTracks, AkaSays
  <2>2. CASE AkaFires(st, row)
    <3>1. /\ Offence(table, both) = {mid}
          /\ said \cup add = {AkaAlert(sid, st, mid)}
      BY <2>1, <2>2
    <3>2. RightEvidence(table, both, mid, AkaAlert(sid, st, mid))
      BY <1>2, <2>2, AkaFiring
    <3> QED BY <3>1, <3>2 DEF AkaSays
  <2>3. CASE ~AkaFires(st, row)
    BY <2>1, <2>3 DEF AkaSays
  <2> QED BY <2>2, <2>3
<1> QED BY <1>1, <1>2

-----------------------------------------------------------------------------
(* What has been said about a session, in the buffer and in the table.     *)

Said(list, sid, rule) ==
    {list[i] : i \in {j \in DOMAIN list :
                        list[j].session = sid /\ RuleOf(list[j].kind) = rule}}

Judged(list, table, held, sid) ==
    /\ ImsiSays(table, held, Said(list, sid, "imsi_cleartext_attach"))
    /\ AkaSays(table, held, Said(list, sid, "aka_skipped_or_failed"))

Tracks(table, held, st) == ImsiTracks(table, held, st) /\ AkaTracks(table, held, st)

RuleInv ==
    /\ \A sid : Judged(pending, messages, Held(assignments, sid), sid)
    /\ \A sid : Judged(alerts, messages, Held(sessionOf, sid), sid)
    /\ \A sid \in DOMAIN states :
          Tracks(messages, Held(assignments, sid), states[sid])

LEMMA SaidConcat ==
    ASSUME NEW s \in Seq(Alert), NEW t \in Seq(Alert), NEW sid, NEW rule
    PROVE  Said(s \o t, sid, rule) = Said(s, sid, rule) \cup Said(t, sid, rule)
<1> DEFINE u == s \o t
<1>1. /\ \A i \in DOMAIN s : i \in DOMAIN u /\ u[i] = s[i]
      /\ \A i \in DOMAIN u \ DOMAIN s : i - Len(s) \in DOMAIN t /\ u[i] = t[i - Len(s)]
  BY ConcatFacts
<1>2. ASSUME NEW j \in DOMAIN t PROVE \E i \in DOMAIN u : u[i] = t[j]
  <2>1. Len(s) + j \in DOMAIN u /\ u[Len(s) + j] = t[j]
    BY DEF Alert
  <2> QED BY <2>1
<1> HIDE DEF u
<1>3. ASSUME NEW a \in Said(u, sid, rule)
      PROVE  a \in Said(s, sid, rule) \cup Said(t, sid, rule)
  BY <1>1 DEF Said
<1>4. Said(s, sid, rule) \subseteq Said(u, sid, rule)
  BY <1>1 DEF Said
<1>5. Said(t, sid, rule) \subseteq Said(u, sid, rule)
  BY <1>2 DEF Said
<1>6. Said(u, sid, rule) = Said(s, sid, rule) \cup Said(t, sid, rule)
  BY <1>3, <1>4, <1>5
<1> QED BY <1>6 DEF u

LEMMA SaidOfOne ==
    ASSUME NEW sid \in Nat, NEW st \in RuleState, NEW mid \in Nat, NEW row \in Row,
           NEW out, out = AlertsOf(sid, st, mid, row)
    PROVE  /\ Said(out, sid, "imsi_cleartext_attach") =
                 IF ImsiFires(st, row) THEN {ImsiAlert(sid, mid)} ELSE {}
           /\ Said(out, sid, "aka_skipped_or_failed") =
                 IF AkaFires(st, row) THEN {AkaAlert(sid, st, mid)} ELSE {}
           /\ \A s, rule : s # sid => Said(out, s, rule) = {}
<1> DEFINE a == ImsiAlert(sid, mid)
           b == AkaAlert(sid, st, mid)
<1>1. /\ \A i \in DOMAIN out :
            \/ ImsiFires(st, row) /\ out[i] = a
            \/ AkaFires(st, row) /\ out[i] = b
      /\ ImsiFires(st, row) => \E i \in DOMAIN out : out[i] = a
      /\ AkaFires(st, row) => \E i \in DOMAIN out : out[i] = b
  BY AlertsShape
<1>2. /\ a.session = sid /\ RuleOf(a.kind) = "imsi_cleartext_attach"
      /\ b.session = sid /\ RuleOf(b.kind) = "aka_skipped_or_failed"
  BY DEF ImsiAlert, AkaAlert, RuleOf, AkaKind
<1> HIDE DEF a, b
<1>3. Said(out, sid, "imsi_cleartext_attach") = IF ImsiFires(st, row) THEN {a} ELSE {}
  BY <1>1, <1>2 DEF Said
<1>4. Said(out, sid, "aka_skipped_or_failed") = IF AkaFires(st, row) THEN {b} ELSE {}
  BY <1>1, <1>2 DEF Said
<1>5. ASSUME NEW s, NEW rule, s # sid PROVE Said(out, s, rule) = {}
  BY <1>1, <1>2, <1>5 DEF Said
<1> QED BY <1>3, <1>4, <1>5 DEF a, b

\* Of a session without messages nothing is said.
LEMMA NobodyJudged ==
    ASSUME NEW table, NEW list, NEW sid, \A rule : Said(list, sid, rule) = {}
    PROVE  Judged(list, table, {}, sid)
BY DEF Judged, ImsiSays, AkaSays, FirstAttachWithImsi, Offence, OfType

LEMMA NobodyTracked == ASSUME NEW table PROVE Tracks(table, {}, NoState)
BY DEF Tracks, ImsiTracks, AkaTracks, NoState, Offence, Pending, Replies, OfType

\* Rows added behind the table change nothing for the sessions in it.
LEMMA JudgedKept ==
    ASSUME NEW table, NEW longer, NEW held, \A m \in held : longer[m] = table[m]
    PROVE  /\ \A list, sid : Judged(list, table, held, sid) => Judged(list, longer, held, sid)
           /\ \A st : Tracks(table, held, st) => Tracks(longer, held, st)
<1>1. \A m, n \in held : Before(longer, m, n) <=> Before(table, m, n)
  BY DEF Before
<1>2. \A type : OfType(longer, held, type) = OfType(table, held, type)
  BY DEF OfType
<1>3. \A type : OfType(table, held, type) \subseteq held
  BY DEF OfType
<1>4. Pending(longer, held) = Pending(table, held)
  BY <1>1, <1>2, <1>3 DEF Pending
<1>5. Pending(table, held) \subseteq held
  BY <1>3 DEF Pending
<1>6. \A type : Replies(longer, held, type) = Replies(table, held, type)
  BY <1>1, <1>2, <1>3, <1>4, <1>5 DEF Replies
<1>7. \A type : Replies(table, held, type) \subseteq held
  BY <1>3 DEF Replies
<1>8. FirstAttachWithImsi(longer, held) = FirstAttachWithImsi(table, held)
  BY <1>1, <1>2, <1>3 DEF FirstAttachWithImsi
<1>9. ASSUME NEW p \in held
      PROVE  /\ LastChallenge(longer, held, p) = LastChallenge(table, held, p)
             /\ \A type : Answers(longer, held, p, type) = Answers(table, held, p, type)
             /\ Unauthenticated(longer, held, p) <=> Unauthenticated(table, held, p)
  <2>1. LastChallenge(longer, held, p) = LastChallenge(table, held, p)
    BY <1>1, <1>2, <1>3 DEF LastChallenge
  <2>2. LastChallenge(table, held, p) \subseteq held
    BY <1>3 DEF LastChallenge
  <2>3. \A type : Answers(longer, held, p, type) = Answers(table, held, p, type)
    BY <1>1, <1>2, <1>3, <2>1, <2>2 DEF Answers
  <2>4. Unauthenticated(longer, held, p) <=> Unauthenticated(table, held, p)
    BY <1>1, <1>2, <1>3, <2>3 DEF Unauthenticated
  <2> QED BY <2>1, <2>3, <2>4
<1>10. Offence(longer, held) = Offence(table, held) /\ Offence(table, held) \subseteq held
  BY <1>1, <1>9 DEF Offence
<1>11. ASSUME NEW p \in held, NEW a, RightEvidence(table, held, p, a)
       PROVE  RightEvidence(longer, held, p, a)
  <2>1. Answers(table, held, p, "AuthenticationFailure") \subseteq held
    BY <1>3 DEF Answers
  <2> QED BY <1>1, <1>9, <1>11, <2>1 DEF RightEvidence
<1>12. ASSUME NEW list, NEW sid, Judged(list, table, held, sid)
       PROVE  Judged(list, longer, held, sid)
  BY <1>8, <1>10, <1>11, <1>12 DEF Judged, ImsiSays, AkaSays
<1>13. ASSUME NEW st, Tracks(table, held, st) PROVE Tracks(longer, held, st)
  <2>1. ImsiTracks(longer, held, st)
    BY <1>2, <1>13 DEF Tracks, ImsiTracks
  <2>2. AkaTracks(table, held, st)
    BY <1>13 DEF Tracks
  <2>3. ~st.akaFired => \A p \in held : ~Unauthenticated(longer, held, p)
    BY <1>9, <2>2 DEF AkaTracks
  <2>4. CASE Replies(table, held, "AuthenticationFailure") = {}
    BY <1>2, <1>4, <1>6, <1>10, <2>1, <2>2, <2>3, <2>4 DEF Tracks, AkaTracks
  <2>5. CASE Replies(table, held, "AuthenticationFailure") # {}
    <3>1. ~st.akaFired =>
            /\ st.authFailure \in Replies(table, held, "AuthenticationFailure")
            /\ \A r \in Replies(table, held, "AuthenticationFailure") :
                  ~Before(longer, st.authFailure, r)
      BY <1>1, <1>7, <2>2, <2>5 DEF AkaTracks
    <3> QED
      BY <1>2, <1>4, <1>6, <1>10, <2>1, <2>2, <2>3, <2>5, <3>1 DEF Tracks, AkaTracks
  <2> QED BY <2>4, <2>5
<1> QED BY <1>12, <1>13

\* One more message, and what the rules make of it.
LEMMA JudgedStep ==
    ASSUME NEW table, NEW held, NEW mid, NEW row \in Row, NEW both,
           Joins(table, held, mid, row, both),
           NEW sid \in Nat, NEW st \in RuleState, Tracks(table, held, st),
           NEW list \in Seq(Alert), Judged(list, table, held, sid)
    PROVE  /\ Judged(list \o AlertsOf(sid, st, mid, row), table, both, sid)
           /\ Tracks(table, both, ObserveAll(st, mid, row))
<1> DEFINE out == AlertsOf(sid, st, mid, row)
           imsi == Said(list, sid, "imsi_cleartext_attach")
           aka == Said(list, sid, "aka_skipped_or_failed")
           addImsi == IF ImsiFires(st, row) THEN {ImsiAlert(sid, mid)} ELSE {}
           addAka == IF AkaFires(st, row) THEN {AkaAlert(sid, st, mid)} ELSE {}
<1>1. mid \in Nat /\ None \notin Nat
  BY NoneAssumption DEF Joins
<1>2. out \in Seq(Alert)
  BY <1>1, AlertsType
<1>3. /\ Said(out, sid, "imsi_cleartext_attach") = addImsi
      /\ Said(out, sid, "aka_skipped_or_failed") = addAka
  BY <1>1, SaidOfOne
<1>4. /\ Said(list \o out, sid, "imsi_cleartext_attach") = imsi \cup addImsi
      /\ Said(list \o out, sid, "aka_skipped_or_failed") = aka \cup addAka
  BY <1>2, <1>3, SaidConcat
<1>5. ImsiTracks(table, held, st) /\ AkaTracks(table, held, st)
      /\ ImsiSays(table, held, imsi) /\ AkaSays(table, held, aka)
  BY DEF Tracks, Judged
<1> HIDE DEF out, imsi, aka
<1>6. /\ ImsiTracks(table, both, ObserveAll(st, mid, row))
      /\ ImsiSays(table, both, imsi \cup addImsi)
  BY <1>5, ImsiStep
<1>7. AkaSays(table, both, aka \cup addAka)
  BY <1>5, AkaStep
<1>8. AkaTracks(table, both, ObserveAll(st, mid, row))
  <2> DEFINE seen == ImsiObserve(st, row)
  <2>1. seen \in RuleState /\ AkaTracks(table, held, seen)
    BY <1>5 DEF ImsiObserve, RuleState, AkaTracks
  <2> HIDE DEF seen
  <2>2. AkaTracks(table, both, AkaObserve(seen, mid, row))
    BY <1>1, <2>1, AkaTrackStep
  <2> QED BY <2>2 DEF ObserveAll, seen
<1>9. Judged(list \o out, table, both, sid)
  BY <1>4, <1>6, <1>7 DEF Judged
<1> QED BY <1>6, <1>8, <1>9 DEF Tracks, out

-----------------------------------------------------------------------------
(* The steps of the detector.                                              *)

LEMMA InitRules == Init => RuleInv
<1> SUFFICES ASSUME Init PROVE RuleInv
  OBVIOUS
<1>1. /\ \A sid : Held(assignments, sid) = {} /\ Held(sessionOf, sid) = {}
      /\ \A sid, rule : Said(pending, sid, rule) = {} /\ Said(alerts, sid, rule) = {}
      /\ DOMAIN states = {}
  BY DEF Init, StoreInit, Held, Said
<1> QED BY <1>1, NobodyJudged DEF RuleInv

LEMMA IngestRules ==
    ASSUME IInv, RuleInv, Ingest PROVE RuleInv'
<1>1. /\ UNCHANGED <<assignments, sessionOf, pending, alerts, states>>
      /\ \A s : \A m \in Held(assignments, s) : messages'[m] = messages[m]
      /\ \A s : \A m \in Held(sessionOf, s) : messages'[m] = messages[m]
  BY TableGrows DEF Ingest, Arrive, passVars, IInv, TypeOK, Held
<1>2. \A sid : Judged(pending, messages', Held(assignments, sid), sid)
  BY <1>1, JudgedKept DEF RuleInv
<1>3. \A sid : Judged(alerts, messages', Held(sessionOf, sid), sid)
  BY <1>1, JudgedKept DEF RuleInv
<1>4. \A sid \in DOMAIN states :
        Tracks(messages', Held(assignments, sid), states[sid])
  BY <1>1, JudgedKept DEF RuleInv
<1> QED BY <1>1, <1>2, <1>3, <1>4 DEF RuleInv

LEMMA EmptyPassRules ==
    ASSUME RuleInv, UNCHANGED <<messages, sessionOf, alerts>>,
           assignments' = <<>>, states' = <<>>, pending' = <<>>
    PROVE  RuleInv'
<1>1. /\ \A sid : Held(assignments', sid) = {}
      /\ \A sid, rule : Said(pending', sid, rule) = {}
      /\ DOMAIN states' = {}
  BY DEF Held, Said
<1>2. \A sid : Judged(pending', messages', Held(assignments', sid), sid)
  BY <1>1, NobodyJudged
<1>3. \A sid : Judged(alerts', messages', Held(sessionOf', sid), sid)
  BY DEF RuleInv
<1> QED BY <1>1, <1>2, <1>3 DEF RuleInv

\* A row goes to session sid, whose rule state is st: what both steps have in common.
LEMMA AssignRules ==
    ASSUME IInv, OInv, RuleInv, ReadRow, NEW mid \in NextRow, done' = done \cup {mid},
           NEW sid \in Nat, NEW st \in RuleState, NEW others,
           Assign(mid, sid, st, others),
           DOMAIN others \subseteq DOMAIN states,
           \A s \in DOMAIN others : others[s] = states[s],
           Tracks(messages, Held(assignments, sid), st)
    PROVE  RuleInv'
<1> DEFINE row == messages[mid]
           held == Held(assignments, sid)
           both == Held(assignments', sid)
           out == AlertsOf(sid, st, mid, row)
           now == ObserveAll(st, mid, row)
<1>1. /\ mid \in Nat /\ row \in Row /\ pending \in Seq(Alert) /\ out \in Seq(Alert)
  BY TurnFacts, AlertsType
<1>2. /\ messages' = messages
      /\ \A s : s # sid => Held(assignments', s) = Held(assignments, s)
      /\ both = held \cup {mid} /\ Later(messages, held, mid)
  BY HeldStep DEF Assign
<1>3. /\ DOMAIN states' = DOMAIN others \cup {sid}
      /\ states'[sid] = now
      /\ \A s \in DOMAIN others \ {sid} : states'[s] = states[s]
      /\ pending' = pending \o out
  BY DEF Assign, Put
<1>4. sessionOf' = sessionOf /\ alerts' = alerts
  BY DEF ReadRow, storeVars
<1>5. Judged(pending, messages, held, sid)
  BY DEF RuleInv
<1> HIDE DEF held, both, row
<1>6. Joins(messages, held, mid, row, both)
  BY <1>1, <1>2 DEF Joins, row
<1>7. Tracks(messages, held, st)
  BY DEF held
<1>8. Judged(pending', messages, both, sid) /\ Tracks(messages, both, now)
  BY <1>1, <1>3, <1>5, <1>6, <1>7, JudgedStep
<1> HIDE DEF out, now
<1>9. ASSUME NEW s, s # sid PROVE Judged(pending', messages, Held(assignments, s), s)
  <2>1. \A rule : Said(out, s, rule) = {}
    BY <1>1, <1>9, SaidOfOne DEF out
  <2>2. \A rule : Said(pending', s, rule) = Said(pending, s, rule)
    <3> SUFFICES ASSUME NEW rule PROVE Said(pending', s, rule) = Said(pending, s, rule)
      OBVIOUS
    <3>1. Said(pending \o out, s, rule) = Said(pending, s, rule) \cup Said(out, s, rule)
      BY <1>1, SaidConcat
    <3>2. Said(out, s, rule) = {}
      BY <2>1
    <3> QED BY <1>3, <3>1, <3>2
  <2>3. Judged(pending, messages, Held(assignments, s), s)
    BY DEF RuleInv
  <2> QED BY <2>2, <2>3 DEF Judged
<1>10. \A s : Judged(pending', messages', Held(assignments', s), s)
  BY <1>2, <1>8, <1>9 DEF both
<1>11. \A s \in DOMAIN states' : Tracks(messages', Held(assignments', s), states'[s])
  BY <1>2, <1>3, <1>8 DEF both, RuleInv
<1> QED BY <1>2, <1>4, <1>10, <1>11 DEF RuleInv

LEMMA ReadRules ==
    ASSUME IInv, OInv, RuleInv, ReadRow PROVE RuleInv'
<1>1. PICK mid \in NextRow :
        /\ SkipNoEnb(mid) \/ SkipAmbiguous(mid) \/ Continue(mid) \/ Open(mid)
        /\ done' = done \cup {mid}
  BY DEF ReadRow
<1>2. CASE SkipNoEnb(mid) \/ SkipAmbiguous(mid)
  BY <1>2 DEF SkipNoEnb, SkipAmbiguous, ReadRow, storeVars, RuleInv
<1>3. CASE Continue(mid)
  <2>1. PICK key \in Resolve(open, messages[mid]) :
          /\ Reusable(open, key, messages[mid])
          /\ Assign(mid, open[key].session, states[open[key].session], states)
    BY <1>3 DEF Continue
  <2> DEFINE sid == open[key].session
  <2>2. sid \in Nat /\ sid \in DOMAIN states /\ states[sid] \in RuleState
    BY <2>1 DEF Reusable, IInv, TypeOK, RunnerTracksOpenSessions, OpenSession
  <2>3. Tracks(messages, Held(assignments, sid), states[sid])
    BY <2>2 DEF RuleInv
  <2> QED BY <1>1, <2>1, <2>2, <2>3, AssignRules
<1>4. CASE Open(mid)
  <2> DEFINE sid == Len(txSessions) + 1
  <2>1. PICK key \in Resolve(open, messages[mid]) :
          Assign(mid, sid, NoState, Without(states, Stale(key)))
    BY <1>4 DEF Open
  <2>2. sid \in Nat /\ Held(assignments, sid) = {}
    <3>1. sid \notin DOMAIN txSessions /\ sid \in Nat
      BY <1>1, TurnFacts
    <3> QED BY <3>1 DEF IInv, PassInv, NewIds, Held
  <2>3. /\ DOMAIN Without(states, Stale(key)) \subseteq DOMAIN states
        /\ \A s \in DOMAIN Without(states, Stale(key)) :
              Without(states, Stale(key))[s] = states[s]
    BY DEF Without
  <2>4. Tracks(messages, Held(assignments, sid), NoState)
    BY <2>2, NobodyTracked
  <2> QED BY <1>1, <2>1, <2>2, <2>3, <2>4, NoStateType, AssignRules
<1> QED BY <1>1, <1>2, <1>3, <1>4

LEMMA CommitRules ==
    ASSUME IInv, OneInv, StoreOK, RuleInv, Commit PROVE RuleInv'
<1>1. /\ messages' = messages /\ assignments' = <<>> /\ states' = <<>> /\ pending' = <<>>
      /\ alerts' = alerts \o pending
      /\ alerts \in Seq(Alert) /\ pending \in Seq(Alert)
  BY DEF Commit, PassOver, IInv, TypeOK
<1>2. \A sid : Held(sessionOf', sid) = Held(sessionOf, sid) \cup Held(assignments, sid)
  BY CommitTables DEF Held, IInv, PassInv, TypeOK
<1>3. \A sid, rule :
        Said(alerts', sid, rule) = Said(alerts, sid, rule) \cup Said(pending, sid, rule)
  BY <1>1, SaidConcat
<1>4. ASSUME NEW sid PROVE Judged(alerts', messages, Held(sessionOf', sid), sid)
  <2>1. CASE sid \in NewIds
    <3>1. Held(sessionOf, sid) = {} /\ \A rule : Said(alerts, sid, rule) = {}
      BY <2>1, CommitTables DEF Held, Said, NewIds, IInv, TypeOK
    <3>2. Judged(pending, messages, Held(assignments, sid), sid)
      BY DEF RuleInv
    <3> QED BY <1>2, <1>3, <3>1, <3>2 DEF Judged
  <2>2. CASE sid \notin NewIds
    <3>1. Held(assignments, sid) = {} /\ \A rule : Said(pending, sid, rule) = {}
      BY <2>2, CommitTables DEF Held, Said, IInv, PassInv
    <3>2. Judged(alerts, messages, Held(sessionOf, sid), sid)
      BY DEF RuleInv
    <3> QED BY <1>2, <1>3, <3>1, <3>2 DEF Judged
  <2> QED BY <2>1, <2>2
<1>5. \A sid : Judged(pending', messages', Held(assignments', sid), sid)
  <2>1. \A sid, rule : Held(assignments', sid) = {} /\ Said(pending', sid, rule) = {}
    BY <1>1 DEF Held, Said
  <2> QED BY <2>1, NobodyJudged
<1> QED BY <1>1, <1>4, <1>5 DEF RuleInv

LEMMA StepRules ==
    ASSUME IInv, OInv, OneInv, StoreOK, RuleInv, [Next]_vars PROVE RuleInv'
<1>1. CASE Select
  BY <1>1, EmptyPassRules DEF Select, storeVars, IInv, PassInv
<1>2. CASE Abort \/ Fail
  BY <1>2, EmptyPassRules DEF Abort, Fail, Rollback, PassOver, storeVars
<1>3. CASE UNCHANGED vars
  BY <1>3 DEF vars, storeVars, passVars, RuleInv
<1> QED BY <1>1, <1>2, <1>3, IngestRules, ReadRules, CommitRules DEF Next

LEMMA RuleInvariance == Spec => []RuleInv
<1>1. Init => RuleInv
  BY InitRules
<1>2. IInv /\ OInv /\ StoreOK /\ OneInv /\ RuleInv /\ [Next]_vars => RuleInv'
  BY StepRules
<1> QED BY <1>1, <1>2, StoreInvariance, Invariance, OrderInvariance, PTL DEF Spec

LEMMA SaidIsAbout ==
    ASSUME NEW sid, NEW rule
    PROVE  /\ Said(alerts, sid, rule) = {alerts[i] : i \in AlertsAbout(sid, rule)}
           /\ Held(sessionOf, sid) = Members(sid)
BY DEF Said, AlertsAbout, Held, Members

\* Of each published session the IMSI rule judges the first AttachRequest and no
\* other: there is an alert if it carries an IMSI, which names it, for every traffic
\* and every cutting of it into captures and passes (ImsiCleartextWithGutiRule.observe).
THEOREM ImsiAlertsJudgeFirstAttach == Spec => []ImsiAlertJudgesFirstAttach
<1>1. ASSUME RuleInv, NEW sid \in DOMAIN sessions
      PROVE  {alerts[i].trigger : i \in AlertsAbout(sid, "imsi_cleartext_attach")} =
               FirstAttachWithImsi(messages, Members(sid))
  <2>1. ImsiSays(messages, Members(sid), Said(alerts, sid, "imsi_cleartext_attach"))
    BY <1>1, SaidIsAbout DEF RuleInv, Judged
  <2>2. {a.trigger : a \in Said(alerts, sid, "imsi_cleartext_attach")} =
          {alerts[i].trigger : i \in AlertsAbout(sid, "imsi_cleartext_attach")}
    BY DEF Said, AlertsAbout
  <2> QED BY <2>1, <2>2 DEF ImsiSays
<1>2. RuleInv => ImsiAlertJudgesFirstAttach
  BY <1>1 DEF ImsiAlertJudgesFirstAttach
<1> QED BY <1>2, RuleInvariance, PTL

\* The AKA rule speaks about exactly the published sessions that were moved past
\* an authentication their UE had not completed (AkaSkippedOrFailed.observe).
THEOREM AkaAlertsExact == Spec => []AkaAlertExact
<1>1. ASSUME RuleInv, NEW sid \in DOMAIN sessions
      PROVE  AlertsAbout(sid, "aka_skipped_or_failed") # {}
               <=> Offence(messages, Members(sid)) # {}
  <2>1. AkaSays(messages, Members(sid), Said(alerts, sid, "aka_skipped_or_failed"))
    BY <1>1, SaidIsAbout DEF RuleInv, Judged
  <2>2. Said(alerts, sid, "aka_skipped_or_failed") # {}
          <=> AlertsAbout(sid, "aka_skipped_or_failed") # {}
    BY DEF Said, AlertsAbout
  <2> QED BY <2>1, <2>2 DEF AkaSays
<1>2. RuleInv => AkaAlertExact
  BY <1>1 DEF AkaAlertExact
<1> QED BY <1>2, RuleInvariance, PTL

\* And its alert tells a skipped, an unanswered and a failed authentication
\* apart, and names the message that shows it.
THEOREM AkaAlertsNameTheEvidence == Spec => []AkaEvidence
<1>1. ASSUME RuleInv, NEW sid \in DOMAIN sessions,
             NEW i \in AlertsAbout(sid, "aka_skipped_or_failed"),
             NEW p \in Offence(messages, Members(sid))
      PROVE  RightEvidence(messages, Members(sid), p, alerts[i])
  <2>1. AkaSays(messages, Members(sid), Said(alerts, sid, "aka_skipped_or_failed"))
    BY <1>1, SaidIsAbout DEF RuleInv, Judged
  <2>2. alerts[i] \in Said(alerts, sid, "aka_skipped_or_failed")
    BY DEF Said, AlertsAbout
  <2> QED BY <2>1, <2>2 DEF AkaSays
<1>2. RuleInv => AkaEvidence
  BY <1>1 DEF AkaEvidence
<1> QED BY <1>2, RuleInvariance, PTL
=============================================================================
