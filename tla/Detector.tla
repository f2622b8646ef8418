------------------------------ MODULE Detector ------------------------------
(***************************************************************************)
(* process_stream of engine.py, run again and again over one database      *)
(* while the sniffer keeps adding rows.  A pass reads every unassigned row *)
(* first, then works row by row inside one transaction: sessions are       *)
(* inserted as they open, assignments and alerts are buffered and flushed  *)
(* at the end.  Only the commit changes the tables other readers see; an   *)
(* exception, or the end of the process, loses the pass.                   *)
(***************************************************************************)
EXTENDS Pass

CONSTANTS MaxMessages,   \* bound on the number of rows written
          MaxFailures    \* bound on passes lost to a crash or a locked database

ASSUME MaxMessagesAssumption == MaxMessages \in Nat
ASSUME MaxFailuresAssumption == MaxFailures \in Nat

VARIABLES
    phase,        \* "idle", or "streaming" while a pass runs
    rows,         \* the ids the pass selected
    done,         \* those of them the loop is past
    open,         \* _Sessionizer._open_sessions
    states,       \* _RuleRunner._states: one record for both rules
    txSessions,   \* the sessions table as the transaction sees it
    assignments,  \* _PassWriter._assignments: message ids to session ids
    lastTs,       \* _PassWriter._last_ts
    pending,      \* _PassWriter._alerts
    stats,        \* Stats, None when the last pass raised
    failures      \* how many passes were lost so far

passVars == <<phase, rows, done, open, states, txSessions, assignments, lastTs,
              pending, stats>>

vars == <<storeVars, passVars, failures>>

ZeroStats == [created |-> 0, assigned |-> 0, noEnb |-> 0, ambiguous |-> 0,
              alerts |-> 0]

-----------------------------------------------------------------------------
(* The pass                                                                *)

Unassigned == DOMAIN messages \ DOMAIN sessionOf

MNextById ==
    {m \in rows \ done : \A n \in rows \ done : m <= n}

\* ORDER BY ts, message_id: the row the loop takes next, in a set that is
\* empty when all are read.
NextRow ==
    {m \in rows \ done : \A n \in (rows \ done) \ {m} : Before(messages, m, n)}

Count(field) == [stats EXCEPT ![field] = @ + 1]

MPassOver ==
    /\ phase' = "idle"
    /\ rows' = {} /\ done' = {}
    /\ open' = <<>> /\ states' = <<>>
    /\ UNCHANGED <<assignments, lastTs, pending>>

\* The pass is over, one way or the other: its objects are gone.
PassOver ==
    /\ phase' = "idle"
    /\ rows' = {} /\ done' = {}
    /\ open' = <<>> /\ states' = <<>>
    /\ assignments' = <<>> /\ lastTs' = <<>> /\ pending' = <<>>

Init ==
    /\ StoreInit
    /\ phase = "idle"
    /\ rows = {} /\ done = {}
    /\ open = <<>> /\ states = <<>>
    /\ txSessions = <<>>
    /\ assignments = <<>> /\ lastTs = <<>> /\ pending = <<>>
    /\ stats = ZeroStats
    /\ failures = 0

\* SELECT * FROM messages WHERE session_id IS NULL ORDER BY ts, message_id,
\* before the transaction begins.  An empty result ends the pass at once.
Select ==
    /\ phase = "idle"
    /\ Unassigned # {}
    /\ rows' = Unassigned
    /\ phase' = "streaming"
    /\ txSessions' = sessions
    /\ stats' = ZeroStats
    /\ UNCHANGED <<storeVars, done, open, states, assignments, lastTs, pending,
                   failures>>

SkipNoEnb(mid) ==
    /\ messages[mid].enb = None
    /\ stats' = Count("noEnb")
    /\ UNCHANGED <<open, states, txSessions, assignments, lastTs, pending>>

MSkipAmbiguous(mid) ==
    /\ messages[mid].enb # None
    /\ Resolve(open, messages[mid]) = {}
    /\ UNCHANGED <<open, states, txSessions, assignments, lastTs, pending, stats>>

SkipAmbiguous(mid) ==
    /\ messages[mid].enb # None
    /\ Resolve(open, messages[mid]) = {}
    /\ stats' = Count("ambiguous")
    /\ UNCHANGED <<open, states, txSessions, assignments, lastTs, pending>>

\* on_message and assign: the row goes to session sid.  st is the session's rule
\* state, others the dict of rule states it is taken from.
Assign(mid, sid, st, others) ==
    /\ pending' = pending \o AlertsOf(sid, st, mid, messages[mid])
    /\ states' = Put(others, sid, ObserveAll(st, mid, messages[mid]))
    /\ assignments' = Put(assignments, mid, sid)
    /\ lastTs' = Put(lastTs, sid, messages[mid].ts)

\* step with reuse: the session found under the key goes on.
Continue(mid) ==
    /\ messages[mid].enb # None
    /\ \E key \in Resolve(open, messages[mid]) :
          LET row == messages[mid]
              sid == open[key].session
          IN  /\ Reusable(open, key, row)
              /\ open' = Put(open, key, Entry(sid, row, Latch(open[key].mme, row)))
              /\ Assign(mid, sid, states[sid], states)
    /\ stats' = Count("assigned")
    /\ UNCHANGED txSessions

\* The INSERT of a session would meet the UNIQUE constraint.
Refused(key, row) ==
    \E i \in DOMAIN txSessions : Clash(txSessions[i], NewSession(key, row))

MStale(key) == {}

\* The session left behind when its key is taken over.
Stale(key) == IF key \in DOMAIN open THEN {open[key].session} ELSE {}

\* step without reuse: close what is there, INSERT a session.
Open(mid) ==
    /\ messages[mid].enb # None
    /\ \E key \in Resolve(open, messages[mid]) :
          LET row == messages[mid]
              sid == Len(txSessions) + 1
          IN  /\ ~Reusable(open, key, row)
              /\ ~Refused(key, row)
              /\ txSessions' = Append(txSessions, NewSession(key, row))
              /\ open' = Put(open, key, Entry(sid, row, row.mme))
              /\ Assign(mid, sid, NoState, Without(states, Stale(key)))
    /\ stats' = [stats EXCEPT !.created = @ + 1, !.assigned = @ + 1]

\* One turn of the loop over the rows.
ReadRow ==
    /\ phase = "streaming"
    /\ \E mid \in NextRow :
          /\ SkipNoEnb(mid) \/ SkipAmbiguous(mid) \/ Continue(mid) \/ Open(mid)
          /\ done' = done \cup {mid}
    /\ UNCHANGED <<storeVars, phase, rows, failures>>

MRollback ==
    /\ PassOver
    /\ sessions' = txSessions
    /\ txSessions' = txSessions
    /\ stats' = None
    /\ UNCHANGED <<messages, sessionOf, alerts>>

Rollback ==
    /\ PassOver
    /\ txSessions' = sessions
    /\ stats' = None
    /\ UNCHANGED storeVars

\* The INSERT meets the UNIQUE constraint: the exception rolls the pass back.
AbortUnique(mid) ==
    /\ messages[mid].enb # None
    /\ \E key \in Resolve(open, messages[mid]) :
          ~Reusable(open, key, messages[mid]) /\ Refused(key, messages[mid])

Abort ==
    /\ phase = "streaming"
    /\ \E mid \in NextRow : AbortUnique(mid)
    /\ Rollback
    /\ UNCHANGED failures

\* The process dies, or SQLite reports that the database is locked.
Fail ==
    /\ phase = "streaming"
    /\ failures < MaxFailures
    /\ failures' = failures + 1
    /\ Rollback

\* flush: ended_at of every session of the pass is its last message's ts.
Flushed ==
    [sid \in DOMAIN txSessions |->
        IF sid \in DOMAIN lastTs
        THEN [txSessions[sid] EXCEPT !.endedAt = lastTs[sid]]
        ELSE txSessions[sid]]

\* All rows are read: drain (no rule speaks on close), flush, COMMIT.
Commit ==
    /\ phase = "streaming"
    /\ done = rows
    /\ sessionOf' = Overlay(assignments, sessionOf)
    /\ sessions' = Flushed
    /\ alerts' = alerts \o pending
    /\ txSessions' = sessions'
    /\ stats' = [stats EXCEPT !.alerts = Len(pending)]
    /\ PassOver
    /\ UNCHANGED <<messages, failures>>

\* The sniffer commits a capture.  It cannot while the pass holds the write
\* lock, which the pass takes with its first INSERT.
Ingest ==
    /\ txSessions = sessions
    /\ Arrive
    /\ Len(messages') <= MaxMessages
    /\ UNCHANGED <<passVars, failures>>

Next == Ingest \/ Select \/ ReadRow \/ Abort \/ Commit \/ Fail

Spec == Init /\ [][Next]_vars
-----------------------------------------------------------------------------
(* Properties                                                              *)

Stats == [created : Nat, assigned : Nat, noEnb : Nat, ambiguous : Nat,
          alerts : Nat]

Ids == 1 .. MaxMessages

\* Every variable has the shape its table, dict or list has in the code.
TypeOK ==
    /\ messages \in Seq(Row) /\ Len(messages) <= MaxMessages
    /\ DOMAIN sessionOf \subseteq DOMAIN messages
    /\ sessionOf \in [DOMAIN sessionOf -> DOMAIN sessions]
    /\ sessions \in Seq(Session) /\ txSessions \in Seq(Session)
    /\ alerts \in Seq(Alert) /\ pending \in Seq(Alert)
    /\ phase \in {"idle", "streaming"}
    /\ rows \subseteq DOMAIN messages /\ done \subseteq rows
    /\ DOMAIN open \subseteq Key
    /\ \A k \in DOMAIN open : open[k] \in OpenSession
    /\ \A sid \in DOMAIN states : states[sid] \in RuleState
    /\ DOMAIN assignments \subseteq DOMAIN messages
    /\ \A m \in DOMAIN assignments : assignments[m] \in DOMAIN txSessions
    /\ DOMAIN lastTs \subseteq DOMAIN txSessions
    /\ \A sid \in DOMAIN lastTs : lastTs[sid] \in Nat
    /\ stats \in Stats \cup {None}
    /\ failures \in 0 .. MaxFailures

Follows(m, n) == Before(messages, m, n)

\* Two cells that happen to use the same eNB-UE id are never collapsed into
\* one session: every message that names its cell is in a session of exactly
\* that PLMN, cell and eNB-UE id, and a downlink is in one of its eNB-UE id.
SessionIsOneContext ==
    \A m \in DOMAIN sessionOf :
        LET s == sessions[sessionOf[m]]
        IN  /\ messages[m].enb = s.enb
            /\ messages[m].cell # None =>
                  /\ messages[m].cell = s.cell
                  /\ messages[m].plmn = s.plmn

\* No silence longer than the gap inside a session: a message that is not the
\* last of its session is followed, within the gap, by another one of it.
NoGapInside ==
    \A m, n \in DOMAIN sessionOf :
        sessionOf[m] = sessionOf[n] /\ Follows(m, n) =>
            \E next \in Members(sessionOf[m]) :
                /\ Follows(m, next)
                /\ messages[next].ts - messages[m].ts <= Gap

\* A DetachRequest is the last message of its session.
DetachEndsSession ==
    \A m, n \in DOMAIN sessionOf :
        sessionOf[m] = sessionOf[n] /\ Follows(m, n) =>
            messages[m].type # "DetachRequest"

\* The dict of rule states has an entry for every open session and for no
\* other, so that neither on_message nor on_close can miss its key, and no two
\* keys lead to one session.
RunnerTracksOpenSessions ==
    /\ DOMAIN states = {open[k].session : k \in DOMAIN open}
    /\ \A k1, k2 \in DOMAIN open : open[k1].session = open[k2].session => k1 = k2

\* The MME id of a session that holds the messages of held: that of the first
\* that has one, and None while there is none.
KnownAs(table, held, mme) ==
    LET named == {m \in held : table[m].mme # None}
    IN  IF named = {} THEN mme = None
        ELSE \E m \in named : /\ table[m].mme = mme
                              /\ \A n \in named \ {m} : Before(table, m, n)

\* The messages that a dict or column of session ids gives to a session.
Held(column, sid) == {m \in DOMAIN column : column[m] = sid}

\* The MME id kept for an open session is that of the earliest message of the
\* session that has one, and None while there is none.
MmeIsFirstSeen ==
    \A k \in DOMAIN open :
        KnownAs(messages, Held(assignments, open[k].session), open[k].mme)

-----------------------------------------------------------------------------
(* What the rules promise, said of a session's messages, held, alone.      *)

OfType(table, held, type) == {m \in held : table[m].type = type}

\* The last challenge sent between an AttachRequest and message p.
LastChallenge(table, held, p) ==
    {c \in OfType(table, held, "AuthenticationRequest") :
        /\ Before(table, c, p)
        /\ \E a \in OfType(table, held, "AttachRequest") : Before(table, a, c)
        /\ \A d \in OfType(table, held, "AuthenticationRequest") :
              Before(table, d, p) => ~Before(table, c, d)}

\* The messages of a type that answer that challenge before p.
Answers(table, held, p, type) ==
    {r \in OfType(table, held, type) :
        /\ Before(table, r, p)
        /\ \E c \in LastChallenge(table, held, p) : Before(table, c, r)}

\* p moves a session past authentication that its UE has not completed.
Unauthenticated(table, held, p) ==
    /\ table[p].type \in PostAuth
    /\ \E a \in OfType(table, held, "AttachRequest") : Before(table, a, p)
    /\ Answers(table, held, p, "AuthenticationResponse") = {}

\* The first such message of the session, in a set of at most one.
Offence(table, held) ==
    {p \in held :
        /\ Unauthenticated(table, held, p)
        /\ \A q \in held : Unauthenticated(table, held, q) => ~Before(table, q, p)}

\* The evidence against p is the UE's last rejection of the pending challenge
\* when there is one, otherwise p itself.
RightEvidence(table, held, p, alert) ==
    LET refusals == Answers(table, held, p, "AuthenticationFailure")
    IN  IF LastChallenge(table, held, p) = {}
        THEN alert.kind = "skipped" /\ alert.trigger = p
        ELSE IF refusals = {}
        THEN alert.kind = "unanswered" /\ alert.trigger = p
        ELSE /\ alert.kind = "failed"
             /\ alert.trigger \in refusals
             /\ \A r \in refusals : ~Before(table, alert.trigger, r)

\* The session's first AttachRequest when it carries an IMSI, else none.
FirstAttachWithImsi(table, held) ==
    {m \in OfType(table, held, "AttachRequest") :
        /\ table[m].identity = "IMSI"
        /\ \A n \in OfType(table, held, "AttachRequest") : ~Before(table, n, m)}

AlertsAbout(sid, rule) ==
    {i \in DOMAIN alerts :
        alerts[i].session = sid /\ RuleOf(alerts[i].kind) = rule}

\* The AKA rule speaks about exactly the sessions that were moved past an
\* uncompleted authentication after an AttachRequest, whatever was cut,
\* retried or interleaved on the way to the published tables.
AkaAlertExact ==
    \A sid \in DOMAIN sessions :
        AlertsAbout(sid, "aka_skipped_or_failed") # {}
            <=> Offence(messages, Members(sid)) # {}

\* And it names the right evidence.
AkaEvidence ==
    \A sid \in DOMAIN sessions :
        \A i \in AlertsAbout(sid, "aka_skipped_or_failed"),
           p \in Offence(messages, Members(sid)) :
              RightEvidence(messages, Members(sid), p, alerts[i])

\* The IMSI rule judges a session by its first AttachRequest alone: it speaks about
\* the session if that one carries an IMSI, and names it, whatever passes, losses
\* and other sessions come in between.  (Its docstring promises more, see
\* ImsiAttachIsFlagged in MCDetector.)
ImsiAlertJudgesFirstAttach ==
    \A sid \in DOMAIN sessions :
        {alerts[i].trigger : i \in AlertsAbout(sid, "imsi_cleartext_attach")} =
            FirstAttachWithImsi(messages, Members(sid))

-----------------------------------------------------------------------------
(* Action properties                                                       *)

\* The Stats a finished pass returns count what its commit added to the
\* tables and what it left unassigned.
StatsTellTheCommit ==
    [][(phase = "streaming" /\ phase' = "idle" /\ stats' # None) =>
          /\ stats'.created = Len(sessions') - Len(sessions)
          /\ stats'.assigned = Cardinality(DOMAIN sessionOf' \ DOMAIN sessionOf)
          /\ stats'.alerts = Len(alerts') - Len(alerts)
          /\ stats'.noEnb + stats'.ambiguous = Cardinality(rows \ DOMAIN sessionOf')]_vars

\* A pass that finds a row with an eNB-UE id never commits without assigning
\* one: the skipped downlinks are not skipped for ever.
EveryPassAdvances ==
    [][(phase = "streaming" /\ phase' = "idle" /\ stats' # None) =>
          \/ \A m \in rows : messages[m].enb = None
          \/ DOMAIN sessionOf' # DOMAIN sessionOf]_vars

Detach(m) == messages[m].type = "DetachRequest" /\ messages[m].enb # None

SameContext(m, n) ==
    messages[m].cell # None /\ RowKey(messages[m]) = RowKey(messages[n])

\* m and n, in this order among the messages of mids, are no further apart than
\* the gap and have no DetachRequest between them.
BelongTogether(mids, m, n) ==
    /\ Follows(m, n)
    /\ SameContext(m, n)
    /\ messages[n].ts - messages[m].ts <= Gap
    /\ \A d \in mids : Detach(d) => Follows(d, m) \/ n = d \/ Follows(n, d)

Published == DOMAIN sessionOf' \ DOMAIN sessionOf

\* Nothing but a silence or a DetachRequest splits the messages of a context that
\* one pass assigns.  (The end of a pass does split them.)
PassSplitsOnlyByGapOrDetach ==
    [][\A m, n \in Published :
          BelongTogether(Published, m, n) => sessionOf'[m] = sessionOf'[n]]_vars

\* A pass that ends normally does in its many steps what Pass says it does in
\* one, and a pass ends with an IntegrityError exactly when Pass says so.
PassIsOneFunction ==
    [][(phase = "streaming" /\ phase' = "idle" /\ UNCHANGED failures) =>
          \A pass \in Outcomes(rows, sessions) :
              IF pass.refused THEN stats' = None
              ELSE /\ sessions' = pass.table
                   /\ sessionOf' = Overlay(pass.owner, sessionOf)
                   /\ alerts' = alerts \o pass.alerts]_vars

-----------------------------------------------------------------------------
(* Liveness                                                                *)

\* The detector is run again whenever there is something to do (the watch
\* mode of engine.py:15), and a pass that is not lost goes on.  Nothing is
\* assumed of the sniffer, of crashes or of the lock.
FairSpec == Spec /\ WF_vars(Select) /\ WF_vars(ReadRow) /\ WF_vars(Commit)

\* Unless twins arrive, every row with an eNB-UE id ends up in a session once no
\* more rows come, however often it is skipped as ambiguous and however the passes
\* are cut.
EventuallyAssigned ==
    []NoTwins =>
        <>[]({m \in DOMAIN messages : messages[m].enb # None} \subseteq DOMAIN sessionOf)
=============================================================================
