---------------------------- MODULE SessionStore ----------------------------
(***************************************************************************)
(* What the detector promises to whoever reads the database, whatever      *)
(* happens inside a pass: rows arrive, and from time to time a whole set   *)
(* of finished sessions is published in one step, with the messages that   *)
(* belong to them and the alerts about them.  Nothing published is ever    *)
(* taken back, changed or added to.  Detector.tla implements this module.  *)
(***************************************************************************)
EXTENDS Rules, FiniteSets, SequencesExt

CONSTANT Captures   \* what one run of the sniffer may write: its rows in order

ASSUME CapturesAssumption == Captures \subseteq Seq(Row)

VARIABLES
    messages,    \* the messages table, without its session_id column
    sessionOf,   \* that column: message ids to session ids, NULL left out
    sessions,    \* the sessions table; a session_id is a position in it
    alerts       \* the alerts table

storeVars == <<messages, sessionOf, sessions, alerts>>

\* One row of the sessions table.
Session == [plmn      : Plmn \cup {None},
            cell      : Cell \cup {None},
            enb       : Enb,
            mme       : Mme \cup {None},
            startedAt : Nat,
            endedAt   : Nat \cup {None}]

Members(sid) == {m \in DOMAIN sessionOf : sessionOf[m] = sid}

\* UNIQUE (cell_id, enb_ue_s1ap_id, started_at); SQL takes NULLs as distinct.
Clash(s, t) ==
    /\ s.cell # None
    /\ s.cell = t.cell /\ s.enb = t.enb /\ s.startedAt = t.startedAt

\* No two rows could start sessions that clash: not the same eNB-UE id at the
\* same microsecond.
NoTwins ==
    \A m, n \in DOMAIN messages :
        m # n /\ messages[m].enb = messages[n].enb => messages[m].ts # messages[n].ts

-----------------------------------------------------------------------------

StoreInit ==
    /\ messages = <<>>
    /\ sessionOf = <<>>
    /\ sessions = <<>>
    /\ alerts = <<>>

\* The sniffer commits the rows of a capture, in one transaction; their
\* session_id is NULL.
Arrive ==
    /\ \E capture \in Captures : messages' = messages \o capture
    /\ UNCHANGED <<sessionOf, sessions, alerts>>

\* A session is published whole: it has messages, it starts at the first of
\* them and ends at the last, and no other session of the table clashes.
WellFormed(table, owner, rows, sid) ==
    LET of == {m \in DOMAIN owner : owner[m] = sid}
    IN  /\ \E m \in of : rows[m].ts = table[sid].startedAt
        /\ \E m \in of : rows[m].ts = table[sid].endedAt
        /\ \A m \in of : /\ rows[m].enb = table[sid].enb
                         /\ table[sid].startedAt <= rows[m].ts
                         /\ rows[m].ts <= table[sid].endedAt
        /\ \A other \in DOMAIN table \ {sid} : ~Clash(table[sid], table[other])

\* An alert is published with its session, is triggered by one of the
\* session's own messages, and a rule speaks at most once about a session.
AlertInPlace(list, owner, i) ==
    /\ list[i].trigger \in DOMAIN owner
    /\ owner[list[i].trigger] = list[i].session
    /\ \A j \in DOMAIN list \ {i} :
          list[j].session = list[i].session =>
              RuleOf(list[j].kind) # RuleOf(list[i].kind)

Publish ==
    /\ UNCHANGED messages
    /\ IsPrefix(sessions, sessions')
    /\ DOMAIN sessionOf \subseteq DOMAIN sessionOf'
    /\ DOMAIN sessionOf' \subseteq DOMAIN messages
    /\ \A m \in DOMAIN sessionOf : sessionOf'[m] = sessionOf[m]
    /\ LET new == DOMAIN sessions' \ DOMAIN sessions
       IN  /\ new # {}
           /\ \A m \in DOMAIN sessionOf' \ DOMAIN sessionOf : sessionOf'[m] \in new
           /\ \A sid \in new : WellFormed(sessions', sessionOf', messages, sid)
           /\ IsPrefix(alerts, alerts')
           /\ \A i \in DOMAIN alerts' \ DOMAIN alerts :
                 /\ alerts'[i].session \in new
                 /\ AlertInPlace(alerts', sessionOf', i)

StoreNext == Arrive \/ Publish

StoreSpec == StoreInit /\ [][StoreNext]_storeVars
=============================================================================
