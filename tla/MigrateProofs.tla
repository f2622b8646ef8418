--------------------------- MODULE MigrateProofs ----------------------------
(***************************************************************************)
(* For any database, any traffic and any number of kills and retries: the  *)
(* script changes a database only when a dump that restores it is in       *)
(* history, and its rehearsal never touches it; no statement of a revision *)
(* loses a row, and a run that ends well is at its target. A database at   *)
(* the head revision that still has its alerts is one that detector and    *)
(* sniffer can use; after a rehearsal that went through, no statement of   *)
(* the upgrade is refused; and none is where the database was sound when   *)
(* the script began.                                                       *)
(***************************************************************************)
EXTENDS Migrate, Recursion, SequenceTheorems, TLAPS

Files == {Real, Trial}

Phases == {"idle", "rmtree", "dump", "commit", "seed", "compare", "rehearsal",
           "upgrade", "hand"}

\* The file that alembic has open follows from where the script is.
FileAt(label) ==
    IF label = "rehearsal" THEN Trial
    ELSE IF label \in {"upgrade", "hand"} THEN Real ELSE None

Control ==
    /\ files = [f \in Files |-> files[f]]
    /\ conn = [file |-> conn.file, todo |-> conn.todo, tx |-> conn.tx,
               view |-> conn.view, fk |-> conn.fk]
    /\ pc \in Phases
    /\ conn.file = FileAt(pc)

\* e is d with more in it: what Keeps says, for a database whose columns stay.
\* Unlike Keeps it is transitive.
Adds(d, e) ==
    /\ e.version = d.version
    /\ \A t \in DOMAIN d.tables :
          /\ t \in DOMAIN e.tables
          /\ e.tables[t].cols = d.tables[t].cols
          /\ \A i \in DOMAIN d.tables[t].rows :
                /\ i \in DOMAIN e.tables[t].rows
                /\ \A c \in d.tables[t].cols :
                      d.tables[t].rows[i][c] \in {None, e.tables[t].rows[i][c]}

\* How the dump comes to hold what the database held at the start.
Saved ==
    /\ pc \in {"rmtree", "dump"} => Adds(start, files[Real])
    /\ pc = "commit" => Adds(start, dump)
    /\ pc \in {"seed", "compare", "rehearsal", "upgrade"} => Adds(start, head)

MInv == Control /\ Saved

-----------------------------------------------------------------------------
(* What is added to a database is kept.                                    *)

LEMMA AddsNothing == ASSUME NEW d PROVE Adds(d, d)
  BY DEF Adds

LEMMA AddsTransitive ==
    ASSUME NEW d, NEW e, NEW f, Adds(d, e), Adds(e, f) PROVE Adds(d, f)
<1> SUFFICES ASSUME NEW t \in DOMAIN d.tables
             PROVE  /\ t \in DOMAIN f.tables
                    /\ f.tables[t].cols = d.tables[t].cols
                    /\ \A i \in DOMAIN d.tables[t].rows :
                          /\ i \in DOMAIN f.tables[t].rows
                          /\ \A c \in d.tables[t].cols :
                                d.tables[t].rows[i][c] \in {None, f.tables[t].rows[i][c]}
  BY DEF Adds
<1>1. t \in DOMAIN e.tables /\ e.tables[t].cols = d.tables[t].cols
  BY DEF Adds
<1>2. t \in DOMAIN f.tables /\ f.tables[t].cols = d.tables[t].cols
  BY <1>1 DEF Adds
<1>3. ASSUME NEW i \in DOMAIN d.tables[t].rows
      PROVE  /\ i \in DOMAIN f.tables[t].rows
             /\ \A c \in d.tables[t].cols :
                   d.tables[t].rows[i][c] \in {None, f.tables[t].rows[i][c]}
  <2>1. /\ i \in DOMAIN e.tables[t].rows
        /\ \A c \in d.tables[t].cols :
              d.tables[t].rows[i][c] \in {None, e.tables[t].rows[i][c]}
    BY <1>3 DEF Adds
  <2>2. /\ i \in DOMAIN f.tables[t].rows
        /\ \A c \in e.tables[t].cols :
              e.tables[t].rows[i][c] \in {None, f.tables[t].rows[i][c]}
    BY <1>1, <2>1 DEF Adds
  <2> QED BY <1>1, <2>1, <2>2
<1> QED BY <1>2, <1>3

LEMMA AddsKeeps == ASSUME NEW d, NEW e, Adds(d, e) PROVE Keeps(d, e)
  BY DEF Adds, Keeps, Has

LEMMA AddsDumped == ASSUME NEW d PROVE Adds(d, Dumped(d))
  BY DEF Adds, Dumped

\* A statement that leaves the other tables, and the rows it does not name, alone.
LEMMA WithRowsAdds ==
    ASSUME NEW d, NEW name, NEW rows, name \in DOMAIN d.tables,
           \A i \in DOMAIN d.tables[name].rows :
               /\ i \in DOMAIN rows
               /\ \A c \in d.tables[name].cols :
                     d.tables[name].rows[i][c] \in {None, rows[i][c]}
    PROVE  Adds(d, WithRows(d, name, rows))
<1> DEFINE e == WithRows(d, name, rows)
<1>1. /\ e.version = d.version
      /\ DOMAIN e.tables = DOMAIN d.tables
      /\ e.tables[name].cols = d.tables[name].cols /\ e.tables[name].rows = rows
      /\ \A t \in DOMAIN d.tables \ {name} : e.tables[t] = d.tables[t]
  BY DEF WithRows, TableWith, Bind
<1> HIDE DEF e
<1> QED
  <2> SUFFICES ASSUME NEW t \in DOMAIN d.tables
               PROVE  /\ e.tables[t].cols = d.tables[t].cols
                      /\ \A i \in DOMAIN d.tables[t].rows :
                            /\ i \in DOMAIN e.tables[t].rows
                            /\ \A c \in d.tables[t].cols :
                                  d.tables[t].rows[i][c] \in {None, e.tables[t].rows[i][c]}
    BY <1>1 DEF Adds, e
  <2>1. CASE t = name
    BY <1>1, <2>1
  <2>2. CASE t # name
    BY <1>1, <2>2
  <2> QED BY <2>1, <2>2

LEMMA InsertAdds ==
    ASSUME NEW d, NEW name, NEW values, name \in DOMAIN d.tables,
           NEW id, id \notin DOMAIN d.tables[name].rows
    PROVE  Adds(d, Insert(d, name, id, values))
<1> DEFINE rows == Bind(d.tables[name].rows, id, Row(d, name, values))
<1>1. \A i \in DOMAIN d.tables[name].rows :
          i \in DOMAIN rows /\ rows[i] = d.tables[name].rows[i]
  BY DEF Bind
<1> HIDE DEF rows
<1>2. Adds(d, WithRows(d, name, rows))
  BY <1>1, WithRowsAdds
<1> QED BY <1>2 DEF Insert, rows

LEMMA AssignAdds ==
    ASSUME NEW d, NEW m, NEW sid, "messages" \in DOMAIN d.tables,
           m \in DOMAIN d.tables["messages"].rows,
           d.tables["messages"].rows[m]["session_id"] = None
    PROVE  Adds(d, Assign(d, m, sid))
<1> DEFINE t    == d.tables["messages"]
           row  == [c \in t.cols |-> IF c = "session_id" THEN sid ELSE t.rows[m][c]]
           rows == Bind(t.rows, m, row)
<1>1. /\ \A i \in DOMAIN t.rows : i \in DOMAIN rows /\ (i # m => rows[i] = t.rows[i])
      /\ rows[m] = row
  BY DEF Bind
<1>2. \A c \in t.cols : t.rows[m][c] \in {None, row[c]}
  OBVIOUS
<1> HIDE DEF row, rows
<1>3. \A i \in DOMAIN t.rows :
          i \in DOMAIN rows /\ \A c \in t.cols : t.rows[i][c] \in {None, rows[i][c]}
  BY <1>1, <1>2
<1>4. Adds(d, WithRows(d, "messages", rows))
  BY <1>3, WithRowsAdds
<1> QED BY <1>4 DEF Assign, rows, row

\* The users of the database add to it.
LEMMA SniffAdds == ASSUME Control, Sniff PROVE Adds(files[Real], files'[Real])
<1>1. PICK cell \in Cells, id \in NewIds(files[Real], "messages") :
          files' = [files EXCEPT ![Real] =
                       Insert(files[Real], "messages", id,
                              [enb_ue_s1ap_id |-> 1, plmn |-> cell, cell_id |-> cell])]
  BY DEF Sniff
<1>2. /\ "messages" \in DOMAIN files[Real].tables
      /\ id \notin DOMAIN files[Real].tables["messages"].rows
  BY DEF Sniff, Known, Has, NewIds
<1>3. files'[Real] = Insert(files[Real], "messages", id,
                            [enb_ue_s1ap_id |-> 1, plmn |-> cell, cell_id |-> cell])
  BY <1>1 DEF Control, Files
<1> QED BY <1>2, <1>3, InsertAdds

LEMMA DetectAdds == ASSUME Control, Detect PROVE Adds(files[Real], files'[Real])
<1> DEFINE d == files[Real]
<1>1. PICK m \in DOMAIN d.tables["messages"].rows,
           sid \in NewIds(d, "sessions"), aid \in NewIds(d, "alerts") :
          LET row     == d.tables["messages"].rows[m]
              session == Insert(d, "sessions", sid,
                                [cell_id |-> row["cell_id"], plmn |-> row["plmn"]])
          IN  /\ row["session_id"] = None
              /\ files' = [files EXCEPT ![Real] =
                     Insert(Assign(session, m, sid), "alerts", aid,
                            [session_id |-> sid, trigger_message_id |-> m])]
  BY DEF Detect
<1> DEFINE row == d.tables["messages"].rows[m]
           s   == Insert(d, "sessions", sid,
                         [cell_id |-> row["cell_id"], plmn |-> row["plmn"]])
           a   == Assign(s, m, sid)
           f   == Insert(a, "alerts", aid, [session_id |-> sid, trigger_message_id |-> m])
<1>2. {"messages", "sessions", "alerts"} \subseteq DOMAIN d.tables
  BY DEF Detect, Known, Has
<1>3. /\ s.tables["messages"] = d.tables["messages"]
      /\ s.tables["alerts"] = d.tables["alerts"]
      /\ {"messages", "alerts"} \subseteq DOMAIN s.tables
  BY <1>2 DEF Insert, WithRows, Bind
<1>4. /\ a.tables["alerts"] = d.tables["alerts"]
      /\ "alerts" \in DOMAIN a.tables
  BY <1>3 DEF Assign, WithRows, Bind
<1>5. Adds(d, s)
  <2>1. sid \notin DOMAIN d.tables["sessions"].rows
    BY DEF NewIds
  <2> QED BY <1>2, <2>1, InsertAdds
<1>6. Adds(s, a)
  BY <1>1, <1>3, AssignAdds
<1>7. Adds(a, f)
  <2>1. aid \notin DOMAIN a.tables["alerts"].rows
    BY <1>4 DEF NewIds
  <2> QED BY <1>4, <2>1, InsertAdds
<1>8. f = files'[Real]
  BY <1>1 DEF Control, Files
<1> HIDE DEF d, s, a, f
<1> QED BY <1>5, <1>6, <1>7, <1>8, AddsTransitive DEF d

-----------------------------------------------------------------------------
(* Control                                                                 *)

\* A statement of alembic leaves the other file alone.
LEMMA ExecuteTouches ==
    ASSUME Control, Execute
    PROVE  /\ files' = [f \in Files |-> files'[f]]
           /\ conn' = [file |-> conn'.file, todo |-> conn'.todo, tx |-> conn'.tx,
                       view |-> conn'.view, fk |-> conn'.fk]
           /\ conn'.file = conn.file
           /\ \A f \in Files \ {conn.file} : files'[f] = files[f]
<1>1. CASE Autocommit
  BY <1>1 DEF Autocommit, Control
<1>2. CASE InTransaction
  BY <1>2 DEF InTransaction, Control
<1>3. CASE CommitRevision
  BY <1>3 DEF CommitRevision, Control
<1> QED BY <1>1, <1>2, <1>3 DEF Execute

LEMMA InitControl == Init => Control
  BY DEF Init, Control, Files, Phases, FileAt, NoConn, Real, Trial

LEMMA ControlHolds == Control /\ [Next]_vars => Control'
<1> SUFFICES ASSUME Control, [Next]_vars PROVE Control'
  OBVIOUS
<1> USE DEF Control, FileAt, Phases
<1>1. CASE Begin \/ RemoveDump \/ Dump \/ CommitDump \/ NothingToCommit
  BY <1>1 DEF Begin, RemoveDump, Dump, CommitDump, NothingToCommit, At, Goes, Ends
<1>2. CASE Seed \/ Refuse
  BY <1>2 DEF Seed, Refuse, At, Goes, Ends, Files
<1>3. CASE Rehearse
  BY <1>3 DEF Rehearse, At, Goes, Connect, NoConn, Opens
<1>4. CASE Apply
  BY <1>4 DEF Apply, At, Goes, Connect, NoConn, Opens, Files
<1>5. CASE Confirm \/ UpgradeFails \/ Stop \/ AlembicEnds
  BY <1>5 DEF Confirm, UpgradeFails, Stop, AlembicEnds, At, Ends, NoConn, Files
<1>6. CASE Step
  BY <1>6, ExecuteTouches DEF Step, script
<1>7. CASE CleanTree
  BY <1>7 DEF CleanTree
<1>8. CASE AlembicByHand
  <2>1. PICK path : Connect(Real, path)
    BY <1>8 DEF AlembicByHand
  <2> QED BY <1>8, <2>1 DEF AlembicByHand, Connect, NoConn
<1>9. CASE Sniff \/ Detect
  BY <1>9 DEF Sniff, Detect, script, Files
<1>10. CASE UNCHANGED vars
  BY <1>10 DEF vars, script
<1> QED BY <1>1, <1>2, <1>3, <1>4, <1>5, <1>6, <1>7, <1>8, <1>9, <1>10 DEF Next

\* While the script rehearses, only the users of the database write to it, for
\* every database, target and moment at which the script is killed.
THEOREM RehearsalNeverTouches == Spec => RehearsalIsApart
<1>1. Control /\ [Next]_vars =>
          [pc = "rehearsal" => files'[Real] = files[Real] \/ UNCHANGED conn]_vars
  <2> SUFFICES ASSUME Control, Next, pc = "rehearsal"
               PROVE  files'[Real] = files[Real] \/ UNCHANGED conn
    OBVIOUS
  <2>1. CASE Step
    <3>1. conn.file = Trial /\ Real \in Files \ {Trial}
      BY DEF Control, FileAt, Files, Real, Trial
    <3> QED BY <2>1, <3>1, ExecuteTouches DEF Step
  <2>2. CASE Apply \/ UpgradeFails \/ Stop
    BY <2>2 DEF Apply, UpgradeFails, Stop, Control, Files, Real, Trial
  <2>3. CASE Sniff \/ Detect
    BY <2>3 DEF Sniff, Detect
  <2>4. CASE Begin \/ RemoveDump \/ Dump \/ CommitDump \/ NothingToCommit \/ Seed
             \/ Refuse \/ Rehearse \/ Confirm \/ CleanTree \/ AlembicByHand \/ AlembicEnds
    BY <2>4 DEF Begin, RemoveDump, Dump, CommitDump, NothingToCommit, Seed, Refuse,
                Rehearse, Confirm, CleanTree, AlembicByHand, AlembicEnds, At
  <2> QED BY <2>1, <2>2, <2>3, <2>4 DEF Next
<1> QED BY <1>1, InitControl, ControlHolds, PTL DEF Spec, RehearsalIsApart

-----------------------------------------------------------------------------
(* The dump                                                                *)

LEMMA InitSaved == Init => Saved
  BY DEF Init, Saved

LEMMA SavedHolds == Control /\ Saved /\ [Next]_vars => Saved'
<1> SUFFICES ASSUME Control, Saved, [Next]_vars PROVE Saved'
  OBVIOUS
<1>1. CASE Begin
  <2>1. pc' = "rmtree" /\ start' = files'[Real]
    BY <1>1 DEF Begin
  <2> QED BY <2>1, AddsNothing DEF Saved
<1>2. CASE RemoveDump
  BY <1>2 DEF RemoveDump, At, Goes, Saved
<1>3. CASE Dump
  <2>1. /\ pc = "dump" /\ pc' = "commit" /\ start' = start
        /\ dump' = Dumped(files[Real])
    BY <1>3 DEF Dump, At, Goes
  <2>2. Adds(start, files[Real])
    BY <2>1 DEF Saved
  <2>3. Adds(start, dump')
    BY <2>1, <2>2, AddsDumped, AddsTransitive
  <2> QED BY <2>1, <2>3 DEF Saved
<1>4. CASE CommitDump
  BY <1>4 DEF CommitDump, At, Goes, Saved
<1>5. CASE Seed \/ Rehearse \/ Apply
  BY <1>5 DEF Seed, Rehearse, Apply, At, Goes, Saved
<1>6. CASE NothingToCommit \/ Refuse \/ Confirm \/ UpgradeFails \/ Stop \/ AlembicEnds
  BY <1>6 DEF NothingToCommit, Refuse, Confirm, UpgradeFails, Stop, AlembicEnds, Ends,
              Saved
<1>7. CASE Step
  <2>1. pc \in {"rehearsal", "upgrade", "hand"}
    BY <1>7 DEF Step, Execute, Connected, Control, FileAt
  <2> QED BY <1>7, <2>1 DEF Step, script, Saved
<1>8. CASE CleanTree \/ AlembicByHand
  BY <1>8 DEF CleanTree, AlembicByHand, Saved
<1>9. CASE Sniff \/ Detect
  <2>1. Adds(files[Real], files'[Real])
    BY <1>9, SniffAdds, DetectAdds
  <2>2. UNCHANGED script
    BY <1>9 DEF Sniff, Detect
  <2> QED BY <2>1, <2>2, AddsTransitive DEF script, Saved
<1>10. CASE UNCHANGED vars
  BY <1>10 DEF vars, script, Saved
<1> QED BY <1>1, <1>2, <1>3, <1>4, <1>5, <1>6, <1>7, <1>8, <1>9, <1>10 DEF Next

LEMMA SavedRestores ==
    ASSUME NEW d, NEW e, Adds(d, e) PROVE Guarded!Restores(e, d)
<1>1. Keeps(d, e) /\ e.version = d.version
  BY AddsKeeps DEF Adds
<1> QED BY <1>1 DEF Guarded!Restores, Guarded!Keeps, Guarded!DataTables, Guarded!Has,
                    Keeps, DataTables, Has

\* One step of the script, of alembic or of a user is one step of the abstract
\* upgrade, or none.
LEMMA StepGuarded == MInv /\ [Next]_vars => [Guarded!GNext]_(Guarded!gvars)
<1> SUFFICES ASSUME MInv, [Next]_vars PROVE [Guarded!GNext]_(Guarded!gvars)
  OBVIOUS
<1> USE DEF MInv, Guarded!GNext, Guarded!gvars
<1>1. CASE Begin
  BY <1>1 DEF Begin, Guarded!Start
<1>2. CASE RemoveDump \/ Dump
  BY <1>2 DEF RemoveDump, Dump, At, Goes
<1>3. CASE CommitDump
  <2>1. /\ pc = "commit" /\ pc' = "seed"
        /\ UNCHANGED <<start, files>> /\ head' = dump
    BY <1>3 DEF CommitDump, At, Goes
  <2>2. Guarded!Restores(head', start)
    BY <2>1, SavedRestores DEF Saved
  <2> QED BY <2>1, <2>2 DEF Guarded!Save
<1>4. CASE Seed \/ Rehearse \/ Apply
  BY <1>4 DEF Seed, Rehearse, Apply, At, Goes, Control, Files, Real, Trial
<1>5. CASE NothingToCommit \/ Refuse \/ Confirm
  BY <1>5 DEF NothingToCommit, Refuse, Confirm, At, Ends, Guarded!End, Control,
              Files, Real, Trial
<1>6. CASE UpgradeFails
  BY <1>6 DEF UpgradeFails, Ends, Guarded!End
<1>7. CASE Stop
  BY <1>7 DEF Stop, Ends, Guarded!End, Guarded!ByHand, Control, Files, Real, Trial
<1>8. CASE Step
  <2>1. /\ pc \in {"rehearsal", "upgrade", "hand"} /\ UNCHANGED <<pc, start, head>>
        /\ conn.file = FileAt(pc)
    BY <1>8 DEF Step, script, Execute, Connected, Control, FileAt
  <2>2. CASE pc = "rehearsal"
    <3>1. files'[Real] = files[Real]
      <4>1. Real \in Files \ {conn.file}
        BY <2>1, <2>2 DEF FileAt, Files, Real, Trial
      <4> QED BY <1>8, <4>1, ExecuteTouches DEF Step
    <3> QED BY <2>1, <3>1
  <2>3. CASE pc = "upgrade"
    <3>1. Guarded!Restores(head, start)
      BY <2>3, SavedRestores DEF Saved
    <3> QED BY <2>1, <2>3, <3>1 DEF Guarded!Change
  <2>4. CASE pc = "hand"
    BY <2>1, <2>4 DEF Guarded!ByHand
  <2> QED BY <2>1, <2>2, <2>3, <2>4
<1>9. CASE CleanTree \/ AlembicByHand \/ AlembicEnds
  BY <1>9 DEF CleanTree, AlembicByHand, AlembicEnds, At, Ends, Guarded!ByHand
<1>10. CASE Sniff \/ Detect
  <2>1. Adds(files[Real], files'[Real]) /\ UNCHANGED script
    BY <1>10, SniffAdds, DetectAdds DEF Sniff, Detect
  <2>2. /\ files'[Real].version = files[Real].version
        /\ Guarded!Keeps(files[Real], files'[Real])
    BY <2>1, SavedRestores DEF Guarded!Restores
  <2> QED BY <2>1, <2>2 DEF script, Guarded!Use
<1>11. CASE UNCHANGED vars
  BY <1>11 DEF vars, script
<1> QED BY <1>1, <1>2, <1>3, <1>4, <1>5, <1>6, <1>7, <1>8, <1>9, <1>10, <1>11 DEF Next

\* The script implements the guarded upgrade: whatever the database holds, whoever
\* writes to it, wherever the script or alembic is killed and however often it is
\* started again, schema and rows change under the script only when the last
\* commit holds a dump with which all that was there at its start can be restored
\* (main: the snapshot is committed before the first alembic upgrade).
THEOREM SnapshotGuards == Spec => GuardedSpec
<1>1. Init => MInv
  BY InitControl, InitSaved DEF MInv
<1>2. MInv /\ [Next]_vars => MInv'
  BY ControlHolds, SavedHolds DEF MInv
<1>3. Init => Guarded!GInit
  BY DEF Init, Guarded!GInit
<1> QED BY <1>1, <1>2, <1>3, StepGuarded, PTL DEF Spec, GuardedSpec, Guarded!GSpec

-----------------------------------------------------------------------------
(* Sequences of statements.                                                *)

IsSequence(s) == Len(s) \in Nat /\ s = [i \in 1 .. Len(s) |-> s[i]]

\* u is s with t behind it.
Joins(u, s, t) ==
    /\ IsSequence(u)
    /\ Len(u) = Len(s) + Len(t)
    /\ \A i \in 1 .. Len(s) : u[i] = s[i]
    /\ \A i \in 1 .. Len(t) : u[Len(s) + i] = t[i]

LEMMA Behind ==
    ASSUME NEW s, NEW t, IsSequence(s), IsSequence(t)
    PROVE  Joins(s \o t, s, t)
<1> DEFINE S == {s[i] : i \in 1 .. Len(s)} \cup {t[i] : i \in 1 .. Len(t)}
<1>1. s \in [1 .. Len(s) -> S] /\ t \in [1 .. Len(t) -> S]
  <2>1. \A i \in 1 .. Len(s) : s[i] \in S
    OBVIOUS
  <2>2. \A i \in 1 .. Len(t) : t[i] \in S
    OBVIOUS
  <2> HIDE DEF S
  <2> QED BY <2>1, <2>2 DEF IsSequence
<1> HIDE DEF S
<1>2. s \in Seq(S) /\ t \in Seq(S)
  BY <1>1 DEF IsSequence
<1>3. \A u \in Seq(S) : IsSequence(u)
  BY DEF IsSequence
<1>4. /\ s \o t \in Seq(S)
      /\ Len(s \o t) = Len(s) + Len(t)
      /\ \A i \in 1 .. Len(s) : (s \o t)[i] = s[i]
      /\ \A i \in 1 .. Len(t) : (s \o t)[Len(s) + i] = t[i]
  BY <1>2
<1> QED BY <1>3, <1>4 DEF Joins

LEMMA NothingBehind ==
    ASSUME NEW s, IsSequence(s)
    PROVE  s \o <<>> = s /\ <<>> \o s = s /\ SubSeq(s, 1, Len(s)) = s
<1> DEFINE S == {s[i] : i \in 1 .. Len(s)}
<1>1. s \in [1 .. Len(s) -> S]
  <2>1. \A i \in 1 .. Len(s) : s[i] \in S
    OBVIOUS
  <2> HIDE DEF S
  <2> QED BY <2>1 DEF IsSequence
<1> HIDE DEF S
<1>2. s \in Seq(S)
  BY <1>1 DEF IsSequence
<1> QED BY <1>2

\* Left is what is left of s behind its k-th statement, with the rest behind it: the
\* next statement, and what is left behind that.
Continues(left, s, k, rest) ==
    /\ left # <<>>
    /\ Head(left) = s[k + 1]
    /\ k + 1 < Len(s) => Tail(left) = SubSeq(s, k + 2, Len(s)) \o rest
    /\ k + 1 = Len(s) => Tail(left) = rest

LEMMA Leftover ==
    ASSUME NEW s, NEW rest, IsSequence(s), IsSequence(rest),
           NEW k \in Nat, k < Len(s)
    PROVE  Continues(SubSeq(s, k + 1, Len(s)) \o rest, s, k, rest)
<1> DEFINE S == {s[i] : i \in 1 .. Len(s)} \cup {rest[i] : i \in 1 .. Len(rest)}
           part == SubSeq(s, k + 1, Len(s))
<1>1. s \in [1 .. Len(s) -> S] /\ rest \in [1 .. Len(rest) -> S]
  <2>1. \A i \in 1 .. Len(s) : s[i] \in S
    OBVIOUS
  <2>2. \A i \in 1 .. Len(rest) : rest[i] \in S
    OBVIOUS
  <2> HIDE DEF S
  <2> QED BY <2>1, <2>2 DEF IsSequence
<1> HIDE DEF S
<1>2. s \in Seq(S) /\ rest \in Seq(S) /\ Len(s) \in Nat
  BY <1>1 DEF IsSequence
<1>3. /\ part \in Seq(S) /\ Len(part) = Len(s) - k
      /\ \A i \in 1 .. (Len(s) - k) : part[i] = s[k + i]
  BY <1>2
<1>4. part # <<>> /\ Head(part) = s[k + 1]
  <2>1. 1 \in 1 .. (Len(s) - k) /\ Len(s) - k # 0
    BY <1>2
  <2>2. \A v \in Seq(S) : Len(v) # 0 => v # <<>> /\ Head(v) = v[1]
    OBVIOUS
  <2>3. part \in Seq(S) /\ Len(part) # 0 /\ part[1] = s[k + 1]
    BY <1>3, <2>1
  <2> HIDE DEF part
  <2> QED BY <2>2, <2>3
<1>5. Tail(part) = SubSeq(s, k + 2, Len(s))
  <2>1. k + 1 \in 1 .. Len(s) /\ Len(s) \in (k + 1) .. Len(s) /\ (k + 1) + 1 = k + 2
    BY <1>2
  <2>2. Tail(part) = SubSeq(s, (k + 1) + 1, Len(s))
    BY <1>2, <2>1, HeadTailOfSubSeq
  <2> QED BY <2>1, <2>2
<1>6. k + 1 = Len(s) => Tail(part) = <<>>
  <2>1. k + 1 = Len(s) => k + 2 \in Int /\ Len(s) \in Int /\ Len(s) < k + 2
    BY <1>2
  <2> HIDE DEF part
  <2> QED BY <1>5, <2>1, SubSeqEmpty
<1> HIDE DEF part
<1>7. \A v \in Seq(S) : v # <<>> =>
          /\ v \o rest # <<>> /\ Head(v \o rest) = Head(v)
          /\ Tail(v \o rest) = Tail(v) \o rest
  BY <1>2
<1>8. <<>> \o rest = rest
  BY <1>2
<1> QED BY <1>3, <1>4, <1>5, <1>6, <1>7, <1>8 DEF Continues, part

-----------------------------------------------------------------------------
(* The revisions.                                                          *)

Operations == {"create", "createLike", "addColumn", "copy", "drop", "rename", "replace",
               "createIndex", "dropIndex", "setVersion", "foreignKeys", "commit"}

\* Statement j of s comes behind those that it needs: what is copied to was made
\* by the statement before, what takes the place of a table is a copy of it.  But
\* on the way back to nothing (safe) no table is dropped for good, and there none is
\* copied; before E2f5 no column goes (grow).
InPlace(safe, grow, s, j) ==
    /\ s[j].op \in Operations
    /\ s[j].op = "create" => IsTable(s[j].table)
    /\ s[j].op = "createLike" =>
          s[j].name \in {"messages", "sessions"} /\ (grow => s[j].dropped = {})
    /\ s[j].op = "copy" =>
          /\ safe /\ j > 1 /\ s[j].name \in DataTables /\ s[j].to \notin DataTables
          /\ \/ s[j - 1].op = "create" /\ s[j - 1].name = s[j].to /\ ~grow
             \/ /\ s[j - 1].op = "createLike" /\ s[j - 1].name = s[j].name
                /\ Tmp[s[j].name] = s[j].to
    /\ s[j].op = "replace" =>
          /\ j > 1 /\ s[j - 1].op = "copy" /\ s[j - 1].name = s[j].name
          /\ s[j - 1].to = Tmp[s[j].name]
    /\ s[j].op = "drop" /\ safe =>
          /\ j > 1 /\ s[j - 1].op = "copy" /\ s[j - 1].name = s[j].name
          /\ j < Len(s) /\ s[j + 1].op = "rename" /\ s[j + 1].to = s[j].name
    /\ s[j].op = "rename" =>
          /\ j > 2 /\ s[j - 1].op = "drop" /\ s[j - 1].name = s[j].to
          /\ s[j - 2].op = "copy" /\ s[j - 2].name = s[j].to /\ s[j - 2].to = s[j].name

\* The names of the tables that s copies.
Copies(s) == {s[i].name : i \in {j \in 1 .. Len(s) : s[j].op = "copy"}}

CopiesOnce(s) ==
    \A i, j \in 1 .. Len(s) :
        i < j /\ s[i].op = "copy" /\ s[j].op = "copy" => s[i].name # s[j].name

\* Columns are added before a transaction is open.
ColumnsFirst(s) ==
    \A i, j \in 1 .. Len(s) : i < j /\ s[j].op = "addColumn" => ~Begins(s[i])

Orderly(safe, grow, s) ==
    /\ IsSequence(s)
    /\ \A j \in 1 .. Len(s) : InPlace(safe, grow, s, j)
    /\ CopiesOnce(s) /\ ColumnsFirst(s)

\* A revision but for its end.
Open(s) == \A j \in 1 .. Len(s) : s[j].op \notin {"setVersion", "commit"}

\* A statement is in its place in any sequence with the same statements around it.
LEMMA InPlaceThere ==
    ASSUME NEW safe, NEW grow, NEW s, NEW t, NEW i \in Nat, NEW j \in Nat,
           InPlace(safe, grow, t, i), s[j] = t[i],
           i > 1 => j > 1 /\ s[j - 1] = t[i - 1],
           i > 2 => j > 2 /\ s[j - 2] = t[i - 2],
           i < Len(t) => j < Len(s) /\ s[j + 1] = t[i + 1]
    PROVE  InPlace(safe, grow, s, j)
<1> DEFINE x == s[j]
<1>1. /\ x.op \in Operations /\ (x.op = "create" => IsTable(x.table))
      /\ x.op = "createLike" =>
            x.name \in {"messages", "sessions"} /\ (grow => x.dropped = {})
  BY DEF InPlace
<1>2. x.op = "copy" =>
          /\ safe /\ j > 1 /\ x.name \in DataTables /\ x.to \notin DataTables
          /\ \/ s[j - 1].op = "create" /\ s[j - 1].name = x.to /\ ~grow
             \/ /\ s[j - 1].op = "createLike" /\ s[j - 1].name = x.name
                /\ Tmp[x.name] = x.to
  BY DEF InPlace
<1>3. x.op = "replace" =>
          /\ j > 1 /\ s[j - 1].op = "copy" /\ s[j - 1].name = x.name
          /\ s[j - 1].to = Tmp[x.name]
  BY DEF InPlace
<1>4. x.op = "drop" /\ safe =>
          /\ j > 1 /\ s[j - 1].op = "copy" /\ s[j - 1].name = x.name
          /\ j < Len(s) /\ s[j + 1].op = "rename" /\ s[j + 1].to = x.name
  BY DEF InPlace
<1>5. x.op = "rename" =>
          /\ j > 2 /\ s[j - 1].op = "drop" /\ s[j - 1].name = x.to
          /\ s[j - 2].op = "copy" /\ s[j - 2].name = x.to /\ s[j - 2].to = x.name
  <2>1. x.op = "rename" =>
            /\ i > 2 /\ t[i - 1].op = "drop" /\ t[i - 1].name = x.to
            /\ t[i - 2].op = "copy" /\ t[i - 2].name = x.to /\ t[i - 2].to = x.name
    BY DEF InPlace
  <2>2. i > 2 => i > 1
    OBVIOUS
  <2> QED BY <2>1, <2>2
<1> QED BY <1>1, <1>2, <1>3, <1>4, <1>5 DEF InPlace

LEMMA OrderlyBehind ==
    ASSUME NEW safe \in BOOLEAN, NEW grow \in BOOLEAN, NEW s, NEW t,
           Orderly(safe, grow, s), Orderly(safe, grow, t),
           Copies(s) \cap Copies(t) = {},
           \A j \in 1 .. Len(t) : t[j].op # "addColumn"
    PROVE  /\ Orderly(safe, grow, s \o t)
           /\ Copies(s \o t) = Copies(s) \cup Copies(t)
           /\ Open(s) /\ Open(t) => Open(s \o t)
<1> DEFINE u == s \o t
           m == Len(s)
           n == Len(t)
<1>1. /\ IsSequence(u) /\ m \in Nat /\ n \in Nat /\ Len(u) = m + n
      /\ \A i \in 1 .. m : u[i] = s[i]
      /\ \A i \in 1 .. n : u[m + i] = t[i]
  <2>1. IsSequence(s) /\ IsSequence(t)
    BY DEF Orderly
  <2>2. Joins(s \o t, s, t)
    BY <2>1, Behind
  <2> QED BY <2>1, <2>2 DEF Joins, IsSequence
<1> HIDE DEF u
<1>2. ASSUME NEW j \in 1 .. (m + n)
      PROVE  j \in 1 .. m \/ \E i \in 1 .. n : j = m + i
  <2>1. j \notin 1 .. m => j - m \in 1 .. n /\ j = m + (j - m)
    BY <1>1
  <2> QED BY <2>1
<1>3. ASSUME NEW j \in 1 .. Len(u)
      PROVE  InPlace(safe, grow, u, j)
  <2>1. CASE j \in 1 .. m
    <3>1. InPlace(safe, grow, s, j)
      BY <2>1 DEF Orderly
    <3>2. /\ u[j] = s[j]
          /\ j > 1 => u[j - 1] = s[j - 1]
          /\ j > 2 => u[j - 2] = s[j - 2]
          /\ j < m => u[j + 1] = s[j + 1] /\ j < Len(u)
      <4>1. /\ j > 1 => j - 1 \in 1 .. m
            /\ j > 2 => j - 2 \in 1 .. m
            /\ j < m => j + 1 \in 1 .. m /\ j < m + n
        BY <1>1, <2>1
      <4> QED BY <1>1, <2>1, <4>1
    <3>3. j \in Nat /\ (j > 1 => j > 1) /\ (j > 2 => j > 2)
      BY <2>1
    <3> HIDE DEF u
    <3> QED BY <3>1, <3>2, <3>3, InPlaceThere
  <2>2. CASE \E i \in 1 .. n : j = m + i
    <3>1. PICK i \in 1 .. n : j = m + i
      BY <2>2
    <3>2. InPlace(safe, grow, t, i)
      BY <3>1 DEF Orderly
    <3> HIDE DEF m, n
    <3>3. /\ u[j] = t[i]
          /\ i > 1 => u[j - 1] = t[i - 1] /\ j > 1
          /\ i > 2 => u[j - 2] = t[i - 2] /\ j > 2
          /\ i < n => u[j + 1] = t[i + 1] /\ j < Len(u)
      <4>1. /\ i > 1 => i - 1 \in 1 .. n /\ j - 1 = m + (i - 1) /\ j > 1
            /\ i > 2 => i - 2 \in 1 .. n /\ j - 2 = m + (i - 2) /\ j > 2
            /\ i < n => i + 1 \in 1 .. n /\ j + 1 = m + (i + 1) /\ j < m + n
        <5>1. m \in Nat /\ n \in Nat /\ i \in 1 .. n /\ j = m + i
          BY <1>1, <3>1
        <5> QED BY ONLY <5>1
      <4>2. u[j] = t[i] /\ Len(u) = m + n
        BY <1>1, <3>1
      <4>3. i > 1 => u[j - 1] = t[i - 1]
        BY <1>1, <4>1
      <4>4. i > 2 => u[j - 2] = t[i - 2]
        BY <1>1, <4>1
      <4>5. i < n => u[j + 1] = t[i + 1]
        BY <1>1, <4>1
      <4> QED BY <4>1, <4>2, <4>3, <4>4, <4>5
    <3> HIDE DEF m, n
    <3>4. i \in Nat /\ j \in Nat
      BY <1>1, <3>1
    <3> HIDE <1>1, <3>1
    <3> QED BY <3>2, <3>3, <3>4, InPlaceThere DEF n
  <2> QED BY <1>1, <1>2, <2>1, <2>2
<1>4. Copies(u) = Copies(s) \cup Copies(t)
  <2>1. ASSUME NEW j \in 1 .. Len(u), u[j].op = "copy"
        PROVE  u[j].name \in Copies(s) \cup Copies(t)
    <3>1. CASE j \in 1 .. m
      <4>1. u[j] = s[j]
        BY <1>1, <3>1
      <4> QED BY <2>1, <3>1, <4>1 DEF Copies
    <3>2. CASE \E i \in 1 .. n : j = m + i
      <4>1. PICK i \in 1 .. n : j = m + i
        BY <3>2
      <4>2. u[j] = t[i]
        BY <1>1, <4>1
      <4> QED BY <2>1, <4>2 DEF Copies
    <3> QED BY <1>1, <1>2, <3>1, <3>2
  <2>2. ASSUME NEW j \in 1 .. m, s[j].op = "copy" PROVE s[j].name \in Copies(u)
    <3>1. j \in 1 .. Len(u) /\ u[j] = s[j]
      BY <1>1
    <3> QED BY <2>2, <3>1 DEF Copies
  <2>3. ASSUME NEW j \in 1 .. n, t[j].op = "copy" PROVE t[j].name \in Copies(u)
    <3>1. m + j \in 1 .. Len(u) /\ u[m + j] = t[j]
      BY <1>1
    <3> QED BY <2>3, <3>1 DEF Copies
  <2>4. Copies(u) \subseteq Copies(s) \cup Copies(t)
    <3> SUFFICES ASSUME NEW name \in Copies(u) PROVE name \in Copies(s) \cup Copies(t)
      OBVIOUS
    <3>1. PICK j \in 1 .. Len(u) : u[j].op = "copy" /\ name = u[j].name
      BY DEF Copies
    <3> QED BY <2>1, <3>1
  <2>5. Copies(s) \subseteq Copies(u)
    BY <2>2 DEF Copies
  <2>6. Copies(t) \subseteq Copies(u)
    BY <2>3 DEF Copies
  <2> QED BY <2>4, <2>5, <2>6
<1>5. ASSUME NEW i \in 1 .. Len(u), NEW j \in 1 .. Len(u), i < j
      PROVE  \/ i \in 1 .. m /\ j \in 1 .. m
             \/ i \in 1 .. m /\ \E l \in 1 .. n : u[j] = t[l]
             \/ \E k, l \in 1 .. n : k < l /\ u[i] = t[k] /\ u[j] = t[l]
  <2>1. CASE j \in 1 .. m
    BY <1>5, <2>1
  <2>2. CASE \E l \in 1 .. n : j = m + l
    <3>1. PICK l \in 1 .. n : j = m + l
      BY <2>2
    <3>2. u[j] = t[l]
      BY <1>1, <3>1
    <3>3. CASE i \in 1 .. m
      BY <3>2, <3>3
    <3>4. CASE \E k \in 1 .. n : i = m + k
      <4>1. PICK k \in 1 .. n : i = m + k
        BY <3>4
      <4>2. k < l /\ u[i] = t[k]
        BY <1>1, <1>5, <3>1, <4>1
      <4> QED BY <3>2, <4>2
    <3> QED BY <1>1, <1>2, <3>3, <3>4
  <2> QED BY <1>1, <1>2, <2>1, <2>2
<1>6. CopiesOnce(u)
  <2> SUFFICES ASSUME NEW i \in 1 .. Len(u), NEW j \in 1 .. Len(u), i < j,
                      u[i].op = "copy", u[j].op = "copy"
               PROVE  u[i].name # u[j].name
    BY DEF CopiesOnce
  <2>1. CASE i \in 1 .. m /\ j \in 1 .. m
    <3>1. CopiesOnce(s) /\ u[i] = s[i] /\ u[j] = s[j]
      BY <1>1, <2>1 DEF Orderly
    <3> QED BY <2>1, <3>1 DEF CopiesOnce
  <2>2. CASE i \in 1 .. m /\ \E l \in 1 .. n : u[j] = t[l]
    <3>1. u[i].name \in Copies(s)
      BY <1>1, <2>2 DEF Copies
    <3>2. u[j].name \in Copies(t)
      BY <2>2 DEF Copies
    <3> QED BY <3>1, <3>2
  <2>3. CASE \E k, l \in 1 .. n : k < l /\ u[i] = t[k] /\ u[j] = t[l]
    BY <2>3 DEF Orderly, CopiesOnce
  <2> QED BY <1>5, <2>1, <2>2, <2>3
<1>7. ColumnsFirst(u)
  <2> SUFFICES ASSUME NEW i \in 1 .. Len(u), NEW j \in 1 .. Len(u), i < j,
                      u[j].op = "addColumn"
               PROVE  ~Begins(u[i])
    BY DEF ColumnsFirst
  <2>1. CASE i \in 1 .. m /\ j \in 1 .. m
    BY <1>1, <2>1 DEF Orderly, ColumnsFirst
  <2>2. CASE \E l \in 1 .. n : u[j] = t[l]
    BY <2>2
  <2> QED BY <1>5, <2>1, <2>2
<1>8. Open(s) /\ Open(t) => Open(u)
  <2> SUFFICES ASSUME Open(s), Open(t), NEW j \in 1 .. Len(u)
               PROVE  u[j].op \notin {"setVersion", "commit"}
    BY DEF Open
  <2>1. CASE j \in 1 .. m
    BY <1>1, <2>1 DEF Open
  <2>2. CASE \E i \in 1 .. n : j = m + i
    <3>1. PICK i \in 1 .. n : j = m + i
      BY <2>2
    <3>2. u[j] = t[i]
      BY <1>1, <3>1
    <3> QED BY <3>2 DEF Open
  <2> QED BY <1>1, <1>2, <2>1, <2>2
<1> HIDE DEF m, n
<1> QED BY <1>1, <1>3, <1>4, <1>6, <1>7, <1>8 DEF Orderly, u

LEMMA TableShape ==
    ASSUME NEW cols, NEW notNull, NEW refs PROVE IsTable(Table(cols, notNull, refs))
BY DEF IsTable, Table

\* A part of a revision that copies these tables.
Block(safe, grow, s, names) ==
    /\ Orderly(safe, grow, s) /\ Copies(s) = names
    /\ \A j \in 1 .. Len(s) : s[j].op # "addColumn"

\* Statements that need none of those before them.
LEMMA PlainOrderly ==
    ASSUME NEW safe \in BOOLEAN, NEW grow \in BOOLEAN, NEW s, IsSequence(s),
           \A j \in 1 .. Len(s) :
               \/ s[j].op \in {"createIndex", "dropIndex", "foreignKeys", "setVersion",
                               "commit"}
               \/ s[j].op = "create" /\ IsTable(s[j].table)
               \/ s[j].op = "drop" /\ ~safe
    PROVE  Block(safe, grow, s, {})
<1>1. \A j \in 1 .. Len(s) :
          /\ s[j].op \notin {"addColumn", "createLike", "copy", "replace", "rename"}
          /\ s[j].op \in Operations
  BY DEF Operations
<1>2. ASSUME NEW j \in 1 .. Len(s) PROVE InPlace(safe, grow, s, j)
  <2>1. j > 1 => j - 1 \in 1 .. Len(s)
    BY DEF IsSequence
  <2>2. j > 1 => s[j - 1].op # "copy"
    BY <1>1, <2>1
  <2> QED BY <1>1, <2>2 DEF InPlace
<1> QED BY <1>1, <1>2 DEF Block, Orderly, Copies, CopiesOnce, ColumnsFirst

LEMMA BatchOrderly ==
    ASSUME NEW grow \in BOOLEAN, NEW name \in {"messages", "sessions"},
           NEW dropped, NEW added, NEW nullable, NEW notNull, grow => dropped = {}
    PROVE  LET s == Batch(name, dropped, added, nullable, notNull)
           IN  Block(TRUE, grow, s, {name}) /\ Open(s)
<1> DEFINE s == Batch(name, dropped, added, nullable, notNull)
<1>1. /\ IsSequence(s) /\ Len(s) = 3
      /\ s[1] = [op |-> "createLike", name |-> name, dropped |-> dropped,
                 added |-> added, nullable |-> nullable, notNull |-> notNull]
      /\ s[2] = Copy(name, Tmp[name])
      /\ s[3] = [op |-> "replace", name |-> name]
  BY DEF Batch, IsSequence
<1> HIDE DEF s
<1>2. /\ s[1].op = "createLike" /\ s[1].name = name /\ s[1].dropped = dropped
      /\ s[2].op = "copy" /\ s[2].name = name /\ s[2].to = Tmp[name]
      /\ s[3].op = "replace" /\ s[3].name = name
  BY <1>1 DEF Copy
<1>3. name \in DataTables /\ Tmp[name] \notin DataTables
  BY DEF Tmp, DataTables
<1>4. \A j \in 1 .. 3 : j = 1 \/ j = 2 \/ j = 3
  OBVIOUS
<1>5. ASSUME NEW j \in 1 .. 3 PROVE InPlace(TRUE, grow, s, j)
  <2>1. CASE j = 1
    BY <1>2, <2>1 DEF InPlace, Operations
  <2>2. CASE j = 2
    BY <1>2, <1>3, <2>2 DEF InPlace, Operations
  <2>3. CASE j = 3
    BY <1>2, <2>3 DEF InPlace, Operations
  <2> QED BY <1>4, <2>1, <2>2, <2>3
<1>6. \A j \in 1 .. 3 : s[j].op = "copy" <=> j = 2
  BY <1>2, <1>4
<1>7. Copies(s) = {name} /\ CopiesOnce(s)
  BY <1>1, <1>2, <1>6 DEF Copies, CopiesOnce
<1>8. \A j \in 1 .. 3 : s[j].op \notin {"addColumn", "setVersion", "commit"}
  BY <1>2, <1>4
<1>9. ColumnsFirst(s) /\ Open(s) /\ \A j \in 1 .. Len(s) : s[j].op # "addColumn"
  BY <1>1, <1>8 DEF ColumnsFirst, Open
<1> QED BY <1>1, <1>5, <1>7, <1>9 DEF Block, Orderly, s

LEMMA SessionsNewOrderly ==
    ASSUME NEW cols, NEW refs
    PROVE  LET s == SessionsNew(cols, refs)
           IN  Block(TRUE, FALSE, s, {"sessions"}) /\ Open(s)
<1> DEFINE s     == SessionsNew(cols, refs)
           table == Table(cols, {}, refs)
           off   == ForeignKeys(FALSE)
           on    == ForeignKeys(TRUE)
<1>1. IsTable(table) /\ off.op = "foreignKeys" /\ on.op = "foreignKeys"
  BY TableShape DEF ForeignKeys
<1> HIDE DEF table, off, on
<1>2. /\ IsSequence(s) /\ Len(s) = 8
      /\ s[1] = off
      /\ s[2] = Create("sessions_new", table)
      /\ s[3] = Copy("sessions", "sessions_new")
      /\ s[4] = Drop("sessions")
      /\ s[5] = Rename("sessions_new", "sessions")
      /\ s[6] = CreateIndex("idx_sessions_cell", "sessions")
      /\ s[7] = CreateIndex("idx_sessions_started_at", "sessions")
      /\ s[8] = on
  <2>1. s = <<off, Create("sessions_new", table), Copy("sessions", "sessions_new"),
              Drop("sessions"), Rename("sessions_new", "sessions"),
              CreateIndex("idx_sessions_cell", "sessions"),
              CreateIndex("idx_sessions_started_at", "sessions"), on>>
    BY DEF SessionsNew, table, off, on
  <2> HIDE DEF s
  <2> QED BY <2>1 DEF IsSequence
<1> HIDE DEF s
<1>3. /\ s[1].op = "foreignKeys" /\ s[8].op = "foreignKeys"
      /\ s[2].op = "create" /\ s[2].name = "sessions_new" /\ s[2].table = table
      /\ s[3].op = "copy" /\ s[3].name = "sessions" /\ s[3].to = "sessions_new"
      /\ s[4].op = "drop" /\ s[4].name = "sessions"
      /\ s[5].op = "rename" /\ s[5].name = "sessions_new" /\ s[5].to = "sessions"
      /\ s[6].op = "createIndex" /\ s[7].op = "createIndex"
  BY <1>1, <1>2 DEF Create, Copy, Drop, Rename, CreateIndex
<1>4. \A j \in 1 .. 8 : j = 1 \/ j = 2 \/ j = 3 \/ j = 4 \/ j = 5 \/ j = 6 \/ j = 7 \/ j = 8
  OBVIOUS
<1>5. ASSUME NEW j \in 1 .. 8 PROVE InPlace(TRUE, FALSE, s, j)
  <2>1. CASE j \in {1, 6, 7, 8}
    BY <1>3, <2>1 DEF InPlace, Operations
  <2>2. CASE j = 2
    BY <1>1, <1>3, <2>2 DEF InPlace, Operations
  <2>3. CASE j = 3
    BY <1>3, <2>3 DEF InPlace, Operations, DataTables
  <2>4. CASE j = 4
    BY <1>2, <1>3, <2>4 DEF InPlace, Operations
  <2>5. CASE j = 5
    BY <1>3, <2>5 DEF InPlace, Operations
  <2> QED BY <1>4, <2>1, <2>2, <2>3, <2>4, <2>5
<1>6. \A j \in 1 .. 8 : s[j].op = "copy" <=> j = 3
  BY <1>3, <1>4
<1>7. Copies(s) = {"sessions"} /\ CopiesOnce(s)
  BY <1>2, <1>3, <1>6 DEF Copies, CopiesOnce
<1>8. \A j \in 1 .. 8 : s[j].op \notin {"addColumn", "setVersion", "commit"}
  BY <1>3, <1>4
<1>9. ColumnsFirst(s) /\ Open(s) /\ \A j \in 1 .. Len(s) : s[j].op # "addColumn"
  BY <1>2, <1>8 DEF ColumnsFirst, Open
<1> QED BY <1>2, <1>5, <1>7, <1>9 DEF Block, Orderly, s

\* A whole revision: it ends with its version and a COMMIT.
Revision(safe, grow, version, s) ==
    /\ Orderly(safe, grow, s)
    /\ Len(s) > 1
    /\ s[Len(s) - 1] = SetVersion(version) /\ s[Len(s)] = Commit
    /\ \A j \in 1 .. (Len(s) - 2) : s[j].op \notin {"setVersion", "commit"}

LEMMA Ending ==
    ASSUME NEW safe \in BOOLEAN, NEW grow \in BOOLEAN, NEW version, NEW s,
           Orderly(safe, grow, s), Open(s)
    PROVE  Revision(safe, grow, version, s \o <<SetVersion(version), Commit>>)
<1> DEFINE end == <<SetVersion(version), Commit>>
<1>1. IsSequence(end) /\ Len(end) = 2 /\ end[1] = SetVersion(version) /\ end[2] = Commit
  BY DEF IsSequence
<1> HIDE DEF end
<1>2. end[1].op = "setVersion" /\ end[2].op = "commit"
  BY <1>1 DEF SetVersion, Commit
<1>3. \A j \in 1 .. Len(end) : end[j].op \in {"setVersion", "commit"}
  BY <1>1, <1>2
<1>4. Block(safe, grow, end, {})
  BY <1>1, <1>3, PlainOrderly
<1>5. Orderly(safe, grow, s \o end)
  BY <1>4, OrderlyBehind DEF Block
<1>6. IsSequence(s) /\ Len(s) \in Nat
  BY DEF Orderly, IsSequence
<1>7. /\ Len(s \o end) = Len(s) + 2
      /\ \A i \in 1 .. Len(s) : (s \o end)[i] = s[i]
      /\ (s \o end)[Len(s) + 1] = SetVersion(version)
      /\ (s \o end)[Len(s) + 2] = Commit
  <2>1. Joins(s \o end, s, end)
    BY <1>1, <1>6, Behind
  <2>2. 1 \in 1 .. 2 /\ 2 \in 1 .. 2
    OBVIOUS
  <2> QED BY <1>1, <2>1, <2>2 DEF Joins
<1> DEFINE u == s \o end
<1> HIDE DEF u
<1>8. Revision(safe, grow, version, u)
  BY <1>5, <1>6, <1>7 DEF Revision, Open, u
<1> QED BY <1>8 DEF u, end

Part(safe, grow, s, names) ==
    Orderly(safe, grow, s) /\ Open(s) /\ Copies(s) = names

LEMMA BlockBehind ==
    ASSUME NEW safe \in BOOLEAN, NEW grow \in BOOLEAN, NEW s, NEW t, NEW names, NEW more,
           Part(safe, grow, s, names), Block(safe, grow, t, more), Open(t),
           names \cap more = {}
    PROVE  Part(safe, grow, s \o t, names \cup more)
BY OrderlyBehind DEF Block, Part

LEMMA InitialOrderly ==
    /\ Orderly(TRUE, TRUE, UpgradeB0ba) /\ Open(UpgradeB0ba)
    /\ Orderly(FALSE, FALSE, DowngradeB0ba) /\ Open(DowngradeB0ba)
<1>1. /\ IsSequence(InitialTables)
      /\ \A j \in 1 .. Len(InitialTables) :
            InitialTables[j].op = "create" /\ IsTable(InitialTables[j].table)
  <2>1. \A name, cols, notNull, refs :
            LET s == Create(name, Table(cols, notNull, refs))
            IN  s.op = "create" /\ IsTable(s.table)
    BY TableShape DEF Create
  <2>2. \E a, b, c, d :
            /\ InitialTables = <<a, b, c, d>>
            /\ \A s \in {a, b, c, d} : s.op = "create" /\ IsTable(s.table)
    BY <2>1 DEF InitialTables
  <2> QED BY <2>2 DEF IsSequence
<1>2. /\ IsSequence(InitialIndexes)
      /\ \A j \in 1 .. Len(InitialIndexes) : InitialIndexes[j].op = "createIndex"
  BY DEF InitialIndexes, CreateIndex, IsSequence
<1>3. /\ IsSequence(DowngradeB0ba)
      /\ \A j \in 1 .. Len(DowngradeB0ba) : DowngradeB0ba[j].op \in {"drop", "dropIndex"}
  BY DEF DowngradeB0ba, DropIndex, Drop, IsSequence
<1>4. Block(TRUE, TRUE, InitialTables, {}) /\ Open(InitialTables)
  BY <1>1, PlainOrderly DEF Open
<1>5. Block(TRUE, TRUE, InitialIndexes, {}) /\ Open(InitialIndexes)
  BY <1>2, PlainOrderly DEF Open
<1>6. Block(FALSE, FALSE, DowngradeB0ba, {}) /\ Open(DowngradeB0ba)
  BY <1>3, PlainOrderly DEF Open
<1>7. Part(TRUE, TRUE, InitialTables \o InitialIndexes, {} \cup {})
  <2>1. Part(TRUE, TRUE, InitialTables, {}) /\ {} \cap {} = {}
    BY <1>4 DEF Part, Block
  <2> QED BY <1>5, <2>1, BlockBehind
<1> QED BY <1>6, <1>7 DEF UpgradeB0ba, Block, Part

\* One index that is made or dropped.
LEMMA IndexOrderly ==
    ASSUME NEW grow \in BOOLEAN, NEW index, NEW name,
           NEW s \in {<<CreateIndex(index, name)>>, <<DropIndex(index)>>}
    PROVE  Block(TRUE, grow, s, {}) /\ Open(s)
<1>1. IsSequence(s) /\ \A j \in 1 .. Len(s) : s[j].op \in {"createIndex", "dropIndex"}
  BY DEF CreateIndex, DropIndex, IsSequence
<1> QED BY <1>1, PlainOrderly DEF Open

LEMMA ColumnsOrderly ==
    ASSUME NEW a, NEW b
    PROVE  LET s == <<AddColumn("messages", a), AddColumn("messages", b)>>
           IN  Orderly(TRUE, FALSE, s) /\ Copies(s) = {} /\ Open(s)
<1> DEFINE s == <<AddColumn("messages", a), AddColumn("messages", b)>>
<1>1. IsSequence(s) /\ Len(s) = 2 /\ \A j \in 1 .. 2 : s[j].op = "addColumn"
  BY DEF AddColumn, IsSequence
<1> HIDE DEF s
<1>2. \A j \in 1 .. 2 : InPlace(TRUE, FALSE, s, j) /\ ~Begins(s[j])
  BY <1>1 DEF InPlace, Begins, Operations
<1>3. Orderly(TRUE, FALSE, s) /\ Copies(s) = {} /\ Open(s)
  BY <1>1, <1>2 DEF Orderly, Copies, CopiesOnce, ColumnsFirst, Open
<1> QED BY <1>3 DEF s

LEMMA UpgradesOrderly ==
    ASSUME NEW r \in B0ba .. E2f5
    PROVE  /\ Orderly(TRUE, FALSE, Upgrade[r]) /\ Open(Upgrade[r])
           /\ r < E2f5 => Orderly(TRUE, TRUE, Upgrade[r])
<1> USE DEF B0ba, B449, C692, D1a7, E2f5
<1>1. Orderly(TRUE, TRUE, UpgradeB0ba) /\ Open(UpgradeB0ba)
  BY InitialOrderly
<1>2. Orderly(TRUE, TRUE, UpgradeB449) /\ Open(UpgradeB449)
  <2> DEFINE batch == Batch("messages", {}, {"enb_ue_s1ap_id", "mme_ue_s1ap_id"},
                            {"session_id"}, {})
             index == <<CreateIndex("idx_messages_enb_ue_s1ap_id", "messages")>>
  <2>1. Block(TRUE, TRUE, batch, {"messages"}) /\ Open(batch)
    BY BatchOrderly
  <2>2. Block(TRUE, TRUE, index, {}) /\ Open(index)
    BY IndexOrderly
  <2>3. UpgradeB449 = batch \o index
    BY DEF UpgradeB449
  <2> HIDE DEF batch, index
  <2>4. Part(TRUE, TRUE, batch, {"messages"}) /\ {"messages"} \cap {} = {}
    BY <2>1 DEF Block, Part
  <2>5. Part(TRUE, TRUE, batch \o index, {"messages"} \cup {})
    BY <2>2, <2>4, BlockBehind
  <2> QED BY <2>3, <2>5 DEF Part
<1>3. Orderly(TRUE, TRUE, UpgradeC692) /\ Open(UpgradeC692)
  BY BatchOrderly DEF UpgradeC692, Block
<1>4. Orderly(TRUE, TRUE, UpgradeD1a7) /\ Open(UpgradeD1a7)
  BY IndexOrderly DEF UpgradeD1a7, Block
<1>5. Orderly(TRUE, FALSE, UpgradeE2f5) /\ Open(UpgradeE2f5)
  <2> DEFINE columns == <<AddColumn("messages", "plmn"), AddColumn("messages", "cell_id")>>
             new     == SessionsNew({"cell_id", "plmn"}, <<>>)
             index   == <<CreateIndex("idx_messages_cell_enb_ue_s1ap_id", "messages")>>
  <2>1. Orderly(TRUE, FALSE, columns) /\ Copies(columns) = {} /\ Open(columns)
    BY ColumnsOrderly
  <2>2. Block(TRUE, FALSE, new, {"sessions"}) /\ Open(new)
    BY SessionsNewOrderly
  <2>3. Block(TRUE, FALSE, index, {}) /\ Open(index)
    BY IndexOrderly
  <2>4. UpgradeE2f5 = (columns \o new) \o index
    BY DEF UpgradeE2f5
  <2> HIDE DEF columns, new, index
  <2>5. Part(TRUE, FALSE, columns, {}) /\ {} \cap {"sessions"} = {}
    BY <2>1 DEF Part
  <2>6. Part(TRUE, FALSE, columns \o new, {} \cup {"sessions"})
    BY <2>2, <2>5, BlockBehind
  <2>7. ({} \cup {"sessions"}) \cap {} = {}
    OBVIOUS
  <2>8. Part(TRUE, FALSE, (columns \o new) \o index, ({} \cup {"sessions"}) \cup {})
    BY <2>3, <2>6, <2>7, BlockBehind
  <2> QED BY <2>4, <2>8 DEF Part
<1>6. r = 1 \/ r = 2 \/ r = 3 \/ r = 4 \/ r = 5
  OBVIOUS
<1>7. /\ Upgrade[1] = UpgradeB0ba /\ Upgrade[2] = UpgradeB449 /\ Upgrade[3] = UpgradeC692
      /\ Upgrade[4] = UpgradeD1a7 /\ Upgrade[5] = UpgradeE2f5
  BY DEF Upgrade
<1>8. \A s : Orderly(TRUE, TRUE, s) => Orderly(TRUE, FALSE, s)
  BY DEF Orderly, InPlace
<1>9. r < E2f5 => r # 5
  OBVIOUS
<1> QED BY <1>9, <1>1, <1>2, <1>3, <1>4, <1>5, <1>6, <1>7, <1>8

LEMMA DowngradesOrderly ==
    ASSUME NEW r \in B0ba .. E2f5
    PROVE  /\ Open(Downgrade[r])
           /\ r = B0ba => Orderly(FALSE, FALSE, Downgrade[r])
           /\ r > B0ba => Orderly(TRUE, FALSE, Downgrade[r])
<1> USE DEF B0ba, B449, C692, D1a7, E2f5
<1>1. Orderly(FALSE, FALSE, DowngradeB0ba) /\ Open(DowngradeB0ba)
  BY InitialOrderly
<1>2. Orderly(TRUE, FALSE, DowngradeB449) /\ Open(DowngradeB449)
  <2> DEFINE index == <<DropIndex("idx_messages_enb_ue_s1ap_id")>>
             batch == Batch("messages", {"mme_ue_s1ap_id", "enb_ue_s1ap_id"}, {}, {},
                            {"session_id"})
  <2>1. Block(TRUE, FALSE, batch, {"messages"}) /\ Open(batch)
    BY BatchOrderly
  <2>2. Block(TRUE, FALSE, index, {}) /\ Open(index)
    BY IndexOrderly
  <2>3. DowngradeB449 = index \o batch
    BY DEF DowngradeB449
  <2> HIDE DEF index, batch
  <2>4. Part(TRUE, FALSE, index, {}) /\ {} \cap {"messages"} = {}
    BY <2>2 DEF Block, Part
  <2>5. Part(TRUE, FALSE, index \o batch, {} \cup {"messages"})
    BY <2>1, <2>4, BlockBehind
  <2> QED BY <2>3, <2>5 DEF Part
<1>3. Orderly(TRUE, FALSE, DowngradeC692) /\ Open(DowngradeC692)
  BY BatchOrderly DEF DowngradeC692, Block
<1>4. Orderly(TRUE, FALSE, DowngradeD1a7) /\ Open(DowngradeD1a7)
  BY IndexOrderly DEF DowngradeD1a7, Block
<1>5. Orderly(TRUE, FALSE, DowngradeE2f5) /\ Open(DowngradeE2f5)
  <2> DEFINE index == <<DropIndex("idx_messages_cell_enb_ue_s1ap_id")>>
             new   == SessionsNew({"cell_id"}, [cell_id |-> "cells"])
             batch == Batch("messages", {"cell_id", "plmn"}, {}, {}, {})
  <2>1. Block(TRUE, FALSE, batch, {"messages"}) /\ Open(batch)
    BY BatchOrderly
  <2>2. Block(TRUE, FALSE, new, {"sessions"}) /\ Open(new)
    BY SessionsNewOrderly
  <2>3. Block(TRUE, FALSE, index, {}) /\ Open(index)
    BY IndexOrderly
  <2>4. DowngradeE2f5 = (index \o new) \o batch
    BY DEF DowngradeE2f5
  <2> HIDE DEF index, new, batch
  <2>5. Part(TRUE, FALSE, index, {}) /\ {} \cap {"sessions"} = {}
    BY <2>3 DEF Block, Part
  <2>6. Part(TRUE, FALSE, index \o new, {} \cup {"sessions"})
    BY <2>2, <2>5, BlockBehind
  <2>7. ({} \cup {"sessions"}) \cap {"messages"} = {}
    OBVIOUS
  <2>8. Part(TRUE, FALSE, (index \o new) \o batch, ({} \cup {"sessions"}) \cup {"messages"})
    BY <2>1, <2>6, <2>7, BlockBehind
  <2> QED BY <2>4, <2>8 DEF Part
<1>6. r = 1 \/ r = 2 \/ r = 3 \/ r = 4 \/ r = 5
  OBVIOUS
<1>7. /\ Downgrade[1] = DowngradeB0ba /\ Downgrade[2] = DowngradeB449
      /\ Downgrade[3] = DowngradeC692 /\ Downgrade[4] = DowngradeD1a7
      /\ Downgrade[5] = DowngradeE2f5
  BY DEF Downgrade
<1>8. r > B0ba => r # 1
  OBVIOUS
<1> QED BY <1>1, <1>2, <1>3, <1>4, <1>5, <1>6, <1>7, <1>8

\* The statements of a revision, and those that come behind it.
Way(up, r) == IF up THEN StepUp(r) ELSE StepDown(r)
Later(up, r, to) == IF up THEN UpgradePath(r, to) ELSE DowngradePath(r - 1, to)

LEMMA WayRevision ==
    ASSUME NEW up \in BOOLEAN, NEW r \in B0ba .. E2f5,
           NEW safe \in BOOLEAN, safe <=> (up \/ r > B0ba),
           NEW grow \in BOOLEAN, grow => (up /\ r < E2f5)
    PROVE  Revision(safe, grow, IF up THEN r ELSE r - 1, Way(up, r))
<1>1. CASE up
  <2>1. Orderly(safe, grow, Upgrade[r]) /\ Open(Upgrade[r])
    BY <1>1, UpgradesOrderly
  <2>2. Revision(safe, grow, r, Upgrade[r] \o <<SetVersion(r), Commit>>)
    BY <2>1, Ending
  <2> QED BY <1>1, <2>2 DEF Way, StepUp
<1>2. CASE ~up
  <2>1. Orderly(safe, grow, Downgrade[r]) /\ Open(Downgrade[r])
    <3>1. r = B0ba \/ r > B0ba
      BY DEF B0ba, E2f5
    <3> QED BY <1>2, <3>1, DowngradesOrderly DEF B0ba
  <2>2. Revision(safe, grow, r - 1, Downgrade[r] \o <<SetVersion(r - 1), Commit>>)
    BY <2>1, Ending
  <2> QED BY <1>2, <2>2 DEF Way, StepDown
<1> QED BY <1>1, <1>2

LEMMA WaySequence ==
    ASSUME NEW up \in BOOLEAN, NEW r \in B0ba .. E2f5 PROVE IsSequence(Way(up, r))
<1> DEFINE safe == up \/ r > B0ba
           grow == up /\ r < E2f5
<1>1. safe \in BOOLEAN /\ grow \in BOOLEAN /\ (safe <=> (up \/ r > B0ba))
      /\ (grow => (up /\ r < E2f5))
  OBVIOUS
<1> HIDE DEF safe, grow
<1>2. Revision(safe, grow, IF up THEN r ELSE r - 1, Way(up, r))
  BY <1>1, WayRevision
<1> QED BY <1>2 DEF Revision, Orderly

Regroups(a, b, c) == (a \o b) \o c = a \o (b \o c)

LEMMA Associative ==
    ASSUME NEW a, NEW b, NEW c, IsSequence(a), IsSequence(b), IsSequence(c)
    PROVE  Regroups(a, b, c)
<1> DEFINE S == {a[i] : i \in 1 .. Len(a)} \cup {b[i] : i \in 1 .. Len(b)}
                    \cup {c[i] : i \in 1 .. Len(c)}
<1>1. a \in [1 .. Len(a) -> S] /\ b \in [1 .. Len(b) -> S] /\ c \in [1 .. Len(c) -> S]
  <2>1. /\ \A i \in 1 .. Len(a) : a[i] \in S
        /\ \A i \in 1 .. Len(b) : b[i] \in S
        /\ \A i \in 1 .. Len(c) : c[i] \in S
    OBVIOUS
  <2> HIDE DEF S
  <2> QED BY <2>1 DEF IsSequence
<1> HIDE DEF S
<1>2. a \in Seq(S) /\ b \in Seq(S) /\ c \in Seq(S)
  <2>1. Len(a) \in Nat /\ Len(b) \in Nat /\ Len(c) \in Nat
    BY DEF IsSequence
  <2>2. \A n \in Nat : [1 .. n -> S] \subseteq Seq(S)
    OBVIOUS
  <2> QED BY <1>1, <2>1, <2>2
<1> QED BY <1>2 DEF Regroups

FivePartsAre(a, b, c, d, e) ==
    /\ (((a \o b) \o c) \o d) \o e = a \o (((b \o c) \o d) \o e)
    /\ IsSequence((((a \o b) \o c) \o d) \o e)

LEMMA FiveParts ==
    ASSUME NEW a, NEW b, NEW c, NEW d, NEW e,
           IsSequence(a), IsSequence(b), IsSequence(c), IsSequence(d), IsSequence(e)
    PROVE  FivePartsAre(a, b, c, d, e)
<1> DEFINE ab   == a \o b
           abc  == ab \o c
           abcd == abc \o d
           bc   == b \o c
           bcd  == bc \o d
<1>1. \A s, t : IsSequence(s) /\ IsSequence(t) => IsSequence(s \o t)
  BY Behind DEF Joins
<1>2. /\ IsSequence(ab) /\ IsSequence(abc) /\ IsSequence(abcd)
      /\ IsSequence(bc) /\ IsSequence(bcd)
  BY <1>1
<1>3. abc = a \o bc
  <2>1. Regroups(a, b, c)
    BY Associative
  <2> QED BY <2>1 DEF Regroups
<1> HIDE DEF ab, abc, bc
<1>4. abcd = a \o bcd
  <2>1. Regroups(a, bc, d)
    BY <1>2, Associative
  <2> QED BY <1>3, <2>1 DEF Regroups
<1> HIDE DEF abcd, bcd
<1>5. abcd \o e = a \o (bcd \o e)
  <2>1. Regroups(a, bcd, e)
    BY <1>2, Associative
  <2> QED BY <1>4, <2>1 DEF Regroups
<1>6. IsSequence(abcd \o e)
  BY <1>1, <1>2
<1> QED BY <1>5, <1>6 DEF FivePartsAre, ab, abc, abcd, bc, bcd

\* Two ways of five parts: the first has s where the other has the last of the
\* empty parts that it begins with.
LEMMA OneOfFive ==
    ASSUME NEW X, NEW Y, NEW s, NEW next \in 1 .. 5,
           IsSequence(s), X[next] = s,
           \A r \in 1 .. 5 : next < r => X[r] = Y[r],
           \A r \in 1 .. 5 : r < next => X[r] = <<>>,
           \A r \in 1 .. 5 : r <= next => Y[r] = <<>>,
           \A r \in 1 .. 5 : IsSequence(Y[r])
    PROVE  (((X[1] \o X[2]) \o X[3]) \o X[4]) \o X[5]
              = s \o ((((Y[1] \o Y[2]) \o Y[3]) \o Y[4]) \o Y[5])
<1>1. /\ <<>> \o <<>> = <<>> /\ <<>> \o s = s /\ s \o <<>> = s /\ <<>> \o Y[2] = Y[2]
  BY NothingBehind
<1>2. IsSequence(Y[2]) /\ IsSequence(Y[3]) /\ IsSequence(Y[4]) /\ IsSequence(Y[5])
  OBVIOUS
<1>3. (((s \o Y[2]) \o Y[3]) \o Y[4]) \o Y[5] = s \o (((Y[2] \o Y[3]) \o Y[4]) \o Y[5])
  <2>1. FivePartsAre(s, Y[2], Y[3], Y[4], Y[5])
    BY <1>2, FiveParts
  <2> QED BY <2>1 DEF FivePartsAre
<1>4. Y[1] = <<>>
  OBVIOUS
<1>5. (((Y[1] \o Y[2]) \o Y[3]) \o Y[4]) \o Y[5] = ((Y[2] \o Y[3]) \o Y[4]) \o Y[5]
  BY <1>1, <1>4
<1> DEFINE XS == (((X[1] \o X[2]) \o X[3]) \o X[4]) \o X[5]
           ST == (((s \o Y[2]) \o Y[3]) \o Y[4]) \o Y[5]
<1>6. XS = ST
  <2>1. CASE next = 1
    <3>1. X[1] = s /\ X[2] = Y[2] /\ X[3] = Y[3] /\ X[4] = Y[4] /\ X[5] = Y[5]
      BY <2>1
    <3> QED BY <3>1
  <2>2. CASE next = 2
    <3>1. /\ X[1] = <<>> /\ X[2] = s /\ X[3] = Y[3] /\ X[4] = Y[4] /\ X[5] = Y[5]
          /\ Y[2] = <<>>
      BY <2>2
    <3> QED BY <1>1, <3>1
  <2>3. CASE next = 3
    <3>1. /\ X[1] = <<>> /\ X[2] = <<>> /\ X[3] = s /\ X[4] = Y[4] /\ X[5] = Y[5]
          /\ Y[2] = <<>> /\ Y[3] = <<>>
      BY <2>3
    <3> QED BY <1>1, <3>1
  <2>4. CASE next = 4
    <3>1. /\ X[1] = <<>> /\ X[2] = <<>> /\ X[3] = <<>> /\ X[4] = s /\ X[5] = Y[5]
          /\ Y[2] = <<>> /\ Y[3] = <<>> /\ Y[4] = <<>>
      BY <2>4
    <3> QED BY <1>1, <3>1
  <2>5. CASE next = 5
    <3>1. /\ X[1] = <<>> /\ X[2] = <<>> /\ X[3] = <<>> /\ X[4] = <<>> /\ X[5] = s
          /\ Y[2] = <<>> /\ Y[3] = <<>> /\ Y[4] = <<>> /\ Y[5] = <<>>
      BY <2>5
    <3> QED BY <1>1, <3>1
  <2>6. next = 1 \/ next = 2 \/ next = 3 \/ next = 4 \/ next = 5
    OBVIOUS
  <2> HIDE DEF XS, ST
  <2> QED BY <2>1, <2>2, <2>3, <2>4, <2>5, <2>6
<1> QED BY <1>3, <1>5, <1>6

LEMMA FiveSequences ==
    ASSUME NEW X, \A r \in 1 .. 5 : IsSequence(X[r])
    PROVE  IsSequence((((X[1] \o X[2]) \o X[3]) \o X[4]) \o X[5])
<1>1. /\ IsSequence(X[1]) /\ IsSequence(X[2]) /\ IsSequence(X[3]) /\ IsSequence(X[4])
      /\ IsSequence(X[5])
  OBVIOUS
<1>2. FivePartsAre(X[1], X[2], X[3], X[4], X[5])
  BY <1>1, FiveParts
<1> QED BY <1>2 DEF FivePartsAre

\* An upgrade goes one revision and then the rest of the way.
LEMMA UpgradeParts ==
    ASSUME NEW from \in Base .. E2f5, NEW to \in Base .. E2f5
    PROVE  /\ IsSequence(UpgradePath(from, to))
           /\ from < to => UpgradePath(from, to) = StepUp(from + 1) \o UpgradePath(from + 1, to)
           /\ to <= from => UpgradePath(from, to) = <<>>
<1> USE DEF Base, B0ba, B449, C692, D1a7, E2f5
<1> DEFINE Done(f)  == [r \in 1 .. 5 |-> IF f < r /\ r <= to THEN StepUp(r) ELSE <<>>]
           Whole(X) == (((X[1] \o X[2]) \o X[3]) \o X[4]) \o X[5]
<1>1. IsSequence(<<>>) /\ <<>> \o <<>> = <<>>
  BY DEF IsSequence
<1>2. \A r \in 1 .. 5 : IsSequence(StepUp(r))
  <2> SUFFICES ASSUME NEW r \in 1 .. 5 PROVE IsSequence(StepUp(r))
    OBVIOUS
  <2>1. \A up \in BOOLEAN : IsSequence(Way(up, r))
    BY WaySequence
  <2>2. Way(TRUE, r) = StepUp(r)
    BY DEF Way
  <2> QED BY <2>1, <2>2
<1>3. \A f : \A r \in 1 .. 5 : IsSequence(Done(f)[r])
  BY <1>1, <1>2
<1>4. ASSUME NEW f PROVE UpgradePath(f, to) = Whole(Done(f))
  <2> DEFINE X(r) == IF f < r /\ r <= to THEN StepUp(r) ELSE <<>>
  <2>1. UpgradePath(f, to) = (((X(1) \o X(2)) \o X(3)) \o X(4)) \o X(5)
    BY DEF UpgradePath
  <2>2. \A r \in 1 .. 5 : Done(f)[r] = X(r)
    OBVIOUS
  <2> HIDE DEF X, Done
  <2>3. /\ Done(f)[1] = X(1) /\ Done(f)[2] = X(2) /\ Done(f)[3] = X(3)
        /\ Done(f)[4] = X(4) /\ Done(f)[5] = X(5)
    BY <2>2
  <2> QED BY <2>1, <2>3
<1>5. \A f \in Base .. E2f5 : \A r \in 1 .. 5 : r <= f \/ to < r => Done(f)[r] = <<>>
  OBVIOUS
<1>6. from < to => Done(from)[from + 1] = StepUp(from + 1)
  OBVIOUS
<1>7. \A r \in 1 .. 5 : from + 1 < r => Done(from)[r] = Done(from + 1)[r]
  OBVIOUS
<1> HIDE DEF Done
<1>8. IsSequence(UpgradePath(from, to))
  BY <1>3, <1>4, FiveSequences
<1>9. to <= from => UpgradePath(from, to) = <<>>
  <2> SUFFICES ASSUME to <= from PROVE UpgradePath(from, to) = <<>>
    OBVIOUS
  <2>1. \A r \in 1 .. 5 : Done(from)[r] = <<>>
    BY <1>5
  <2>2. Done(from)[1] = <<>> /\ Done(from)[2] = <<>> /\ Done(from)[3] = <<>>
        /\ Done(from)[4] = <<>> /\ Done(from)[5] = <<>>
    BY <2>1
  <2> QED BY <1>1, <1>4, <2>2
<1>10. ASSUME from < to
       PROVE  UpgradePath(from, to) = StepUp(from + 1) \o UpgradePath(from + 1, to)
  <2> DEFINE next == from + 1
             s    == StepUp(next)
             X    == Done(from)
             Y    == Done(next)
  <2>1. next \in 1 .. 5 /\ X[next] = s /\ IsSequence(s)
    BY <1>2, <1>6, <1>10
  <2>2. \A r \in 1 .. 5 : next < r => X[r] = Y[r]
    BY <1>7
  <2>3. \A r \in 1 .. 5 : r < next => X[r] = <<>>
    BY <1>5
  <2>4. \A r \in 1 .. 5 : r <= next => Y[r] = <<>>
    <3>1. next \in Base .. E2f5
      BY <1>10
    <3> QED BY <1>5, <3>1
  <2>5. \A r \in 1 .. 5 : IsSequence(Y[r])
    BY <1>3
  <2>6. UpgradePath(from, to) = Whole(X) /\ UpgradePath(next, to) = Whole(Y)
    BY <1>4
  <2> HIDE DEF next, s, X, Y
  <2>7. Whole(X) = s \o Whole(Y)
    BY <2>1, <2>2, <2>3, <2>4, <2>5, OneOfFive
  <2> HIDE DEF Whole
  <2> QED BY <2>6, <2>7 DEF s, next
<1> QED BY <1>8, <1>9, <1>10

\* So does a downgrade.
LEMMA DowngradeParts ==
    ASSUME NEW from \in Base .. E2f5, NEW to \in Base .. E2f5
    PROVE  /\ IsSequence(DowngradePath(from, to))
           /\ to < from => DowngradePath(from, to) = StepDown(from) \o DowngradePath(from - 1, to)
           /\ from <= to => DowngradePath(from, to) = <<>>
<1> USE DEF Base, B0ba, B449, C692, D1a7, E2f5
<1> DEFINE Undone(f) == [i \in 1 .. 5 |-> IF to < 6 - i /\ 6 - i <= f THEN StepDown(6 - i)
                                                                     ELSE <<>>]
           Whole(X)  == (((X[1] \o X[2]) \o X[3]) \o X[4]) \o X[5]
<1>1. IsSequence(<<>>) /\ <<>> \o <<>> = <<>>
  BY DEF IsSequence
<1>2. \A r \in 1 .. 5 : IsSequence(StepDown(r))
  <2> SUFFICES ASSUME NEW r \in 1 .. 5 PROVE IsSequence(StepDown(r))
    OBVIOUS
  <2>1. \A up \in BOOLEAN : IsSequence(Way(up, r))
    BY WaySequence
  <2>2. Way(FALSE, r) = StepDown(r)
    BY DEF Way
  <2> QED BY <2>1, <2>2
<1>3. \A f : \A i \in 1 .. 5 : IsSequence(Undone(f)[i])
  <2> SUFFICES ASSUME NEW f, NEW i \in 1 .. 5 PROVE IsSequence(Undone(f)[i])
    OBVIOUS
  <2>1. IsSequence(StepDown(6 - i))
    BY <1>2
  <2> QED BY <1>1, <2>1
<1>4. ASSUME NEW f PROVE DowngradePath(f, to) = Whole(Undone(f))
  <2> DEFINE X(r) == IF to < r /\ r <= f THEN StepDown(r) ELSE <<>>
  <2>1. DowngradePath(f, to) = (((X(5) \o X(4)) \o X(3)) \o X(2)) \o X(1)
    BY DEF DowngradePath
  <2>2. \A i \in 1 .. 5 : Undone(f)[i] = X(6 - i)
    OBVIOUS
  <2> HIDE DEF X, Undone
  <2>3. /\ Undone(f)[1] = X(6 - 1) /\ Undone(f)[2] = X(6 - 2) /\ Undone(f)[3] = X(6 - 3)
        /\ Undone(f)[4] = X(6 - 4) /\ Undone(f)[5] = X(6 - 5)
    BY <2>2
  <2>4. 6 - 1 = 5 /\ 6 - 2 = 4 /\ 6 - 3 = 3 /\ 6 - 4 = 2 /\ 6 - 5 = 1
    OBVIOUS
  <2> QED BY <2>1, <2>3, <2>4
<1>5. \A f : \A i \in 1 .. 5 : ~(6 - i <= f) \/ 6 - i <= to => Undone(f)[i] = <<>>
  OBVIOUS
<1>6. to < from => Undone(from)[6 - from] = StepDown(from)
  <2>1. 6 - (6 - from) = from
    OBVIOUS
  <2> QED BY <2>1
<1>7. \A i \in 1 .. 5 : 6 - from < i => Undone(from)[i] = Undone(from - 1)[i]
  OBVIOUS
<1> HIDE DEF Undone
<1>8. IsSequence(DowngradePath(from, to))
  BY <1>3, <1>4, FiveSequences
<1>9. from <= to => DowngradePath(from, to) = <<>>
  <2> SUFFICES ASSUME from <= to PROVE DowngradePath(from, to) = <<>>
    OBVIOUS
  <2>1. \A i \in 1 .. 5 : Undone(from)[i] = <<>>
    BY <1>5
  <2>2. Undone(from)[1] = <<>> /\ Undone(from)[2] = <<>> /\ Undone(from)[3] = <<>>
        /\ Undone(from)[4] = <<>> /\ Undone(from)[5] = <<>>
    BY <2>1
  <2> QED BY <1>1, <1>4, <2>2
<1>10. ASSUME to < from
       PROVE  DowngradePath(from, to) = StepDown(from) \o DowngradePath(from - 1, to)
  <2> DEFINE next == 6 - from
             s    == StepDown(from)
             X    == Undone(from)
             Y    == Undone(from - 1)
  <2>1. next \in 1 .. 5 /\ X[next] = s /\ IsSequence(s)
    BY <1>2, <1>6, <1>10
  <2>2. \A i \in 1 .. 5 : next < i => X[i] = Y[i]
    BY <1>7
  <2>3. \A i \in 1 .. 5 : i < next => X[i] = <<>>
    BY <1>5
  <2>4. \A i \in 1 .. 5 : i <= next => Y[i] = <<>>
    BY <1>5
  <2>5. \A i \in 1 .. 5 : IsSequence(Y[i])
    BY <1>3
  <2>6. DowngradePath(from, to) = Whole(X) /\ DowngradePath(from - 1, to) = Whole(Y)
    BY <1>4
  <2> HIDE DEF next, s, X, Y
  <2>7. Whole(X) = s \o Whole(Y)
    BY <2>1, <2>2, <2>3, <2>4, <2>5, OneOfFive
  <2> HIDE DEF Whole
  <2> QED BY <2>6, <2>7 DEF s
<1> QED BY <1>8, <1>9, <1>10

-----------------------------------------------------------------------------
(* What one content of a database keeps of another.                        *)

\* u has the rows of t with the values they had, in the columns both have; and
\* where no column may go (grow), all of its columns.
Holds(grow, t, u) ==
    /\ grow => t.cols \subseteq u.cols
    /\ \A i \in DOMAIN t.rows :
          /\ i \in DOMAIN u.rows
          /\ \A c \in t.cols \cap u.cols : t.rows[i][c] \in {None, u.rows[i][c]}

\* With no column gone this is transitive; else it is what Keeps says.
Holding(grow, d, e) ==
    \A t \in DataTables \cap DOMAIN d.tables :
        t \in DOMAIN e.tables /\ Holds(grow, d.tables[t], e.tables[t])

LEMMA HoldsItself == ASSUME NEW grow \in BOOLEAN, NEW t PROVE Holds(grow, t, t)
BY DEF Holds

LEMMA HoldingItself == ASSUME NEW grow \in BOOLEAN, NEW d PROVE Holding(grow, d, d)
BY HoldsItself DEF Holding

LEMMA HoldingLess ==
    ASSUME NEW grow \in BOOLEAN, NEW d, NEW e, Holding(TRUE, d, e)
    PROVE  Holding(grow, d, e)
BY DEF Holding, Holds

LEMMA HoldingKeeps ==
    ASSUME NEW grow \in BOOLEAN, NEW d, NEW e, Holding(grow, d, e)
    PROVE  Keeps(d, e)
BY DEF Holding, Holds, Keeps, Has

LEMMA AddsHolding ==
    ASSUME NEW grow \in BOOLEAN, NEW d, NEW e, Adds(d, e) PROVE Holding(grow, d, e)
BY DEF Adds, Holding, Holds

LEMMA HoldsTransitive ==
    ASSUME NEW grow \in BOOLEAN, NEW t, NEW u, NEW v,
           Holds(TRUE, t, u), Holds(grow, u, v)
    PROVE  Holds(grow, t, v)
<1>1. t.cols \subseteq u.cols
  BY DEF Holds
<1>2. grow => t.cols \subseteq v.cols
  BY <1>1 DEF Holds
<1>3. ASSUME NEW i \in DOMAIN t.rows
      PROVE  /\ i \in DOMAIN v.rows
             /\ \A c \in t.cols \cap v.cols : t.rows[i][c] \in {None, v.rows[i][c]}
  <2>1. i \in DOMAIN u.rows /\ i \in DOMAIN v.rows
    BY <1>3 DEF Holds
  <2>2. ASSUME NEW c \in t.cols \cap v.cols PROVE t.rows[i][c] \in {None, v.rows[i][c]}
    <3>1. c \in t.cols \cap u.cols /\ c \in u.cols \cap v.cols
      BY <1>1
    <3>2. t.rows[i][c] \in {None, u.rows[i][c]}
      BY <3>1 DEF Holds
    <3>3. u.rows[i][c] \in {None, v.rows[i][c]}
      BY <2>1, <3>1 DEF Holds
    <3> QED BY <3>2, <3>3
  <2> QED BY <2>1, <2>2
<1> QED BY <1>2, <1>3 DEF Holds

LEMMA HoldingTransitive ==
    ASSUME NEW grow \in BOOLEAN, NEW d, NEW e, NEW f,
           Holding(TRUE, d, e), Holding(grow, e, f)
    PROVE  Holding(grow, d, f)
<1> SUFFICES ASSUME NEW t \in DataTables \cap DOMAIN d.tables
             PROVE  t \in DOMAIN f.tables /\ Holds(grow, d.tables[t], f.tables[t])
  BY DEF Holding
<1>1. t \in DataTables \cap DOMAIN e.tables /\ Holds(TRUE, d.tables[t], e.tables[t])
  BY DEF Holding
<1>2. t \in DOMAIN f.tables /\ Holds(grow, e.tables[t], f.tables[t])
  BY <1>1 DEF Holding
<1> QED BY <1>1, <1>2, HoldsTransitive

\* What users add does not take away either.
LEMMA HoldsAdded ==
    ASSUME NEW grow \in BOOLEAN, NEW t, NEW u, NEW v, Holds(grow, t, u),
           v.cols = u.cols,
           \A i \in DOMAIN u.rows :
               /\ i \in DOMAIN v.rows
               /\ \A c \in u.cols : u.rows[i][c] \in {None, v.rows[i][c]}
    PROVE  Holds(grow, t, v)
<1>1. grow => t.cols \subseteq v.cols
  BY DEF Holds
<1>2. ASSUME NEW i \in DOMAIN t.rows
      PROVE  /\ i \in DOMAIN v.rows
             /\ \A c \in t.cols \cap v.cols : t.rows[i][c] \in {None, v.rows[i][c]}
  <2>1. /\ i \in DOMAIN u.rows
        /\ \A c \in t.cols \cap u.cols : t.rows[i][c] \in {None, u.rows[i][c]}
    BY DEF Holds
  <2> QED BY <2>1
<1> QED BY <1>1, <1>2 DEF Holds

LEMMA HoldingAdded ==
    ASSUME NEW grow \in BOOLEAN, NEW d, NEW e, NEW f, Holding(grow, d, e), Adds(e, f)
    PROVE  Holding(grow, d, f)
<1> SUFFICES ASSUME NEW t \in DataTables \cap DOMAIN d.tables
             PROVE  t \in DOMAIN f.tables /\ Holds(grow, d.tables[t], f.tables[t])
  BY DEF Holding
<1>1. t \in DOMAIN e.tables /\ Holds(grow, d.tables[t], e.tables[t])
  BY DEF Holding
<1>2. /\ t \in DOMAIN f.tables /\ f.tables[t].cols = e.tables[t].cols
      /\ \A i \in DOMAIN e.tables[t].rows :
            /\ i \in DOMAIN f.tables[t].rows
            /\ \A c \in e.tables[t].cols :
                  e.tables[t].rows[i][c] \in {None, f.tables[t].rows[i][c]}
  BY <1>1 DEF Adds
<1> QED BY <1>1, <1>2, HoldsAdded

-----------------------------------------------------------------------------
(* What a statement makes of a database.                                   *)

\* The tables behind a statement.
Changed(tables, name, t) == [x \in DOMAIN tables |-> IF x = name THEN t ELSE tables[x]]

TablesBehind(s, d, tables) ==
    /\ s.op = "create" => tables = Bind(d.tables, s.name, s.table)
    /\ s.op = "createLike" =>
          tables = Bind(d.tables, Tmp[s.name], Altered(d.tables[s.name], s))
    /\ s.op = "addColumn" =>
          tables = Changed(d.tables, s.name, Widened(d.tables[s.name], s.col))
    /\ s.op = "copy" =>
          tables = Changed(d.tables, s.to,
                           TableWith(d.tables[s.to], Copied(d, s.name, s.to)))
    /\ s.op = "drop" => tables = Unbind(d.tables, {s.name})
    /\ s.op = "rename" =>
          tables = Unbind(Bind(d.tables, s.to, d.tables[s.name]), {s.name})
    /\ s.op = "replace" =>
          tables = Unbind(Bind(d.tables, s.name, d.tables[Tmp[s.name]]), {Tmp[s.name]})
    /\ s.op \in {"createIndex", "dropIndex", "setVersion", "foreignKeys", "commit"} =>
          tables = d.tables

\* e is a record of the three parts of a database.
IsContent(e) == e = [version |-> e.version, tables |-> e.tables, indexes |-> e.indexes]

LEMMA EffectIs ==
    ASSUME NEW s, s.op \in Operations, NEW d, IsDatabase(d),
           s.op = "addColumn" => s.name \in DOMAIN d.tables,
           s.op = "copy" => s.to \in DOMAIN d.tables
    PROVE  LET e == Effect(s, d)
           IN  /\ IsContent(e)
               /\ e.version = IF s.op = "setVersion" THEN s.revision ELSE d.version
               /\ TablesBehind(s, d, e.tables)
<1> DEFINE e == Effect(s, d)
           Shown(op) == /\ IsContent(e)
                        /\ e.version = IF s.op = "setVersion" THEN s.revision ELSE d.version
                        /\ TablesBehind(s, d, e.tables)
<1>1. d = [version |-> d.version, tables |-> d.tables, indexes |-> d.indexes]
      /\ d.tables = [t \in DOMAIN d.tables |-> d.tables[t]]
      /\ \A t \in DOMAIN d.tables : IsTable(d.tables[t])
  BY DEF IsDatabase
<1>2. CASE s.op = "create"
  BY <1>1, <1>2 DEF Effect, IsContent, TablesBehind
<1>3. CASE s.op = "createLike"
  BY <1>1, <1>3 DEF Effect, IsContent, TablesBehind
<1>4. CASE s.op = "addColumn"
  <2> DEFINE new == Widened(d.tables[s.name], s.col)
  <2>1. e = [d EXCEPT !.tables = [d.tables EXCEPT ![s.name] = new]]
    BY <1>4 DEF Effect
  <2> HIDE DEF new, e
  <2>2. [d.tables EXCEPT ![s.name] = new] = Changed(d.tables, s.name, new)
    BY <1>1 DEF Changed
  <2>3. /\ e.tables = Changed(d.tables, s.name, new) /\ e.version = d.version
        /\ IsContent(e)
    BY <1>1, <2>1, <2>2 DEF IsContent
  <2> QED BY <1>4, <2>3 DEF TablesBehind, e, new
<1>5. CASE s.op = "copy"
  <2> DEFINE old  == d.tables[s.to]
             rows == Copied(d, s.name, s.to)
             new  == [old EXCEPT !.rows = rows]
  <2>1. e = [d EXCEPT !.tables = [d.tables EXCEPT ![s.to] = new]]
    BY <1>5 DEF Effect
  <2> HIDE DEF rows
  <2>2. new = TableWith(old, rows)
    <3>1. old = [cols |-> old.cols, notNull |-> old.notNull, refs |-> old.refs,
                 rows |-> old.rows]
      BY <1>1, <1>5 DEF IsTable
    <3> HIDE DEF old
    <3> QED BY <3>1 DEF TableWith
  <2> HIDE DEF new, e
  <2>3. [d.tables EXCEPT ![s.to] = new] = Changed(d.tables, s.to, new)
    BY <1>1 DEF Changed
  <2>4. /\ e.tables = Changed(d.tables, s.to, new) /\ e.version = d.version
        /\ IsContent(e)
    BY <1>1, <2>1, <2>3 DEF IsContent
  <2> QED BY <1>5, <2>2, <2>4 DEF TablesBehind, e, rows
<1>6. CASE s.op \in {"drop", "rename", "replace"}
  BY <1>1, <1>6 DEF Effect, IsContent, TablesBehind
<1>7. CASE s.op \in {"createIndex", "dropIndex", "setVersion", "foreignKeys", "commit"}
  BY <1>1, <1>7 DEF Effect, IsContent, TablesBehind
<1> QED BY <1>2, <1>3, <1>4, <1>5, <1>6, <1>7 DEF Operations

\* What a statement needs to find so that the result is a database.
Ready(s, d) ==
    /\ s.op \in Operations
    /\ s.op = "create" => IsTable(s.table)
    /\ s.op = "addColumn" => s.name \in DOMAIN d.tables
    /\ s.op = "copy" => s.name \in DOMAIN d.tables /\ s.to \in DOMAIN d.tables
    /\ s.op = "rename" => s.name \in DOMAIN d.tables
    /\ s.op = "replace" => Tmp[s.name] \in DOMAIN d.tables
    /\ s.op = "setVersion" => s.revision \in Base .. E2f5

LEMMA WidenedShape == ASSUME NEW t, IsTable(t), NEW col PROVE IsTable(Widened(t, col))
<1> DEFINE u == Widened(t, col)
<1>1. /\ u = [cols |-> t.cols \cup {col}, notNull |-> t.notNull, refs |-> t.refs,
              rows |-> u.rows]
      /\ u.cols = t.cols \cup {col}
      /\ u.rows = [i \in DOMAIN t.rows |-> Bind(t.rows[i], col, None)]
  BY DEF Widened
<1>2. /\ \A i \in DOMAIN t.rows : t.rows[i] = [c \in t.cols |-> t.rows[i][c]]
      /\ DOMAIN t.rows \subseteq Nat
  BY DEF IsTable
<1>3. \A i \in DOMAIN t.rows :
          LET row == Bind(t.rows[i], col, None)
          IN  row = [c \in t.cols \cup {col} |-> row[c]]
  BY <1>2 DEF Bind
<1> HIDE DEF u
<1>4. \A i \in DOMAIN t.rows : u.rows[i] = [c \in u.cols |-> u.rows[i][c]]
  BY <1>1, <1>3
<1>5. u.rows = [i \in DOMAIN u.rows |-> [c \in u.cols |-> u.rows[i][c]]]
  BY <1>1, <1>4
<1>6. u = [cols |-> u.cols, notNull |-> u.notNull, refs |-> u.refs, rows |-> u.rows]
  BY <1>1
<1>7. IsTable(u)
  <2>1. DOMAIN u.rows = DOMAIN t.rows
    BY <1>1
  <2> QED BY <1>2, <1>5, <1>6, <2>1 DEF IsTable
<1> QED BY <1>7 DEF u

LEMMA CopiedShape ==
    ASSUME NEW d, NEW name, NEW to, IsTable(d.tables[name])
    PROVE  IsTable(TableWith(d.tables[to], Copied(d, name, to)))
<1> DEFINE t == d.tables[to]
           u == TableWith(t, Copied(d, name, to))
           V(i, c) == IF c \in d.tables[name].cols THEN d.tables[name].rows[i][c] ELSE None
<1>1. Copied(d, name, to) = [i \in DOMAIN d.tables[name].rows |-> [c \in t.cols |-> V(i, c)]]
  BY DEF Copied
<1>2. /\ u = [cols |-> t.cols, notNull |-> t.notNull, refs |-> t.refs, rows |-> u.rows]
      /\ u.cols = t.cols /\ u.rows = Copied(d, name, to)
  BY DEF TableWith
<1>5. DOMAIN Copied(d, name, to) \subseteq Nat
  BY DEF Copied, IsTable
<1> HIDE DEF u, V
<1>3. u.rows = [i \in DOMAIN u.rows |-> [c \in u.cols |-> u.rows[i][c]]]
  BY <1>1, <1>2
<1>4. u = [cols |-> u.cols, notNull |-> u.notNull, refs |-> u.refs, rows |-> u.rows]
  BY <1>2
<1> QED BY <1>2, <1>3, <1>4, <1>5 DEF IsTable, u

\* Tables, each with its shape.
AreTables(tables) ==
    /\ tables = [t \in DOMAIN tables |-> tables[t]]
    /\ \A t \in DOMAIN tables : IsTable(tables[t])

LEMMA BindTables ==
    ASSUME NEW tables, AreTables(tables), NEW name, NEW t, IsTable(t)
    PROVE  AreTables(Bind(tables, name, t))
BY DEF AreTables, Bind

LEMMA UnbindTables ==
    ASSUME NEW tables, AreTables(tables), NEW names
    PROVE  AreTables(Unbind(tables, names))
BY DEF AreTables, Unbind

LEMMA ChangedTables ==
    ASSUME NEW tables, AreTables(tables), NEW name, NEW t, IsTable(t)
    PROVE  AreTables(Changed(tables, name, t))
BY DEF AreTables, Changed

LEMMA EffectShape ==
    ASSUME NEW s, NEW d, IsDatabase(d), Ready(s, d)
    PROVE  IsDatabase(Effect(s, d))
<1> DEFINE e == Effect(s, d)
           tables == d.tables
<1>1. /\ IsContent(e)
      /\ e.version = IF s.op = "setVersion" THEN s.revision ELSE d.version
      /\ TablesBehind(s, d, e.tables)
  BY EffectIs DEF Ready
<1>2. e.version \in Base .. E2f5
  BY <1>1 DEF Ready, IsDatabase
<1>3. AreTables(tables)
  BY DEF IsDatabase, AreTables
<1> HIDE DEF e
<1>4. AreTables(e.tables)
  <2>1. CASE s.op = "create"
    BY <1>1, <1>3, <2>1, BindTables DEF TablesBehind, Ready
  <2>2. CASE s.op = "createLike"
    <3>1. IsTable(Altered(tables[s.name], s))
      BY TableShape DEF Altered
    <3> QED BY <1>1, <1>3, <2>2, <3>1, BindTables DEF TablesBehind
  <2>3. CASE s.op = "addColumn"
    <3>1. IsTable(Widened(tables[s.name], s.col))
      BY <1>3, <2>3, WidenedShape DEF Ready, AreTables
    <3> QED BY <1>1, <1>3, <2>3, <3>1, ChangedTables DEF TablesBehind
  <2>4. CASE s.op = "copy"
    <3>1. IsTable(TableWith(tables[s.to], Copied(d, s.name, s.to)))
      BY <1>3, <2>4, CopiedShape DEF Ready, AreTables
    <3> QED BY <1>1, <1>3, <2>4, <3>1, ChangedTables DEF TablesBehind
  <2>5. CASE s.op = "drop"
    BY <1>1, <1>3, <2>5, UnbindTables DEF TablesBehind
  <2>6. CASE s.op = "rename"
    <3>1. AreTables(Bind(tables, s.to, tables[s.name]))
      BY <1>3, <2>6, BindTables DEF Ready, AreTables
    <3> QED BY <1>1, <2>6, <3>1, UnbindTables DEF TablesBehind
  <2>7. CASE s.op = "replace"
    <3>1. AreTables(Bind(tables, s.name, tables[Tmp[s.name]]))
      BY <1>3, <2>7, BindTables DEF Ready, AreTables
    <3> QED BY <1>1, <2>7, <3>1, UnbindTables DEF TablesBehind
  <2>8. CASE s.op \in {"createIndex", "dropIndex", "setVersion", "foreignKeys", "commit"}
    BY <1>1, <1>3, <2>8 DEF TablesBehind
  <2> QED BY <2>1, <2>2, <2>3, <2>4, <2>5, <2>6, <2>7, <2>8 DEF Ready, Operations
<1> QED BY <1>1, <1>2, <1>4 DEF IsDatabase, AreTables, IsContent, e

-----------------------------------------------------------------------------
(* What a transaction carries.                                             *)

\* The tables that the first k statements of s have copied.
Moved(s, k) == {s[i].name : i \in {j \in 1 .. k : s[j].op = "copy"}}

\* What the open transaction has made of the file f: a table that is gone comes
\* back at the next statement, one that no statement has copied is as it was.
Carried(grow, f, d, s, k) ==
    \A t \in DataTables \cap DOMAIN f.tables :
        \/ k > 0 /\ s[k].op = "drop" /\ s[k].name = t
        \/ /\ t \in DOMAIN d.tables
           /\ Holds(grow, f.tables[t], d.tables[t])
           /\ t \notin Moved(s, k) => d.tables[t] = f.tables[t]

\* There is a table x that can take the place of n.
Replaces(safe, grow, f, d, n, x) ==
    /\ x \in DOMAIN d.tables
    /\ safe /\ n \in DOMAIN f.tables => Holds(grow, f.tables[n], d.tables[x])

\* What the k-th statement of s has made for the one behind it.
Made(safe, grow, f, d, s, k) ==
    k > 0 =>
        /\ s[k].op = "create" => s[k].name \in DOMAIN d.tables
        /\ s[k].op = "createLike" =>
              /\ s[k].name \in DOMAIN d.tables /\ Tmp[s[k].name] \in DOMAIN d.tables
              /\ grow => d.tables[s[k].name].cols \subseteq d.tables[Tmp[s[k].name]].cols
        /\ s[k].op = "copy" => Replaces(safe, grow, f, d, s[k].name, s[k].to)
        /\ s[k].op = "drop" /\ k > 1 /\ s[k - 1].op = "copy" =>
              Replaces(safe, grow, f, d, s[k - 1].name, s[k - 1].to)

LEMMA CarriedStep ==
    ASSUME NEW grow \in BOOLEAN, NEW s, Orderly(TRUE, grow, s),
           NEW k \in Nat, k < Len(s), NEW f, NEW d, NEW e, NEW fk,
           s[k + 1].op # "addColumn", Possible(s[k + 1], d, fk),
           TablesBehind(s[k + 1], d, e.tables),
           Carried(grow, f, d, s, k), Made(TRUE, grow, f, d, s, k)
    PROVE  Carried(grow, f, e, s, k + 1)
<1> DEFINE j == k + 1
           x == s[j]
           D == d.tables
           E == e.tables
<1>1. /\ k > 0 => k \in 1 .. Len(s) /\ j - 1 = k
      /\ k > 1 => k - 1 \in 1 .. Len(s) /\ j - 2 = k - 1
      /\ j \in 1 .. Len(s) /\ j > 0 /\ (j > 1 => k > 0) /\ (j > 2 => k > 1)
  BY DEF Orderly, IsSequence
<1>2. InPlace(TRUE, grow, s, j) /\ (k > 0 => InPlace(TRUE, grow, s, k))
  BY <1>1 DEF Orderly
<1>3. Moved(s, k) \subseteq Moved(s, j)
  BY DEF Moved
<1>4. ASSUME x.op # "rename" PROVE ~(k > 0 /\ s[k].op = "drop")
  BY <1>2, <1>4 DEF InPlace
<1> SUFFICES ASSUME NEW t \in DataTables \cap DOMAIN f.tables
             PROVE  \/ j > 0 /\ s[j].op = "drop" /\ s[j].name = t
                    \/ /\ t \in DOMAIN E
                       /\ Holds(grow, f.tables[t], E[t])
                       /\ t \notin Moved(s, j) => E[t] = f.tables[t]
  BY DEF Carried
<1>5. ASSUME x.op # "rename", t \in DOMAIN E, t \in DOMAIN D => E[t] = D[t]
      PROVE  /\ Holds(grow, f.tables[t], E[t])
             /\ t \notin Moved(s, j) => E[t] = f.tables[t]
  <2>1. /\ t \in DOMAIN D /\ Holds(grow, f.tables[t], D[t])
        /\ t \notin Moved(s, k) => D[t] = f.tables[t]
    BY <1>4, <1>5 DEF Carried
  <2> QED BY <1>3, <1>5, <2>1
<1>6. x.op # "rename" => t \in DOMAIN D
  BY <1>4 DEF Carried
<1>7. InPlace(TRUE, grow, s, j) /\ TablesBehind(x, d, E) /\ Possible(x, d, fk)
  BY <1>2
<1> HIDE DEF j, x, E, D
<1>8. CASE x.op = "create"
  <2>1. E = Bind(D, x.name, x.table) /\ x.name \notin DOMAIN D
    BY <1>7, <1>8 DEF TablesBehind, Possible, Has, D
  <2>2. t \in DOMAIN E /\ (t \in DOMAIN D => E[t] = D[t])
    BY <1>6, <1>8, <2>1 DEF Bind
  <2> QED BY <1>5, <1>8, <2>2
<1>9. CASE x.op = "createLike"
  <2>1. E = Bind(D, Tmp[x.name], Altered(D[x.name], x)) /\ Tmp[x.name] \notin DOMAIN D
    BY <1>7, <1>9 DEF TablesBehind, Possible, Has, D
  <2>2. t \in DOMAIN E /\ (t \in DOMAIN D => E[t] = D[t])
    BY <1>6, <1>9, <2>1 DEF Bind
  <2> QED BY <1>5, <1>9, <2>2
<1>10. CASE x.op = "copy"
  <2>1. E = Changed(D, x.to, TableWith(D[x.to], Copied(d, x.name, x.to)))
        /\ x.to \notin DataTables
    BY <1>7, <1>10 DEF TablesBehind, InPlace, x, D
  <2>2. t \in DOMAIN E /\ (t \in DOMAIN D => E[t] = D[t])
    BY <1>6, <1>10, <2>1 DEF Changed
  <2> QED BY <1>5, <1>10, <2>2
<1>11. CASE x.op = "drop"
  <2>1. E = Unbind(D, {x.name})
    BY <1>7, <1>11 DEF TablesBehind, D
  <2>2. t # x.name => t \in DOMAIN E /\ (t \in DOMAIN D => E[t] = D[t])
    BY <1>6, <1>11, <2>1 DEF Unbind
  <2>3. t = x.name => j > 0 /\ s[j].op = "drop" /\ s[j].name = t
    BY <1>1, <1>11 DEF x
  <2> QED BY <1>5, <1>11, <2>2, <2>3
<1>12. CASE x.op = "rename"
  <2>1. E = Unbind(Bind(D, x.to, D[x.name]), {x.name})
    BY <1>7, <1>12 DEF TablesBehind, D
  <2>2. /\ k > 1 /\ s[k].op = "drop" /\ s[k].name = x.to
        /\ s[k - 1].op = "copy" /\ s[k - 1].name = x.to /\ s[k - 1].to = x.name
    BY <1>1, <1>7, <1>12 DEF InPlace, x
  <2>3. InPlace(TRUE, grow, s, k - 1)
    BY <1>1, <2>2 DEF Orderly
  <2>4. x.name \notin DataTables /\ x.name # t
    BY <2>2, <2>3 DEF InPlace
  <2>5. Replaces(TRUE, grow, f, d, x.to, x.name)
    <3>1. Replaces(TRUE, grow, f, d, s[k - 1].name, s[k - 1].to)
      <4>1. k > 0 /\ k > 1 /\ s[k].op = "drop" /\ s[k - 1].op = "copy"
        BY <2>2
      <4> HIDE <2>2
      <4> QED BY <4>1 DEF Made
    <3> QED BY <2>2, <3>1
  <2>6. CASE t = x.to
    <3>1. t \in DOMAIN E /\ E[t] = D[x.name]
      BY <2>1, <2>4, <2>6 DEF Bind, Unbind
    <3>2. Holds(grow, f.tables[t], D[x.name])
      BY <2>5, <2>6 DEF Replaces, D
    <3>3. t \in Moved(s, j)
      <4>1. t \in Moved(s, k)
        BY <1>1, <2>2, <2>6 DEF Moved
      <4> QED BY <1>3, <4>1
    <3> QED BY <3>1, <3>2, <3>3
  <2>7. CASE t # x.to
    <3>1. /\ t \in DOMAIN D /\ Holds(grow, f.tables[t], D[t])
          /\ t \notin Moved(s, k) => D[t] = f.tables[t]
      BY <2>2, <2>7 DEF Carried, D
    <3>2. t \in DOMAIN E /\ E[t] = D[t]
      BY <2>1, <2>4, <2>7, <3>1 DEF Bind, Unbind
    <3> QED BY <1>3, <3>1, <3>2
  <2> QED BY <2>6, <2>7
<1>13. CASE x.op = "replace"
  <2>1. E = Unbind(Bind(D, x.name, D[Tmp[x.name]]), {Tmp[x.name]})
    BY <1>7, <1>13 DEF TablesBehind, D
  <2>2. /\ k > 0 /\ s[k].op = "copy" /\ s[k].name = x.name /\ s[k].to = Tmp[x.name]
    BY <1>1, <1>7, <1>13 DEF InPlace, x
  <2>3. Tmp[x.name] \notin DataTables /\ Tmp[x.name] # t
    BY <1>2, <2>2 DEF InPlace
  <2>4. Replaces(TRUE, grow, f, d, x.name, Tmp[x.name])
    BY <2>2 DEF Made
  <2>5. CASE t = x.name
    <3>1. t \in DOMAIN E /\ E[t] = D[Tmp[x.name]]
      BY <2>1, <2>3, <2>5 DEF Bind, Unbind
    <3>2. Holds(grow, f.tables[t], D[Tmp[x.name]])
      BY <2>4, <2>5 DEF Replaces, D
    <3>3. t \in Moved(s, j)
      <4>1. t \in Moved(s, k)
        BY <1>1, <2>2, <2>5 DEF Moved
      <4> QED BY <1>3, <4>1
    <3> QED BY <3>1, <3>2, <3>3
  <2>6. CASE t # x.name
    <3>1. t \in DOMAIN E /\ (t \in DOMAIN D => E[t] = D[t])
      BY <1>6, <1>13, <2>1, <2>3, <2>6 DEF Bind, Unbind
    <3> QED BY <1>5, <1>13, <3>1
  <2> QED BY <2>5, <2>6
<1>14. CASE x.op \in {"createIndex", "dropIndex", "setVersion", "foreignKeys", "commit"}
  <2>1. E = D
    BY <1>7, <1>14 DEF TablesBehind, D
  <2>2. t \in DOMAIN E
    BY <1>6, <1>14, <2>1
  <2> QED BY <1>5, <1>14, <2>1, <2>2
<1>15. x.op \in Operations /\ x.op # "addColumn"
  BY <1>7 DEF InPlace, x, j
<1> QED BY <1>8, <1>9, <1>10, <1>11, <1>12, <1>13, <1>14, <1>15 DEF Operations, j, x, E, D

LEMMA CopiedHolds ==
    ASSUME NEW grow \in BOOLEAN, NEW d, NEW name, NEW to,
           grow => d.tables[name].cols \subseteq d.tables[to].cols
    PROVE  Holds(grow, d.tables[name], TableWith(d.tables[to], Copied(d, name, to)))
<1> DEFINE t == d.tables[name]
           u == TableWith(d.tables[to], Copied(d, name, to))
<1>1. u.cols = d.tables[to].cols /\ u.rows = Copied(d, name, to)
  BY DEF TableWith
<1>2. Copied(d, name, to) = [i \in DOMAIN t.rows |->
          [c \in d.tables[to].cols |-> IF c \in t.cols THEN t.rows[i][c] ELSE None]]
  BY DEF Copied
<1> HIDE DEF u, t
<1>3. \A i \in DOMAIN t.rows :
          /\ i \in DOMAIN u.rows
          /\ \A c \in t.cols \cap u.cols : u.rows[i][c] = t.rows[i][c]
  BY <1>1, <1>2
<1>4. grow => t.cols \subseteq u.cols
  BY <1>1 DEF t
<1>5. Holds(grow, t, u)
  BY <1>3, <1>4 DEF Holds
<1> QED BY <1>5 DEF t, u

LEMMA MadeStep ==
    ASSUME NEW safe \in BOOLEAN, NEW grow \in BOOLEAN, NEW s, Orderly(safe, grow, s),
           NEW k \in Nat, k < Len(s), NEW f, NEW d, NEW e, NEW fk,
           Possible(s[k + 1], d, fk), TablesBehind(s[k + 1], d, e.tables),
           safe => Orderly(TRUE, grow, s) /\ Carried(grow, f, d, s, k),
           Made(safe, grow, f, d, s, k)
    PROVE  Made(safe, grow, f, e, s, k + 1)
<1> DEFINE j == k + 1
           x == s[j]
           D == d.tables
           E == e.tables
<1>1. /\ k > 0 => k \in 1 .. Len(s) /\ j - 1 = k
      /\ j \in 1 .. Len(s) /\ j > 0 /\ (j > 1 => k > 0)
      /\ \A i \in 1 .. k : i \in 1 .. Len(s) /\ i < j
  BY DEF Orderly, IsSequence
<1>2. InPlace(safe, grow, s, j)
  BY <1>1 DEF Orderly
<1>3. InPlace(safe, grow, s, j) /\ TablesBehind(x, d, E) /\ Possible(x, d, fk)
  BY <1>2
<1>4. j - 1 = k
  OBVIOUS
<1> HIDE DEF j, x, E, D
<1>5. CASE x.op = "create"
  <2>1. E = Bind(D, x.name, x.table)
    BY <1>3, <1>5 DEF TablesBehind, D
  <2>2. x.name \in DOMAIN E
    BY <2>1 DEF Bind
  <2>3. Made(safe, grow, f, e, s, j)
    BY <1>5, <2>2 DEF Made, x, E
  <2> QED BY <2>3 DEF j
<1>6. CASE x.op = "createLike"
  <2>1. E = Bind(D, Tmp[x.name], Altered(D[x.name], x)) /\ Tmp[x.name] \notin DOMAIN D
        /\ x.name \in DOMAIN D
    BY <1>3, <1>6 DEF TablesBehind, Possible, Has, D
  <2>2. /\ x.name \in DOMAIN E /\ Tmp[x.name] \in DOMAIN E
        /\ E[x.name] = D[x.name] /\ E[Tmp[x.name]] = Altered(D[x.name], x)
    BY <2>1 DEF Bind
  <2>3. grow => x.dropped = {}
    BY <1>3, <1>6 DEF InPlace, x
  <2>4. grow => E[x.name].cols \subseteq E[Tmp[x.name]].cols
    BY <2>2, <2>3 DEF Altered, Table
  <2>5. Made(safe, grow, f, e, s, j)
    BY <1>6, <2>2, <2>4 DEF Made, x, E
  <2> QED BY <2>5 DEF j
<1>7. CASE x.op = "copy"
  <2> DEFINE u == TableWith(D[x.to], Copied(d, x.name, x.to))
  <2>1. E = Changed(D, x.to, u) /\ x.to \notin DataTables /\ x.name \in DataTables
        /\ x.name \in DOMAIN D
    BY <1>3, <1>7 DEF TablesBehind, InPlace, Possible, Has, x, D
  <2>2. k > 0 /\ \/ s[k].op = "create" /\ s[k].name = x.to /\ ~grow
                 \/ s[k].op = "createLike" /\ s[k].name = x.name /\ Tmp[x.name] = x.to
    BY <1>1, <1>3, <1>4, <1>7 DEF InPlace, x
  <2>3. x.to \in DOMAIN D /\ (grow => D[x.name].cols \subseteq D[x.to].cols)
    BY <2>2 DEF Made, D
  <2>4. Holds(grow, D[x.name], u)
    BY <2>3, CopiedHolds DEF D
  <2> HIDE DEF u
  <2>5. x.to \in DOMAIN E /\ E[x.to] = u
    BY <2>1, <2>3 DEF Changed
  <2>6. ASSUME safe, x.name \in DOMAIN f.tables PROVE Holds(grow, f.tables[x.name], E[x.to])
    <3>1. x.name \notin Moved(s, k)
      <4>1. \A i \in 1 .. k : s[i].op = "copy" => s[i].name # x.name
        BY <1>1, <1>7 DEF Orderly, CopiesOnce, x
      <4> QED BY <4>1 DEF Moved
    <3>2. ~(k > 0 /\ s[k].op = "drop")
      BY <2>2
    <3>3. D[x.name] = f.tables[x.name]
      BY <2>1, <2>6, <3>1, <3>2 DEF Carried, D
    <3> QED BY <2>4, <2>5, <3>3
  <2>7. Replaces(safe, grow, f, e, x.name, x.to)
    BY <2>5, <2>6 DEF Replaces, E
  <2>8. Made(safe, grow, f, e, s, j)
    BY <1>7, <2>7 DEF Made, x
  <2> QED BY <2>8 DEF j
<1>8. CASE x.op = "drop"
  <2>1. E = Unbind(D, {x.name})
    BY <1>3, <1>8 DEF TablesBehind, D
  <2>2. ASSUME j > 1, s[k].op = "copy"
        PROVE  Replaces(safe, grow, f, e, s[k].name, s[k].to)
    <3>1. Replaces(safe, grow, f, d, s[k].name, s[k].to)
      BY <1>1, <2>2 DEF Made
    <3>2. s[k].to # x.name
      <4>1. s[k].name = x.name
        <5>1. safe
          BY <1>1, <2>2 DEF InPlace, Orderly
        <5> QED BY <1>3, <1>4, <1>8, <2>2, <5>1 DEF InPlace, x
      <4>2. s[k].name \in DataTables /\ s[k].to \notin DataTables
        BY <1>1, <2>2 DEF InPlace, Orderly
      <4> QED BY <4>1, <4>2
    <3>3. s[k].to \in DOMAIN E /\ E[s[k].to] = D[s[k].to]
      BY <2>1, <3>1, <3>2 DEF Unbind, Replaces, D
    <3> QED BY <3>1, <3>3 DEF Replaces, D, E
  <2>3. Made(safe, grow, f, e, s, j)
    BY <1>4, <1>8, <2>2 DEF Made, x
  <2> QED BY <2>3 DEF j
<1>9. CASE x.op \notin {"create", "createLike", "copy", "drop"}
  BY <1>9 DEF Made, x, j
<1> QED BY <1>5, <1>6, <1>7, <1>8, <1>9

LEMMA CarriedItself ==
    ASSUME NEW grow \in BOOLEAN, NEW f, NEW s, NEW k PROVE Carried(grow, f, f, s, k)
BY HoldsItself DEF Carried

\* What the statements before a transaction have made stays when rows are added,
\* and does not depend on what the file was.
LEMMA MadeStays ==
    ASSUME NEW safe \in BOOLEAN, NEW grow \in BOOLEAN, NEW s, NEW k \in Nat,
           NEW f, NEW d, Made(safe, grow, f, d, s, k),
           \A i \in 1 .. k : ~Begins(s[i]),
           NEW g, NEW e,
           \A t \in DOMAIN d.tables :
               t \in DOMAIN e.tables /\ e.tables[t].cols = d.tables[t].cols
    PROVE  Made(safe, grow, g, e, s, k)
<1> SUFFICES ASSUME k > 0 PROVE Made(safe, grow, g, e, s, k)
  BY DEF Made
<1>1. s[k].op # "copy" /\ (k > 1 => s[k - 1].op # "copy")
  <2>1. k \in 1 .. k /\ (k > 1 => k - 1 \in 1 .. k)
    OBVIOUS
  <2>2. ~Begins(s[k]) /\ (k > 1 => ~Begins(s[k - 1]))
    BY <2>1
  <2> QED BY <2>2 DEF Begins
<1>2. s[k].op = "create" => s[k].name \in DOMAIN e.tables
  BY DEF Made
<1>3. ASSUME s[k].op = "createLike"
      PROVE  /\ s[k].name \in DOMAIN e.tables /\ Tmp[s[k].name] \in DOMAIN e.tables
             /\ grow => e.tables[s[k].name].cols \subseteq e.tables[Tmp[s[k].name]].cols
  <2>1. /\ s[k].name \in DOMAIN d.tables /\ Tmp[s[k].name] \in DOMAIN d.tables
        /\ grow => d.tables[s[k].name].cols \subseteq d.tables[Tmp[s[k].name]].cols
    BY <1>3 DEF Made
  <2> QED BY <2>1
<1> QED BY <1>1, <1>2, <1>3 DEF Made

LEMMA WidenedHolds ==
    ASSUME NEW t, IsTable(t), NEW col, col \notin t.cols
    PROVE  Holds(TRUE, t, Widened(t, col))
<1> DEFINE u == Widened(t, col)
<1>1. u.cols = t.cols \cup {col} /\ u.rows = [i \in DOMAIN t.rows |-> Bind(t.rows[i], col, None)]
  BY DEF Widened
<1> HIDE DEF u
<1>2. ASSUME NEW i \in DOMAIN t.rows, NEW c \in t.cols
      PROVE  i \in DOMAIN u.rows /\ u.rows[i][c] = t.rows[i][c]
  <2>1. t.rows[i] = [x \in t.cols |-> t.rows[i][x]]
    BY DEF IsTable
  <2>2. c \in DOMAIN t.rows[i] /\ c # col
    BY <2>1
  <2>3. Bind(t.rows[i], col, None)[c] = t.rows[i][c]
    BY <2>2 DEF Bind
  <2> QED BY <1>1, <2>3
<1>3. Holds(TRUE, t, u)
  BY <1>1, <1>2 DEF Holds
<1> QED BY <1>3 DEF u

\* A statement that is committed at once keeps every row and every column.
LEMMA AutocommitHolding ==
    ASSUME NEW grow \in BOOLEAN, NEW s, Orderly(TRUE, grow, s),
           NEW k \in Nat, k < Len(s),
           \A i \in 1 .. k : ~Begins(s[i]), ~Begins(s[k + 1]),
           NEW d, NEW e, NEW fk, IsDatabase(d),
           Possible(s[k + 1], d, fk), TablesBehind(s[k + 1], d, e.tables)
    PROVE  Holding(TRUE, d, e)
<1> DEFINE j == k + 1
           x == s[j]
           D == d.tables
           E == e.tables
<1>1. j \in 1 .. Len(s) /\ j - 1 = k /\ j - 2 = k - 1
  BY DEF Orderly, IsSequence
<1>2. InPlace(TRUE, grow, s, j) /\ TablesBehind(x, d, E) /\ Possible(x, d, fk)
  BY <1>1 DEF Orderly
<1>3. x.op \notin {"copy", "setVersion"}
  BY DEF Begins
<1>4. (j > 1 => s[j - 1].op # "copy") /\ (j > 2 => s[j - 2].op # "copy")
  <2>1. (j > 1 => k \in 1 .. k) /\ (j > 2 => k - 1 \in 1 .. k)
    OBVIOUS
  <2>2. (j > 1 => ~Begins(s[k])) /\ (j > 2 => ~Begins(s[k - 1]))
    BY <2>1
  <2> QED BY <1>1, <2>2 DEF Begins
<1> HIDE DEF j, x, E, D
<1>5. x.op \notin {"drop", "rename", "replace"}
  BY <1>2, <1>4 DEF InPlace, x
<1>6. \A t \in DOMAIN D : IsTable(D[t])
  BY DEF IsDatabase, D
<1> SUFFICES ASSUME NEW t \in DataTables \cap DOMAIN D
             PROVE  t \in DOMAIN E /\ Holds(TRUE, D[t], E[t])
  BY DEF Holding, D, E
<1>7. ASSUME t \in DOMAIN E, E[t] = D[t] PROVE t \in DOMAIN E /\ Holds(TRUE, D[t], E[t])
  BY <1>7, HoldsItself
<1>8. CASE x.op = "create"
  <2>1. E = Bind(D, x.name, x.table) /\ x.name \notin DOMAIN D
    BY <1>2, <1>8 DEF TablesBehind, Possible, Has, D
  <2>2. t \in DOMAIN E /\ E[t] = D[t]
    BY <2>1 DEF Bind
  <2> QED BY <1>7, <2>2
<1>9. CASE x.op = "createLike"
  <2>1. E = Bind(D, Tmp[x.name], Altered(D[x.name], x)) /\ Tmp[x.name] \notin DOMAIN D
    BY <1>2, <1>9 DEF TablesBehind, Possible, Has, D
  <2>2. t \in DOMAIN E /\ E[t] = D[t]
    BY <2>1 DEF Bind
  <2> QED BY <1>7, <2>2
<1>10. CASE x.op = "addColumn"
  <2> DEFINE new == Widened(D[x.name], x.col)
  <2>1. /\ E = Changed(D, x.name, new) /\ x.name \in DOMAIN D
        /\ x.col \notin D[x.name].cols
    BY <1>2, <1>10 DEF TablesBehind, Possible, Has, D
  <2>2. Holds(TRUE, D[x.name], new)
    BY <1>6, <2>1, WidenedHolds
  <2> HIDE DEF new
  <2>3. t \in DOMAIN E /\ E[t] = IF t = x.name THEN new ELSE D[t]
    BY <2>1 DEF Changed
  <2> QED BY <1>7, <2>2, <2>3
<1>11. CASE x.op \in {"createIndex", "dropIndex", "foreignKeys", "commit"}
  <2>1. E = D
    BY <1>2, <1>11 DEF TablesBehind, D
  <2> QED BY <1>7, <2>1
<1>12. x.op \in Operations
  BY <1>2 DEF InPlace, x
<1> QED BY <1>3, <1>5, <1>8, <1>9, <1>10, <1>11, <1>12 DEF Operations

-----------------------------------------------------------------------------
(* Alembic in the middle of a revision.                                    *)

\* Only the way back to nothing loses rows, and only from E2f5 on columns.
Safe(up, r) == up \/ r > B0ba
Grow(up, r) == up /\ r < E2f5

\* The revision behind it.
Goal(up, r) == IF up THEN r ELSE r - 1

View(f, c) == IF c.tx THEN c.view ELSE f

\* On its way to a revision, the connection c to a file that holds f is behind the
\* k-th statement of revision r.
Amid(f, c, to, up, r, k) ==
    LET s == Way(up, r)
    IN  /\ k < Len(s)
        /\ c.todo = SubSeq(s, k + 1, Len(s)) \o Later(up, r, to)
        /\ c.tx <=> \E i \in 1 .. k : Begins(s[i])
        /\ IF up THEN r <= to /\ f.version = r - 1 ELSE to < r
        /\ IsDatabase(View(f, c))
        /\ k = Len(s) - 1 => View(f, c).version = Goal(up, r)
        /\ Safe(up, r) => Carried(Grow(up, r), f, View(f, c), s, k)
        /\ Made(Safe(up, r), Grow(up, r), f, View(f, c), s, k)

LEMMA SafeGrow ==
    ASSUME NEW up \in BOOLEAN, NEW r \in B0ba .. E2f5
    PROVE  /\ Safe(up, r) \in BOOLEAN /\ Grow(up, r) \in BOOLEAN
           /\ Revision(Safe(up, r), Grow(up, r), Goal(up, r), Way(up, r))
           /\ Safe(up, r) => Orderly(TRUE, Grow(up, r), Way(up, r))
<1>1. Safe(up, r) \in BOOLEAN /\ Grow(up, r) \in BOOLEAN
  BY DEF Safe, Grow
<1>2. (Safe(up, r) <=> (up \/ r > B0ba)) /\ (Grow(up, r) => (up /\ r < E2f5))
  BY DEF Safe, Grow
<1>3. Goal(up, r) = IF up THEN r ELSE r - 1
  BY DEF Goal
<1>4. Revision(Safe(up, r), Grow(up, r), Goal(up, r), Way(up, r))
  BY <1>1, <1>2, <1>3, WayRevision
<1>5. Orderly(Safe(up, r), Grow(up, r), Way(up, r))
  BY <1>4 DEF Revision
<1>6. Safe(up, r) => Orderly(TRUE, Grow(up, r), Way(up, r))
  BY <1>1, <1>5 DEF Orderly, InPlace
<1> QED BY <1>1, <1>4, <1>6

LEMMA RevisionFacts ==
    ASSUME NEW safe \in BOOLEAN, NEW grow \in BOOLEAN, NEW version, NEW s,
           Revision(safe, grow, version, s), NEW k \in Nat, k < Len(s)
    PROVE  /\ IsSequence(s) /\ Orderly(safe, grow, s)
           /\ InPlace(safe, grow, s, k + 1) /\ s[k + 1].op \in Operations
           /\ s[k + 1].op = "commit" <=> k + 1 = Len(s)
           /\ s[k + 1].op = "setVersion" <=> k + 1 = Len(s) - 1
           /\ s[k + 1].op = "setVersion" => s[k + 1].revision = version
           /\ k + 1 = Len(s) => Begins(s[k])
<1>1. IsSequence(s) /\ Orderly(safe, grow, s) /\ Len(s) \in Nat /\ Len(s) > 1
  BY DEF Revision, Orderly, IsSequence
<1>2. k + 1 \in 1 .. Len(s)
  BY <1>1
<1>3. InPlace(safe, grow, s, k + 1)
  BY <1>1, <1>2 DEF Orderly
<1>4. s[Len(s)].op = "commit" /\ s[Len(s) - 1].op = "setVersion"
      /\ s[Len(s) - 1].revision = version
  BY DEF Revision, SetVersion, Commit
<1>5. \A j \in 1 .. (Len(s) - 2) : s[j].op \notin {"setVersion", "commit"}
  BY DEF Revision
<1>6. k + 1 = Len(s) \/ k + 1 = Len(s) - 1 \/ k + 1 \in 1 .. (Len(s) - 2)
  BY <1>1
<1>7. Len(s) # Len(s) - 1 /\ Len(s) \notin 1 .. (Len(s) - 2)
      /\ Len(s) - 1 \notin 1 .. (Len(s) - 2)
  BY <1>1
<1>8. k + 1 = Len(s) => Begins(s[k])
  <2>1. k + 1 = Len(s) => k = Len(s) - 1
    BY <1>1
  <2> QED BY <1>4, <2>1 DEF Begins
<1> QED BY <1>1, <1>3, <1>4, <1>5, <1>6, <1>7, <1>8 DEF InPlace

\* What a connection has left to do, and what is left behind the next statement.
Ahead(c, to, up, r, k) ==
    LET s == Way(up, r)
    IN  /\ c.todo # <<>> /\ Head(c.todo) = s[k + 1]
        /\ k + 1 < Len(s) => Tail(c.todo) = SubSeq(s, k + 2, Len(s)) \o Later(up, r, to)
        /\ k + 1 = Len(s) => Tail(c.todo) = Later(up, r, to)

LEMMA NextStatement ==
    ASSUME NEW f, NEW c, NEW to \in Base .. E2f5, NEW up \in BOOLEAN,
           NEW r \in B0ba .. E2f5, NEW k \in Nat, Amid(f, c, to, up, r, k)
    PROVE  Ahead(c, to, up, r, k)
<1>1. IsSequence(Way(up, r))
  BY WaySequence
<1>2. IsSequence(Later(up, r, to))
  <2>1. CASE up
    <3>1. IsSequence(UpgradePath(r, to))
      BY UpgradeParts DEF Base, B0ba
    <3> QED BY <2>1, <3>1 DEF Later
  <2>2. CASE ~up
    <3>1. r - 1 \in Base .. E2f5
      BY DEF Base, B0ba, E2f5
    <3>2. IsSequence(DowngradePath(r - 1, to))
      BY <3>1, DowngradeParts
    <3> QED BY <2>2, <3>2 DEF Later
  <2> QED BY <2>1, <2>2
<1> DEFINE s    == Way(up, r)
           rest == Later(up, r, to)
<1>3. k < Len(s) /\ c.todo = SubSeq(s, k + 1, Len(s)) \o rest
  BY DEF Amid
<1> HIDE DEF s, rest
<1>4. IsSequence(s) /\ IsSequence(rest)
  BY <1>1, <1>2 DEF s, rest
<1>5. Continues(c.todo, s, k, rest)
  BY <1>3, <1>4, Leftover
<1> QED BY <1>5 DEF Continues, s, rest, Ahead

\* Alembic connects, or has finished a revision: it is before the first statement of
\* the next one, or done.
LEMMA BeforeUpgrade ==
    ASSUME NEW f, IsDatabase(f), NEW c, ~c.tx, NEW to \in Base .. E2f5,
           c.todo = UpgradePath(f.version, to)
    PROVE  IF f.version < to THEN Amid(f, c, to, TRUE, f.version + 1, 0)
                             ELSE c.todo = <<>>
<1>1. f.version \in Base .. E2f5
  BY DEF IsDatabase
<1>2. CASE ~(f.version < to)
  <2>1. to <= f.version
    BY <1>1, <1>2 DEF Base, E2f5
  <2> QED BY <1>1, <1>2, <2>1, UpgradeParts
<1>3. CASE f.version < to
  <2> DEFINE up == TRUE
             r  == f.version + 1
             s  == Way(up, r)
  <2>1. up \in BOOLEAN /\ r \in B0ba .. E2f5 /\ r <= to /\ f.version = r - 1
    BY <1>1, <1>3 DEF Base, B0ba, E2f5
  <2>2. c.todo = s \o Later(up, r, to)
    BY <1>1, <1>3, UpgradeParts DEF Way, Later
  <2> HIDE DEF up, r
  <2>3. IsSequence(s) /\ SubSeq(s, 1, Len(s)) = s
    BY <2>1, WaySequence, NothingBehind
  <2>4. Safe(up, r) \in BOOLEAN /\ Grow(up, r) \in BOOLEAN /\ Len(s) \in Nat /\ 1 < Len(s)
    <3>1. Revision(Safe(up, r), Grow(up, r), Goal(up, r), s)
      BY <2>1, SafeGrow
    <3> QED BY <2>1, <2>3, <3>1, SafeGrow DEF Revision, IsSequence
  <2>5. View(f, c) = f
    BY DEF View
  <2>6. Carried(Grow(up, r), f, f, s, 0)
    BY <2>4, CarriedItself
  <2>7. Made(Safe(up, r), Grow(up, r), f, f, s, 0)
    BY DEF Made
  <2> HIDE DEF s
  <2>8. c.todo = SubSeq(s, 0 + 1, Len(s)) \o Later(up, r, to)
    <3>1. 0 + 1 = 1
      OBVIOUS
    <3> HIDE DEF up
    <3> QED BY <2>2, <2>3, <3>1
  <2>9. 0 < Len(s) /\ 0 # Len(s) - 1 /\ ~\E i \in 1 .. 0 : Begins(s[i])
    <3>1. \A n \in Nat : 1 < n => 0 < n /\ 0 # n - 1
      OBVIOUS
    <3>2. 1 .. 0 = {}
      OBVIOUS
    <3> QED BY <2>4, <3>1, <3>2
  <2>10. up
    BY DEF up
  <2>11. Amid(f, c, to, up, r, 0)
    BY <2>1, <2>5, <2>6, <2>7, <2>8, <2>9, <2>10 DEF Amid, s
  <2> QED BY <1>3, <2>11 DEF up, r
<1> QED BY <1>2, <1>3

LEMMA BeforeDowngrade ==
    ASSUME NEW f, IsDatabase(f), NEW c, ~c.tx, NEW to \in Base .. E2f5,
           NEW v \in Base .. E2f5, c.todo = DowngradePath(v, to)
    PROVE  IF to < v THEN Amid(f, c, to, FALSE, v, 0) ELSE c.todo = <<>>
<1>1. CASE ~(to < v)
  <2>1. v <= to
    BY <1>1 DEF Base, E2f5
  <2> QED BY <1>1, <2>1, DowngradeParts
<1>2. CASE to < v
  <2> DEFINE up == FALSE
             s  == Way(up, v)
  <2>1. up \in BOOLEAN /\ v \in B0ba .. E2f5
    BY <1>2 DEF Base, B0ba, E2f5
  <2>2. c.todo = s \o Later(up, v, to)
    BY <1>2, DowngradeParts DEF Way, Later
  <2> HIDE DEF up
  <2>3. IsSequence(s) /\ SubSeq(s, 1, Len(s)) = s
    BY <2>1, WaySequence, NothingBehind
  <2>4. Safe(up, v) \in BOOLEAN /\ Grow(up, v) \in BOOLEAN /\ Len(s) \in Nat /\ 1 < Len(s)
    <3>1. Revision(Safe(up, v), Grow(up, v), Goal(up, v), s)
      BY <2>1, SafeGrow
    <3> QED BY <2>1, <2>3, <3>1, SafeGrow DEF Revision, IsSequence
  <2>5. View(f, c) = f
    BY DEF View
  <2>6. Carried(Grow(up, v), f, f, s, 0)
    BY <2>4, CarriedItself
  <2>7. Made(Safe(up, v), Grow(up, v), f, f, s, 0)
    BY DEF Made
  <2> HIDE DEF s
  <2>8. c.todo = SubSeq(s, 0 + 1, Len(s)) \o Later(up, v, to)
    <3>1. 0 + 1 = 1
      OBVIOUS
    <3> HIDE DEF up
    <3> QED BY <2>2, <2>3, <3>1
  <2>9. 0 < Len(s) /\ 0 # Len(s) - 1 /\ ~\E i \in 1 .. 0 : Begins(s[i])
    <3>1. \A n \in Nat : 1 < n => 0 < n /\ 0 # n - 1
      OBVIOUS
    <3>2. 1 .. 0 = {}
      OBVIOUS
    <3> QED BY <2>4, <3>1, <3>2
  <2>10. ~up
    BY DEF up
  <2>11. Amid(f, c, to, up, v, 0)
    BY <1>2, <2>1, <2>5, <2>6, <2>7, <2>8, <2>9, <2>10 DEF Amid, s
  <2> QED BY <1>2, <2>11 DEF up
<1> QED BY <1>1, <1>2

-----------------------------------------------------------------------------
(* The steps of alembic.                                                   *)

\* What the statements before it have made is what a statement needs.
LEMMA StatementReady ==
    ASSUME NEW safe \in BOOLEAN, NEW grow \in BOOLEAN, NEW s, Orderly(safe, grow, s),
           NEW k \in Nat, k < Len(s), NEW f, NEW d, Made(safe, grow, f, d, s, k),
           s[k + 1].op \in {"addColumn", "copy"} => Has(d, s[k + 1].name),
           s[k + 1].op = "setVersion" => s[k + 1].revision \in Base .. E2f5
    PROVE  Ready(s[k + 1], d)
<1> DEFINE j == k + 1
           x == s[j]
<1>1. j \in 1 .. Len(s) /\ j - 1 = k /\ j - 2 = k - 1 /\ (j > 1 => k > 0) /\ (j > 2 => k > 1)
  BY DEF Orderly, IsSequence
<1>2. InPlace(safe, grow, s, j)
  BY <1>1 DEF Orderly
<1>3. x.op \in Operations /\ (x.op = "create" => IsTable(x.table))
  BY <1>2 DEF InPlace
<1>4. x.op \in {"addColumn", "copy"} => x.name \in DOMAIN d.tables
  BY DEF Has
<1>5. x.op = "setVersion" => x.revision \in Base .. E2f5
  OBVIOUS
<1> HIDE DEF j, x
<1>6. ASSUME x.op = "copy" PROVE x.name \in DOMAIN d.tables /\ x.to \in DOMAIN d.tables
  <2>1. k > 0 /\ \/ s[k].op = "create" /\ s[k].name = x.to
                 \/ s[k].op = "createLike" /\ Tmp[s[k].name] = x.to
    BY <1>1, <1>2, <1>6 DEF InPlace, x
  <2>2. x.name \in DOMAIN d.tables
    BY <1>4, <1>6
  <2> QED BY <2>1, <2>2 DEF Made
<1>7. ASSUME x.op = "rename" PROVE x.name \in DOMAIN d.tables
  <2>1. k > 1 /\ s[k].op = "drop" /\ s[k - 1].op = "copy" /\ s[k - 1].to = x.name
    BY <1>1, <1>2, <1>7 DEF InPlace, x
  <2>2. k > 0
    BY <2>1
  <2>3. Replaces(safe, grow, f, d, s[k - 1].name, s[k - 1].to)
    BY <2>1, <2>2 DEF Made
  <2> QED BY <2>1, <2>3 DEF Replaces
<1>8. ASSUME x.op = "replace" PROVE Tmp[x.name] \in DOMAIN d.tables
  <2>1. k > 0 /\ s[k].op = "copy" /\ s[k].to = Tmp[x.name]
    BY <1>1, <1>2, <1>8 DEF InPlace, x
  <2>2. Replaces(safe, grow, f, d, s[k].name, s[k].to)
    BY <2>1 DEF Made
  <2> QED BY <2>1, <2>2 DEF Replaces
<1>9. Ready(x, d)
  BY <1>3, <1>4, <1>5, <1>6, <1>7, <1>8 DEF Ready, x
<1> QED BY <1>9 DEF x, j


\* A connection inside a revision, when its next statement is carried out.
Inside(f, c, to, up, r, k) ==
    LET s == Way(up, r)
        d == View(f, c)
        e == Effect(s[k + 1], d)
    IN  /\ Len(s) \in Nat /\ s[k + 1] = Head(c.todo)
        /\ s[k + 1].op # "commit" =>
              /\ k + 1 < Len(s)
              /\ Tail(c.todo) = SubSeq(s, k + 2, Len(s)) \o Later(up, r, to)
        /\ IsDatabase(d) /\ IsDatabase(e)
        /\ TablesBehind(s[k + 1], d, e.tables)
        /\ e.version = IF s[k + 1].op = "setVersion" THEN Goal(up, r) ELSE d.version
        /\ Orderly(Safe(up, r), Grow(up, r), s)

LEMMA InRevision ==
    ASSUME NEW f, NEW c, NEW to \in Base .. E2f5, NEW up \in BOOLEAN,
           NEW r \in B0ba .. E2f5, NEW k \in Nat, Amid(f, c, to, up, r, k),
           NEW fk, Possible(Head(c.todo), View(f, c), fk)
    PROVE  Inside(f, c, to, up, r, k)
<1> DEFINE s    == Way(up, r)
           safe == Safe(up, r)
           grow == Grow(up, r)
           d    == View(f, c)
           goal == Goal(up, r)
           x    == s[k + 1]
           e    == Effect(x, d)
<1>1. /\ safe \in BOOLEAN /\ grow \in BOOLEAN /\ Revision(safe, grow, goal, s)
      /\ k < Len(s) /\ IsDatabase(d) /\ Made(safe, grow, f, d, s, k)
  BY SafeGrow DEF Amid
<1>2. /\ Head(c.todo) = x
      /\ k + 1 < Len(s) => Tail(c.todo) = SubSeq(s, k + 2, Len(s)) \o Later(up, r, to)
  <2>1. Ahead(c, to, up, r, k)
    BY NextStatement
  <2> QED BY <2>1 DEF Ahead
<1>3. goal \in Base .. E2f5
  BY DEF Goal, Base, B0ba, E2f5
<1> HIDE DEF s, safe, grow, d, goal
<1>4. /\ IsSequence(s) /\ Orderly(safe, grow, s) /\ InPlace(safe, grow, s, k + 1)
      /\ x.op \in Operations /\ (x.op = "commit" <=> k + 1 = Len(s))
      /\ x.op = "setVersion" => x.revision = goal
  BY <1>1, RevisionFacts
<1>5. Len(s) \in Nat
  BY <1>4 DEF IsSequence
<1>6. x.op # "commit" => k + 1 < Len(s)
  BY <1>1, <1>4, <1>5
<1>7. Possible(x, d, fk)
  BY <1>2 DEF d
<1>8. Ready(x, d)
  <2>1. x.op \in {"addColumn", "copy"} => Has(d, x.name)
    BY <1>7 DEF Possible
  <2> QED BY <1>1, <1>3, <1>4, <2>1, StatementReady
<1>9. IsDatabase(e)
  BY <1>1, <1>8, EffectShape
<1>10. /\ e.version = IF x.op = "setVersion" THEN x.revision ELSE d.version
       /\ TablesBehind(x, d, e.tables)
  BY <1>1, <1>8, EffectIs DEF Ready
<1> HIDE DEF e
<1>11. e.version = IF x.op = "setVersion" THEN goal ELSE d.version
  BY <1>4, <1>10
<1> QED BY <1>1, <1>2, <1>4, <1>5, <1>6, <1>9, <1>10, <1>11
       DEF Inside, s, d, goal, e, safe, grow

Autocommitted(f, g, cc, to, up, r, k) ==
    /\ Amid(g, cc, to, up, r, k + 1)
    /\ IsDatabase(g) /\ g.version = f.version
    /\ Safe(up, r) => Holding(TRUE, f, g)

LEMMA AutocommitAmid ==
    ASSUME NEW f, NEW c, NEW to \in Base .. E2f5, NEW up \in BOOLEAN,
           NEW r \in B0ba .. E2f5, NEW k \in Nat, Amid(f, c, to, up, r, k),
           NEW fk, NEW x, x = Head(c.todo), Possible(x, f, fk),
           ~c.tx, ~Begins(x), x.op # "commit",
           NEW g, g = Effect(x, f), NEW cc, ~cc.tx, cc.todo = Tail(c.todo)
    PROVE  Autocommitted(f, g, cc, to, up, r, k)
<1> DEFINE s    == Way(up, r)
           safe == Safe(up, r)
           grow == Grow(up, r)
<1>1. View(f, c) = f /\ View(g, cc) = g
  BY DEF View
<1>2. /\ Len(s) \in Nat /\ s[k + 1] = x
      /\ k + 1 < Len(s)
      /\ Tail(c.todo) = SubSeq(s, k + 2, Len(s)) \o Later(up, r, to)
      /\ IsDatabase(f) /\ IsDatabase(g)
      /\ TablesBehind(x, f, g.tables)
      /\ g.version = f.version
      /\ Orderly(safe, grow, s)
  <2>1. Possible(Head(c.todo), View(f, c), fk)
    BY <1>1
  <2>2. Inside(f, c, to, up, r, k)
    BY <2>1, InRevision
  <2> QED BY <1>1, <2>2 DEF Inside, Begins
<1>3. /\ k < Len(s)
      /\ c.tx <=> \E i \in 1 .. k : Begins(s[i])
      /\ IF up THEN r <= to /\ f.version = r - 1 ELSE to < r
      /\ safe => Carried(grow, f, f, s, k)
      /\ Made(safe, grow, f, f, s, k)
  BY <1>1 DEF Amid
<1>4. /\ safe \in BOOLEAN /\ grow \in BOOLEAN
      /\ Revision(safe, grow, Goal(up, r), s)
      /\ safe => Orderly(TRUE, grow, s)
  BY SafeGrow
<1> HIDE DEF s, safe, grow
<1>5. k + 1 # Len(s) - 1
  <2>1. s[k + 1].op = "setVersion" <=> k + 1 = Len(s) - 1
    BY <1>3, <1>4, RevisionFacts
  <2> QED BY <1>2, <2>1 DEF Begins
<1>6. \A i \in 1 .. k : ~Begins(s[i])
  BY <1>3
<1>7. \A i \in 1 .. (k + 1) : ~Begins(s[i])
  <2>1. \A i \in 1 .. (k + 1) : i \in 1 .. k \/ i = k + 1
    OBVIOUS
  <2> QED BY <1>2, <1>6, <2>1
<1>8. Made(safe, grow, g, g, s, k + 1)
  <2>1. Made(safe, grow, f, g, s, k + 1)
    BY <1>2, <1>3, <1>4, MadeStep
  <2>2. \A t \in DOMAIN g.tables :
            t \in DOMAIN g.tables /\ g.tables[t].cols = g.tables[t].cols
    OBVIOUS
  <2>3. k + 1 \in Nat
    OBVIOUS
  <2> QED BY <1>4, <1>7, <2>1, <2>2, <2>3, MadeStays
<1>9. Carried(grow, g, g, s, k + 1)
  BY <1>4, CarriedItself
<1>10. safe => Holding(TRUE, f, g)
  BY <1>2, <1>3, <1>4, <1>6, AutocommitHolding
<1>11. (k + 1) + 1 = k + 2
  OBVIOUS
<1>12. Amid(g, cc, to, up, r, k + 1)
  BY <1>1, <1>2, <1>3, <1>5, <1>7, <1>8, <1>9, <1>11 DEF Amid, s, safe, grow
<1> QED BY <1>2, <1>10, <1>12 DEF Autocommitted, safe

LEMMA InTransactionAmid ==
    ASSUME NEW f, NEW c, NEW to \in Base .. E2f5, NEW up \in BOOLEAN,
           NEW r \in B0ba .. E2f5, NEW k \in Nat, Amid(f, c, to, up, r, k),
           NEW fk, NEW x, x = Head(c.todo), Possible(x, View(f, c), fk),
           c.tx \/ Begins(x), x.op # "commit",
           NEW cc, cc.tx, cc.todo = Tail(c.todo), cc.view = Effect(x, View(f, c))
    PROVE  Amid(f, cc, to, up, r, k + 1)
<1> DEFINE s    == Way(up, r)
           safe == Safe(up, r)
           grow == Grow(up, r)
           d    == View(f, c)
           e    == Effect(x, d)
<1>1. View(f, cc) = e
  BY DEF View
<1>2. /\ Len(s) \in Nat /\ s[k + 1] = x
      /\ k + 1 < Len(s)
      /\ Tail(c.todo) = SubSeq(s, k + 2, Len(s)) \o Later(up, r, to)
      /\ IsDatabase(e)
      /\ TablesBehind(x, d, e.tables)
      /\ e.version = IF x.op = "setVersion" THEN Goal(up, r) ELSE d.version
      /\ Orderly(safe, grow, s)
  <2>1. Inside(f, c, to, up, r, k)
    BY InRevision
  <2> QED BY <2>1 DEF Inside
<1>3. /\ k < Len(s)
      /\ c.tx <=> \E i \in 1 .. k : Begins(s[i])
      /\ IF up THEN r <= to /\ f.version = r - 1 ELSE to < r
      /\ safe => Carried(grow, f, d, s, k)
      /\ Made(safe, grow, f, d, s, k)
  BY DEF Amid
<1>4. /\ safe \in BOOLEAN /\ grow \in BOOLEAN
      /\ Revision(safe, grow, Goal(up, r), s)
      /\ safe => Orderly(TRUE, grow, s)
  BY SafeGrow
<1>5. Possible(x, d, fk)
  OBVIOUS
<1> HIDE DEF s, safe, grow, d, e
<1>6. k + 1 = Len(s) - 1 => e.version = Goal(up, r)
  <2>1. s[k + 1].op = "setVersion" <=> k + 1 = Len(s) - 1
    BY <1>3, <1>4, RevisionFacts
  <2> QED BY <1>2, <2>1
<1>7. \E i \in 1 .. (k + 1) : Begins(s[i])
  <2>1. \A i \in 1 .. k : i \in 1 .. (k + 1)
    OBVIOUS
  <2>2. k + 1 \in 1 .. (k + 1)
    OBVIOUS
  <2> QED BY <1>2, <1>3, <2>1, <2>2
<1>8. x.op # "addColumn"
  <2>1. CASE Begins(x)
    BY <2>1 DEF Begins
  <2>2. CASE c.tx
    <3>1. PICK i \in 1 .. k : Begins(s[i])
      BY <1>3, <2>2
    <3>2. i \in 1 .. Len(s) /\ k + 1 \in 1 .. Len(s) /\ i < k + 1
      BY <1>2, <1>3
    <3>3. ColumnsFirst(s)
      BY <1>2 DEF Orderly
    <3> QED BY <1>2, <3>1, <3>2, <3>3 DEF ColumnsFirst
  <2> QED BY <2>1, <2>2
<1>9. Made(safe, grow, f, e, s, k + 1)
  BY <1>2, <1>3, <1>4, <1>5, MadeStep
<1>10. safe => Carried(grow, f, e, s, k + 1)
  <2>1. ASSUME safe PROVE Made(TRUE, grow, f, d, s, k)
    BY <1>3, <2>1 DEF Made, Replaces
  <2> QED BY <1>2, <1>3, <1>4, <1>5, <1>8, <2>1, CarriedStep
<1>11. (k + 1) + 1 = k + 2
  OBVIOUS
<1> QED BY <1>1, <1>2, <1>3, <1>6, <1>7, <1>9, <1>10, <1>11 DEF Amid, s, safe, grow

\* A revision is done: what it has made is in the file, and the next one begins.
Committed(f, d, cc, to, up, r) ==
    /\ IsDatabase(d) /\ d.version = Goal(up, r)
    /\ Safe(up, r) => Holding(Grow(up, r), f, d)
    /\ IF up THEN IF r < to THEN Amid(d, cc, to, TRUE, r + 1, 0) ELSE cc.todo = <<>>
             ELSE IF to < r - 1 THEN Amid(d, cc, to, FALSE, r - 1, 0) ELSE cc.todo = <<>>

LEMMA CommitAmid ==
    ASSUME NEW f, NEW c, NEW to \in Base .. E2f5, NEW up \in BOOLEAN,
           NEW r \in B0ba .. E2f5, NEW k \in Nat, Amid(f, c, to, up, r, k),
           NEW fk, Possible(Head(c.todo), View(f, c), fk), Head(c.todo).op = "commit",
           NEW cc, ~cc.tx, cc.todo = Tail(c.todo)
    PROVE  Committed(f, View(f, c), cc, to, up, r)
<1> DEFINE s    == Way(up, r)
           safe == Safe(up, r)
           grow == Grow(up, r)
           d    == View(f, c)
<1>1. s[k + 1] = Head(c.todo) /\ IsDatabase(d) /\ Len(s) \in Nat
  <2>1. Inside(f, c, to, up, r, k)
    BY InRevision
  <2> QED BY <2>1 DEF Inside
<1>2. /\ k < Len(s)
      /\ k = Len(s) - 1 => d.version = Goal(up, r)
      /\ safe => Carried(grow, f, d, s, k)
  BY DEF Amid
<1>3. /\ safe \in BOOLEAN /\ grow \in BOOLEAN
      /\ Revision(safe, grow, Goal(up, r), s)
  BY SafeGrow
<1>4. k + 1 = Len(s) => cc.todo = Later(up, r, to)
  <2>1. Ahead(c, to, up, r, k)
    BY NextStatement
  <2> QED BY <2>1 DEF Ahead
<1> HIDE DEF s, safe, grow, d
<1>5. k + 1 = Len(s) /\ Begins(s[k])
  BY <1>1, <1>2, <1>3, RevisionFacts
<1>6. k = Len(s) - 1
  BY <1>1, <1>5
<1>7. d.version = Goal(up, r) /\ cc.todo = Later(up, r, to)
  BY <1>2, <1>4, <1>5, <1>6
<1>8. safe => Holding(grow, f, d)
  <2>1. s[k].op # "drop"
    BY <1>5 DEF Begins
  <2> QED BY <1>2, <2>1 DEF Carried, Holding
<1>9. CASE up
  <2>1. d.version = r /\ cc.todo = UpgradePath(d.version, to)
    BY <1>7, <1>9 DEF Goal, Later
  <2>2. IF d.version < to THEN Amid(d, cc, to, TRUE, d.version + 1, 0)
                          ELSE cc.todo = <<>>
    BY <1>1, <2>1, BeforeUpgrade
  <2> QED BY <1>1, <1>7, <1>8, <1>9, <2>1, <2>2 DEF Committed, d, safe, grow
<1>10. CASE ~up
  <2>1. r - 1 \in Base .. E2f5 /\ cc.todo = DowngradePath(r - 1, to)
    BY <1>7, <1>10 DEF Later, Base, B0ba, E2f5
  <2>2. IF to < r - 1 THEN Amid(d, cc, to, FALSE, r - 1, 0) ELSE cc.todo = <<>>
    BY <1>1, <2>1, BeforeDowngrade
  <2> QED BY <1>1, <1>7, <1>8, <1>10, <2>2 DEF Committed, d, safe, grow
<1> QED BY <1>9, <1>10

-----------------------------------------------------------------------------
(* The same for a whole revision, and for what users add meanwhile.        *)

LEMMA HoldingWeaker ==
    ASSUME NEW grow \in BOOLEAN, NEW less \in BOOLEAN, less => grow,
           NEW d, NEW e, Holding(grow, d, e)
    PROVE  Holding(less, d, e)
BY DEF Holding, Holds

\* A step of alembic, from the file f and the connection c to g and cc.
Carries(f, c, g, cc) ==
    LET x == Head(c.todo)
    IN  /\ Possible(x, View(f, c), c.fk) /\ cc.todo = Tail(c.todo)
        /\ \/ /\ ~c.tx /\ ~Begins(x) /\ x.op # "commit"
              /\ g = Effect(x, f) /\ ~cc.tx
           \/ /\ c.tx \/ Begins(x)
              /\ x.op # "commit"
              /\ cc.tx /\ cc.view = Effect(x, View(f, c)) /\ g = f
           \/ x.op = "commit" /\ g = View(f, c) /\ ~cc.tx

\* What it keeps, and where it leads: only the way back to nothing loses rows, and
\* only up to E2f5 are columns sure to stay.
Progress(f, g, cc, to, up) ==
    /\ IsDatabase(g)
    /\ up => /\ f.version < E2f5 /\ f.version <= g.version
             /\ Holding(g.version < E2f5, f, g)
    /\ Keeps(f, g) \/ (~up /\ to = Base)
    /\ \/ \E r \in B0ba .. E2f5 : \E k \in Nat : Amid(g, cc, to, up, r, k)
       \/ cc.todo = <<>> /\ ~cc.tx /\ (up => g.version = to /\ f.version < to)

LEMMA CarriesProgress ==
    ASSUME NEW f, IsDatabase(f), NEW c, NEW to \in Base .. E2f5, NEW up \in BOOLEAN,
           NEW r \in B0ba .. E2f5, NEW k \in Nat, Amid(f, c, to, up, r, k),
           NEW g, NEW cc, Carries(f, c, g, cc)
    PROVE  Progress(f, g, cc, to, up)
<1> DEFINE x == Head(c.todo)
<1>1. Possible(x, View(f, c), c.fk) /\ cc.todo = Tail(c.todo)
  BY DEF Carries
<1>2. /\ Safe(up, r) \in BOOLEAN /\ Grow(up, r) \in BOOLEAN
      /\ up => Safe(up, r)
      /\ ~Safe(up, r) => ~up /\ r = B0ba
      /\ Grow(up, r) <=> (up /\ r < E2f5)
  BY SafeGrow DEF Safe, Grow, B0ba, E2f5
<1>3. IF up THEN r <= to /\ f.version = r - 1 ELSE to < r
  BY DEF Amid
<1>4. ~Safe(up, r) => ~up /\ to = Base
  BY <1>2, <1>3 DEF B0ba, Base, E2f5
<1>5. f.version \in Base .. E2f5
  BY DEF IsDatabase
<1>6. up => f.version < E2f5 /\ f.version < to /\ f.version < r
  BY <1>3, <1>5 DEF Base, B0ba, E2f5
<1>7. ASSUME NEW h \in BOOLEAN PROVE Holding(h, f, f) /\ Keeps(f, f)
  BY HoldingItself, HoldingKeeps
<1>8. CASE ~c.tx /\ ~Begins(x) /\ x.op # "commit" /\ g = Effect(x, f) /\ ~cc.tx
  <2>1. Possible(x, f, c.fk)
    BY <1>1, <1>8 DEF View
  <2>2. /\ Amid(g, cc, to, up, r, k + 1)
        /\ IsDatabase(g) /\ g.version = f.version
        /\ Safe(up, r) => Holding(TRUE, f, g)
    <3>1. Autocommitted(f, g, cc, to, up, r, k)
      BY <1>1, <1>8, <2>1, AutocommitAmid
    <3> QED BY <3>1 DEF Autocommitted
  <2> HIDE DEF x
  <2>3. k + 1 \in Nat
    OBVIOUS
  <2>4. up => Holding(g.version < E2f5, f, g) /\ f.version <= g.version
    <3>1. (g.version < E2f5) \in BOOLEAN /\ f.version <= g.version
      BY <1>5, <2>2 DEF Base, E2f5
    <3> QED BY <1>2, <2>2, <3>1, HoldingLess
  <2>5. Safe(up, r) => Keeps(f, g)
    BY <2>2, HoldingKeeps
  <2> QED BY <1>4, <1>6, <2>2, <2>3, <2>4, <2>5 DEF Progress
<1>9. CASE /\ c.tx \/ Begins(x)
           /\ x.op # "commit" /\ cc.tx /\ cc.view = Effect(x, View(f, c)) /\ g = f
  <2> HIDE DEF x
  <2>1. Amid(f, cc, to, up, r, k + 1)
    BY <1>1, <1>9, InTransactionAmid DEF x
  <2>2. k + 1 \in Nat
    OBVIOUS
  <2>3. (g.version < E2f5) \in BOOLEAN /\ f.version <= g.version
    BY <1>5, <1>9 DEF Base, E2f5
  <2>4. Holding(g.version < E2f5, f, g) /\ Keeps(f, g)
    BY <1>7, <1>9, <2>3
  <2> QED BY <1>6, <1>9, <2>1, <2>2, <2>3, <2>4 DEF Progress
<1>10. CASE x.op = "commit" /\ g = View(f, c) /\ ~cc.tx
  <2>1. /\ IsDatabase(g) /\ g.version = Goal(up, r)
        /\ Safe(up, r) => Holding(Grow(up, r), f, g)
        /\ IF up THEN IF r < to THEN Amid(g, cc, to, TRUE, r + 1, 0)
                                ELSE cc.todo = <<>>
                 ELSE IF to < r - 1 THEN Amid(g, cc, to, FALSE, r - 1, 0)
                                    ELSE cc.todo = <<>>
    <3>1. Committed(f, View(f, c), cc, to, up, r)
      BY <1>1, <1>10, CommitAmid
    <3> QED BY <1>10, <3>1 DEF Committed
  <2>2. Safe(up, r) => Keeps(f, g)
    BY <1>2, <2>1, HoldingKeeps
  <2> HIDE DEF x
  <2>3. CASE up
    <3>1. g.version = r
      BY <2>1, <2>3 DEF Goal
    <3>2. (g.version < E2f5) \in BOOLEAN /\ f.version <= g.version
          /\ (g.version < E2f5 => Grow(up, r))
      <4>1. f.version <= r
        BY <1>5, <1>6, <2>3 DEF Base, B0ba, E2f5
      <4>2. (r < E2f5) \in BOOLEAN
        BY DEF B0ba, E2f5
      <4> QED BY <1>2, <2>3, <3>1, <4>1, <4>2
    <3>3. Holding(g.version < E2f5, f, g)
      BY <1>2, <2>1, <2>3, <3>2, HoldingWeaker
    <3>4. CASE r < to
      <4>1. r + 1 \in B0ba .. E2f5 /\ up = TRUE
        BY <2>3, <3>4 DEF Base, B0ba, E2f5
      <4>2. Amid(g, cc, to, up, r + 1, 0)
        BY <2>1, <3>4, <4>1
      <4> QED BY <1>2, <1>6, <2>1, <2>2, <2>3, <3>2, <3>3, <4>1, <4>2 DEF Progress
    <3>5. CASE ~(r < to)
      <4>1. g.version = to
        BY <1>3, <2>3, <3>1, <3>5 DEF Base, B0ba, E2f5
      <4> QED BY <1>2, <1>6, <1>10, <2>1, <2>2, <2>3, <3>2, <3>3, <3>5, <4>1 DEF Progress
    <3> QED BY <3>4, <3>5
  <2>4. CASE ~up
    <3>1. CASE to < r - 1
      <4>1. r - 1 \in B0ba .. E2f5 /\ up = FALSE
        BY <2>4, <3>1 DEF Base, B0ba, E2f5
      <4>2. Amid(g, cc, to, up, r - 1, 0)
        BY <2>1, <3>1, <4>1
      <4> QED BY <1>4, <2>1, <2>2, <2>4, <4>1, <4>2 DEF Progress
    <3>2. CASE ~(to < r - 1)
      BY <1>4, <1>10, <2>1, <2>2, <2>4, <3>2 DEF Progress
    <3> QED BY <3>1, <3>2
  <2> QED BY <2>3, <2>4
<1> QED BY <1>8, <1>9, <1>10 DEF Carries

LEMMA AmidAdded ==
    ASSUME NEW f, NEW c, NEW to, NEW up \in BOOLEAN, NEW r \in B0ba .. E2f5,
           NEW k \in Nat, Amid(f, c, to, up, r, k), ~c.tx,
           NEW g, IsDatabase(g), Adds(f, g)
    PROVE  Amid(g, c, to, up, r, k)
<1> DEFINE s    == Way(up, r)
           safe == Safe(up, r)
           grow == Grow(up, r)
<1>1. View(f, c) = f /\ View(g, c) = g
  BY DEF View
<1>2. g.version = f.version
      /\ \A t \in DOMAIN f.tables :
             t \in DOMAIN g.tables /\ g.tables[t].cols = f.tables[t].cols
  BY DEF Adds
<1>3. safe \in BOOLEAN /\ grow \in BOOLEAN
  BY SafeGrow
<1>4. /\ \A i \in 1 .. k : ~Begins(s[i])
      /\ Made(safe, grow, f, f, s, k)
  BY <1>1 DEF Amid
<1> HIDE DEF s, safe, grow
<1>5. Made(safe, grow, g, g, s, k)
  BY <1>2, <1>3, <1>4, MadeStays
<1>6. Carried(grow, g, g, s, k)
  BY <1>3, CarriedItself
<1> QED BY <1>1, <1>2, <1>5, <1>6 DEF Amid, s, safe, grow

\* Rows with an id and a value for each of these columns.
AreRows(cols, rows) ==
    /\ DOMAIN rows \subseteq Nat
    /\ rows = [i \in DOMAIN rows |-> [c \in cols |-> rows[i][c]]]

LEMMA WithRowsShape ==
    ASSUME NEW d, IsDatabase(d), NEW name, name \in DOMAIN d.tables, NEW rows,
           AreRows(d.tables[name].cols, rows)
    PROVE  IsDatabase(WithRows(d, name, rows))
<1> DEFINE t == TableWith(d.tables[name], rows)
           e == WithRows(d, name, rows)
<1>1. AreTables(d.tables) /\ d.version \in Base .. E2f5
  BY DEF IsDatabase, AreTables
<1>2. IsTable(t)
  <2>1. /\ t = [cols |-> d.tables[name].cols, notNull |-> d.tables[name].notNull,
                refs |-> d.tables[name].refs, rows |-> rows]
        /\ t.cols = d.tables[name].cols /\ t.rows = rows
        /\ t.notNull = d.tables[name].notNull /\ t.refs = d.tables[name].refs
    BY DEF TableWith
  <2> HIDE DEF t
  <2> QED BY <2>1 DEF IsTable, AreRows
<1>3. AreTables(Bind(d.tables, name, t))
  BY <1>1, <1>2, BindTables
<1>4. e = [version |-> d.version, indexes |-> d.indexes, tables |-> Bind(d.tables, name, t)]
  BY DEF WithRows
<1> HIDE DEF e, t
<1>5. /\ e.version = d.version /\ e.tables = Bind(d.tables, name, t)
      /\ e = [version |-> e.version, tables |-> e.tables, indexes |-> e.indexes]
  BY <1>4
<1>6. IsDatabase(e)
  BY <1>1, <1>3, <1>5 DEF IsDatabase, AreTables
<1> QED BY <1>6 DEF e

LEMMA BindRows ==
    ASSUME NEW t, IsTable(t), NEW i \in Nat, NEW row, row = [c \in t.cols |-> row[c]]
    PROVE  AreRows(t.cols, Bind(t.rows, i, row))
<1>1. /\ \A j \in DOMAIN t.rows : t.rows[j] = [c \in t.cols |-> t.rows[j][c]]
      /\ DOMAIN t.rows \subseteq Nat
  BY DEF IsTable
<1> QED BY <1>1 DEF Bind, AreRows

LEMMA NewIdsThere ==
    ASSUME NEW d, NEW name, NEW id \in NewIds(d, name)
    PROVE  id \in Nat /\ id \notin DOMAIN d.tables[name].rows
<1>1. ASSUME NEW b, NEW i \in 1 .. b PROVE i \in Nat
  OBVIOUS
<1> QED BY <1>1 DEF NewIds

LEMMA InsertShape ==
    ASSUME NEW d, IsDatabase(d), NEW name, name \in DOMAIN d.tables, NEW id \in Nat,
           NEW values
    PROVE  IsDatabase(Insert(d, name, id, values))
<1> DEFINE t    == d.tables[name]
           row  == Row(d, name, values)
           rows == Bind(t.rows, id, row)
<1>1. IsTable(t)
  BY DEF IsDatabase
<1>2. row = [c \in t.cols |-> row[c]]
  BY DEF Row
<1> HIDE DEF row
<1>3. AreRows(t.cols, rows)
  BY <1>1, <1>2, BindRows
<1> HIDE DEF rows
<1>4. IsDatabase(WithRows(d, name, rows))
  BY <1>3, WithRowsShape
<1> QED BY <1>4 DEF Insert, rows, row

LEMMA AssignShape ==
    ASSUME NEW d, IsDatabase(d), "messages" \in DOMAIN d.tables, NEW m \in Nat, NEW sid
    PROVE  IsDatabase(Assign(d, m, sid))
<1> DEFINE t    == d.tables["messages"]
           row  == [c \in t.cols |-> IF c = "session_id" THEN sid ELSE t.rows[m][c]]
           rows == Bind(t.rows, m, row)
<1>1. IsTable(t)
  BY DEF IsDatabase
<1>2. row = [c \in t.cols |-> row[c]]
  OBVIOUS
<1> HIDE DEF row
<1>3. AreRows(t.cols, rows)
  BY <1>1, <1>2, BindRows
<1> HIDE DEF rows
<1>4. IsDatabase(WithRows(d, "messages", rows))
  BY <1>3, WithRowsShape
<1> QED BY <1>4 DEF Assign, rows, row

LEMMA UsersShape ==
    ASSUME Control, IsDatabase(files[Real]), Sniff \/ Detect
    PROVE  IsDatabase(files'[Real])
<1> DEFINE d == files[Real]
<1>1. CASE Sniff
  <2>1. PICK id \in NewIds(d, "messages") : \E cell \in Cells :
            files' = [files EXCEPT ![Real] =
                Insert(d, "messages", id,
                       [enb_ue_s1ap_id |-> 1, plmn |-> cell, cell_id |-> cell])]
    BY <1>1 DEF Sniff
  <2>2. PICK values : files' = [files EXCEPT ![Real] = Insert(d, "messages", id, values)]
    BY <2>1
  <2>3. "messages" \in DOMAIN d.tables
    BY <1>1 DEF Sniff, Known, Has
  <2>4. files'[Real] = Insert(d, "messages", id, values)
    BY <2>2 DEF Control, Files
  <2>5. id \in Nat
    BY NewIdsThere
  <2> QED BY <2>3, <2>4, <2>5, InsertShape
<1>2. CASE Detect
  <2>1. PICK m \in DOMAIN d.tables["messages"].rows,
             sid \in NewIds(d, "sessions"), aid \in NewIds(d, "alerts") :
            LET row     == d.tables["messages"].rows[m]
                session == Insert(d, "sessions", sid,
                                  [cell_id |-> row["cell_id"], plmn |-> row["plmn"]])
            IN  /\ row["session_id"] = None
                /\ files' = [files EXCEPT ![Real] =
                       Insert(Assign(session, m, sid), "alerts", aid,
                              [session_id |-> sid, trigger_message_id |-> m])]
    BY <1>2 DEF Detect
  <2> DEFINE row == d.tables["messages"].rows[m]
             s   == Insert(d, "sessions", sid,
                           [cell_id |-> row["cell_id"], plmn |-> row["plmn"]])
             a   == Assign(s, m, sid)
             f   == Insert(a, "alerts", aid, [session_id |-> sid, trigger_message_id |-> m])
  <2>2. {"messages", "sessions", "alerts"} \subseteq DOMAIN d.tables
    BY <1>2 DEF Detect, Known, Has
  <2>3. {"messages", "alerts"} \subseteq DOMAIN s.tables
    BY <2>2 DEF Insert, WithRows, Bind
  <2>4. "alerts" \in DOMAIN a.tables
    BY <2>3 DEF Assign, WithRows, Bind
  <2>5. f = files'[Real]
    BY <2>1 DEF Control, Files
  <2>9. m \in Nat /\ sid \in Nat /\ aid \in Nat
    BY <2>2, NewIdsThere DEF IsDatabase, IsTable
  <2>6. IsDatabase(s)
    BY <2>2, <2>9, InsertShape
  <2> HIDE DEF s
  <2>7. IsDatabase(a)
    BY <2>3, <2>6, <2>9, AssignShape
  <2> HIDE DEF a
  <2>8. IsDatabase(f)
    BY <2>4, <2>7, <2>9, InsertShape
  <2> QED BY <2>5, <2>8
<1> QED BY <1>1, <1>2

-----------------------------------------------------------------------------
(* Where alembic is, and what the script has kept so far.                  *)

\* On its way, on which only the operator goes back.
Underway(f, c, to, label) ==
    \E up \in BOOLEAN :
        /\ up \/ label = "hand"
        /\ \E r \in B0ba .. E2f5 : \E k \in Nat : Amid(f, c, to, up, r, k)

\* The revision that a run of the script leads to.
Reached(from, to) == IF to > from THEN to ELSE from

Arrived(f, c, to, from, label) ==
    /\ c.todo = <<>> /\ ~c.tx
    /\ label = "upgrade" => f.version = Reached(from, to)

Connection ==
    Connected =>
        \/ Underway(files[conn.file], conn, target, pc)
        \/ Arrived(files[conn.file], conn, target, start.version, pc)

Kept(label, d, e) ==
    /\ label \in {"rmtree", "dump", "commit", "seed", "compare", "rehearsal"} => Adds(d, e)
    /\ label = "upgrade" =>
          Holding(e.version < E2f5, d, e) /\ d.version <= e.version

Since == Kept(pc, start, files[Real])

Types ==
    /\ target \in Base .. E2f5 /\ reached \in Base .. E2f5 /\ start.version \in Base .. E2f5
    /\ exit \in {None, "done", "raised", "refused", "diverged"}
    /\ IsDatabase(files[Real]) /\ IsDatabase(files[Trial])

CInv == Types /\ Connection /\ Since

LEMMA EmptyShape ==
    ASSUME NEW v \in Base .. E2f5 PROVE IsDatabase([Empty EXCEPT !.version = v])
<1> DEFINE e == [version |-> v, tables |-> <<>>, indexes |-> <<>>]
<1>1. e = [Empty EXCEPT !.version = v]
  BY DEF Empty
<1>2. DOMAIN <<>> = {}
  OBVIOUS
<1>3. e.tables = <<>> /\ e.version = v
      /\ e = [version |-> e.version, tables |-> e.tables, indexes |-> e.indexes]
  OBVIOUS
<1>4. <<>> = [t \in DOMAIN <<>> |-> <<>>[t]]
  OBVIOUS
<1> HIDE DEF e
<1>5. IsDatabase(e)
  BY <1>2, <1>3, <1>4 DEF IsDatabase
<1> QED BY <1>1, <1>5

LEMMA PartsShape ==
    ASSUME NEW d, IsDatabase(d) PROVE \A e \in Parts(d) : IsDatabase(e)
<1>1. d.version \in Base .. E2f5 /\ Base \in Base .. E2f5
  BY DEF IsDatabase, Base, E2f5
<1>2. Empty = [Empty EXCEPT !.version = Base]
  BY DEF Empty
<1>3. IsDatabase(Empty)
  BY <1>1, <1>2, EmptyShape
<1>4. IsDatabase([Empty EXCEPT !.version = d.version])
  BY <1>1, EmptyShape
<1> QED BY <1>3, <1>4 DEF Parts

\* alembic upgrade connects.
LEMMA ConnectUp ==
    ASSUME NEW f, IsDatabase(f), NEW c, ~c.tx, NEW to \in Base .. E2f5, NEW label,
           c.todo = UpgradePath(f.version, to),
           NEW from, label = "upgrade" => from = f.version
    PROVE  Underway(f, c, to, label) \/ Arrived(f, c, to, from, label)
<1>1. f.version \in Base .. E2f5
  BY DEF IsDatabase
<1>2. CASE f.version < to
  <2>1. Amid(f, c, to, TRUE, f.version + 1, 0)
    BY <1>2, BeforeUpgrade
  <2>2. f.version + 1 \in B0ba .. E2f5 /\ 0 \in Nat
    BY <1>1, <1>2 DEF Base, B0ba, E2f5
  <2> QED BY <2>1, <2>2 DEF Underway
<1>3. CASE ~(f.version < to)
  <2>1. c.todo = <<>>
    BY <1>3, BeforeUpgrade
  <2>2. ~(to > f.version)
    BY <1>1, <1>3 DEF Base, E2f5
  <2> QED BY <2>1, <2>2 DEF Arrived, Reached
<1> QED BY <1>2, <1>3

\* alembic downgrade connects.
LEMMA ConnectDown ==
    ASSUME NEW f, IsDatabase(f), NEW c, ~c.tx, NEW to \in Base .. E2f5, NEW from,
           c.todo = DowngradePath(f.version, to)
    PROVE  Underway(f, c, to, "hand") \/ Arrived(f, c, to, from, "hand")
<1>1. f.version \in Base .. E2f5
  BY DEF IsDatabase
<1>2. IF to < f.version THEN Amid(f, c, to, FALSE, f.version, 0) ELSE c.todo = <<>>
  BY <1>1, BeforeDowngrade
<1>3. CASE to < f.version
  <2>1. f.version \in B0ba .. E2f5 /\ 0 \in Nat
    BY <1>1, <1>3 DEF Base, B0ba, E2f5
  <2> QED BY <1>2, <1>3, <2>1 DEF Underway
<1>4. CASE ~(to < f.version)
  BY <1>2, <1>4 DEF Arrived
<1> QED BY <1>3, <1>4

LEMMA ExecuteCarries ==
    ASSUME Control, Execute
    PROVE  /\ conn.file \in Files
           /\ Carries(files[conn.file], conn, files'[conn.file], conn')
           /\ conn.todo # <<>>
<1>1. conn.file \in Files /\ conn.todo # <<>>
  BY DEF Control, Execute, Connected, FileAt, Files
<1>2. Content = View(files[conn.file], conn)
  BY DEF Content, View
<1> USE DEF Carries, Execute, Statement, Control
<1>3. CASE Autocommit
  BY <1>1, <1>2, <1>3 DEF Autocommit
<1>4. CASE InTransaction
  BY <1>1, <1>2, <1>4 DEF InTransaction
<1>5. CASE CommitRevision
  BY <1>1, <1>2, <1>5 DEF CommitRevision
<1> QED BY <1>1, <1>3, <1>4, <1>5

\* A step of alembic: where it leads, and what it keeps.
LEMMA ExecuteProgress ==
    ASSUME Control, CInv, Execute
    PROVE  /\ conn.file \in Files
           /\ \E up \in BOOLEAN :
                 /\ up \/ pc = "hand"
                 /\ Progress(files[conn.file], files'[conn.file], conn', target, up)
<1>1. /\ conn.file \in Files /\ conn.todo # <<>>
      /\ Carries(files[conn.file], conn, files'[conn.file], conn')
  BY ExecuteCarries
<1>2. IsDatabase(files[conn.file]) /\ target \in Base .. E2f5
  BY <1>1 DEF CInv, Types, Files
<1>3. Underway(files[conn.file], conn, target, pc)
  BY <1>1 DEF CInv, Connection, Arrived, Execute
<1>4. PICK up \in BOOLEAN :
          /\ up \/ pc = "hand"
          /\ \E r \in B0ba .. E2f5 : \E k \in Nat :
                Amid(files[conn.file], conn, target, up, r, k)
  BY <1>3 DEF Underway
<1>5. PICK r \in B0ba .. E2f5 :
          \E k \in Nat : Amid(files[conn.file], conn, target, up, r, k)
  BY <1>4
<1>6. PICK k \in Nat : Amid(files[conn.file], conn, target, up, r, k)
  BY <1>5
<1>7. Progress(files[conn.file], files'[conn.file], conn', target, up)
  BY <1>1, <1>2, <1>6, CarriesProgress
<1> QED BY <1>1, <1>4, <1>7

\* It preserves the invariant.
LEMMA StepKeeps ==
    ASSUME Control, CInv, Step PROVE CInv'
<1>1. Execute /\ UNCHANGED script
  BY DEF Step
<1>2. /\ pc' = pc /\ target' = target /\ start' = start /\ reached' = reached
      /\ exit' = exit
  BY <1>1 DEF script
<1>3. /\ conn'.file = conn.file
      /\ \A f \in Files \ {conn.file} : files'[f] = files[f]
  BY <1>1, ExecuteTouches
<1>4. /\ conn.file \in Files
      /\ \E up \in BOOLEAN :
            /\ up \/ pc = "hand"
            /\ Progress(files[conn.file], files'[conn.file], conn', target, up)
  BY <1>1, ExecuteProgress
<1>5. PICK up \in BOOLEAN :
          /\ up \/ pc = "hand"
          /\ Progress(files[conn.file], files'[conn.file], conn', target, up)
  BY <1>4
<1> DEFINE f == files[conn.file]
           g == files'[conn.file]
<1>6. /\ IsDatabase(g)
      /\ up => /\ f.version < E2f5 /\ f.version <= g.version
               /\ Holding(g.version < E2f5, f, g)
      /\ \/ \E r \in B0ba .. E2f5 : \E k \in Nat : Amid(g, conn', target, up, r, k)
         \/ /\ conn'.todo = <<>> /\ ~conn'.tx
            /\ up => g.version = target /\ f.version < target
  BY <1>5 DEF Progress
<1>7. IsDatabase(f) /\ target \in Base .. E2f5
  BY <1>4 DEF CInv, Types, Files
<1>8. f.version \in Base .. E2f5 /\ g.version \in Base .. E2f5
  BY <1>6, <1>7 DEF IsDatabase
<1>9. start.version \in Base .. E2f5
  BY DEF CInv, Types
<1>10. conn.file = FileAt(pc)
  BY DEF Control
<1> HIDE DEF f, g
<1>11. Types'
  BY <1>2, <1>3, <1>4, <1>6 DEF CInv, Types, Files, g
<1>12. ASSUME pc = "upgrade"
       PROVE  /\ up /\ f = files[Real] /\ g = files'[Real]
              /\ Holding(f.version < E2f5, start, f) /\ start.version <= f.version
  BY <1>5, <1>10, <1>12 DEF CInv, Since, Kept, FileAt, f, g
<1>13. Since'
  <2>1. CASE pc = "upgrade"
    <3>1. (f.version < E2f5) \in BOOLEAN /\ (g.version < E2f5) \in BOOLEAN
      BY <1>8 DEF Base, E2f5
    <3>2. Holding(TRUE, start, f)
      BY <1>6, <1>12, <2>1, <3>1, HoldingWeaker
    <3>3. Holding(g.version < E2f5, start, g)
      BY <1>6, <1>12, <2>1, <3>1, <3>2, HoldingTransitive
    <3>4. start.version <= g.version
      BY <1>6, <1>8, <1>12, <1>9, <2>1 DEF Base, E2f5
    <3> QED BY <1>2, <1>12, <2>1, <3>3, <3>4 DEF Since, Kept
  <2>2. CASE pc # "upgrade"
    <3>1. pc \in {"rmtree", "dump", "commit", "seed", "compare", "rehearsal"} =>
              files'[Real] = files[Real]
      <4>1. conn.file # None
        BY <1>1 DEF Execute, Connected
      <4> QED BY <1>3, <1>4, <1>10, <4>1 DEF FileAt, Files, Real, Trial
    <3> QED BY <1>2, <2>2, <3>1 DEF CInv, Since, Kept
  <2> QED BY <2>1, <2>2
<1>14. Connection'
  <2>1. CASE \E r \in B0ba .. E2f5 : \E k \in Nat : Amid(g, conn', target, up, r, k)
    <3>1. Underway(g, conn', target, pc)
      BY <1>5, <2>1 DEF Underway
    <3> QED BY <1>2, <1>3, <3>1 DEF Connection, g
  <2>2. CASE /\ conn'.todo = <<>> /\ ~conn'.tx
             /\ up => g.version = target /\ f.version < target
    <3>1. pc = "upgrade" => g.version = Reached(start.version, target)
      <4>1. ASSUME pc = "upgrade" PROVE target > start.version
        BY <1>7, <1>8, <1>12, <1>9, <2>2, <4>1 DEF Base, E2f5
      <4> QED BY <1>12, <2>2, <4>1 DEF Reached
    <3>2. Arrived(g, conn', target, start.version, pc)
      BY <2>2, <3>1 DEF Arrived
    <3> QED BY <1>2, <1>3, <3>2 DEF Connection, g
  <2> QED BY <1>6, <2>1, <2>2
<1> QED BY <1>11, <1>13, <1>14 DEF CInv

LEMMA InitCInv == Init => CInv
<1> SUFFICES ASSUME Init PROVE CInv
  OBVIOUS
<1>1. PICK d \in Contents : files = [f \in {Real, Trial} |-> IF f = Real THEN d ELSE Empty]
  BY DEF Init
<1>2. files[Real] = d /\ files[Trial] = Empty
  BY <1>1 DEF Real, Trial
<1>3. IsDatabase(d)
  BY ContentsAssumption
<1>4. IsDatabase(Empty) /\ Empty.version = Base
  <2>1. Empty \in Parts(d)
    BY DEF Parts
  <2> QED BY <1>3, <2>1, PartsShape DEF Empty
<1>5. Base \in Base .. E2f5
  BY DEF Base, E2f5
<1>6. Types
  BY <1>2, <1>3, <1>4, <1>5 DEF Init, Types
<1>7. Connection /\ Since
  BY DEF Init, Connection, Connected, NoConn, Since, Kept
<1> QED BY <1>6, <1>7 DEF CInv

\* A step of a user, which no transaction of alembic is open for.
LEMMA UsersKeep ==
    ASSUME Control, CInv, Sniff \/ Detect PROVE CInv'
<1>1. /\ Adds(files[Real], files'[Real]) /\ IsDatabase(files'[Real])
  BY SniffAdds, DetectAdds, UsersShape DEF CInv, Types
<1>2. Free /\ UNCHANGED <<conn, script>> /\ files'[Trial] = files[Trial]
  <2>1. Real # Trial
    BY DEF Real, Trial
  <2> QED BY <2>1 DEF Sniff, Detect, Control, Files
<1>3. /\ pc' = pc /\ target' = target /\ start' = start /\ reached' = reached
      /\ exit' = exit
  BY <1>2 DEF script
<1> DEFINE f == files[Real]
           g == files'[Real]
<1>4. g.version = f.version /\ f.version \in Base .. E2f5
  BY <1>1 DEF Adds, CInv, Types, IsDatabase
<1>5. Types'
  BY <1>1, <1>2, <1>3 DEF CInv, Types
<1>6. Since'
  <2>1. Kept(pc, start, f)
    BY DEF CInv, Since
  <2>2. (f.version < E2f5) \in BOOLEAN
    BY <1>4 DEF Base, E2f5
  <2> HIDE DEF f, g
  <2>3. Adds(f, g)
    BY <1>1 DEF f, g
  <2>4. pc = "upgrade" => Holding(g.version < E2f5, start, g)
    <3>1. pc = "upgrade" => Holding(f.version < E2f5, start, f)
      BY <2>1 DEF Kept
    <3>2. pc = "upgrade" => Holding(f.version < E2f5, start, g)
      BY <2>2, <2>3, <3>1, HoldingAdded
    <3> QED BY <1>4, <3>2
  <2>5. Kept(pc, start, g)
    BY <1>4, <2>1, <2>3, <2>4, AddsTransitive DEF Kept
  <2> QED BY <1>3, <2>5 DEF Since, g
<1>7. Connection'
  <2>1. SUFFICES ASSUME Connected
                 PROVE  \/ Underway(files'[conn.file], conn, target, pc)
                        \/ Arrived(files'[conn.file], conn, target, start.version, pc)
    BY <1>2, <1>3 DEF Connection, Connected
  <2>2. conn.file \in Files /\ conn.file = FileAt(pc)
    BY <2>1 DEF Control, Connected, FileAt, Files
  <2>3. \/ Underway(files[conn.file], conn, target, pc)
        \/ Arrived(files[conn.file], conn, target, start.version, pc)
    BY <2>1 DEF CInv, Connection
  <2>4. CASE conn.file = Trial
    BY <1>2, <2>3, <2>4
  <2>5. CASE conn.file = Real
    <3>1. ~conn.tx
      BY <1>2, <2>5 DEF Free
    <3>2. CASE Underway(f, conn, target, pc)
      <4>1. PICK up \in BOOLEAN :
                /\ up \/ pc = "hand"
                /\ \E r \in B0ba .. E2f5 : \E k \in Nat : Amid(f, conn, target, up, r, k)
        BY <3>2 DEF Underway
      <4>2. PICK r \in B0ba .. E2f5 : \E k \in Nat : Amid(f, conn, target, up, r, k)
        BY <4>1
      <4>3. PICK k \in Nat : Amid(f, conn, target, up, r, k)
        BY <4>2
      <4>4. Amid(g, conn, target, up, r, k)
        BY <1>1, <3>1, <4>3, AmidAdded
      <4> QED BY <2>5, <4>1, <4>4 DEF Underway
    <3>3. CASE Arrived(f, conn, target, start.version, pc)
      BY <1>4, <2>5, <3>3 DEF Arrived
    <3> QED BY <2>3, <2>5, <3>2, <3>3
  <2> QED BY <2>2, <2>4, <2>5 DEF Files
<1> QED BY <1>5, <1>6, <1>7 DEF CInv

\* The script connects to its trial copy, and to the database.
LEMMA ScriptConnects ==
    ASSUME Control, CInv, Rehearse \/ Apply PROVE CInv'
<1>1. /\ files'[Real] = files[Real] /\ IsDatabase(files'[Trial])
      /\ target' = target /\ start' = start /\ exit' = exit
      /\ reached' \in Base .. E2f5
  <2>1. CASE Rehearse
    BY <2>1 DEF Rehearse, Goes, CInv, Types
  <2>2. CASE Apply
    <3>1. IsDatabase(Empty)
      BY PartsShape DEF CInv, Types, Parts
    <3>2. Version(Trial) \in Base .. E2f5
      BY DEF Version, Opens, CInv, Types, IsDatabase
    <3>3. files'[Real] = files[Real] /\ files'[Trial] = Empty
      BY <2>2 DEF Apply, Control, Files, Real, Trial
    <3> QED BY <2>2, <3>1, <3>2, <3>3 DEF Apply, Goes
  <2> QED BY <2>1, <2>2
<1>2. Types'
  BY <1>1 DEF CInv, Types
<1>3. Adds(start, files[Real]) /\ files[Real].version = start.version
  BY DEF Rehearse, Apply, At, CInv, Since, Kept, Adds
<1>4. files[Real].version \in Base .. E2f5
  BY DEF CInv, Types, IsDatabase
<1>5. Since'
  <2>1. (files[Real].version < E2f5) \in BOOLEAN /\ start.version <= files[Real].version
    BY <1>3, <1>4 DEF Base, E2f5
  <2>2. Holding(files[Real].version < E2f5, start, files[Real])
    BY <1>3, <2>1, AddsHolding
  <2>3. pc' \in {"rehearsal", "upgrade"}
    BY DEF Rehearse, Apply, Goes
  <2> QED BY <1>1, <1>3, <2>1, <2>2, <2>3 DEF Since, Kept
<1>6. Connection'
  <2>1. CASE Rehearse
    <3>1. /\ conn'.todo = UpgradePath(files'[Trial].version, target) /\ ~conn'.tx
          /\ conn'.file = Trial /\ pc' = "rehearsal"
      BY <2>1 DEF Rehearse, Goes, Connect, NoConn, Version, Opens
    <3>2. \/ Underway(files'[Trial], conn', target, "rehearsal")
          \/ Arrived(files'[Trial], conn', target, start.version, "rehearsal")
      BY <1>1, <3>1, ConnectUp DEF CInv, Types
    <3> QED BY <1>1, <3>1, <3>2 DEF Connection
  <2>2. CASE Apply
    <3>1. /\ conn'.todo = UpgradePath(files'[Real].version, target) /\ ~conn'.tx
          /\ conn'.file = Real /\ pc' = "upgrade"
      BY <1>1, <2>2 DEF Apply, Goes, Connect, NoConn, Version, Opens
    <3>2. \/ Underway(files'[Real], conn', target, "upgrade")
          \/ Arrived(files'[Real], conn', target, start.version, "upgrade")
      BY <1>1, <1>3, <3>1, ConnectUp DEF CInv, Types
    <3> QED BY <1>1, <3>1, <3>2 DEF Connection
  <2> QED BY <2>1, <2>2
<1> QED BY <1>2, <1>5, <1>6 DEF CInv

LEMMA OperatorConnects ==
    ASSUME Control, CInv, AlembicByHand PROVE CInv'
<1>1. /\ pc' = "hand" /\ target' \in Base .. E2f5
      /\ files' = files /\ start' = start /\ reached' = reached /\ exit' = exit
      /\ \E path \in {UpgradePath(files[Real].version, target'),
                      DowngradePath(files[Real].version, target')} : Connect(Real, path)
  BY DEF AlembicByHand, Version, Opens
<1>2. Types' /\ Since'
  BY <1>1 DEF CInv, Types, Since, Kept
<1>3. /\ conn'.file = Real /\ ~conn'.tx
      /\ \/ conn'.todo = UpgradePath(files[Real].version, target')
         \/ conn'.todo = DowngradePath(files[Real].version, target')
  BY <1>1 DEF Connect, NoConn
<1>4. IsDatabase(files[Real])
  BY DEF CInv, Types
<1>5. \/ Underway(files[Real], conn', target', "hand")
      \/ Arrived(files[Real], conn', target', start.version, "hand")
  <2>1. CASE conn'.todo = UpgradePath(files[Real].version, target')
    BY <1>1, <1>3, <1>4, <2>1, ConnectUp
  <2>2. CASE conn'.todo = DowngradePath(files[Real].version, target')
    BY <1>1, <1>3, <1>4, <2>2, ConnectDown
  <2> QED BY <1>3, <2>1, <2>2
<1> QED BY <1>1, <1>2, <1>3, <1>5 DEF CInv, Connection

LEMMA CInvHolds == Control /\ CInv /\ [Next]_vars => CInv'
<1> SUFFICES ASSUME Control, CInv, [Next]_vars PROVE CInv'
  OBVIOUS
<1>1. Base \in Base .. E2f5 /\ Empty.version = Base
  BY DEF Base, E2f5, Empty
<1>2. \A d \in {Empty} \cup Parts(files[Real]) : IsDatabase(d)
  BY PartsShape DEF CInv, Types, Parts
<1>3. ASSUME Ends(None) \/ Ends("raised") \/ Ends("refused") \/ Ends("done")
             \/ Ends("diverged"),
             conn'.file = None, files'[Real] = files[Real], IsDatabase(files'[Trial])
      PROVE  CInv'
  <2>1. /\ pc' = "idle" /\ exit' \in {None, "raised", "refused", "done", "diverged"}
        /\ target' = Base /\ start' = Empty /\ reached' = Base
    BY <1>3 DEF Ends
  <2> QED BY <1>1, <1>3, <2>1 DEF CInv, Types, Connection, Connected, Since, Kept
<1>4. CASE Begin
  <2>1. /\ target' \in Base .. E2f5 /\ start' = files[Real] /\ exit' = None
        /\ pc' = "rmtree" /\ files' = files /\ conn' = conn /\ reached' = reached
    BY <1>4 DEF Begin, Base, B0ba, E2f5
  <2>2. conn.file = None
    BY <1>4 DEF Begin, Control, FileAt
  <2>3. files[Real].version \in Base .. E2f5 /\ Adds(files[Real], files[Real])
    BY AddsNothing DEF CInv, Types, IsDatabase
  <2> QED BY <2>1, <2>2, <2>3 DEF CInv, Types, Connection, Connected, Since, Kept
<1>5. CASE RemoveDump \/ Dump \/ CommitDump \/ Seed
  <2>1. /\ pc \in {"rmtree", "dump", "commit", "seed"}
        /\ pc' \in {"dump", "commit", "seed", "compare"}
        /\ target' = target /\ start' = start /\ exit' = exit /\ reached' = reached
        /\ conn' = conn
    BY <1>5 DEF RemoveDump, Dump, CommitDump, Seed, At, Goes
  <2>2. files'[Real] = files[Real] /\ IsDatabase(files'[Trial])
    <3>1. CASE Seed
      BY <3>1 DEF Seed, Control, Files, CInv, Types, Real, Trial
    <3>2. CASE RemoveDump \/ Dump \/ CommitDump
      BY <3>2 DEF RemoveDump, Dump, CommitDump, CInv, Types
    <3> QED BY <1>5, <3>1, <3>2
  <2>3. conn.file = None
    BY <2>1 DEF Control, FileAt
  <2> QED BY <2>1, <2>2, <2>3 DEF CInv, Types, Connection, Connected, Since, Kept
<1>6. CASE NothingToCommit
  <2>1. conn' = conn /\ conn.file = None /\ files' = files
    BY <1>6 DEF NothingToCommit, At, Control, FileAt
  <2> QED BY <1>3, <1>6, <2>1 DEF NothingToCommit, CInv, Types
<1>7. CASE Refuse
  <2>1. conn' = conn /\ conn.file = None
    BY <1>7 DEF Refuse, At, Control, FileAt
  <2>2. files'[Real] = files[Real] /\ files'[Trial] = Empty
    BY <1>7 DEF Refuse, Control, Files, Real, Trial
  <2> QED BY <1>2, <1>3, <1>7, <2>1, <2>2 DEF Refuse
<1>8. CASE Rehearse \/ Apply
  BY <1>8, ScriptConnects
<1>9. CASE Confirm \/ UpgradeFails \/ AlembicEnds
  <2>1. conn'.file = None /\ files' = files
    BY <1>9 DEF Confirm, UpgradeFails, AlembicEnds, NoConn
  <2>2. Ends("done") \/ Ends("diverged") \/ Ends("raised")
    BY <1>9 DEF Confirm, UpgradeFails, AlembicEnds
  <2> QED BY <1>3, <2>1, <2>2 DEF CInv, Types
<1>10. CASE Step
  BY <1>10, StepKeeps
<1>11. CASE Stop
  <2>1. PICK copy \in IF pc = "seed" THEN Parts(files[Real]) ELSE {files[Trial]} :
            files' = [files EXCEPT ![Trial] = copy]
    BY <1>11 DEF Stop
  <2>2. IsDatabase(copy)
    BY <1>2, <2>1 DEF CInv, Types
  <2>3. files'[Real] = files[Real] /\ files'[Trial] = copy
    BY <2>1 DEF Control, Files, Real, Trial
  <2>4. conn'.file = None /\ Ends("raised")
    BY <1>11 DEF Stop, NoConn
  <2> QED BY <1>3, <2>2, <2>3, <2>4
<1>12. CASE CleanTree
  <2>1. /\ files' = files /\ conn' = conn /\ pc' = pc /\ target' = target /\ start' = start
        /\ reached' = reached /\ exit' = exit
    BY <1>12 DEF CleanTree
  <2> QED BY <2>1 DEF CInv, Types, Connection, Connected, Since
<1>13. CASE AlembicByHand
  BY <1>13, OperatorConnects
<1>14. CASE Sniff \/ Detect
  BY <1>14, UsersKeep
<1>15. CASE UNCHANGED vars
  BY <1>15 DEF vars, script, CInv, Types, Connection, Connected, Since
<1> QED BY <1>4, <1>5, <1>6, <1>7, <1>8, <1>9, <1>10, <1>11, <1>12, <1>13, <1>14, <1>15
        DEF Next

-----------------------------------------------------------------------------
(* What follows for every behaviour.                                       *)

LEMMA CInvAlways == Spec => [](Control /\ CInv)
<1>1. Init => Control /\ CInv
  BY InitControl, InitCInv
<1>2. Control /\ CInv /\ [Next]_vars => (Control /\ CInv)'
  BY ControlHolds, CInvHolds
<1> QED BY <1>1, <1>2, PTL DEF Spec

\* Whatever the file holds at first, whichever revisions alembic is sent to and at
\* whichever statement it is killed, both files are databases: tables whose rows
\* have a value for each column, at one of the six revisions.
THEOREM MigrateTypes == Spec => []MigrateTypeOK
<1>1. Control /\ CInv => MigrateTypeOK
  <2> SUFFICES ASSUME Control, CInv PROVE MigrateTypeOK
    OBVIOUS
  <2>1. DOMAIN files = {Real, Trial} /\ \A f \in DOMAIN files : IsDatabase(files[f])
    BY DEF Control, Files, CInv, Types
  <2>2. conn.file = CASE pc = "rehearsal" -> Trial
                      [] pc \in {"upgrade", "hand"} -> Real
                      [] OTHER -> None
    BY DEF Control, FileAt
  <2> QED BY <2>1, <2>2 DEF MigrateTypeOK, Control, Phases, CInv, Types
<1> QED BY <1>1, CInvAlways, PTL

\* No statement of any revision, upwards or back, committed at once or with its
\* revision, loses a row, an assignment or an alert, but on the way back to nothing.
THEOREM NothingIsLost == Spec => RowsSurvive
<1>1. Control /\ CInv /\ [Next]_vars =>
          [(pc = "hand" /\ target = Base) \/ Keeps(files[Real], files'[Real])]_vars
  <2> SUFFICES ASSUME Control, CInv, [Next]_vars, ~UNCHANGED vars
               PROVE  (pc = "hand" /\ target = Base) \/ Keeps(files[Real], files'[Real])
    OBVIOUS
  <2>1. ASSUME files'[Real] = files[Real] PROVE Keeps(files[Real], files'[Real])
    BY <2>1, HoldingItself, HoldingKeeps
  <2>2. CASE Sniff \/ Detect
    BY <2>2, SniffAdds, DetectAdds, AddsKeeps
  <2>3. CASE Step
    <3>1. Execute
      BY <2>3 DEF Step
    <3>2. PICK up \in BOOLEAN :
              /\ up \/ pc = "hand"
              /\ Progress(files[conn.file], files'[conn.file], conn', target, up)
      BY <3>1, ExecuteProgress
    <3>3. \/ Keeps(files[conn.file], files'[conn.file])
          \/ pc = "hand" /\ target = Base
      BY <3>2 DEF Progress
    <3>4. CASE conn.file = Real
      BY <3>3, <3>4
    <3>5. CASE conn.file # Real
      <4>1. files'[Real] = files[Real]
        BY <3>1, <3>5, ExecuteTouches DEF Files
      <4> QED BY <2>1, <4>1
    <3> QED BY <3>4, <3>5
  <2>4. CASE Seed \/ Refuse \/ Apply \/ Stop
    <3>1. files'[Real] = files[Real]
      BY <2>4 DEF Seed, Refuse, Apply, Stop, Control, Files, Real, Trial
    <3> QED BY <2>1, <3>1
  <2>5. CASE \/ Begin \/ RemoveDump \/ Dump \/ CommitDump \/ NothingToCommit \/ Rehearse
             \/ Confirm \/ UpgradeFails \/ CleanTree \/ AlembicByHand \/ AlembicEnds
    <3>1. files' = files
      BY <2>5 DEF Begin, RemoveDump, Dump, CommitDump, NothingToCommit, Rehearse, Confirm,
                  UpgradeFails, CleanTree, AlembicByHand, AlembicEnds
    <3> QED BY <2>1, <3>1
  <2> QED BY <2>2, <2>3, <2>4, <2>5 DEF Next
<1> QED BY <1>1, CInvAlways, PTL DEF Spec, RowsSurvive

\* A run that reports success has brought the database to its target, through all
\* the revisions between, and kept what it held, whatever its users wrote meanwhile.
THEOREM DoneIsMigrated == Spec => DoneMeansMigrated
<1> DEFINE Done == /\ files'[Real].version =
                          IF target > start.version THEN target ELSE start.version
                   /\ Keeps(start, files'[Real])
<1>1. Control /\ CInv /\ [Next]_vars =>
          [pc = "upgrade" /\ pc' = "idle" /\ exit' = "done" => Done]_vars
  <2> SUFFICES ASSUME Control, CInv, [Next]_vars, ~UNCHANGED vars,
                      pc = "upgrade", pc' = "idle", exit' = "done"
               PROVE  Done
    OBVIOUS
  <2>1. Confirm
    <3>1. ~(UpgradeFails \/ Stop)
      BY DEF UpgradeFails, Stop, Ends
    <3>2. ~(\/ Begin \/ RemoveDump \/ Dump \/ CommitDump \/ NothingToCommit \/ Seed
            \/ Refuse \/ Rehearse \/ Apply \/ CleanTree \/ AlembicByHand \/ AlembicEnds)
      BY DEF Begin, RemoveDump, Dump, CommitDump, NothingToCommit, Seed, Refuse, Rehearse,
             Apply, CleanTree, AlembicByHand, AlembicEnds, At
    <3>3. ~(Step \/ Sniff \/ Detect)
      BY DEF Step, Sniff, Detect, script
    <3> QED BY <3>1, <3>2, <3>3 DEF Next
  <2>2. /\ files'[Real] = files[Real] /\ Connected /\ conn.todo = <<>>
        /\ conn.file = Real
    BY <2>1 DEF Confirm, Finished, Control, FileAt
  <2>3. ~Underway(files[Real], conn, target, pc)
    <3> SUFFICES ASSUME NEW up \in BOOLEAN, NEW r \in B0ba .. E2f5, NEW k \in Nat,
                        Amid(files[Real], conn, target, up, r, k)
                 PROVE  FALSE
      BY DEF Underway
    <3>1. Ahead(conn, target, up, r, k)
      BY NextStatement DEF CInv, Types
    <3> QED BY <2>2, <3>1 DEF Ahead
  <2>4. files[Real].version = Reached(start.version, target)
    BY <2>2, <2>3 DEF CInv, Connection, Arrived
  <2>5. Keeps(start, files[Real])
    <3>1. Holding(files[Real].version < E2f5, start, files[Real])
      BY DEF CInv, Since, Kept
    <3>2. (files[Real].version < E2f5) \in BOOLEAN
      BY DEF CInv, Types, IsDatabase, Base, E2f5
    <3> QED BY <3>1, <3>2, HoldingKeeps
  <2> QED BY <2>2, <2>4, <2>5 DEF Reached
<1> QED BY <1>1, CInvAlways, PTL DEF Spec, DoneMeansMigrated
-----------------------------------------------------------------------------
(* What the statements make of the tables that sniffers and detectors use. *)

\* The revision that the file is at.
From(up, r) == IF up THEN r - 1 ELSE r

\* A table is of use, under a name, at a revision.
As(v, name, t) ==
    /\ name = "messages" => MessagesAt(v, t)
    /\ name = "sessions" => SessionsAt(v, t)
    /\ name = "alerts" => {"session_id", "trigger_message_id"} \subseteq t.cols

\* What a statement x of a revision makes is of use behind it.
Shapes(up, r, x) ==
    /\ x.op = "create" =>
          \/ up /\ r = B0ba /\ x.name # "sessions_new" /\ As(Base, x.name, x.table)
          \/ r = E2f5 /\ x.name = "sessions_new" /\ SessionsAt(Goal(up, r), x.table)
    /\ x.op = "createLike" => \A t :
          As(From(up, r), x.name, t) \/ As(Goal(up, r), x.name, t) =>
              As(Goal(up, r), x.name, Altered(t, x))
    /\ x.op \in {"createLike", "replace"} => ~(up /\ r = E2f5)
    /\ x.op = "addColumn" => up /\ r = E2f5 /\ x.name = "messages"
    /\ x.op = "copy" => r # B0ba /\ (x.to = "sessions_new" => x.name = "sessions")
    /\ x.op = "drop" => (r = B0ba /\ ~up) \/ (r = E2f5 /\ x.name = "sessions")
    /\ x.op = "rename" => r = E2f5 /\ x.name = "sessions_new" /\ x.to = "sessions"

AllShape(up, r, s) == IsSequence(s) /\ \A j \in 1 .. Len(s) : Shapes(up, r, s[j])

LEMMA ShapesBehind ==
    ASSUME NEW up, NEW r, NEW s, NEW t, AllShape(up, r, s), AllShape(up, r, t)
    PROVE  AllShape(up, r, s \o t)
<1> DEFINE u == s \o t
<1>1. Joins(u, s, t) /\ Len(s) \in Nat /\ Len(t) \in Nat
  BY Behind DEF AllShape, IsSequence
<1> HIDE DEF u
<1>2. ASSUME NEW j \in 1 .. Len(u) PROVE Shapes(up, r, u[j])
  <2>1. j \in 1 .. Len(s) \/ (j - Len(s) \in 1 .. Len(t) /\ Len(s) + (j - Len(s)) = j)
    BY <1>1 DEF Joins
  <2> QED BY <1>1, <2>1 DEF Joins, AllShape
<1>3. AllShape(up, r, u)
  BY <1>1, <1>2 DEF AllShape, Joins
<1> QED BY <1>3 DEF u

Plain == {"createIndex", "dropIndex", "foreignKeys", "setVersion", "commit"}

LEMMA PlainShape ==
    ASSUME NEW up, NEW r, NEW s, IsSequence(s), \A j \in 1 .. Len(s) : s[j].op \in Plain
    PROVE  AllShape(up, r, s)
BY DEF AllShape, Shapes, Plain

\* A table that is of use before, or behind, is of use behind when it is altered so.
Recasts(up, r, name, dropped, added, nullable, notNull) ==
    \A t, x :
        /\ x.dropped = dropped /\ x.added = added
        /\ x.nullable = nullable /\ x.notNull = notNull
        /\ As(From(up, r), name, t) \/ As(Goal(up, r), name, t)
        => As(Goal(up, r), name, Altered(t, x))

LEMMA BatchShape ==
    ASSUME NEW up \in BOOLEAN, NEW r \in {B449, C692, E2f5}, ~(up /\ r = E2f5),
           NEW name \in {"messages", "sessions"},
           NEW dropped, NEW added, NEW nullable, NEW notNull,
           NEW s, s = Batch(name, dropped, added, nullable, notNull),
           Recasts(up, r, name, dropped, added, nullable, notNull)
    PROVE  AllShape(up, r, s)
<1> DEFINE like == [op |-> "createLike", name |-> name, dropped |-> dropped,
                    added |-> added, nullable |-> nullable, notNull |-> notNull]
<1>1. /\ IsSequence(s) /\ Len(s) = 3 /\ s[1] = like
      /\ s[2] = Copy(name, Tmp[name]) /\ s[3] = [op |-> "replace", name |-> name]
  BY DEF Batch, IsSequence
<1>2. /\ like.op = "createLike" /\ like.name = name /\ like.dropped = dropped
      /\ like.added = added /\ like.nullable = nullable /\ like.notNull = notNull
  OBVIOUS
<1> HIDE DEF like
<1>3. /\ s[1].op = "createLike" /\ s[1].name = name
      /\ s[2].op = "copy" /\ s[2].name = name /\ s[2].to = Tmp[name]
      /\ s[3].op = "replace" /\ s[3].name = name
  BY <1>1, <1>2 DEF Copy
<1>4. Tmp[name] # "sessions_new" /\ r # B0ba
  BY DEF Tmp, B449, C692, E2f5, B0ba
<1>5. \A t : As(From(up, r), name, t) \/ As(Goal(up, r), name, t) =>
                 As(Goal(up, r), name, Altered(t, s[1]))
  BY <1>1, <1>2 DEF Recasts
<1>6. Shapes(up, r, s[1]) /\ Shapes(up, r, s[2]) /\ Shapes(up, r, s[3])
  BY <1>3, <1>4, <1>5 DEF Shapes
<1>7. \A j \in 1 .. 3 : j = 1 \/ j = 2 \/ j = 3
  OBVIOUS
<1> QED BY <1>1, <1>6, <1>7 DEF AllShape

\* The sessions table that is built by hand.
LEMMA SessionsNewShape ==
    ASSUME NEW up \in BOOLEAN, NEW cols, NEW refs,
           SessionsAt(Goal(up, E2f5), Table(cols, {}, refs))
    PROVE  AllShape(up, E2f5, SessionsNew(cols, refs))
<1> DEFINE s     == SessionsNew(cols, refs)
           table == Table(cols, {}, refs)
           off   == ForeignKeys(FALSE)
           on    == ForeignKeys(TRUE)
<1>1. SessionsAt(Goal(up, E2f5), table) /\ off.op = "foreignKeys" /\ on.op = "foreignKeys"
  BY DEF ForeignKeys
<1> HIDE DEF table, off, on
<1>2. /\ IsSequence(s) /\ Len(s) = 8
      /\ s[1] = off
      /\ s[2] = Create("sessions_new", table)
      /\ s[3] = Copy("sessions", "sessions_new")
      /\ s[4] = Drop("sessions")
      /\ s[5] = Rename("sessions_new", "sessions")
      /\ s[6] = CreateIndex("idx_sessions_cell", "sessions")
      /\ s[7] = CreateIndex("idx_sessions_started_at", "sessions")
      /\ s[8] = on
  <2>1. s = <<off, Create("sessions_new", table), Copy("sessions", "sessions_new"),
              Drop("sessions"), Rename("sessions_new", "sessions"),
              CreateIndex("idx_sessions_cell", "sessions"),
              CreateIndex("idx_sessions_started_at", "sessions"), on>>
    BY DEF SessionsNew, table, off, on
  <2> HIDE DEF s
  <2> QED BY <2>1 DEF IsSequence
<1> HIDE DEF s
<1>3. /\ s[1].op = "foreignKeys" /\ s[8].op = "foreignKeys"
      /\ s[2].op = "create" /\ s[2].name = "sessions_new" /\ s[2].table = table
      /\ s[3].op = "copy" /\ s[3].name = "sessions" /\ s[3].to = "sessions_new"
      /\ s[4].op = "drop" /\ s[4].name = "sessions"
      /\ s[5].op = "rename" /\ s[5].name = "sessions_new" /\ s[5].to = "sessions"
      /\ s[6].op = "createIndex" /\ s[7].op = "createIndex"
  BY <1>1, <1>2 DEF Create, Copy, Drop, Rename, CreateIndex
<1>4. \A j \in 1 .. 8 : j = 1 \/ j = 2 \/ j = 3 \/ j = 4 \/ j = 5 \/ j = 6 \/ j = 7 \/ j = 8
  OBVIOUS
<1>5. E2f5 # B0ba
  BY DEF E2f5, B0ba
<1>6. ASSUME NEW j \in 1 .. 8 PROVE Shapes(up, E2f5, s[j])
  BY <1>1, <1>3, <1>4, <1>5 DEF Shapes
<1>7. AllShape(up, E2f5, s)
  BY <1>2, <1>6 DEF AllShape
<1> QED BY <1>7 DEF s

LEMMA InitialShape ==
    AllShape(TRUE, B0ba, UpgradeB0ba) /\ AllShape(FALSE, B0ba, DowngradeB0ba)
<1>1. AllShape(TRUE, B0ba, InitialTables)
  <2>1. \A name, table : Create(name, table).op = "create" /\ Create(name, table).name = name
                         /\ Create(name, table).table = table
    BY DEF Create
  <2>2. ASSUME NEW name, NEW table, name # "sessions_new", As(Base, name, table)
        PROVE  Shapes(TRUE, B0ba, Create(name, table))
    <3> DEFINE x == Create(name, table)
    <3>1. x.op = "create" /\ x.name = name /\ x.table = table
      BY <2>1
    <3> HIDE DEF x
    <3>2. Shapes(TRUE, B0ba, x)
      BY <2>2, <3>1 DEF Shapes
    <3> QED BY <3>2 DEF x
  <2>3. \A cols, notNull, refs :
            LET t == Table(cols, notNull, refs)
            IN  t.cols = cols /\ t.notNull = notNull /\ t.refs = refs
    BY DEF Table
  <2>4. As(Base, "cells", Table({"plmn"}, {"plmn"}, <<>>))
    BY DEF As
  <2>5. As(Base, "sessions", Table({"cell_id"}, {"cell_id"}, [cell_id |-> "cells"]))
    BY <2>3 DEF As, SessionsAt, Base, E2f5
  <2>6. As(Base, "messages", Table({"session_id"}, {"session_id"},
                                   [session_id |-> "sessions"]))
    BY <2>3 DEF As, MessagesAt, Base, E2f5, B449
  <2>7. As(Base, "alerts", Table({"session_id", "trigger_message_id"}, {"session_id"},
                              [session_id |-> "sessions",
                               trigger_message_id |-> "messages"]))
    BY <2>3 DEF As
  <2> DEFINE a == Create("cells", Table({"plmn"}, {"plmn"}, <<>>))
             b == Create("sessions", Table({"cell_id"}, {"cell_id"}, [cell_id |-> "cells"]))
             c == Create("messages", Table({"session_id"}, {"session_id"},
                                           [session_id |-> "sessions"]))
             d == Create("alerts", Table({"session_id", "trigger_message_id"}, {"session_id"},
                                         [session_id |-> "sessions",
                                          trigger_message_id |-> "messages"]))
  <2>8. /\ Shapes(TRUE, B0ba, a) /\ Shapes(TRUE, B0ba, b)
        /\ Shapes(TRUE, B0ba, c) /\ Shapes(TRUE, B0ba, d)
    BY <2>2, <2>4, <2>5, <2>6, <2>7
  <2>9. InitialTables = <<a, b, c, d>>
    BY DEF InitialTables
  <2> HIDE DEF a, b, c, d
  <2> DEFINE s == InitialTables
  <2>10. IsSequence(s) /\ Len(s) = 4 /\ s[1] = a /\ s[2] = b /\ s[3] = c /\ s[4] = d
    BY <2>9 DEF IsSequence
  <2>11. \A j \in 1 .. 4 : j = 1 \/ j = 2 \/ j = 3 \/ j = 4
    OBVIOUS
  <2> QED BY <2>8, <2>10, <2>11 DEF AllShape
<1>2. AllShape(TRUE, B0ba, InitialIndexes)
  <2>1. /\ IsSequence(InitialIndexes)
        /\ \A j \in 1 .. Len(InitialIndexes) : InitialIndexes[j].op = "createIndex"
    BY DEF InitialIndexes, CreateIndex, IsSequence
  <2> QED BY <2>1, PlainShape DEF Plain
<1>3. AllShape(FALSE, B0ba, DowngradeB0ba)
  <2>1. /\ IsSequence(DowngradeB0ba)
        /\ \A j \in 1 .. Len(DowngradeB0ba) : DowngradeB0ba[j].op \in {"drop", "dropIndex"}
    BY DEF DowngradeB0ba, DropIndex, Drop, IsSequence
  <2> QED BY <2>1 DEF AllShape, Shapes
<1> QED BY <1>1, <1>2, <1>3, ShapesBehind DEF UpgradeB0ba

\* A revision is done with the tables that it changes.
Settles(up, r, s) ==
    /\ r = B449 => \E i \in 1 .. (Len(s) - 2) : s[i].op = "replace" /\ s[i].name = "messages"
    /\ r = E2f5 => \E i \in 1 .. (Len(s) - 2) : s[i].op = "rename"
    /\ up /\ r = E2f5 =>
          /\ Len(s) > 3
          /\ s[1].op = "addColumn" /\ s[1].col = "plmn"
          /\ s[2].op = "addColumn" /\ s[2].col = "cell_id"

\* Altered, field by field.
LEMMA AlteredIs ==
    ASSUME NEW t, NEW x, NEW dropped, NEW added, NEW nullable, NEW notNull,
           x.dropped = dropped, x.added = added, x.nullable = nullable, x.notNull = notNull
    PROVE  /\ Altered(t, x).cols = (t.cols \ dropped) \cup added
           /\ Altered(t, x).notNull = (t.notNull \ nullable) \cup notNull
           /\ Altered(t, x).refs = t.refs /\ Altered(t, x).rows = <<>>
BY DEF Altered, Table

\* One index that is made or dropped.
LEMMA IndexShape ==
    ASSUME NEW up, NEW r, NEW index, NEW name,
           NEW s \in {<<CreateIndex(index, name)>>, <<DropIndex(index)>>}
    PROVE  AllShape(up, r, s)
<1>1. IsSequence(s) /\ \A j \in 1 .. Len(s) : s[j].op \in {"createIndex", "dropIndex"}
  BY DEF CreateIndex, DropIndex, IsSequence
<1> QED BY <1>1, PlainShape DEF Plain

LEMMA BatchAt ==
    ASSUME NEW name, NEW dropped, NEW added, NEW nullable, NEW notNull
    PROVE  LET s == Batch(name, dropped, added, nullable, notNull)
           IN  Len(s) = 3 /\ s[3].op = "replace" /\ s[3].name = name
BY DEF Batch

LEMMA SessionsNewAt ==
    ASSUME NEW cols, NEW refs
    PROVE  LET s == SessionsNew(cols, refs) IN Len(s) = 8 /\ s[5].op = "rename"
<1> DEFINE table == Table(cols, {}, refs)
<1> HIDE DEF table
<1>1. Len(SessionsNew(cols, refs)) = 8
      /\ SessionsNew(cols, refs)[5] = Rename("sessions_new", "sessions")
  BY DEF SessionsNew
<1> QED BY <1>1 DEF Rename

\* The revisions that change the form of a table.
LEMMA B449Shape ==
    ASSUME NEW up \in BOOLEAN
    PROVE  LET s == IF up THEN UpgradeB449 ELSE DowngradeB449
           IN  /\ AllShape(up, B449, s)
               /\ \E i \in 1 .. Len(s) : s[i].op = "replace" /\ s[i].name = "messages"
<1> DEFINE add   == Batch("messages", {}, {"enb_ue_s1ap_id", "mme_ue_s1ap_id"},
                          {"session_id"}, {})
           del   == Batch("messages", {"mme_ue_s1ap_id", "enb_ue_s1ap_id"}, {}, {},
                          {"session_id"})
           index == <<CreateIndex("idx_messages_enb_ue_s1ap_id", "messages")>>
           gone  == <<DropIndex("idx_messages_enb_ue_s1ap_id")>>
<1>1. AllShape(TRUE, B449, index) /\ AllShape(FALSE, B449, gone)
  BY IndexShape
<1>2. AllShape(TRUE, B449, add)
  <2>1. ASSUME NEW t, NEW x, x.dropped = {}, x.added = {"enb_ue_s1ap_id", "mme_ue_s1ap_id"},
               x.nullable = {"session_id"}, x.notNull = {},
               As(From(TRUE, B449), "messages", t) \/ As(Goal(TRUE, B449), "messages", t)
        PROVE  As(Goal(TRUE, B449), "messages", Altered(t, x))
    <3> USE DEF B449, E2f5
    <3>1. /\ Altered(t, x).cols = (t.cols \ {}) \cup {"enb_ue_s1ap_id", "mme_ue_s1ap_id"}
          /\ Altered(t, x).notNull = (t.notNull \ {"session_id"}) \cup {}
          /\ Altered(t, x).refs = t.refs
      BY <2>1, AlteredIs
    <3>2. MessagesAt(1, t) \/ MessagesAt(2, t)
      BY <2>1 DEF As, From, Goal
    <3>3. MessagesAt(2, Altered(t, x))
      BY <3>1, <3>2 DEF MessagesAt
    <3> QED BY <3>3 DEF As, Goal
  <2>2. Recasts(TRUE, B449, "messages", {}, {"enb_ue_s1ap_id", "mme_ue_s1ap_id"},
              {"session_id"}, {})
    BY <2>1 DEF Recasts
  <2>3. B449 # E2f5
    BY DEF B449, E2f5
  <2> QED BY <2>2, <2>3, BatchShape
<1>3. AllShape(FALSE, B449, del)
  <2>1. ASSUME NEW t, NEW x, x.dropped = {"mme_ue_s1ap_id", "enb_ue_s1ap_id"}, x.added = {},
               x.nullable = {}, x.notNull = {"session_id"},
               As(From(FALSE, B449), "messages", t) \/ As(Goal(FALSE, B449), "messages", t)
        PROVE  As(Goal(FALSE, B449), "messages", Altered(t, x))
    <3> USE DEF B449, E2f5
    <3>1. /\ Altered(t, x).cols = (t.cols \ {"mme_ue_s1ap_id", "enb_ue_s1ap_id"}) \cup {}
          /\ Altered(t, x).notNull = (t.notNull \ {}) \cup {"session_id"}
          /\ Altered(t, x).refs = t.refs
      BY <2>1, AlteredIs
    <3>2. MessagesAt(1, t) \/ MessagesAt(2, t)
      BY <2>1 DEF As, From, Goal
    <3>3. MessagesAt(1, Altered(t, x))
      BY <3>1, <3>2 DEF MessagesAt
    <3> QED BY <3>3 DEF As, Goal
  <2>2. Recasts(FALSE, B449, "messages", {"mme_ue_s1ap_id", "enb_ue_s1ap_id"}, {}, {},
              {"session_id"})
    BY <2>1 DEF Recasts
  <2>3. B449 # E2f5
    BY DEF B449, E2f5
  <2> QED BY <2>2, <2>3, BatchShape
<1>4. /\ Len(add) = 3 /\ add[3].op = "replace" /\ add[3].name = "messages"
      /\ Len(del) = 3 /\ del[3].op = "replace" /\ del[3].name = "messages"
  BY BatchAt
<1>5. Len(gone) = 1 /\ Len(index) = 1
  OBVIOUS
<1>6. UpgradeB449 = add \o index /\ DowngradeB449 = gone \o del
  BY DEF UpgradeB449, DowngradeB449
<1> HIDE DEF add, del, index, gone
<1>7. Joins(add \o index, add, index) /\ Joins(gone \o del, gone, del)
  BY <1>1, <1>2, <1>3, Behind DEF AllShape
<1>8. CASE up
  <2>1. 3 \in 1 .. Len(add) /\ 3 \in 1 .. Len(add \o index)
    BY <1>4, <1>5, <1>7 DEF Joins
  <2>2. (add \o index)[3] = add[3]
    BY <1>7, <2>1 DEF Joins
  <2>3. AllShape(up, B449, add \o index)
    BY <1>1, <1>2, <1>8, ShapesBehind
  <2> QED BY <1>4, <1>6, <1>8, <2>1, <2>2, <2>3
<1>9. CASE ~up
  <2>1. 3 \in 1 .. Len(del) /\ 4 \in 1 .. Len(gone \o del) /\ Len(gone) + 3 = 4
    BY <1>4, <1>5, <1>7 DEF Joins
  <2>2. (gone \o del)[4] = del[3]
    BY <1>7, <2>1 DEF Joins
  <2>3. AllShape(up, B449, gone \o del)
    BY <1>1, <1>3, <1>9, ShapesBehind
  <2> QED BY <1>4, <1>6, <1>9, <2>1, <2>2, <2>3
<1> QED BY <1>8, <1>9

LEMMA E2f5Up ==
    /\ AllShape(TRUE, E2f5, UpgradeE2f5)
    /\ \E i \in 1 .. Len(UpgradeE2f5) : UpgradeE2f5[i].op = "rename"
    /\ Len(UpgradeE2f5) > 3
    /\ UpgradeE2f5[1].op = "addColumn" /\ UpgradeE2f5[1].col = "plmn"
    /\ UpgradeE2f5[2].op = "addColumn" /\ UpgradeE2f5[2].col = "cell_id"
<1> DEFINE columns == <<AddColumn("messages", "plmn"), AddColumn("messages", "cell_id")>>
           new     == SessionsNew({"cell_id", "plmn"}, <<>>)
           index   == <<CreateIndex("idx_messages_cell_enb_ue_s1ap_id", "messages")>>
<1>1. AllShape(TRUE, E2f5, index)
  BY IndexShape
<1>2. /\ AllShape(TRUE, E2f5, columns) /\ Len(columns) = 2
      /\ columns[1].op = "addColumn" /\ columns[1].col = "plmn"
      /\ columns[2].op = "addColumn" /\ columns[2].col = "cell_id"
  <2>1. /\ IsSequence(columns) /\ Len(columns) = 2
        /\ columns[1].op = "addColumn" /\ columns[1].col = "plmn"
        /\ columns[2].op = "addColumn" /\ columns[2].col = "cell_id"
        /\ columns[1].name = "messages" /\ columns[2].name = "messages"
    BY DEF AddColumn, IsSequence
  <2> HIDE DEF columns
  <2>2. \A j \in 1 .. 2 : j = 1 \/ j = 2
    OBVIOUS
  <2> QED BY <2>1, <2>2 DEF AllShape, Shapes
<1>3. AllShape(TRUE, E2f5, new) /\ Len(new) = 8 /\ new[5].op = "rename"
  <2> DEFINE table == Table({"cell_id", "plmn"}, {}, <<>>)
  <2>1. table.cols = {"cell_id", "plmn"} /\ table.notNull = {} /\ table.refs = <<>>
    BY DEF Table
  <2> HIDE DEF table
  <2>2. SessionsAt(Goal(TRUE, E2f5), table)
    BY <2>1 DEF SessionsAt, Goal
  <2> QED BY <2>2, SessionsNewShape, SessionsNewAt DEF table
<1>4. UpgradeE2f5 = (columns \o new) \o index
  BY DEF UpgradeE2f5
<1> HIDE DEF columns, new, index
<1> DEFINE s == columns \o new
           u == s \o index
<1>5. Joins(s, columns, new) /\ AllShape(TRUE, E2f5, s)
  BY <1>2, <1>3, Behind, ShapesBehind DEF AllShape
<1> HIDE DEF s
<1>6. Joins(u, s, index) /\ AllShape(TRUE, E2f5, u)
  BY <1>1, <1>5, Behind, ShapesBehind DEF AllShape
<1>7. Len(s) = 10 /\ Len(index) \in Nat
  BY <1>1, <1>2, <1>3, <1>5 DEF Joins, AllShape, IsSequence
<1> HIDE DEF u
<1>8. s[1] = columns[1] /\ s[2] = columns[2] /\ s[7] = new[5]
  <2>1. 1 \in 1 .. 2 /\ 2 \in 1 .. 2 /\ 5 \in 1 .. 8 /\ 2 + 5 = 7
    OBVIOUS
  <2> QED BY <1>2, <1>3, <1>5, <2>1 DEF Joins
<1>9. u[1] = s[1] /\ u[2] = s[2] /\ u[7] = s[7]
  <2>1. 1 \in 1 .. 10 /\ 2 \in 1 .. 10 /\ 7 \in 1 .. 10
    OBVIOUS
  <2> QED BY <1>6, <1>7, <2>1 DEF Joins
<1>10. Len(u) > 3 /\ 7 \in 1 .. Len(u)
  BY <1>6, <1>7 DEF Joins
<1> QED BY <1>2, <1>3, <1>4, <1>6, <1>8, <1>9, <1>10 DEF u, s

LEMMA E2f5Down ==
    /\ AllShape(FALSE, E2f5, DowngradeE2f5)
    /\ \E i \in 1 .. Len(DowngradeE2f5) : DowngradeE2f5[i].op = "rename"
<1> DEFINE index == <<DropIndex("idx_messages_cell_enb_ue_s1ap_id")>>
           new   == SessionsNew({"cell_id"}, [cell_id |-> "cells"])
           batch == Batch("messages", {"cell_id", "plmn"}, {}, {}, {})
<1>1. AllShape(FALSE, E2f5, index) /\ Len(index) = 1
  BY IndexShape
<1>2. AllShape(FALSE, E2f5, batch)
  <2>1. ASSUME NEW t, NEW x, x.dropped = {"cell_id", "plmn"}, x.added = {},
               x.nullable = {}, x.notNull = {},
               As(From(FALSE, E2f5), "messages", t) \/ As(Goal(FALSE, E2f5), "messages", t)
        PROVE  As(Goal(FALSE, E2f5), "messages", Altered(t, x))
    <3> USE DEF B449, E2f5
    <3>1. /\ Altered(t, x).cols = (t.cols \ {"cell_id", "plmn"}) \cup {}
          /\ Altered(t, x).notNull = (t.notNull \ {}) \cup {}
          /\ Altered(t, x).refs = t.refs
      BY <2>1 DEF Altered, Table
    <3>2. MessagesAt(4, t) \/ MessagesAt(5, t)
      BY <2>1 DEF As, From, Goal
    <3>3. MessagesAt(4, Altered(t, x))
      BY <3>1, <3>2 DEF MessagesAt
    <3> QED BY <3>3 DEF As, Goal
  <2>2. Recasts(FALSE, E2f5, "messages", {"cell_id", "plmn"}, {}, {}, {})
    BY <2>1 DEF Recasts
  <2>3. B449 # E2f5
    BY DEF B449, E2f5
  <2> QED BY <2>2, <2>3, BatchShape
<1>3. AllShape(FALSE, E2f5, new) /\ Len(new) = 8 /\ new[5].op = "rename"
  <2> DEFINE table == Table({"cell_id"}, {}, [cell_id |-> "cells"])
  <2>1. table.cols = {"cell_id"}
    BY DEF Table
  <2> HIDE DEF table
  <2>2. SessionsAt(Goal(FALSE, E2f5), table)
    BY <2>1 DEF SessionsAt, Goal, E2f5
  <2> QED BY <2>2, SessionsNewShape, SessionsNewAt DEF table
<1>4. DowngradeE2f5 = (index \o new) \o batch
  BY DEF DowngradeE2f5
<1> HIDE DEF index, new, batch
<1> DEFINE s == index \o new
           u == s \o batch
<1>5. Joins(s, index, new) /\ AllShape(FALSE, E2f5, s)
  BY <1>1, <1>3, Behind, ShapesBehind DEF AllShape
<1> HIDE DEF s
<1>6. Joins(u, s, batch) /\ AllShape(FALSE, E2f5, u)
  BY <1>2, <1>5, Behind, ShapesBehind DEF AllShape
<1>7. Len(s) = 9 /\ Len(batch) \in Nat
  BY <1>1, <1>2, <1>3, <1>5 DEF Joins, AllShape, IsSequence
<1> HIDE DEF u
<1>8. s[6] = new[5] /\ u[6] = s[6] /\ 6 \in 1 .. Len(u)
  <2>1. 5 \in 1 .. 8 /\ 1 + 5 = 6 /\ 6 \in 1 .. 9
    OBVIOUS
  <2> QED BY <1>1, <1>3, <1>5, <1>6, <1>7, <2>1 DEF Joins
<1> QED BY <1>3, <1>4, <1>6, <1>8 DEF u, s

\* The sessions of C692 refer to cells as before, but need not.
LEMMA C692Shape ==
    ASSUME NEW up \in BOOLEAN
    PROVE  AllShape(up, C692, IF up THEN UpgradeC692 ELSE DowngradeC692)
<1>0. C692 # E2f5 /\ C692 - 1 # E2f5
  BY DEF C692, E2f5
<1>1. ASSUME NEW t, NEW x, x.dropped = {}, x.added = {},
             As(From(up, C692), "sessions", t) \/ As(Goal(up, C692), "sessions", t)
      PROVE  As(Goal(up, C692), "sessions", Altered(t, x))
  <2>1. Altered(t, x).cols = t.cols
    BY <1>1 DEF Altered, Table
  <2>2. "plmn" \notin t.cols
    BY <1>0, <1>1 DEF As, From, Goal, SessionsAt
  <2> QED BY <1>0, <2>1, <2>2 DEF As, Goal, SessionsAt
<1>2. \A nullable, notNull : Recasts(up, C692, "sessions", {}, {}, nullable, notNull)
  BY <1>1 DEF Recasts
<1>3. CASE up
  BY <1>0, <1>2, <1>3, BatchShape DEF UpgradeC692
<1>4. CASE ~up
  BY <1>0, <1>2, <1>4, BatchShape DEF DowngradeC692
<1> QED BY <1>3, <1>4

LEMMA WayShape ==
    ASSUME NEW up \in BOOLEAN, NEW r \in B0ba .. E2f5
    PROVE  AllShape(up, r, Way(up, r)) /\ Settles(up, r, Way(up, r))
<1> DEFINE s == IF up THEN Upgrade[r] ELSE Downgrade[r]
           end == <<SetVersion(Goal(up, r)), Commit>>
<1>1. /\ AllShape(up, r, s)
      /\ r = B449 => \E i \in 1 .. Len(s) : s[i].op = "replace" /\ s[i].name = "messages"
      /\ r = E2f5 => \E i \in 1 .. Len(s) : s[i].op = "rename"
      /\ up /\ r = E2f5 =>
            /\ Len(s) > 3
            /\ s[1].op = "addColumn" /\ s[1].col = "plmn"
            /\ s[2].op = "addColumn" /\ s[2].col = "cell_id"
  <2>1. /\ Upgrade[1] = UpgradeB0ba /\ Upgrade[2] = UpgradeB449 /\ Upgrade[3] = UpgradeC692
        /\ Upgrade[4] = UpgradeD1a7 /\ Upgrade[5] = UpgradeE2f5
        /\ Downgrade[1] = DowngradeB0ba /\ Downgrade[2] = DowngradeB449
        /\ Downgrade[3] = DowngradeC692
        /\ Downgrade[4] = DowngradeD1a7 /\ Downgrade[5] = DowngradeE2f5
    BY DEF Upgrade, Downgrade
  <2>2. B0ba = 1 /\ B449 = 2 /\ C692 = 3 /\ D1a7 = 4 /\ E2f5 = 5
    BY DEF B0ba, B449, C692, D1a7, E2f5
  <2>3. r = 1 \/ r = 2 \/ r = 3 \/ r = 4 \/ r = 5
    BY <2>2
  <2>4. CASE r = 1
    <3>1. AllShape(up, r, s)
      BY <2>1, <2>2, <2>4, InitialShape
    <3> QED BY <2>2, <2>4, <3>1
  <2>5. CASE r = 2
    BY <2>1, <2>2, <2>5, B449Shape
  <2>6. CASE r = 3
    <3>1. AllShape(up, r, s)
      BY <2>1, <2>2, <2>6, C692Shape
    <3> QED BY <2>2, <2>6, <3>1
  <2>7. CASE r = 4
    <3>1. AllShape(up, D1a7, UpgradeD1a7) /\ AllShape(up, D1a7, DowngradeD1a7)
      BY IndexShape DEF UpgradeD1a7, DowngradeD1a7
    <3>2. AllShape(up, r, s)
      BY <2>1, <2>2, <2>7, <3>1
    <3> QED BY <2>2, <2>7, <3>2
  <2>9. E2f5 # B449
    BY <2>2
  <2>8. CASE r = 5
    <3>1. CASE up
      <4>1. s = UpgradeE2f5 /\ up = TRUE /\ r = E2f5
        BY <2>1, <2>2, <2>8, <3>1
      <4> HIDE DEF s
      <4> QED BY <2>9, <4>1, E2f5Up
    <3>2. CASE ~up
      <4>1. s = DowngradeE2f5 /\ up = FALSE /\ r = E2f5
        BY <2>1, <2>2, <2>8, <3>2
      <4> HIDE DEF s
      <4> QED BY <2>9, <4>1, E2f5Down
    <3> QED BY <3>1, <3>2
  <2> QED BY <2>3, <2>4, <2>5, <2>6, <2>7, <2>8
<1>2. Way(up, r) = s \o end
  BY DEF Way, StepUp, StepDown, Goal
<1>3. AllShape(up, r, end) /\ Len(end) = 2
  BY PlainShape DEF Plain, SetVersion, Commit, IsSequence
<1> HIDE DEF s, end
<1> DEFINE u == s \o end
<1>4. Joins(u, s, end) /\ AllShape(up, r, u) /\ Len(s) \in Nat
  BY <1>1, <1>3, Behind, ShapesBehind DEF AllShape, IsSequence
<1> HIDE DEF u
<1>5. Len(u) - 2 = Len(s) /\ \A i \in 1 .. Len(s) : u[i] = s[i]
  BY <1>3, <1>4 DEF Joins
<1>6. Settles(up, r, u)
  <2>1. Len(s) > 3 => 1 \in 1 .. Len(s) /\ 2 \in 1 .. Len(s) /\ Len(u) > 3
    BY <1>3, <1>4 DEF Joins
  <2> QED BY <1>1, <1>5, <2>1 DEF Settles
<1> QED BY <1>2, <1>4, <1>6 DEF u

-----------------------------------------------------------------------------
(* The form of the tables in the middle of a revision.                     *)

\* The tables that the first k statements of s have put another in the place of.
Replaced(s, k) == {s[i].name : i \in {j \in 1 .. k : s[j].op = "replace"}}
                  \cup {s[i].to : i \in {j \in 1 .. k : s[j].op = "rename"}}

\* The table that the k-th statement has made, or copied to, is of use behind.
Fresh(v, d, s, k) ==
    k > 0 =>
        /\ s[k].op = "create" /\ s[k].name = "sessions_new" =>
              As(v, "sessions", d.tables["sessions_new"])
        /\ s[k].op = "createLike" => As(v, s[k].name, d.tables[Tmp[s[k].name]])
        /\ s[k].op = "copy" => As(v, s[k].name, d.tables[s[k].to])
        /\ s[k].op = "drop" /\ k > 1 /\ s[k - 1].op = "copy" =>
              As(v, s[k - 1].name, d.tables[s[k - 1].to])

\* The columns that E2f5 adds to the messages at once.
Widening(d, k) ==
    /\ k >= 1 => Has(d, "messages") /\ "plmn" \in d.tables["messages"].cols
    /\ k >= 2 => "cell_id" \in d.tables["messages"].cols

Formed(up, r, d, s, k) ==
    /\ \A n \in DataTables \cap DOMAIN d.tables :
          As(IF n \in Replaced(s, k) THEN Goal(up, r) ELSE From(up, r), n, d.tables[n])
    /\ r = E2f5 /\ "sessions" \in Replaced(s, k) => Has(d, "sessions")
    /\ up /\ r = E2f5 => Widening(d, k)
    /\ Fresh(Goal(up, r), d, s, k)

LEMMA ReplacedStep ==
    ASSUME NEW s, NEW k \in Nat
    PROVE  Replaced(s, k + 1) =
               Replaced(s, k)
               \cup (IF s[k + 1].op = "replace" THEN {s[k + 1].name} ELSE {})
               \cup (IF s[k + 1].op = "rename" THEN {s[k + 1].to} ELSE {})
<1>1. \A j : j \in 1 .. (k + 1) <=> j \in 1 .. k \/ j = k + 1
  OBVIOUS
<1> DEFINE A(m) == {j \in 1 .. m : s[j].op = "replace"}
           B(m) == {j \in 1 .. m : s[j].op = "rename"}
<1>2. A(k + 1) = A(k) \cup (IF s[k + 1].op = "replace" THEN {k + 1} ELSE {})
  BY <1>1
<1>3. B(k + 1) = B(k) \cup (IF s[k + 1].op = "rename" THEN {k + 1} ELSE {})
  BY <1>1
<1>4. \A m : Replaced(s, m) = {s[i].name : i \in A(m)} \cup {s[i].to : i \in B(m)}
  BY DEF Replaced
<1> HIDE DEF A, B
<1> QED BY <1>2, <1>3, <1>4

\* To be of use at a revision takes the columns and constraints of a table only.
LEMMA AsAlike ==
    ASSUME NEW v, NEW n, NEW t, NEW u,
           u.cols = t.cols, u.notNull = t.notNull, u.refs = t.refs, As(v, n, t)
    PROVE  As(v, n, u)
BY DEF As, MessagesAt, SessionsAt

LEMMA AsWidened ==
    ASSUME NEW v \in D1a7 .. E2f5, NEW t, NEW col, As(v, "messages", t)
    PROVE  As(v, "messages", Widened(t, col))
<1>1. /\ Widened(t, col).cols = t.cols \cup {col}
      /\ Widened(t, col).notNull = t.notNull /\ Widened(t, col).refs = t.refs
  BY DEF Widened
<1>2. ~(v < B449)
  BY DEF D1a7, E2f5, B449
<1> QED BY <1>1, <1>2 DEF As, MessagesAt

LEMMA FormedStep ==
    ASSUME NEW up \in BOOLEAN, NEW r \in B0ba .. E2f5,
           NEW safe \in BOOLEAN, safe <=> (up \/ r > B0ba), NEW grow \in BOOLEAN,
           NEW s, Orderly(safe, grow, s), AllShape(up, r, s), Settles(up, r, s),
           NEW k \in Nat, k < Len(s), NEW f, NEW d, NEW e, NEW fk,
           Possible(s[k + 1], d, fk), TablesBehind(s[k + 1], d, e.tables),
           Made(safe, grow, f, d, s, k), Formed(up, r, d, s, k)
    PROVE  Formed(up, r, e, s, k + 1)
<1> DEFINE j == k + 1
           x == s[j]
           D == d.tables
           E == e.tables
           v == Goal(up, r)
           w == From(up, r)
           L(n, m) == IF n \in Replaced(s, m) THEN v ELSE w
<1> SUFFICES Formed(up, r, e, s, j)
  OBVIOUS
<1>1. /\ j \in 1 .. Len(s) /\ j - 1 = k /\ j - 2 = k - 1 /\ (j > 1 => k > 0)
      /\ (j > 2 => k > 1) /\ j > 0
  BY DEF Orderly, IsSequence
<1>2. InPlace(safe, grow, s, j) /\ Shapes(up, r, x)
  BY <1>1 DEF Orderly, AllShape
<1>3. TablesBehind(x, d, E) /\ Possible(x, d, fk)
  OBVIOUS
<1>4. /\ \A n \in DataTables \cap DOMAIN D : As(L(n, k), n, D[n])
      /\ r = E2f5 /\ "sessions" \in Replaced(s, k) => "sessions" \in DOMAIN D
      /\ up /\ r = E2f5 => Widening(d, k)
      /\ Fresh(v, d, s, k)
  BY DEF Formed, Has
<1>20. Replaced(s, j) = Replaced(s, k) \cup (IF x.op = "replace" THEN {x.name} ELSE {})
                                      \cup (IF x.op = "rename" THEN {x.to} ELSE {})
  BY ReplacedStep
<1>5. x.op \notin {"replace", "rename"} => Replaced(s, j) = Replaced(s, k)
  <2> HIDE DEF x, j
  <2> QED BY <1>20
<1>6. /\ r = E2f5 \/ r > B0ba => safe
      /\ E2f5 # B0ba
  BY DEF E2f5, B0ba
<1>7. up /\ r = E2f5 => v = E2f5 /\ w = D1a7
  BY DEF Goal, From, E2f5, D1a7
<1> HIDE DEF j, x, E, D, v, w
\* The E2f5 columns.
<1>8. ASSUME up, r = E2f5 PROVE Widening(e, j)
  <2>1. CASE k = 0
    <3>1. x.op = "addColumn" /\ x.col = "plmn" /\ x.name = "messages"
      <4>1. j = 1
        BY <2>1 DEF j
      <4> QED BY <1>2, <1>8, <4>1 DEF Settles, x, Shapes
    <3>2. E = Changed(D, "messages", Widened(D["messages"], "plmn")) /\ "messages" \in DOMAIN D
      BY <1>3, <3>1 DEF TablesBehind, Possible, Has, D
    <3>3. "messages" \in DOMAIN E /\ "plmn" \in E["messages"].cols
      BY <3>2 DEF Changed, Widened
    <3> QED BY <2>1, <3>3 DEF Widening, Has, E, j
  <2>2. CASE k > 0
    <3>1. "messages" \in DOMAIN D /\ "plmn" \in D["messages"].cols
          /\ (k >= 2 => "cell_id" \in D["messages"].cols)
      BY <1>4, <1>8, <2>2 DEF Widening, Has, D
    <3>2. "messages" \in DOMAIN E /\ D["messages"].cols \subseteq E["messages"].cols
      <4>1. CASE x.op = "create"
        <5>1. E = Bind(D, "sessions_new", x.table)
          BY <1>2, <1>3, <1>6, <1>8, <4>1 DEF Shapes, TablesBehind, D
        <5> QED BY <3>1, <5>1 DEF Bind
      <4>2. CASE x.op = "addColumn"
        <5>1. E = Changed(D, "messages", Widened(D["messages"], x.col))
          BY <1>2, <1>3, <4>2 DEF Shapes, TablesBehind, D
        <5> QED BY <3>1, <5>1 DEF Changed, Widened
      <4>3. CASE x.op = "copy"
        <5>1. /\ E = Changed(D, x.to, TableWith(D[x.to], Copied(d, x.name, x.to)))
              /\ x.to # "messages"
          BY <1>2, <1>3, <4>3 DEF InPlace, TablesBehind, D, x, DataTables
        <5> QED BY <3>1, <5>1 DEF Changed
      <4>4. CASE x.op = "drop"
        <5>1. E = Unbind(D, {"sessions"})
          BY <1>2, <1>3, <1>8, <4>4 DEF Shapes, TablesBehind, D
        <5> QED BY <3>1, <5>1 DEF Unbind
      <4>5. CASE x.op = "rename"
        <5>1. E = Unbind(Bind(D, "sessions", D["sessions_new"]), {"sessions_new"})
          BY <1>2, <1>3, <4>5 DEF Shapes, TablesBehind, D
        <5> QED BY <3>1, <5>1 DEF Unbind, Bind
      <4>6. CASE x.op \in {"createIndex", "dropIndex", "setVersion", "foreignKeys", "commit"}
        BY <1>3, <3>1, <4>6 DEF TablesBehind, D
      <4>7. x.op \notin {"createLike", "replace"} /\ x.op \in Operations
        BY <1>2, <1>8 DEF Shapes, InPlace, x
      <4> QED BY <4>1, <4>2, <4>3, <4>4, <4>5, <4>6, <4>7 DEF Operations
    <3>3. ASSUME j >= 2 PROVE "cell_id" \in E["messages"].cols
      <4>1. CASE k >= 2
        BY <3>1, <3>2, <4>1
      <4>2. CASE ~(k >= 2)
        <5>1. j = 2
          BY <2>2, <4>2 DEF j
        <5>2. x.op = "addColumn" /\ x.col = "cell_id" /\ x.name = "messages"
          BY <1>2, <1>8, <5>1 DEF Settles, x, Shapes
        <5>3. E = Changed(D, "messages", Widened(D["messages"], "cell_id"))
          BY <1>3, <5>2 DEF TablesBehind, D
        <5> QED BY <3>1, <5>3 DEF Changed, Widened
      <4> QED BY <4>1, <4>2
    <3> QED BY <3>1, <3>2, <3>3 DEF Widening, Has, E
  <2> QED BY <2>1, <2>2
<1>9. ASSUME \A n \in DataTables \cap DOMAIN E : As(L(n, j), n, E[n]),
             r = E2f5 /\ "sessions" \in Replaced(s, j) => "sessions" \in DOMAIN E,
             Fresh(v, e, s, j)
      PROVE  Formed(up, r, e, s, j)
  BY <1>8, <1>9 DEF Formed, Has, E, v, w
\* Nothing but what is fresh.
<1>10. ASSUME x.op \notin {"replace", "rename"},
              \A n \in DataTables : n \in DOMAIN E <=> n \in DOMAIN D,
              \A n \in DataTables \cap DOMAIN D : E[n] = D[n],
              Fresh(v, e, s, j)
       PROVE  Formed(up, r, e, s, j)
  <2>1. Replaced(s, j) = Replaced(s, k)
    BY <1>5, <1>10
  <2>2. \A n \in DataTables \cap DOMAIN E : As(L(n, j), n, E[n])
    BY <1>4, <1>10, <2>1
  <2>3. "sessions" \in DataTables
    BY DEF DataTables
  <2> QED BY <1>4, <1>9, <1>10, <2>1, <2>2, <2>3
<1>11. CASE x.op = "create"
  <2>1. E = Bind(D, x.name, x.table) /\ x.name \notin DOMAIN D
    BY <1>3, <1>11 DEF TablesBehind, Possible, Has, D
  <2>2. CASE r = E2f5 /\ x.name = "sessions_new" /\ SessionsAt(v, x.table)
    <3>1. E["sessions_new"] = x.table /\ "sessions_new" \notin DataTables
      BY <2>1, <2>2 DEF Bind, DataTables
    <3>2. Fresh(v, e, s, j)
      BY <1>11, <2>2, <3>1 DEF Fresh, As, x, E
    <3> QED BY <1>10, <1>11, <2>1, <2>2, <3>1, <3>2 DEF Bind
  <2>3. CASE up /\ r = B0ba /\ x.name # "sessions_new" /\ As(Base, x.name, x.table)
    <3>1. w = Base /\ v = B0ba
      BY <2>3 DEF w, v, From, Goal, Base, B0ba
    <3>2. As(B0ba, x.name, x.table)
      BY <2>3 DEF As, MessagesAt, SessionsAt, Base, B0ba, B449, E2f5
    <3>3. \A n \in DataTables \cap DOMAIN E : As(L(n, j), n, E[n])
      BY <1>4, <1>5, <1>11, <2>1, <2>3, <3>1, <3>2 DEF Bind
    <3>5. Fresh(v, e, s, j)
      BY <1>11, <2>3 DEF Fresh, x, E
    <3> QED BY <1>6, <1>9, <2>3, <3>3, <3>5
  <2> QED BY <1>2, <1>11, <2>2, <2>3 DEF Shapes, v
<1>12. CASE x.op = "createLike"
  <2> DEFINE new == Altered(D[x.name], x)
  <2>1. E = Bind(D, Tmp[x.name], new) /\ x.name \in DOMAIN D
    BY <1>3, <1>12 DEF TablesBehind, Possible, Has, D
  <2>2. x.name \in {"messages", "sessions"}
    BY <1>2, <1>12 DEF InPlace, x
  <2>3. x.name \in DataTables /\ Tmp[x.name] \notin DataTables
    BY <2>2 DEF Tmp, DataTables
  <2>4. As(v, x.name, D[x.name]) \/ As(w, x.name, D[x.name])
    BY <1>4, <2>1, <2>3
  <2>5. As(v, x.name, new)
    BY <1>2, <1>12, <2>4 DEF Shapes, v, w
  <2> HIDE DEF new
  <2>6. E[Tmp[x.name]] = new
    BY <2>1 DEF Bind
  <2>7. Fresh(v, e, s, j)
    BY <1>12, <2>5, <2>6 DEF Fresh, x, E
  <2>8. /\ \A n \in DataTables : n \in DOMAIN E <=> n \in DOMAIN D
        /\ \A n \in DataTables \cap DOMAIN D : E[n] = D[n]
    BY <2>1, <2>3 DEF Bind
  <2> QED BY <1>10, <1>12, <2>7, <2>8
<1>13. CASE x.op = "addColumn"
  <2> DEFINE new == Widened(D["messages"], x.col)
  <2>1. up /\ r = E2f5 /\ x.name = "messages"
    BY <1>2, <1>13 DEF Shapes
  <2>2. E = Changed(D, "messages", new) /\ "messages" \in DOMAIN D
    BY <1>3, <1>13, <2>1 DEF TablesBehind, Possible, Has, D
  <2>3. L("messages", k) \in D1a7 .. E2f5
    BY <1>7, <2>1 DEF D1a7, E2f5
  <2>4. As(L("messages", k), "messages", D["messages"])
    BY <1>4, <2>2 DEF DataTables
  <2>5. As(L("messages", k), "messages", new)
    BY <2>3, <2>4, AsWidened
  <2> HIDE DEF new
  <2>6. Replaced(s, j) = Replaced(s, k)
    BY <1>5, <1>13
  <2>7. ASSUME NEW n \in DataTables \cap DOMAIN E PROVE As(L(n, j), n, E[n])
    <3>1. n \in DOMAIN D /\ E[n] = IF n = "messages" THEN new ELSE D[n]
      BY <2>2 DEF Changed
    <3> QED BY <1>4, <2>5, <2>6, <3>1
  <2>8. "sessions" \in Replaced(s, j) => "sessions" \in DOMAIN E
    BY <1>4, <2>1, <2>2, <2>6 DEF Changed
  <2>9. Fresh(v, e, s, j)
    BY <1>13 DEF Fresh, x
  <2> QED BY <1>9, <2>7, <2>8, <2>9
<1>14. CASE x.op = "copy"
  <2> DEFINE u == TableWith(D[x.to], Copied(d, x.name, x.to))
  <2>1. E = Changed(D, x.to, u) /\ x.to \notin DataTables
    BY <1>2, <1>3, <1>14 DEF TablesBehind, InPlace, x, D
  <2>2. k > 0 /\ \/ s[k].op = "create" /\ s[k].name = x.to
                 \/ s[k].op = "createLike" /\ s[k].name = x.name /\ Tmp[x.name] = x.to
    BY <1>1, <1>2, <1>14 DEF InPlace, x
  <2>3. k \in 1 .. Len(s)
    <3> HIDE DEF L
    <3>1. k > 0
      BY <2>2
    <3> QED BY <1>1, <3>1
  <2>4. x.to \in DOMAIN D /\ As(v, x.name, D[x.to])
    <3>1. CASE s[k].op = "create" /\ s[k].name = x.to
      <4>1. Shapes(up, r, s[k]) /\ r # B0ba /\ (x.to = "sessions_new" => x.name = "sessions")
        BY <1>2, <1>14, <2>3 DEF AllShape, Shapes
      <4>2. x.to = "sessions_new" /\ x.name = "sessions"
        BY <3>1, <4>1 DEF Shapes
      <4> QED BY <1>4, <2>2, <3>1, <4>2 DEF Fresh, Made, D
    <3>2. CASE s[k].op = "createLike" /\ s[k].name = x.name /\ Tmp[x.name] = x.to
      BY <1>4, <2>2, <3>2 DEF Fresh, Made, D
    <3> QED BY <2>2, <3>1, <3>2
  <2>5. u.cols = D[x.to].cols /\ u.notNull = D[x.to].notNull /\ u.refs = D[x.to].refs
    BY DEF TableWith
  <2> HIDE DEF u
  <2>6. E[x.to] = u /\ As(v, x.name, u)
    BY <2>1, <2>4, <2>5, AsAlike DEF Changed
  <2>7. Fresh(v, e, s, j)
    BY <1>14, <2>6 DEF Fresh, x, E
  <2>8. /\ \A n \in DataTables : n \in DOMAIN E <=> n \in DOMAIN D
        /\ \A n \in DataTables \cap DOMAIN D : E[n] = D[n]
    BY <2>1 DEF Changed
  <2> QED BY <1>10, <1>14, <2>7, <2>8
<1>15. CASE x.op = "drop"
  <2>1. E = Unbind(D, {x.name}) /\ x.name \in DOMAIN D
    BY <1>3, <1>15 DEF TablesBehind, Possible, Has, D
  <2>2. Replaced(s, j) = Replaced(s, k)
    BY <1>5, <1>15
  <2>3. \A n \in DataTables \cap DOMAIN E : As(L(n, j), n, E[n])
    BY <1>4, <2>1, <2>2 DEF Unbind
  <2>4. ASSUME r = E2f5
        PROVE  /\ x.name = "sessions" /\ j > 1
               /\ s[k].op = "copy" /\ s[k].name = "sessions" /\ s[k].to \notin DataTables
    <3>1. x.name = "sessions"
      BY <1>2, <1>6, <1>15, <2>4 DEF Shapes
    <3>2. j > 1 /\ s[k].op = "copy" /\ s[k].name = "sessions"
      BY <1>1, <1>2, <1>6, <1>15, <2>4, <3>1 DEF InPlace, x
    <3>3. InPlace(safe, grow, s, k)
      BY <1>1, <3>2 DEF Orderly
    <3> QED BY <3>1, <3>2, <3>3 DEF InPlace
  <2>5. ASSUME r = E2f5 PROVE "sessions" \notin Replaced(s, k)
    <3>1. SUFFICES ASSUME NEW i \in 1 .. k,
                          \/ s[i].op = "rename" /\ s[i].to = "sessions"
                          \/ s[i].op = "replace" /\ s[i].name = "sessions"
                   PROVE  FALSE
      BY DEF Replaced
    <3>2. i \in 1 .. Len(s) /\ InPlace(safe, grow, s, i)
      BY <1>1 DEF Orderly
    <3>3. \/ i > 2 /\ s[i - 2].op = "copy" /\ s[i - 2].name = "sessions"
          \/ i > 1 /\ s[i - 1].op = "copy" /\ s[i - 1].name = "sessions"
      BY <3>1, <3>2 DEF InPlace
    <3>4. PICK m \in 1 .. Len(s) : m < k /\ s[m].op = "copy" /\ s[m].name = "sessions"
      <4>1. (i > 2 => i - 2 \in 1 .. Len(s) /\ i - 2 < k)
            /\ (i > 1 => i - 1 \in 1 .. Len(s) /\ i - 1 < k)
        BY <3>2, <1>1
      <4> QED BY <3>3, <4>1
    <3>5. k \in 1 .. Len(s) /\ s[k].op = "copy" /\ s[k].name = "sessions"
      BY <1>1, <2>4, <2>5
    <3> QED BY <3>4, <3>5 DEF Orderly, CopiesOnce
  <2>6. ASSUME j > 1, s[k].op = "copy" PROVE As(v, s[k].name, E[s[k].to])
    <3>1. k > 0 /\ k \in 1 .. Len(s)
      BY <1>1, <2>6
    <3>2. As(v, s[k].name, D[s[k].to]) /\ s[k].to \in DOMAIN D
      BY <1>4, <2>6, <3>1 DEF Fresh, Made, Replaces, D
    <3>3. r = E2f5
      <4>1. r # B0ba
        BY <2>6, <3>1 DEF AllShape, Shapes
      <4> QED BY <1>2, <1>15, <4>1 DEF Shapes
    <3>4. s[k].to # x.name
      BY <2>4, <3>3 DEF DataTables
    <3> QED BY <2>1, <3>2, <3>4 DEF Unbind
  <2>7. Fresh(v, e, s, j)
    BY <1>1, <1>15, <2>6 DEF Fresh, x, E
  <2> QED BY <1>9, <2>2, <2>3, <2>5, <2>7
<1>16. CASE x.op = "rename"
  <2>1. r = E2f5 /\ x.name = "sessions_new" /\ x.to = "sessions"
    BY <1>2, <1>16 DEF Shapes
  <2>2. E = Unbind(Bind(D, "sessions", D["sessions_new"]), {"sessions_new"})
    BY <1>3, <1>16, <2>1 DEF TablesBehind, D
  <2>3. As(v, "sessions", D["sessions_new"])
    <3>1. /\ k > 1 /\ s[k].op = "drop" /\ s[k - 1].op = "copy"
          /\ s[k - 1].name = "sessions" /\ s[k - 1].to = "sessions_new"
      BY <1>1, <1>2, <1>16, <2>1 DEF InPlace, x
    <3>2. k > 0
      BY <3>1
    <3> QED BY <1>4, <3>1, <3>2 DEF Fresh, D
  <2>4. Replaced(s, j) = Replaced(s, k) \cup {"sessions"}
    BY <1>16, <1>20, <2>1
  <2>5. ASSUME NEW n \in DataTables \cap DOMAIN E PROVE As(L(n, j), n, E[n])
    <3>1. n # "sessions_new"
      BY DEF DataTables
    <3>2. E[n] = IF n = "sessions" THEN D["sessions_new"] ELSE D[n]
      BY <2>2, <3>1 DEF Unbind, Bind
    <3>3. n # "sessions" => n \in DOMAIN D
      BY <2>2 DEF Unbind, Bind
    <3> QED BY <1>4, <2>3, <2>4, <3>2, <3>3
  <2>6. "sessions" \in DOMAIN E
    BY <2>2 DEF Unbind, Bind
  <2>7. Fresh(v, e, s, j)
    BY <1>16 DEF Fresh, x
  <2> QED BY <1>9, <2>5, <2>6, <2>7
<1>17. CASE x.op = "replace"
  <2>1. E = Unbind(Bind(D, x.name, D[Tmp[x.name]]), {Tmp[x.name]})
    BY <1>3, <1>17 DEF TablesBehind, D
  <2>2. /\ k > 0 /\ s[k].op = "copy" /\ s[k].name = x.name /\ s[k].to = Tmp[x.name]
    BY <1>1, <1>2, <1>17 DEF InPlace, x
  <2>3. As(v, x.name, D[Tmp[x.name]])
    BY <1>4, <2>2 DEF Fresh, D
  <2>4. x.name \in DataTables /\ Tmp[x.name] \notin DataTables
    <3>0. k > 0
      BY <2>2
    <3>1. k \in 1 .. Len(s)
      BY <1>1, <3>0
    <3> QED BY <2>2, <3>1 DEF Orderly, InPlace
  <2>5. Replaced(s, j) = Replaced(s, k) \cup {x.name}
    BY <1>17, <1>20
  <2>6. ASSUME NEW n \in DataTables \cap DOMAIN E PROVE As(L(n, j), n, E[n])
    <3>1. n # Tmp[x.name]
      BY <2>4
    <3>2. E[n] = IF n = x.name THEN D[Tmp[x.name]] ELSE D[n]
      BY <2>1, <3>1 DEF Unbind, Bind
    <3>3. n # x.name => n \in DOMAIN D
      BY <2>1 DEF Unbind, Bind
    <3> QED BY <1>4, <2>3, <2>5, <3>2, <3>3
  <2>7. r = E2f5 /\ "sessions" \in Replaced(s, j) => "sessions" \in DOMAIN E
    <3>1. Tmp[x.name] # "sessions"
      BY <2>4 DEF DataTables
    <3> QED BY <1>4, <2>1, <2>5, <3>1 DEF Unbind, Bind
  <2>8. Fresh(v, e, s, j)
    BY <1>17 DEF Fresh, x
  <2> QED BY <1>9, <2>6, <2>7, <2>8
<1>18. CASE x.op \in {"createIndex", "dropIndex", "setVersion", "foreignKeys", "commit"}
  <2>1. E = D
    BY <1>3, <1>18 DEF TablesBehind, D
  <2>2. Fresh(v, e, s, j)
    BY <1>18 DEF Fresh, x
  <2> QED BY <1>10, <1>18, <2>1, <2>2
<1>19. x.op \in Operations
  BY <1>2 DEF InPlace, x
<1> QED BY <1>11, <1>12, <1>13, <1>14, <1>15, <1>16, <1>17, <1>18, <1>19 DEF Operations

\* In the middle of a revision, a file whose tables are those of its own.
Useful(f, c, up, r, k) ==
    /\ OfRevision(f) /\ f.version = From(up, r)
    /\ Formed(up, r, View(f, c), Way(up, r), k)

LEMMA OfRevisionAs ==
    ASSUME NEW d, OfRevision(d)
    PROVE  \A n \in DataTables \cap DOMAIN d.tables : As(d.version, n, d.tables[n])
BY DEF OfRevision, Has, As, DataTables

LEMMA AsOfRevision ==
    ASSUME NEW d, \A n \in DataTables \cap DOMAIN d.tables : As(d.version, n, d.tables[n]),
           d.version = E2f5 => Has(d, "messages") /\ Has(d, "sessions")
    PROVE  OfRevision(d)
BY DEF OfRevision, Has, As, DataTables

\* Before its first statement.
LEMMA UsefulAtFirst ==
    ASSUME NEW up \in BOOLEAN, NEW r \in B0ba .. E2f5, NEW f, NEW c, ~c.tx,
           OfRevision(f), f.version = From(up, r)
    PROVE  Useful(f, c, up, r, 0)
<1>1. View(f, c) = f
  BY DEF View
<1>2. \A s : Replaced(s, 0) = {}
  <2>1. 1 .. 0 = {}
    OBVIOUS
  <2> QED BY <2>1 DEF Replaced
<1>3. ~(0 >= 1) /\ ~(0 >= 2) /\ ~(0 > 0)
  OBVIOUS
<1>4. Formed(up, r, f, Way(up, r), 0)
  BY <1>2, <1>3, OfRevisionAs DEF Formed, Widening, Fresh
<1> QED BY <1>1, <1>4 DEF Useful

\* Without a transaction no table has been put in the place of another.
LEMMA NothingReplaced ==
    ASSUME NEW safe, NEW grow, NEW s, Orderly(safe, grow, s), NEW k \in Nat, k <= Len(s),
           \A i \in 1 .. k : ~Begins(s[i])
    PROVE  Replaced(s, k) = {}
<1>1. SUFFICES ASSUME NEW i \in 1 .. k, s[i].op \in {"rename", "replace"} PROVE FALSE
  BY DEF Replaced
<1>2. i \in 1 .. Len(s) /\ InPlace(safe, grow, s, i)
  BY DEF Orderly, IsSequence
<1>3. \/ i > 2 /\ s[i - 2].op = "copy"
      \/ i > 1 /\ s[i - 1].op = "copy"
  BY <1>1, <1>2 DEF InPlace
<1>4. (i > 2 => i - 2 \in 1 .. k) /\ (i > 1 => i - 1 \in 1 .. k)
  OBVIOUS
<1> QED BY <1>3, <1>4 DEF Begins

\* A statement that is carried out, in whatever content.
LEMMA FormedBehind ==
    ASSUME NEW f, NEW c, NEW to \in Base .. E2f5, NEW up \in BOOLEAN,
           NEW r \in B0ba .. E2f5, NEW k \in Nat, Amid(f, c, to, up, r, k),
           NEW fk, NEW x, x = Head(c.todo), Possible(x, View(f, c), fk),
           Formed(up, r, View(f, c), Way(up, r), k)
    PROVE  Formed(up, r, Effect(x, View(f, c)), Way(up, r), k + 1)
<1> DEFINE s == Way(up, r)
           d == View(f, c)
           e == Effect(x, d)
<1>1. /\ s[k + 1] = x /\ TablesBehind(s[k + 1], d, e.tables)
      /\ Orderly(Safe(up, r), Grow(up, r), s)
  <2>1. Inside(f, c, to, up, r, k)
    BY InRevision
  <2> QED BY <2>1 DEF Inside
<1>2. /\ k < Len(s) /\ Made(Safe(up, r), Grow(up, r), f, d, s, k)
      /\ Safe(up, r) \in BOOLEAN /\ Grow(up, r) \in BOOLEAN
      /\ Safe(up, r) <=> (up \/ r > B0ba)
  BY SafeGrow DEF Amid, Safe
<1>3. AllShape(up, r, s) /\ Settles(up, r, s)
  BY WayShape
<1>4. Possible(s[k + 1], d, fk) /\ Formed(up, r, d, s, k)
  BY <1>1
<1> HIDE DEF s, d, e
<1>5. Formed(up, r, e, s, k + 1)
  BY <1>1, <1>2, <1>3, <1>4, FormedStep
<1> QED BY <1>5 DEF s, d, e

LEMMA AutocommitUseful ==
    ASSUME NEW f, NEW c, NEW to \in Base .. E2f5, NEW up \in BOOLEAN,
           NEW r \in B0ba .. E2f5, NEW k \in Nat, Amid(f, c, to, up, r, k),
           NEW fk, NEW x, x = Head(c.todo), Possible(x, f, fk),
           ~c.tx, ~Begins(x), x.op # "commit",
           NEW g, g = Effect(x, f), NEW cc, ~cc.tx, cc.todo = Tail(c.todo),
           Useful(f, c, up, r, k)
    PROVE  Useful(g, cc, up, r, k + 1)
<1> DEFINE s == Way(up, r)
<1>1. View(f, c) = f /\ View(g, cc) = g
  BY DEF View
<1>2. /\ Amid(g, cc, to, up, r, k + 1) /\ g.version = f.version
      /\ Safe(up, r) => Holding(TRUE, f, g)
  <2>1. Autocommitted(f, g, cc, to, up, r, k)
    BY AutocommitAmid
  <2> QED BY <2>1 DEF Autocommitted
<1>3. Formed(up, r, g, s, k + 1)
  <2>1. Possible(x, View(f, c), fk) /\ Formed(up, r, View(f, c), Way(up, r), k)
    BY <1>1 DEF Useful
  <2>2. Formed(up, r, Effect(x, View(f, c)), Way(up, r), k + 1)
    BY <2>1, FormedBehind
  <2> QED BY <1>1, <2>2
<1>4. f.version = From(up, r) /\ OfRevision(f)
  BY DEF Useful
<1>5. /\ k + 1 \in Nat /\ k + 1 <= Len(s)
      /\ \A i \in 1 .. (k + 1) : ~Begins(s[i])
      /\ Orderly(Safe(up, r), Grow(up, r), s)
  <2>1. IsSequence(s) /\ Orderly(Safe(up, r), Grow(up, r), s)
    BY SafeGrow, WaySequence DEF Revision
  <2>2. k + 1 < Len(s) /\ \A i \in 1 .. (k + 1) : ~Begins(s[i])
    BY <1>2 DEF Amid
  <2> QED BY <2>1, <2>2 DEF IsSequence
<1> HIDE DEF s
<1>6. Replaced(s, k + 1) = {}
  BY <1>5, NothingReplaced
<1>7. \A n \in DataTables \cap DOMAIN g.tables : As(g.version, n, g.tables[n])
  BY <1>2, <1>3, <1>4, <1>6 DEF Formed
<1>8. ASSUME g.version = E2f5 PROVE Has(g, "messages") /\ Has(g, "sessions")
  <2>1. ~up /\ r = E2f5
    BY <1>2, <1>4, <1>8 DEF From, B0ba, E2f5
  <2>2. Safe(up, r)
    BY <2>1 DEF Safe, B0ba, E2f5
  <2>3. Has(f, "messages") /\ Has(f, "sessions")
    BY <1>2, <1>4, <1>8 DEF OfRevision
  <2> QED BY <1>2, <2>2, <2>3 DEF Has, Holding, DataTables
<1>9. OfRevision(g)
  BY <1>7, <1>8, AsOfRevision
<1> QED BY <1>1, <1>2, <1>3, <1>4, <1>9 DEF Useful, s

\* A revision that is done has brought the tables to where it leads.
LEMMA CommitUseful ==
    ASSUME NEW f, NEW c, NEW to \in Base .. E2f5, NEW up \in BOOLEAN,
           NEW r \in B0ba .. E2f5, NEW k \in Nat, Amid(f, c, to, up, r, k),
           NEW fk, Possible(Head(c.todo), View(f, c), fk), Head(c.todo).op = "commit",
           Useful(f, c, up, r, k)
    PROVE  OfRevision(View(f, c)) /\ View(f, c).version = Goal(up, r)
<1> DEFINE s == Way(up, r)
           d == View(f, c)
           v == Goal(up, r)
           w == From(up, r)
<1>1. s[k + 1] = Head(c.todo) /\ Len(s) \in Nat
  <2>1. Inside(f, c, to, up, r, k)
    BY InRevision
  <2> QED BY <2>1 DEF Inside
<1>2. /\ k < Len(s)
      /\ k = Len(s) - 1 => d.version = v
      /\ Formed(up, r, d, s, k)
  BY DEF Amid, Useful
<1>3. /\ Safe(up, r) \in BOOLEAN /\ Grow(up, r) \in BOOLEAN
      /\ Revision(Safe(up, r), Grow(up, r), v, s)
      /\ AllShape(up, r, s) /\ Settles(up, r, s)
  BY SafeGrow, WayShape
<1> HIDE DEF s, d
<1>4. k + 1 = Len(s)
  BY <1>1, <1>2, <1>3, RevisionFacts
<1>5. k = Len(s) - 1 /\ d.version = v
  BY <1>1, <1>2, <1>4
<1>6. \A i \in 1 .. (Len(s) - 2) : i \in 1 .. k /\ i \in 1 .. Len(s)
  BY <1>1, <1>5
<1>7. r = B449 => "messages" \in Replaced(s, k)
  BY <1>3, <1>6 DEF Settles, Replaced
<1>8. r = E2f5 => "sessions" \in Replaced(s, k)
  <2>1. SUFFICES ASSUME r = E2f5 PROVE "sessions" \in Replaced(s, k)
    OBVIOUS
  <2>2. PICK i \in 1 .. (Len(s) - 2) : s[i].op = "rename"
    BY <1>3, <2>1 DEF Settles
  <2>3. Shapes(up, r, s[i])
    BY <1>3, <1>6 DEF AllShape
  <2>4. s[i].to = "sessions" /\ i \in 1 .. k
    BY <1>6, <2>2, <2>3 DEF Shapes
  <2> QED BY <2>2, <2>4 DEF Replaced
<1>9. up /\ r = E2f5 => /\ Has(d, "messages") /\ Has(d, "sessions")
                       /\ {"plmn", "cell_id"} \subseteq d.tables["messages"].cols
  <2>1. SUFFICES ASSUME up, r = E2f5
                 PROVE  /\ Has(d, "messages") /\ Has(d, "sessions")
                        /\ {"plmn", "cell_id"} \subseteq d.tables["messages"].cols
    OBVIOUS
  <2>2. k >= 2 /\ k >= 1
    <3>1. Len(s) > 3
      BY <1>3, <2>1 DEF Settles
    <3> QED BY <1>1, <1>5, <3>1
  <2> QED BY <1>2, <1>8, <2>1, <2>2 DEF Formed, Widening
<1>10. ASSUME NEW n \in DataTables \cap DOMAIN d.tables PROVE As(v, n, d.tables[n])
  <2> DEFINE t == d.tables[n]
  <2>1. n \in Replaced(s, k) => As(v, n, t)
    BY <1>2 DEF Formed
  <2>2. n \notin Replaced(s, k) => As(w, n, t)
    BY <1>2 DEF Formed
  <2> HIDE DEF t
  <2>3. CASE n \in Replaced(s, k)
    BY <2>1, <2>3 DEF t
  <2>4. CASE n \notin Replaced(s, k) /\ r = E2f5
    <3>1. n # "sessions"
      BY <1>8, <2>4
    <3>2. CASE n = "messages"
      <4>1. MessagesAt(w, t)
        BY <2>2, <2>4, <3>2 DEF As
      <4>2. up => {"plmn", "cell_id"} \subseteq t.cols
        BY <1>9, <2>4, <3>2 DEF t
      <4>3. IF up THEN w = 4 /\ v = 5 ELSE w = 5 /\ v = 4
        BY <2>4 DEF From, Goal, E2f5
      <4>4. MessagesAt(v, t)
        BY <4>1, <4>2, <4>3 DEF MessagesAt, B449, E2f5
      <4> QED BY <3>2, <4>4 DEF As, t
    <3>3. CASE n = "alerts"
      BY <2>2, <2>4, <3>3 DEF As, t
    <3> QED BY <3>1, <3>2, <3>3 DEF DataTables
  <2>5. CASE n \notin Replaced(s, k) /\ r # E2f5
    <3>1. v # E2f5 /\ w # E2f5
      BY <2>5 DEF From, Goal, B0ba, E2f5
    <3>2. n = "messages" => (v < B449 <=> w < B449)
      <4>1. n = "messages" => r # B449
        BY <1>7, <2>5
      <4> QED BY <4>1 DEF From, Goal, B0ba, B449, E2f5
    <3>3. n = "messages" => MessagesAt(v, t)
      BY <2>2, <2>5, <3>1, <3>2 DEF As, MessagesAt
    <3>4. n = "sessions" => SessionsAt(v, t)
      BY <2>2, <2>5, <3>1 DEF As, SessionsAt
    <3> QED BY <2>2, <2>5, <3>3, <3>4 DEF As, t
  <2> QED BY <2>3, <2>4, <2>5
<1>11. d.version = E2f5 => Has(d, "messages") /\ Has(d, "sessions")
  <2>1. v = E2f5 => up /\ r = E2f5
    BY DEF Goal, B0ba, E2f5
  <2> QED BY <1>5, <1>9, <2>1
<1>12. OfRevision(d)
  BY <1>5, <1>10, <1>11, AsOfRevision
<1> QED BY <1>5, <1>12 DEF d

-----------------------------------------------------------------------------
(* Users write rows, and change no table.                                  *)

SameForm(d, e) ==
    /\ e.version = d.version /\ DOMAIN e.tables = DOMAIN d.tables
    /\ \A t \in DOMAIN d.tables :
          /\ e.tables[t].cols = d.tables[t].cols
          /\ e.tables[t].notNull = d.tables[t].notNull
          /\ e.tables[t].refs = d.tables[t].refs

LEMMA SameFormTransitive ==
    ASSUME NEW d, NEW e, NEW g, SameForm(d, e), SameForm(e, g) PROVE SameForm(d, g)
BY DEF SameForm

LEMMA WithRowsForm ==
    ASSUME NEW d, NEW name, name \in DOMAIN d.tables, NEW rows
    PROVE  SameForm(d, WithRows(d, name, rows))
<1> DEFINE t == TableWith(d.tables[name], rows)
           e == WithRows(d, name, rows)
<1>1. /\ t.cols = d.tables[name].cols /\ t.notNull = d.tables[name].notNull
      /\ t.refs = d.tables[name].refs
  BY DEF TableWith
<1>2. e.version = d.version /\ e.tables = Bind(d.tables, name, t)
  BY DEF WithRows
<1> HIDE DEF t, e
<1>3. SameForm(d, e)
  BY <1>1, <1>2 DEF SameForm, Bind
<1> QED BY <1>3 DEF e

LEMMA UsersForm ==
    ASSUME Control, Sniff \/ Detect PROVE SameForm(files[Real], files'[Real])
<1> DEFINE d == files[Real]
<1>1. CASE Sniff
  <2>1. PICK rows : files' = [files EXCEPT ![Real] = WithRows(d, "messages", rows)]
    BY <1>1 DEF Sniff, Insert
  <2>2. files'[Real] = WithRows(d, "messages", rows) /\ "messages" \in DOMAIN d.tables
    BY <1>1, <2>1 DEF Sniff, Known, Has, Control, Files
  <2> QED BY <2>2, WithRowsForm
<1>2. CASE Detect
  <2>1. PICK m \in DOMAIN d.tables["messages"].rows,
             sid \in NewIds(d, "sessions"), aid \in NewIds(d, "alerts") :
            LET row     == d.tables["messages"].rows[m]
                session == Insert(d, "sessions", sid,
                                  [cell_id |-> row["cell_id"], plmn |-> row["plmn"]])
            IN  /\ row["session_id"] = None
                /\ files' = [files EXCEPT ![Real] =
                       Insert(Assign(session, m, sid), "alerts", aid,
                              [session_id |-> sid, trigger_message_id |-> m])]
    BY <1>2 DEF Detect
  <2> DEFINE row == d.tables["messages"].rows[m]
             s   == Insert(d, "sessions", sid,
                           [cell_id |-> row["cell_id"], plmn |-> row["plmn"]])
             a   == Assign(s, m, sid)
             f   == Insert(a, "alerts", aid, [session_id |-> sid, trigger_message_id |-> m])
  <2>2. {"messages", "sessions", "alerts"} \subseteq DOMAIN d.tables
    BY <1>2 DEF Detect, Known, Has
  <2>3. f = files'[Real]
    BY <2>1 DEF Control, Files
  <2>4. SameForm(d, s)
    BY <2>2, WithRowsForm DEF Insert
  <2> HIDE DEF s
  <2>5. SameForm(s, a)
    <3>1. PICK rows : a = WithRows(s, "messages", rows)
      BY DEF Assign
    <3>2. "messages" \in DOMAIN s.tables
      BY <2>2, <2>4 DEF SameForm
    <3> HIDE DEF a
    <3> QED BY <3>1, <3>2, WithRowsForm
  <2> HIDE DEF a
  <2>6. SameForm(a, f)
    <3>1. PICK rows : f = WithRows(a, "alerts", rows)
      BY DEF Insert
    <3>2. "alerts" \in DOMAIN a.tables
      BY <2>2, <2>4, <2>5 DEF SameForm
    <3> HIDE DEF f
    <3> QED BY <3>1, <3>2, WithRowsForm
  <2> HIDE DEF f
  <2> QED BY <2>3, <2>4, <2>5, <2>6, SameFormTransitive
<1> QED BY <1>1, <1>2

LEMMA FormOfRevision ==
    ASSUME NEW d, NEW e, SameForm(d, e), OfRevision(d) PROVE OfRevision(e)
<1>1. ASSUME NEW n \in DataTables \cap DOMAIN e.tables PROVE As(e.version, n, e.tables[n])
  <2>1. As(d.version, n, d.tables[n]) /\ n \in DOMAIN d.tables
    BY OfRevisionAs DEF SameForm
  <2> QED BY <2>1, AsAlike DEF SameForm
<1>2. e.version = E2f5 => Has(e, "messages") /\ Has(e, "sessions")
  BY DEF SameForm, OfRevision, Has
<1> QED BY <1>1, <1>2, AsOfRevision

LEMMA UsefulStays ==
    ASSUME NEW f, NEW c, ~c.tx, NEW up \in BOOLEAN, NEW r \in B0ba .. E2f5, NEW k \in Nat,
           NEW to, Amid(f, c, to, up, r, k), Useful(f, c, up, r, k),
           NEW g, SameForm(f, g)
    PROVE  Useful(g, c, up, r, k)
<1> DEFINE s == Way(up, r)
           v == Goal(up, r)
<1>1. View(f, c) = f /\ View(g, c) = g
  BY DEF View
<1>2. /\ \A i \in 1 .. k : ~Begins(s[i])
      /\ Made(Safe(up, r), Grow(up, r), f, f, s, k)
      /\ Formed(up, r, f, s, k) /\ k < Len(s)
  BY <1>1 DEF Amid, Useful
<1>3. AllShape(up, r, s)
  BY WayShape
<1> HIDE DEF s
<1>4. k > 0 => s[k].op # "copy" /\ (k > 1 => s[k - 1].op # "copy")
  <2>1. (k > 0 => k \in 1 .. k) /\ (k > 1 => k - 1 \in 1 .. k)
    OBVIOUS
  <2> QED BY <1>2, <2>1 DEF Begins
<1>5. Fresh(v, g, s, k)
  <2>1. SUFFICES ASSUME k > 0
                 PROVE  /\ s[k].op = "create" /\ s[k].name = "sessions_new" =>
                              As(v, "sessions", g.tables["sessions_new"])
                        /\ s[k].op = "createLike" =>
                              As(v, s[k].name, g.tables[Tmp[s[k].name]])
    BY <1>4 DEF Fresh
  <2>2. ASSUME s[k].op = "create", s[k].name = "sessions_new"
        PROVE  As(v, "sessions", g.tables["sessions_new"])
    <3>1. "sessions_new" \in DOMAIN f.tables /\ As(v, "sessions", f.tables["sessions_new"])
      BY <1>2, <2>1, <2>2 DEF Formed, Fresh, Made
    <3> QED BY <3>1, AsAlike DEF SameForm
  <2>3. ASSUME s[k].op = "createLike" PROVE As(v, s[k].name, g.tables[Tmp[s[k].name]])
    <3>1. /\ Tmp[s[k].name] \in DOMAIN f.tables
          /\ As(v, s[k].name, f.tables[Tmp[s[k].name]])
      BY <1>2, <2>1, <2>3 DEF Formed, Fresh, Made
    <3> QED BY <3>1, AsAlike DEF SameForm
  <2> QED BY <2>2, <2>3
<1>6. ASSUME NEW n \in DataTables \cap DOMAIN g.tables
      PROVE  As(IF n \in Replaced(s, k) THEN v ELSE From(up, r), n, g.tables[n])
  <2>1. /\ n \in DOMAIN f.tables
        /\ As(IF n \in Replaced(s, k) THEN v ELSE From(up, r), n, f.tables[n])
    BY <1>2 DEF SameForm, Formed
  <2> QED BY <2>1, AsAlike DEF SameForm
<1>7. up /\ r = E2f5 => Widening(g, k)
  <2>1. SUFFICES ASSUME up, r = E2f5 PROVE Widening(g, k)
    OBVIOUS
  <2>2. Widening(f, k)
    BY <1>2, <2>1 DEF Formed
  <2>3. k >= 2 => k >= 1
    OBVIOUS
  <2> QED BY <2>2, <2>3 DEF Widening, Has, SameForm
<1>8. r = E2f5 /\ "sessions" \in Replaced(s, k) => Has(g, "sessions")
  BY <1>2 DEF Formed, Has, SameForm
<1>9. Formed(up, r, g, s, k)
  BY <1>5, <1>6, <1>7, <1>8 DEF Formed
<1>10. OfRevision(g) /\ g.version = From(up, r)
  BY FormOfRevision DEF Useful, SameForm
<1> QED BY <1>1, <1>9, <1>10 DEF Useful, s

-----------------------------------------------------------------------------
(* The tables of the file are those of its revision.                       *)

Bound(f, c, to) ==
    \/ \E up \in BOOLEAN : \E r \in B0ba .. E2f5 : \E k \in Nat :
          Amid(f, c, to, up, r, k) /\ Useful(f, c, up, r, k)
    \/ c.todo = <<>>

HInv ==
    /\ OfRevision(files[Real])
    /\ Connected /\ conn.file = Real => Bound(files[Real], conn, target)

LEMMA BoundUp ==
    ASSUME NEW f, IsDatabase(f), OfRevision(f), NEW c, ~c.tx, NEW to \in Base .. E2f5,
           c.todo = UpgradePath(f.version, to)
    PROVE  Bound(f, c, to)
<1> DEFINE r == f.version + 1
<1>1. f.version \in Base .. E2f5
  BY DEF IsDatabase
<1>2. CASE f.version < to
  <2>1. Amid(f, c, to, TRUE, r, 0)
    BY <1>2, BeforeUpgrade
  <2>2. r \in B0ba .. E2f5 /\ TRUE \in BOOLEAN /\ 0 \in Nat /\ f.version = From(TRUE, r)
    BY <1>1, <1>2 DEF Base, B0ba, E2f5, From
  <2> HIDE DEF r
  <2>3. Useful(f, c, TRUE, r, 0)
    BY <2>2, UsefulAtFirst
  <2> QED BY <2>1, <2>2, <2>3 DEF Bound
<1>3. CASE ~(f.version < to)
  BY <1>3, BeforeUpgrade DEF Bound
<1> QED BY <1>2, <1>3

LEMMA BoundDown ==
    ASSUME NEW f, IsDatabase(f), OfRevision(f), NEW c, ~c.tx, NEW to \in Base .. E2f5,
           c.todo = DowngradePath(f.version, to)
    PROVE  Bound(f, c, to)
<1> DEFINE r == f.version
<1>1. r \in Base .. E2f5
  BY DEF IsDatabase
<1>2. CASE r < to \/ r = to
  <2>1. ~(to < r)
    BY <1>1, <1>2 DEF Base, E2f5
  <2> QED BY <1>1, <2>1, BeforeDowngrade DEF Bound
<1>3. CASE to < r
  <2>1. Amid(f, c, to, FALSE, r, 0)
    BY <1>1, <1>3, BeforeDowngrade
  <2>2. r \in B0ba .. E2f5 /\ FALSE \in BOOLEAN /\ 0 \in Nat /\ f.version = From(FALSE, r)
    BY <1>1, <1>3 DEF Base, B0ba, E2f5, From
  <2> HIDE DEF r
  <2>3. Useful(f, c, FALSE, r, 0)
    BY <2>2, UsefulAtFirst
  <2> QED BY <2>1, <2>2, <2>3 DEF Bound
<1> QED BY <1>1, <1>2, <1>3 DEF Base, E2f5

LEMMA BoundStep ==
    ASSUME NEW f, IsDatabase(f), OfRevision(f), NEW c, NEW to \in Base .. E2f5,
           Bound(f, c, to), c.todo # <<>>, NEW g, NEW cc, Carries(f, c, g, cc)
    PROVE  OfRevision(g) /\ Bound(g, cc, to)
<1>1. PICK up \in BOOLEAN : \E r \in B0ba .. E2f5 : \E k \in Nat :
          Amid(f, c, to, up, r, k) /\ Useful(f, c, up, r, k)
  BY DEF Bound
<1>2. PICK r \in B0ba .. E2f5 : \E k \in Nat :
          Amid(f, c, to, up, r, k) /\ Useful(f, c, up, r, k)
  BY <1>1
<1>3. PICK k \in Nat : Amid(f, c, to, up, r, k) /\ Useful(f, c, up, r, k)
  BY <1>2
<1> DEFINE x == Head(c.todo)
<1>4. Possible(x, View(f, c), c.fk) /\ cc.todo = Tail(c.todo)
  BY DEF Carries
<1>5. k + 1 \in Nat
  OBVIOUS
<1>6. CASE ~c.tx /\ ~Begins(x) /\ x.op # "commit" /\ g = Effect(x, f) /\ ~cc.tx
  <2>1. Possible(x, f, c.fk)
    BY <1>4, <1>6 DEF View
  <2>2. Useful(g, cc, up, r, k + 1)
    BY <1>3, <1>4, <1>6, <2>1, AutocommitUseful
  <2>3. Amid(g, cc, to, up, r, k + 1)
    <3>1. Autocommitted(f, g, cc, to, up, r, k)
      BY <1>3, <1>4, <1>6, <2>1, AutocommitAmid
    <3> QED BY <3>1 DEF Autocommitted
  <2>4. OfRevision(g)
    BY <2>2 DEF Useful
  <2> QED BY <1>5, <2>2, <2>3, <2>4 DEF Bound
<1>7. CASE /\ c.tx \/ Begins(x)
           /\ x.op # "commit" /\ cc.tx /\ cc.view = Effect(x, View(f, c)) /\ g = f
  <2>1. Amid(f, cc, to, up, r, k + 1)
    BY <1>3, <1>4, <1>7, InTransactionAmid
  <2>2. Formed(up, r, Effect(x, View(f, c)), Way(up, r), k + 1)
    BY <1>3, <1>4, FormedBehind DEF Useful
  <2>3. Useful(f, cc, up, r, k + 1)
    BY <1>3, <1>7, <2>2 DEF Useful, View
  <2> QED BY <1>5, <1>7, <2>1, <2>3 DEF Bound
<1>8. CASE x.op = "commit" /\ g = View(f, c) /\ ~cc.tx
  <2>1. OfRevision(g) /\ g.version = Goal(up, r)
    BY <1>3, <1>4, <1>8, CommitUseful
  <2>2. Committed(f, g, cc, to, up, r)
    BY <1>3, <1>4, <1>8, CommitAmid
  <2>3. CASE up
    <3>1. CASE r < to
      <4>1. Amid(g, cc, to, TRUE, r + 1, 0)
        BY <2>2, <2>3, <3>1 DEF Committed
      <4>2. r + 1 \in B0ba .. E2f5 /\ g.version = From(TRUE, r + 1)
        BY <2>1, <2>3, <3>1 DEF Base, B0ba, E2f5, From, Goal
      <4>3. Useful(g, cc, TRUE, r + 1, 0)
        BY <1>8, <2>1, <4>2, UsefulAtFirst
      <4> QED BY <2>1, <4>1, <4>2, <4>3 DEF Bound
    <3>2. CASE ~(r < to)
      BY <2>1, <2>2, <2>3, <3>2 DEF Committed, Bound
    <3> QED BY <3>1, <3>2
  <2>4. CASE ~up
    <3>1. CASE to < r - 1
      <4>1. Amid(g, cc, to, FALSE, r - 1, 0)
        BY <2>2, <2>4, <3>1 DEF Committed
      <4>2. r - 1 \in B0ba .. E2f5 /\ g.version = From(FALSE, r - 1)
        BY <2>1, <2>4, <3>1 DEF Base, B0ba, E2f5, From, Goal
      <4>3. Useful(g, cc, FALSE, r - 1, 0)
        BY <1>8, <2>1, <4>2, UsefulAtFirst
      <4> QED BY <2>1, <4>1, <4>2, <4>3 DEF Bound
    <3>2. CASE ~(to < r - 1)
      BY <2>1, <2>2, <2>4, <3>2 DEF Committed, Bound
    <3> QED BY <3>1, <3>2
  <2> QED BY <2>3, <2>4
<1> QED BY <1>6, <1>7, <1>8 DEF Carries

LEMMA InitHInv == Init => HInv
<1> SUFFICES ASSUME Init PROVE HInv
  OBVIOUS
<1>1. PICK d \in Contents : files = [f \in {Real, Trial} |-> IF f = Real THEN d ELSE Empty]
  BY DEF Init
<1>2. OfRevision(files[Real])
  BY <1>1, ContentsAssumption
<1>3. conn.todo = <<>>
  BY DEF Init, NoConn
<1> QED BY <1>2, <1>3 DEF HInv, Bound

LEMMA HInvHolds == Control /\ CInv /\ HInv /\ [Next]_vars => HInv'
<1> SUFFICES ASSUME Control, CInv, HInv, [Next]_vars PROVE HInv'
  OBVIOUS
<1>1. IsDatabase(files[Real]) /\ OfRevision(files[Real]) /\ target \in Base .. E2f5
  BY DEF CInv, Types, HInv
<1>2. ASSUME files'[Real] = files[Real], conn'.file # Real \/ conn'.file = None PROVE HInv'
  BY <1>1, <1>2 DEF HInv, Connected
<1>3. Real # Trial
  BY DEF Real, Trial
<1>4. CASE Step
  <2>1. /\ Execute /\ target' = target /\ conn'.file = conn.file
        /\ \A f \in Files \ {conn.file} : files'[f] = files[f]
    BY <1>4, ExecuteTouches DEF Step, script
  <2>2. CASE conn.file = Real
    <3>1. Carries(files[Real], conn, files'[Real], conn') /\ conn.todo # <<>>
      BY <2>1, <2>2, ExecuteCarries
    <3>2. Bound(files[Real], conn, target)
      BY <2>1, <2>2 DEF HInv, Execute
    <3>3. OfRevision(files'[Real]) /\ Bound(files'[Real], conn', target)
      BY <1>1, <3>1, <3>2, BoundStep
    <3> QED BY <2>1, <3>3 DEF HInv
  <2>3. CASE conn.file # Real
    BY <1>2, <2>1, <2>3 DEF Files
  <2> QED BY <2>2, <2>3
<1>5. CASE Sniff \/ Detect
  <2>1. SameForm(files[Real], files'[Real])
    BY <1>5, UsersForm
  <2>2. Free /\ conn' = conn /\ target' = target
    BY <1>5 DEF Sniff, Detect, script
  <2>3. OfRevision(files'[Real]) /\ IsDatabase(files'[Real]) /\ Adds(files[Real], files'[Real])
    BY <1>1, <1>5, <2>1, FormOfRevision, UsersShape, SniffAdds, DetectAdds
  <2>4. ASSUME Connected, conn.file = Real PROVE Bound(files'[Real], conn, target)
    <3>1. ~conn.tx
      BY <2>2, <2>4 DEF Free
    <3>2. Bound(files[Real], conn, target)
      BY <2>4 DEF HInv
    <3>3. ASSUME NEW up \in BOOLEAN, NEW r \in B0ba .. E2f5, NEW k \in Nat,
                 Amid(files[Real], conn, target, up, r, k),
                 Useful(files[Real], conn, up, r, k)
          PROVE  /\ Amid(files'[Real], conn, target, up, r, k)
                 /\ Useful(files'[Real], conn, up, r, k)
      BY <2>1, <2>3, <3>1, <3>3, AmidAdded, UsefulStays
    <3> QED BY <3>2, <3>3 DEF Bound
  <2> QED BY <2>2, <2>3, <2>4 DEF HInv, Connected
<1>6. CASE Apply
  <2>1. /\ files'[Real] = files[Real] /\ ~conn'.tx /\ target' = target
        /\ conn'.todo = UpgradePath(files[Real].version, target)
    BY <1>6, <1>3 DEF Apply, Goes, Connect, NoConn, Version, Opens, Control, Files
  <2>2. Bound(files[Real], conn', target)
    BY <1>1, <2>1, BoundUp
  <2> QED BY <1>1, <2>1, <2>2 DEF HInv
<1>7. CASE AlembicByHand
  <2>1. /\ files' = files /\ ~conn'.tx /\ target' \in Base .. E2f5
        /\ \/ conn'.todo = UpgradePath(files[Real].version, target')
           \/ conn'.todo = DowngradePath(files[Real].version, target')
    BY <1>7 DEF AlembicByHand, Connect, NoConn, Version, Opens
  <2>2. Bound(files[Real], conn', target')
    BY <1>1, <2>1, BoundUp, BoundDown
  <2> QED BY <1>1, <2>1, <2>2 DEF HInv
<1>8. CASE Seed \/ Refuse \/ Stop
  <2>1. files'[Real] = files[Real]
    BY <1>3, <1>8 DEF Seed, Refuse, Stop, Control, Files
  <2>2. conn'.file = None
    BY <1>8 DEF Seed, Refuse, Stop, At, Control, FileAt, NoConn
  <2> QED BY <1>2, <2>1, <2>2
<1>9. CASE Rehearse
  <2>1. files' = files /\ conn'.file = Trial
    BY <1>9 DEF Rehearse, Connect, NoConn, Opens
  <2> QED BY <1>2, <1>3, <2>1
<1>10. CASE Confirm \/ UpgradeFails \/ AlembicEnds
  <2>1. files' = files /\ conn'.file = None
    BY <1>10 DEF Confirm, UpgradeFails, AlembicEnds, NoConn
  <2> QED BY <1>2, <1>3, <2>1
<1>11. CASE Begin \/ RemoveDump \/ Dump \/ CommitDump \/ NothingToCommit \/ CleanTree
  <2>1. files' = files /\ conn'.file = None
    BY <1>11 DEF Begin, RemoveDump, Dump, CommitDump, NothingToCommit, CleanTree, At,
                 Control, FileAt
  <2> QED BY <1>2, <1>3, <2>1
<1>12. CASE UNCHANGED vars
  BY <1>12 DEF vars, script, HInv, Connected
<1> QED BY <1>4, <1>5, <1>6, <1>7, <1>8, <1>9, <1>10, <1>11, <1>12 DEF Next

LEMMA HInvAlways == Spec => []HInv
<1>1. Init => HInv
  BY InitHInv
<1>2. Control /\ CInv /\ HInv /\ [Next]_vars => HInv'
  BY HInvHolds
<1> QED BY <1>1, <1>2, CInvAlways, PTL DEF Spec

\* Whichever revisions, up or down, were stopped at whichever statement: a database
\* that says it is at the head revision has the columns that sniffer and detector
\* name, and no constraint in their way.
THEOREM HeadIsAlwaysUsable == Spec => []HeadIsUsable
<1>1. HInv => HeadIsUsable
  <2> SUFFICES ASSUME OfRevision(files[Real]), files[Real].version = E2f5,
                      Has(files[Real], "alerts")
               PROVE  Usable(files[Real])
    BY DEF HInv, HeadIsUsable
  <2> DEFINE d == files[Real]
  <2>1. MessagesAt(E2f5, d.tables["messages"]) /\ SessionsAt(E2f5, d.tables["sessions"])
        /\ Has(d, "messages") /\ Has(d, "sessions")
        /\ {"session_id", "trigger_message_id"} \subseteq d.tables["alerts"].cols
    BY DEF OfRevision
  <2>2. ~(E2f5 < B449)
    BY DEF E2f5, B449
  <2> QED BY <2>1, <2>2 DEF Usable, Known, SnifferColumns, MessagesAt, SessionsAt
<1> QED BY <1>1, HInvAlways, PTL
-----------------------------------------------------------------------------
(* Two databases that differ in messages without a session only: what was  *)
(* the database when its copy was made, and what its users made of it.     *)

AlikeMessages(t, u) ==
    /\ u.cols = t.cols /\ u.notNull = t.notNull /\ u.refs = t.refs
    /\ DOMAIN u.refs \subseteq u.cols
    /\ DOMAIN t.rows \subseteq DOMAIN u.rows
    /\ \A i \in DOMAIN u.rows : \A c \in DOMAIN u.refs :
          \/ u.rows[i][c] = None
          \/ i \in DOMAIN t.rows /\ t.rows[i][c] = u.rows[i][c]

AlikeTables(ts, us) ==
    /\ DOMAIN us = DOMAIN ts
    /\ \A t \in DOMAIN ts \ {"messages"} : us[t] = ts[t]
    /\ "messages" \in DOMAIN ts => AlikeMessages(ts["messages"], us["messages"])

Alike(d, e) == e.indexes = d.indexes /\ AlikeTables(d.tables, e.tables)

\* The revisions behind B449 neither read the messages nor put another table in
\* their place.
Aside(s) ==
    /\ s.op \in {"create", "createLike", "copy", "drop", "rename", "replace"} =>
          s.name # "messages"
    /\ s.op \in {"copy", "rename"} => s.to # "messages"
    /\ s.op \in {"createLike", "replace"} => Tmp[s.name] # "messages"

AllAside(s) == IsSequence(s) /\ \A j \in 1 .. Len(s) : Aside(s[j])

LEMMA AsideBehind ==
    ASSUME NEW s, NEW t, AllAside(s), AllAside(t) PROVE AllAside(s \o t)
<1> DEFINE u == s \o t
<1>1. Joins(u, s, t) /\ Len(s) \in Nat /\ Len(t) \in Nat
  BY Behind DEF AllAside, IsSequence
<1> HIDE DEF u
<1>2. ASSUME NEW j \in 1 .. Len(u) PROVE Aside(u[j])
  <2>1. j \in 1 .. Len(s) \/ (j - Len(s) \in 1 .. Len(t) /\ Len(s) + (j - Len(s)) = j)
    BY <1>1 DEF Joins
  <2> QED BY <1>1, <2>1 DEF Joins, AllAside
<1>3. AllAside(u)
  BY <1>1, <1>2 DEF AllAside, Joins
<1> QED BY <1>3 DEF u

LEMMA PlainAside ==
    ASSUME NEW s, IsSequence(s), \A j \in 1 .. Len(s) : s[j].op \in Plain \cup {"addColumn"}
    PROVE  AllAside(s)
BY DEF AllAside, Aside, Plain

LEMMA SessionsAside ==
    /\ \A dropped, added, nullable, notNull :
          AllAside(Batch("sessions", dropped, added, nullable, notNull))
    /\ \A cols, refs : AllAside(SessionsNew(cols, refs))
<1>1. ASSUME NEW dropped, NEW added, NEW nullable, NEW notNull
      PROVE  AllAside(Batch("sessions", dropped, added, nullable, notNull))
  <2> DEFINE like == [op |-> "createLike", name |-> "sessions", dropped |-> dropped,
                      added |-> added, nullable |-> nullable, notNull |-> notNull]
             s == Batch("sessions", dropped, added, nullable, notNull)
  <2>1. /\ IsSequence(s) /\ Len(s) = 3 /\ s[1] = like
        /\ s[2] = Copy("sessions", Tmp["sessions"])
        /\ s[3] = [op |-> "replace", name |-> "sessions"]
    BY DEF Batch, IsSequence
  <2>2. like.op = "createLike" /\ like.name = "sessions"
    OBVIOUS
  <2> HIDE DEF like, s
  <2>3. /\ s[1].op = "createLike" /\ s[1].name = "sessions"
        /\ s[2].op = "copy" /\ s[2].name = "sessions" /\ s[2].to = Tmp["sessions"]
        /\ s[3].op = "replace" /\ s[3].name = "sessions"
    BY <2>1, <2>2 DEF Copy
  <2>4. Tmp["sessions"] # "messages"
    BY DEF Tmp
  <2>5. Aside(s[1]) /\ Aside(s[2]) /\ Aside(s[3])
    BY <2>3, <2>4 DEF Aside
  <2>6. \A j \in 1 .. 3 : j = 1 \/ j = 2 \/ j = 3
    OBVIOUS
  <2>7. AllAside(s)
    BY <2>1, <2>5, <2>6 DEF AllAside
  <2> QED BY <2>7 DEF s
<1>2. ASSUME NEW cols, NEW refs PROVE AllAside(SessionsNew(cols, refs))
  <2> DEFINE s == SessionsNew(cols, refs)
  <2>1. IsSequence(s) /\ Len(s) = 8
    BY DEF SessionsNew, IsSequence
  <2>2. /\ s[1] = ForeignKeys(FALSE) /\ s[2] = Create("sessions_new", Table(cols, {}, refs))
        /\ s[3] = Copy("sessions", "sessions_new") /\ s[4] = Drop("sessions")
        /\ s[5] = Rename("sessions_new", "sessions")
        /\ s[6] = CreateIndex("idx_sessions_cell", "sessions")
        /\ s[7] = CreateIndex("idx_sessions_started_at", "sessions")
        /\ s[8] = ForeignKeys(TRUE)
    BY DEF SessionsNew
  <2> HIDE DEF s
  <2>3. /\ s[1].op = "foreignKeys" /\ s[2].op = "create" /\ s[2].name = "sessions_new"
        /\ s[3].op = "copy" /\ s[3].name = "sessions" /\ s[3].to = "sessions_new"
        /\ s[4].op = "drop" /\ s[4].name = "sessions"
        /\ s[5].op = "rename" /\ s[5].name = "sessions_new" /\ s[5].to = "sessions"
        /\ s[6].op = "createIndex" /\ s[7].op = "createIndex" /\ s[8].op = "foreignKeys"
    BY <2>2 DEF ForeignKeys, Create, Copy, Drop, Rename, CreateIndex
  <2>4. \A i \in {1, 2, 3, 4, 5, 6, 7, 8} : Aside(s[i])
    BY <2>3 DEF Aside
  <2>5. \A j \in 1 .. 8 : j \in {1, 2, 3, 4, 5, 6, 7, 8}
    OBVIOUS
  <2>6. AllAside(s)
    BY <2>1, <2>4, <2>5 DEF AllAside
  <2> QED BY <2>6 DEF s
<1> QED BY <1>1, <1>2

LEMMA WayAside ==
    ASSUME NEW r \in {C692, D1a7, E2f5}
    PROVE  AllAside(Way(TRUE, r))
<1>1. \A x, name : CreateIndex(x, name).op = "createIndex" /\ AddColumn(x, name).op = "addColumn"
  BY DEF CreateIndex, AddColumn
<1>2. AllAside(UpgradeC692)
  BY SessionsAside DEF UpgradeC692
<1>3. AllAside(UpgradeD1a7)
  <2>1. IsSequence(UpgradeD1a7) /\ Len(UpgradeD1a7) = 1
        /\ UpgradeD1a7[1] = CreateIndex("idx_messages_unsessionized", "messages")
    BY DEF UpgradeD1a7, IsSequence
  <2>2. \A j \in 1 .. 1 : j = 1
    OBVIOUS
  <2> QED BY <1>1, <2>1, <2>2, PlainAside DEF Plain
<1>4. AllAside(UpgradeE2f5)
  <2> DEFINE a == <<AddColumn("messages", "plmn"), AddColumn("messages", "cell_id")>>
             b == SessionsNew({"cell_id", "plmn"}, <<>>)
             c == <<CreateIndex("idx_messages_cell_enb_ue_s1ap_id", "messages")>>
  <2>1. AllAside(a)
    <3>1. IsSequence(a) /\ Len(a) = 2
          /\ a[1] = AddColumn("messages", "plmn") /\ a[2] = AddColumn("messages", "cell_id")
      BY DEF IsSequence
    <3>2. \A j \in 1 .. 2 : j = 1 \/ j = 2
      OBVIOUS
    <3> HIDE DEF a
    <3> QED BY <1>1, <3>1, <3>2, PlainAside
  <2>2. AllAside(b)
    BY SessionsAside
  <2>3. AllAside(c)
    <3>1. IsSequence(c) /\ Len(c) = 1
          /\ c[1] = CreateIndex("idx_messages_cell_enb_ue_s1ap_id", "messages")
      BY DEF IsSequence
    <3>2. \A j \in 1 .. 1 : j = 1
      OBVIOUS
    <3> HIDE DEF c
    <3> QED BY <1>1, <3>1, <3>2, PlainAside DEF Plain
  <2>4. UpgradeE2f5 = (a \o b) \o c
    BY DEF UpgradeE2f5
  <2> HIDE DEF a, b, c
  <2> QED BY <2>1, <2>2, <2>3, <2>4, AsideBehind
<1>5. AllAside(Upgrade[r])
  <2>1. Upgrade[3] = UpgradeC692 /\ Upgrade[4] = UpgradeD1a7 /\ Upgrade[5] = UpgradeE2f5
    BY DEF Upgrade
  <2>2. r = 3 \/ r = 4 \/ r = 5
    BY DEF C692, D1a7, E2f5
  <2> QED BY <1>2, <1>3, <1>4, <2>1, <2>2
<1> DEFINE end == <<SetVersion(r), Commit>>
<1>6. AllAside(end)
  <2>1. IsSequence(end) /\ Len(end) = 2 /\ end[1] = SetVersion(r) /\ end[2] = Commit
    BY DEF IsSequence
  <2> HIDE DEF end
  <2>2. end[1].op = "setVersion" /\ end[2].op = "commit"
    BY <2>1 DEF SetVersion, Commit
  <2>3. \A j \in 1 .. 2 : j = 1 \/ j = 2
    OBVIOUS
  <2> QED BY <2>1, <2>2, <2>3, PlainAside DEF Plain
<1>7. Way(TRUE, r) = Upgrade[r] \o end
  BY DEF Way, StepUp
<1> HIDE DEF end
<1> QED BY <1>5, <1>6, <1>7, AsideBehind

\* What the copy lets alembic do, the database does.
LEMMA AlikePossible ==
    ASSUME NEW d, NEW e, IsDatabase(e), Alike(d, e), NEW s, Aside(s), Ready(s, e),
           NEW fk, Possible(s, d, fk)
    PROVE  Possible(s, e, fk)
<1>1. /\ e.indexes = d.indexes /\ DOMAIN e.tables = DOMAIN d.tables
      /\ \A t \in DOMAIN d.tables \ {"messages"} : e.tables[t] = d.tables[t]
      /\ "messages" \in DOMAIN d.tables =>
            AlikeMessages(d.tables["messages"], e.tables["messages"])
  BY DEF Alike, AlikeTables
<1>2. \A t \in DOMAIN d.tables : /\ e.tables[t].cols = d.tables[t].cols
                                 /\ DOMAIN d.tables[t].rows \subseteq DOMAIN e.tables[t].rows
  BY <1>1 DEF AlikeMessages
<1>3. CASE s.op = "copy"
  <2> DEFINE n == s.name
             m == s.to
  <2>1. n \in DOMAIN d.tables /\ e.tables[n] = d.tables[n] /\ Fits(d, fk, n, m)
    BY <1>1, <1>3 DEF Aside, Possible, Has
  <2>2. e.tables[m] = d.tables[m]
    BY <1>1, <1>3 DEF Aside, Ready
  <2> HIDE DEF n, m
  <2>3. Copied(e, n, m) = Copied(d, n, m)
    BY <2>1, <2>2 DEF Copied
  <2>4. Fits(e, fk, n, m)
    BY <1>1, <1>2, <2>1, <2>2, <2>3 DEF Fits, Has
  <2> QED BY <1>1, <1>3, <2>1, <2>4 DEF Possible, Has, n, m
<1>4. CASE s.op \in {"drop", "replace"}
  <2> DEFINE n == s.name
  <2>1. n \in DOMAIN d.tables /\ n # "messages" /\ e.tables[n] = d.tables[n]
        /\ (fk => ~Referenced(d, n))
    BY <1>1, <1>4 DEF Aside, Possible, Has
  <2> HIDE DEF n
  <2>2. ASSUME Referenced(e, n) PROVE Referenced(d, n)
    <3>1. PICK t \in DOMAIN e.tables \ {n} :
              \E c \in DOMAIN e.tables[t].refs, i \in DOMAIN e.tables[t].rows :
                  /\ e.tables[t].refs[c] = n
                  /\ e.tables[t].rows[i][c] \in DOMAIN e.tables[n].rows
      BY <2>2 DEF Referenced
    <3>2. PICK c \in DOMAIN e.tables[t].refs, i \in DOMAIN e.tables[t].rows :
                  /\ e.tables[t].refs[c] = n
                  /\ e.tables[t].rows[i][c] \in DOMAIN e.tables[n].rows
      BY <3>1
    <3>3. e.tables[t].rows[i][c] # None
      <4>1. DOMAIN e.tables[n].rows \subseteq Nat
        BY <1>1, <2>1 DEF IsDatabase, IsTable
      <4> QED BY <3>2, <4>1, NullAssumption
    <3>4. /\ c \in DOMAIN d.tables[t].refs /\ i \in DOMAIN d.tables[t].rows
          /\ d.tables[t].refs[c] = n
          /\ d.tables[t].rows[i][c] = e.tables[t].rows[i][c]
      <4>1. CASE t = "messages"
        BY <1>1, <3>1, <3>2, <3>3, <4>1 DEF AlikeMessages
      <4>2. CASE t # "messages"
        BY <1>1, <3>1, <3>2, <4>2
      <4> QED BY <4>1, <4>2
    <3> QED BY <1>1, <2>1, <3>1, <3>2, <3>4 DEF Referenced
  <2> QED BY <1>1, <1>4, <2>1, <2>2 DEF Possible, Has, n
<1>5. CASE s.op \notin {"copy", "drop", "replace"}
  BY <1>1, <1>2, <1>5 DEF Possible, Has
<1> QED BY <1>3, <1>4, <1>5

\* The indexes behind a statement.
IndexesBehind(s, was, is) ==
    /\ s.op = "drop" => is = Unbind(was, {x \in DOMAIN was : was[x] = s.name})
    /\ s.op = "createIndex" => is = Bind(was, s.index, s.name)
    /\ s.op = "dropIndex" => is = Unbind(was, {s.index})
    /\ s.op \notin {"drop", "createIndex", "dropIndex"} => is = was

LEMMA EffectIndexes ==
    ASSUME NEW s, s.op \in Operations, NEW d, IsDatabase(d)
    PROVE  IndexesBehind(s, d.indexes, Effect(s, d).indexes)
<1>1. d = [version |-> d.version, tables |-> d.tables, indexes |-> d.indexes]
  BY DEF IsDatabase
<1>2. CASE s.op \in {"create", "createLike"}
  BY <1>1, <1>2 DEF Effect, IndexesBehind
<1>3. CASE s.op = "addColumn"
  <2> DEFINE ts == [d.tables EXCEPT ![s.name] = Widened(d.tables[s.name], s.col)]
  <2>1. Effect(s, d) = [d EXCEPT !.tables = ts]
    BY <1>3 DEF Effect
  <2> HIDE DEF ts
  <2> QED BY <1>1, <1>3, <2>1 DEF IndexesBehind
<1>4. CASE s.op = "copy"
  <2> DEFINE ts == [d.tables EXCEPT ![s.to] =
                        [d.tables[s.to] EXCEPT !.rows = Copied(d, s.name, s.to)]]
  <2>1. Effect(s, d) = [d EXCEPT !.tables = ts]
    BY <1>4 DEF Effect
  <2> HIDE DEF ts
  <2> QED BY <1>1, <1>4, <2>1 DEF IndexesBehind
<1>5. CASE s.op \in {"drop", "rename", "replace"}
  BY <1>1, <1>5 DEF Effect, IndexesBehind
<1>6. CASE s.op \in {"createIndex", "dropIndex", "setVersion", "foreignKeys", "commit"}
  BY <1>1, <1>6 DEF Effect, IndexesBehind
<1> QED BY <1>2, <1>3, <1>4, <1>5, <1>6 DEF Operations

LEMMA WidenedAlike ==
    ASSUME NEW t, NEW u, AlikeMessages(t, u), IsTable(t), IsTable(u), NEW col
    PROVE  AlikeMessages(Widened(t, col), Widened(u, col))
<1> DEFINE tt == Widened(t, col)
           uu == Widened(u, col)
<1>1. /\ tt.cols = t.cols \cup {col} /\ tt.notNull = t.notNull /\ tt.refs = t.refs
      /\ tt.rows = [i \in DOMAIN t.rows |-> Bind(t.rows[i], col, None)]
      /\ uu.cols = u.cols \cup {col} /\ uu.notNull = u.notNull /\ uu.refs = u.refs
      /\ uu.rows = [i \in DOMAIN u.rows |-> Bind(u.rows[i], col, None)]
  BY DEF Widened
<1>2. /\ \A i \in DOMAIN t.rows : DOMAIN t.rows[i] = t.cols
      /\ \A i \in DOMAIN u.rows : DOMAIN u.rows[i] = u.cols
  BY DEF IsTable
<1> HIDE DEF tt, uu
<1>3. ASSUME NEW i \in DOMAIN uu.rows, NEW c \in DOMAIN uu.refs
      PROVE  \/ uu.rows[i][c] = None
             \/ i \in DOMAIN tt.rows /\ tt.rows[i][c] = uu.rows[i][c]
  <2>1. c \in u.cols /\ i \in DOMAIN u.rows /\ u.cols = t.cols
    BY <1>1, <1>3 DEF AlikeMessages
  <2>2. uu.rows[i][c] = IF c = col THEN None ELSE u.rows[i][c]
    BY <1>1, <1>2, <2>1 DEF Bind
  <2>3. i \in DOMAIN t.rows => i \in DOMAIN tt.rows /\
            tt.rows[i][c] = IF c = col THEN None ELSE t.rows[i][c]
    BY <1>1, <1>2, <2>1 DEF Bind
  <2> QED BY <1>1, <1>3, <2>1, <2>2, <2>3 DEF AlikeMessages
<1>4. AlikeMessages(tt, uu)
  BY <1>1, <1>3 DEF AlikeMessages
<1> QED BY <1>4 DEF tt, uu

\* The statements of a later revision keep them alike.
LEMMA AlikeStep ==
    ASSUME NEW d, NEW e, IsDatabase(d), IsDatabase(e), Alike(d, e),
           NEW s, Aside(s), Ready(s, e), NEW fk, Possible(s, d, fk)
    PROVE  Alike(Effect(s, d), Effect(s, e))
<1> DEFINE ts == Effect(s, d).tables
           us == Effect(s, e).tables
<1>1. /\ e.indexes = d.indexes /\ DOMAIN e.tables = DOMAIN d.tables
      /\ \A t \in DOMAIN d.tables \ {"messages"} : e.tables[t] = d.tables[t]
      /\ "messages" \in DOMAIN d.tables =>
            AlikeMessages(d.tables["messages"], e.tables["messages"])
  BY DEF Alike, AlikeTables
<1>2. Effect(s, e).indexes = Effect(s, d).indexes
  <2>1. /\ IndexesBehind(s, d.indexes, Effect(s, d).indexes)
        /\ IndexesBehind(s, d.indexes, Effect(s, e).indexes)
    BY <1>1, EffectIndexes DEF Ready
  <2> QED BY <2>1 DEF IndexesBehind
<1>3. TablesBehind(s, d, ts) /\ TablesBehind(s, e, us)
  BY <1>1, EffectIs DEF Ready
<1> HIDE DEF ts, us
<1>4. AlikeTables(ts, us)
  <2>1. CASE s.op = "create"
    BY <1>1, <1>3, <2>1 DEF TablesBehind, AlikeTables, Bind, Aside
  <2>2. CASE s.op = "createLike"
    <3> DEFINE t == Altered(d.tables[s.name], s)
    <3>1. s.name \in DOMAIN d.tables /\ s.name # "messages" /\ Tmp[s.name] # "messages"
      BY <2>2 DEF Possible, Has, Aside
    <3>2. e.tables[s.name] = d.tables[s.name]
      BY <1>1, <3>1
    <3>3. ts = Bind(d.tables, Tmp[s.name], t) /\ us = Bind(e.tables, Tmp[s.name], t)
      BY <1>3, <2>2, <3>2 DEF TablesBehind
    <3> HIDE DEF t
    <3> QED BY <1>1, <3>1, <3>3 DEF AlikeTables, Bind
  <2>3. CASE s.op = "addColumn"
    <3>1. IsTable(d.tables[s.name]) /\ IsTable(e.tables[s.name]) /\ s.name \in DOMAIN d.tables
      BY <1>1, <2>3 DEF Ready, IsDatabase
    <3>2. CASE s.name = "messages"
      <4>1. AlikeMessages(Widened(d.tables["messages"], s.col),
                          Widened(e.tables["messages"], s.col))
        BY <1>1, <3>1, <3>2, WidenedAlike
      <4> QED BY <1>1, <1>3, <2>3, <3>1, <3>2, <4>1 DEF TablesBehind, AlikeTables, Changed
    <3>3. CASE s.name # "messages"
      BY <1>1, <1>3, <2>3, <3>1, <3>3 DEF TablesBehind, AlikeTables, Changed
    <3> QED BY <3>2, <3>3
  <2>4. CASE s.op = "copy"
    <3>1. e.tables[s.name] = d.tables[s.name] /\ e.tables[s.to] = d.tables[s.to]
          /\ s.to # "messages"
      BY <1>1, <2>4 DEF Ready, Aside
    <3>2. Copied(e, s.name, s.to) = Copied(d, s.name, s.to)
      BY <3>1 DEF Copied
    <3> QED BY <1>1, <1>3, <2>4, <3>1, <3>2 DEF TablesBehind, AlikeTables, Changed
  <2>5. CASE s.op = "drop"
    BY <1>1, <1>3, <2>5 DEF TablesBehind, AlikeTables, Unbind
  <2>6. CASE s.op = "rename"
    <3> DEFINE t == d.tables[s.name]
    <3>1. /\ s.name \in DOMAIN d.tables /\ s.name # "messages" /\ s.to # "messages"
          /\ e.tables[s.name] = t
      BY <1>1, <2>6 DEF Ready, Aside
    <3>2. /\ ts = Unbind(Bind(d.tables, s.to, t), {s.name})
          /\ us = Unbind(Bind(e.tables, s.to, t), {s.name})
      BY <1>3, <2>6, <3>1 DEF TablesBehind
    <3> HIDE DEF t
    <3> QED BY <1>1, <3>1, <3>2 DEF AlikeTables, Bind, Unbind
  <2>7. CASE s.op = "replace"
    <3> DEFINE n == Tmp[s.name]
               t == d.tables[n]
    <3>1. /\ n \in DOMAIN d.tables /\ n # "messages" /\ s.name # "messages"
          /\ e.tables[n] = t
      BY <1>1, <2>7 DEF Ready, Aside
    <3>2. /\ ts = Unbind(Bind(d.tables, s.name, t), {n})
          /\ us = Unbind(Bind(e.tables, s.name, t), {n})
      BY <1>3, <2>7, <3>1 DEF TablesBehind
    <3> HIDE DEF n, t
    <3> QED BY <1>1, <3>1, <3>2 DEF AlikeTables, Bind, Unbind
  <2>8. CASE s.op \in {"createIndex", "dropIndex", "setVersion", "foreignKeys", "commit"}
    BY <1>1, <1>3, <2>8 DEF TablesBehind, AlikeTables
  <2> QED BY <2>1, <2>2, <2>3, <2>4, <2>5, <2>6, <2>7, <2>8 DEF Ready, Operations
<1> QED BY <1>2, <1>4 DEF Alike, ts, us

\* A database is like itself.
LEMMA AlikeItself ==
    ASSUME NEW d, IsDatabase(d), OfRevision(d) PROVE Alike(d, d)
<1>1. "messages" \in DOMAIN d.tables =>
          DOMAIN d.tables["messages"].refs \subseteq d.tables["messages"].cols
  BY DEF OfRevision, MessagesAt, Has
<1> QED BY <1>1 DEF Alike, AlikeTables, AlikeMessages

\* The database at revision v, and what the copy is, or was when alembic was where it
\* is now.
Match(v, d, e) ==
    /\ v < B449 => e = d
    /\ B449 <= v /\ v < E2f5 => Alike(d, e)

\* At a revision that users can write at, below the head, only sniffers can.
LEMMA UsersMatch ==
    ASSUME Control, IsDatabase(files[Real]), OfRevision(files[Real]), Sniff \/ Detect,
           NEW d, Match(files[Real].version, d, files[Real])
    PROVE  /\ files'[Real].version = files[Real].version
           /\ Match(files[Real].version, d, files'[Real])
<1> DEFINE e == files[Real]
           v == e.version
<1>1. files'[Real].version = e.version /\ v \in Base .. E2f5
  BY SniffAdds, DetectAdds DEF Adds, IsDatabase
<1>2. Known(e, "messages", SnifferColumns)
  BY DEF Sniff, Detect
<1>3. MessagesAt(v, e.tables["messages"]) /\ "messages" \in DOMAIN e.tables
  BY <1>2 DEF OfRevision, Known, Has
<1>4. ~(v < B449)
  BY <1>2, <1>3 DEF Known, SnifferColumns, MessagesAt
<1>5. ASSUME B449 <= v, v < E2f5 PROVE Alike(d, files'[Real])
  <2>1. ~Detect
    <3>1. v # E2f5
      BY <1>1, <1>5 DEF Base, E2f5
    <3> QED BY <3>1 DEF Detect, Known, Has, OfRevision, SessionsAt
  <2>2. PICK cell \in Cells, id \in NewIds(e, "messages") :
            files' = [files EXCEPT ![Real] =
                Insert(e, "messages", id,
                       [enb_ue_s1ap_id |-> 1, plmn |-> cell, cell_id |-> cell])]
    BY <2>1 DEF Sniff
  <2> DEFINE t == e.tables["messages"]
             values == [enb_ue_s1ap_id |-> 1, plmn |-> cell, cell_id |-> cell]
             row == Row(e, "messages", values)
             rows == Bind(t.rows, id, row)
             u == TableWith(t, rows)
             g == files'[Real]
  <2>3. g = WithRows(e, "messages", rows)
    BY <2>2 DEF Control, Files, Insert
  <2>4. row = [c \in t.cols |-> IF c \in DOMAIN values THEN values[c] ELSE None]
    BY DEF Row
  <2>5. "session_id" \notin DOMAIN values
    OBVIOUS
  <2> HIDE DEF values
  <2>6. /\ "session_id" \in t.cols => row["session_id"] = None
        /\ DOMAIN t.refs \subseteq {"session_id"} /\ "session_id" \in t.cols
    BY <1>3, <2>4, <2>5 DEF MessagesAt
  <2>7. /\ u.cols = t.cols /\ u.notNull = t.notNull /\ u.refs = t.refs /\ u.rows = rows
    BY DEF TableWith
  <2>8. /\ g.indexes = e.indexes /\ g.tables = Bind(e.tables, "messages", u)
    BY <2>3 DEF WithRows
  <2>9. id \notin DOMAIN t.rows
    BY NewIdsThere
  <2> HIDE DEF u, row, g
  <2>10. Alike(d, e)
    BY <1>5 DEF Match
  <2>11. AlikeMessages(d.tables["messages"], t)
    BY <1>3, <2>10 DEF Alike, AlikeTables
  <2>12. DOMAIN rows = DOMAIN t.rows \cup {id}
         /\ \A i \in DOMAIN rows : rows[i] = IF i = id THEN row ELSE t.rows[i]
    BY DEF Bind
  <2> HIDE DEF rows, t
  <2>13. AlikeMessages(d.tables["messages"], u)
    BY <2>6, <2>7, <2>9, <2>11, <2>12 DEF AlikeMessages
  <2>14. DOMAIN g.tables = DOMAIN e.tables /\ g.tables["messages"] = u
         /\ \A n \in DOMAIN e.tables \ {"messages"} : g.tables[n] = e.tables[n]
    BY <1>3, <2>8 DEF Bind
  <2>15. Alike(d, g)
    BY <2>8, <2>10, <2>13, <2>14 DEF Alike, AlikeTables
  <2> QED BY <2>15 DEF g
<1> QED BY <1>1, <1>4, <1>5 DEF Match

-----------------------------------------------------------------------------
(* Alembic as a machine that is in one state behind each statement.        *)

Machine(f, c) ==
    [view |-> View(f, c), tx |-> IF c.tx THEN TRUE ELSE FALSE, fk |-> c.fk]

After(x, m) ==
    [view |-> Effect(x, m.view),
     tx   |-> IF x.op = "commit" THEN FALSE ELSE IF Begins(x) THEN TRUE ELSE m.tx,
     fk   |-> IF x.op = "foreignKeys" /\ m.tx = FALSE THEN x.on ELSE m.fk]

LEMMA ExecuteMachine ==
    ASSUME Control, Execute
    PROVE  Machine(files'[conn.file], conn') = After(Head(conn.todo), Machine(files[conn.file], conn))
<1> DEFINE f == files[conn.file]
           g == files'[conn.file]
           x == Head(conn.todo)
<1>1. conn.file \in Files
  BY ExecuteCarries
<1>2. Content = View(f, conn)
  BY DEF Content, View
<1>3. CASE Autocommit
  <2>1. /\ ~conn.tx /\ ~Begins(x) /\ x.op # "commit" /\ g = Effect(x, f)
        /\ conn'.tx = conn.tx
        /\ conn'.fk = IF x.op = "foreignKeys" THEN x.on ELSE conn.fk
    BY <1>1, <1>3 DEF Autocommit, Statement, Control
  <2> HIDE DEF f, g, x
  <2> QED BY <2>1 DEF Machine, After, View, f, g, x
<1>4. CASE InTransaction
  <2>1. /\ conn.tx \/ Begins(x)
        /\ x.op # "commit" /\ g = f /\ conn'.tx = TRUE /\ conn'.view = Effect(x, View(f, conn))
        /\ conn'.fk = conn.fk
    BY <1>1, <1>2, <1>4 DEF InTransaction, Statement, Control
  <2>2. x.op = "foreignKeys" => ~Begins(x)
    BY DEF Begins
  <2> HIDE DEF f, g, x
  <2>3. View(g, conn') = Effect(x, View(f, conn))
    BY <2>1 DEF View
  <2> QED BY <2>1, <2>2, <2>3 DEF Machine, After, f, g, x
<1>5. CASE CommitRevision
  <2>1. /\ x.op = "commit" /\ g = View(f, conn) /\ conn'.tx = FALSE /\ conn'.fk = conn.fk
    BY <1>1, <1>2, <1>5 DEF CommitRevision, Statement, Control
  <2>2. Effect(x, View(f, conn)) = View(f, conn)
    BY <2>1 DEF Effect
  <2> HIDE DEF f, g, x
  <2>3. View(g, conn') = g
    BY <2>1 DEF View
  <2> QED BY <2>1, <2>2, <2>3 DEF Machine, After, f, g, x
<1> QED BY <1>3, <1>4, <1>5 DEF Execute

\* The state of the rehearsal that alembic on the database is in.
Shadows(m, f, c) ==
    Match(f.version, m.view, View(f, c)) /\ m.tx = Machine(f, c).tx /\ m.fk = c.fk

Passes(x, m) == IsDatabase(m.view) /\ Possible(x, m.view, m.fk)

\* What the statement needs to be carried out, it finds; it leaves the two alike.
LEMMA ShadowStep ==
    ASSUME NEW f, NEW c, NEW to \in Base .. E2f5, NEW r \in B0ba .. E2f5, NEW k \in Nat,
           Amid(f, c, to, TRUE, r, k), NEW m, Shadows(m, f, c), Passes(Head(c.todo), m)
    PROVE  /\ Possible(Head(c.todo), View(f, c), c.fk)
           /\ f.version < E2f5
           /\ f.version < B449 => Effect(Head(c.todo), View(f, c)) = Effect(Head(c.todo), m.view)
           /\ B449 <= f.version =>
                  Alike(Effect(Head(c.todo), m.view), Effect(Head(c.todo), View(f, c)))
<1> DEFINE x == Head(c.todo)
           d == m.view
           e == View(f, c)
           s == Way(TRUE, r)
<1>1. f.version = r - 1 /\ IsDatabase(e) /\ k < Len(s) /\ IsDatabase(d)
      /\ Possible(x, d, c.fk) /\ r \in Int /\ r <= E2f5 /\ Match(f.version, d, e)
  <2>1. f.version = r - 1 /\ IsDatabase(e) /\ k < Len(s)
    BY DEF Amid
  <2>2. r \in Int /\ r <= E2f5
    BY DEF E2f5, B0ba
  <2>3. IsDatabase(d) /\ Possible(x, d, c.fk) /\ Match(f.version, d, e)
    BY DEF Shadows, Passes
  <2> QED BY <2>1, <2>2, <2>3
<1>2. x = s[k + 1]
  <2>1. Ahead(c, to, TRUE, r, k)
    BY NextStatement
  <2> QED BY <2>1 DEF Ahead
<1>3. CASE f.version < B449
  <2>1. e = d /\ f.version < E2f5 /\ ~(B449 <= f.version)
    BY <1>1, <1>3 DEF Match, B449, E2f5
  <2> QED BY <1>1, <1>3, <2>1
<1>4. CASE ~(f.version < B449)
  <2>1. r \in {C692, D1a7, E2f5} /\ f.version < E2f5 /\ B449 <= f.version
    BY <1>1, <1>4 DEF B0ba, B449, C692, D1a7, E2f5
  <2>2. Alike(d, e)
    BY <1>1, <2>1 DEF Match
  <2>3. Aside(x)
    <3>1. AllAside(s)
      BY <2>1, WayAside
    <3>2. k + 1 \in 1 .. Len(s)
      <4>1. Len(s) \in Nat
        BY <3>1 DEF AllAside, IsSequence
      <4> HIDE DEF s
      <4> QED BY <1>1, <4>1
    <3> HIDE DEF s
    <3> QED BY <1>2, <3>1, <3>2 DEF AllAside
  <2>4. Ready(x, e)
    <3> DEFINE safe == Safe(TRUE, r)
               grow == Grow(TRUE, r)
               goal == Goal(TRUE, r)
    <3>1. /\ safe \in BOOLEAN /\ grow \in BOOLEAN /\ Revision(safe, grow, goal, s)
          /\ Made(safe, grow, f, e, s, k)
      BY SafeGrow DEF Amid
    <3>2. goal \in Base .. E2f5
      BY DEF Goal, Base, B0ba, E2f5
    <3> HIDE DEF safe, grow, goal, s
    <3>3. Orderly(safe, grow, s) /\ (x.op = "setVersion" => x.revision = goal)
      BY <1>1, <1>2, <3>1, RevisionFacts
    <3>4. x.op \in {"addColumn", "copy"} => Has(e, x.name)
      BY <1>1, <2>2 DEF Possible, Has, Alike, AlikeTables
    <3> HIDE DEF x, e
    <3> QED BY <1>1, <1>2, <3>1, <3>2, <3>3, <3>4, StatementReady
  <2> HIDE DEF x, d, e
  <2>5. Possible(x, e, c.fk)
    BY <1>1, <2>2, <2>3, <2>4, AlikePossible
  <2>6. Alike(Effect(x, d), Effect(x, e))
    BY <1>1, <2>2, <2>3, <2>4, AlikeStep
  <2> QED BY <1>4, <2>1, <2>5, <2>6 DEF x, d, e
<1> QED BY <1>3, <1>4

\* What the rest of a path is.
LEMMA TailIs ==
    ASSUME NEW s, IsSequence(s), s # <<>>
    PROVE  /\ Len(s) > 0 /\ Head(s) = s[1]
           /\ IsSequence(Tail(s)) /\ Len(Tail(s)) = Len(s) - 1
           /\ \A i \in 1 .. (Len(s) - 1) : Tail(s)[i] = s[i + 1]
<1> DEFINE S == {s[i] : i \in 1 .. Len(s)}
<1>1. s \in [1 .. Len(s) -> S]
  <2>1. \A i \in 1 .. Len(s) : s[i] \in S
    OBVIOUS
  <2> HIDE DEF S
  <2> QED BY <2>1 DEF IsSequence
<1> HIDE DEF S
<1>2. s \in Seq(S)
  BY <1>1 DEF IsSequence
<1>3. Len(s) \in Nat /\ Len(s) > 0 /\ Head(s) = s[1]
  BY <1>2
<1>4. Tail(s) \in Seq(S) /\ Len(Tail(s)) = Len(s) - 1
  BY <1>2
<1>5. \A i \in 1 .. (Len(s) - 1) : Tail(s)[i] = s[i + 1]
  BY <1>2
<1>6. \A u \in Seq(S) : IsSequence(u)
  BY DEF IsSequence
<1> QED BY <1>3, <1>4, <1>5, <1>6

\* Carried out from the first state on, the first n statements lead to the one behind
\* the last of them.
Runs(trace, path, n) ==
    \A i \in 1 .. n : Passes(path[i], trace[i]) /\ trace[i + 1] = After(path[i], trace[i])

\* The rehearsal on a copy that now holds g, n statements on.
Rehearsed(f, g, c, to, trace, n) ==
    LET path == UpgradePath(f.version, to)
    IN  /\ Match(f.version, trace[1].view, f) /\ trace[1].tx = FALSE /\ trace[1].fk = TRUE
        /\ Runs(trace, path, n)
        /\ trace[n + 1] = Machine(g, c)
        /\ IsSequence(c.todo) /\ Len(path) = n + Len(c.todo)
        /\ \A i \in 1 .. Len(c.todo) : c.todo[i] = path[n + i]

\* Alembic on the database goes where a rehearsal has gone.
Repeats(f, c, trace) ==
    /\ IsSequence(c.todo) /\ Runs(trace, c.todo, Len(c.todo))
    /\ Shadows(trace[1], f, c)

PInv ==
    /\ pc = "compare" => Match(files[Real].version, files[Trial], files[Real])
    /\ pc = "rehearsal" => \E trace : \E n \in Nat :
           Rehearsed(files[Real], files[Trial], conn, target, trace, n)
    /\ pc = "upgrade" => \E trace : Repeats(files[Real], conn, trace)

LEMMA RehearsalBegins ==
    ASSUME NEW f, IsDatabase(f), NEW g, IsDatabase(g), Match(f.version, g, f),
           NEW to \in Base .. E2f5, NEW c, ~c.tx, c.fk = TRUE,
           c.todo = UpgradePath(f.version, to)
    PROVE  \E trace : \E n \in Nat : Rehearsed(f, g, c, to, trace, n)
<1> DEFINE trace == [i \in {1} |-> Machine(g, c)]
<1>1. trace[1] = Machine(g, c) /\ View(g, c) = g
  BY DEF View
<1>2. trace[1].view = g /\ trace[1].tx = FALSE /\ trace[1].fk = TRUE
  BY <1>1 DEF Machine
<1>3. IsSequence(c.todo)
  BY UpgradeParts DEF IsDatabase
<1>4. Len(c.todo) \in Nat /\ 0 \in Nat /\ 0 + 1 = 1 /\ \A i \in 1 .. Len(c.todo) : 0 + i = i
  BY <1>3 DEF IsSequence
<1> HIDE DEF trace
<1>5. Rehearsed(f, g, c, to, trace, 0)
  BY <1>1, <1>2, <1>3, <1>4 DEF Rehearsed, Runs
<1> QED BY <1>4, <1>5

LEMMA RehearsalGoesOn ==
    ASSUME NEW f, NEW g, NEW c, NEW to, NEW trace, NEW n \in Nat,
           Rehearsed(f, g, c, to, trace, n), c.todo # <<>>,
           IsDatabase(View(g, c)), Possible(Head(c.todo), View(g, c), c.fk),
           NEW h, NEW cc, cc.todo = Tail(c.todo),
           Machine(h, cc) = After(Head(c.todo), Machine(g, c))
    PROVE  \E longer : Rehearsed(f, h, cc, to, longer, n + 1)
<1> DEFINE path == UpgradePath(f.version, to)
           x == Head(c.todo)
           m == Machine(g, c)
           longer == [i \in 1 .. (n + 2) |-> IF i = n + 2 THEN After(x, m) ELSE trace[i]]
<1>1. /\ Match(f.version, trace[1].view, f) /\ trace[1].tx = FALSE /\ trace[1].fk = TRUE
      /\ Runs(trace, path, n) /\ trace[n + 1] = m
      /\ IsSequence(c.todo) /\ Len(path) = n + Len(c.todo)
      /\ \A i \in 1 .. Len(c.todo) : c.todo[i] = path[n + i]
  BY DEF Rehearsed
<1>2. /\ Len(c.todo) \in Nat /\ Len(c.todo) > 0 /\ x = c.todo[1]
      /\ IsSequence(cc.todo) /\ Len(cc.todo) = Len(c.todo) - 1
      /\ \A i \in 1 .. (Len(c.todo) - 1) : cc.todo[i] = c.todo[i + 1]
  BY <1>1, TailIs DEF IsSequence
<1>3. m.view = View(g, c) /\ m.fk = c.fk
  BY DEF Machine
<1>4. /\ longer[n + 2] = After(x, m)
      /\ \A i \in 1 .. (n + 1) : longer[i] = trace[i]
  OBVIOUS
<1> HIDE DEF path, x, m, longer
<1>5. Passes(x, m)
  BY <1>3 DEF Passes, x
<1>6. x = path[n + 1]
  BY <1>1, <1>2
<1>7. ASSUME NEW i \in 1 .. (n + 1)
      PROVE  Passes(path[i], longer[i]) /\ longer[i + 1] = After(path[i], longer[i])
  <2>1. CASE i = n + 1
    <3>1. longer[i] = m /\ longer[i + 1] = After(x, m)
      <4>1. i + 1 = n + 2
        BY <2>1
      <4> QED BY <1>1, <1>4, <1>7, <2>1, <4>1
    <3> QED BY <1>5, <1>6, <2>1, <3>1
  <2>2. CASE i # n + 1
    <3>1. i \in 1 .. n /\ i + 1 \in 1 .. (n + 1)
      BY <1>7, <2>2
    <3> QED BY <1>1, <1>4, <1>7, <3>1 DEF Runs
  <2> QED BY <2>1, <2>2
<1>8. Len(path) = (n + 1) + Len(cc.todo)
      /\ \A i \in 1 .. Len(cc.todo) : cc.todo[i] = path[(n + 1) + i]
  <2>1. ASSUME NEW i \in 1 .. Len(cc.todo) PROVE cc.todo[i] = path[(n + 1) + i]
    <3>1. i + 1 \in 1 .. Len(c.todo) /\ i \in 1 .. (Len(c.todo) - 1) /\ n + (i + 1) = (n + 1) + i
      BY <1>2, <2>1
    <3> QED BY <1>1, <1>2, <3>1
  <2>2. Len(path) = (n + 1) + Len(cc.todo)
    <3>1. \A a \in Nat : n + a = (n + 1) + (a - 1)
      OBVIOUS
    <3>2. Len(path) = n + Len(c.todo) /\ Len(cc.todo) = Len(c.todo) - 1 /\ Len(c.todo) \in Nat
      BY <1>1, <1>2
    <3> QED BY <3>1, <3>2
  <2> QED BY <2>1, <2>2
<1>9. longer[1] = trace[1] /\ longer[(n + 1) + 1] = After(x, m)
  <2>1. 1 \in 1 .. (n + 1) /\ (n + 1) + 1 = n + 2
    OBVIOUS
  <2> QED BY <1>4, <2>1
<1>10. Machine(h, cc) = After(x, m)
  BY DEF x, m
<1>11. Rehearsed(f, h, cc, to, longer, n + 1)
  BY <1>1, <1>2, <1>7, <1>8, <1>9, <1>10 DEF Rehearsed, Runs, path
<1> QED BY <1>11

\* Alembic is done with the copy, and connects to the database.
LEMMA UpgradeBegins ==
    ASSUME NEW f, IsDatabase(f), NEW g, NEW c, NEW to \in Base .. E2f5, NEW trace,
           NEW n \in Nat, Rehearsed(f, g, c, to, trace, n), c.todo = <<>>,
           NEW cc, ~cc.tx, cc.fk = TRUE, cc.todo = UpgradePath(f.version, to)
    PROVE  Repeats(f, cc, trace)
<1> DEFINE path == UpgradePath(f.version, to)
<1>1. IsSequence(path)
  BY UpgradeParts DEF IsDatabase
<1>2. Len(path) = n
  BY DEF Rehearsed
<1>3. View(f, cc) = f /\ Machine(f, cc).tx = FALSE
  BY DEF View, Machine
<1> HIDE DEF path
<1> QED BY <1>1, <1>2, <1>3 DEF Repeats, Rehearsed, Shadows, path

LEMMA UpgradeGoesOn ==
    ASSUME NEW f, NEW c, NEW to \in Base .. E2f5, NEW r \in B0ba .. E2f5, NEW k \in Nat,
           Amid(f, c, to, TRUE, r, k), NEW trace, Repeats(f, c, trace), c.todo # <<>>,
           NEW g, IsDatabase(g), OfRevision(g), NEW cc, Carries(f, c, g, cc),
           Machine(g, cc) = After(Head(c.todo), Machine(f, c)), f.version <= g.version
    PROVE  \E rest : Repeats(g, cc, rest)
<1> DEFINE x == Head(c.todo)
           d == trace[1].view
           e == View(f, c)
           rest == [i \in 1 .. Len(c.todo) |-> trace[i + 1]]
<1>1. IsSequence(c.todo) /\ Runs(trace, c.todo, Len(c.todo)) /\ Shadows(trace[1], f, c)
  BY DEF Repeats
<1>2. /\ Len(c.todo) \in Nat /\ Len(c.todo) > 0 /\ x = c.todo[1]
      /\ IsSequence(cc.todo) /\ Len(cc.todo) = Len(c.todo) - 1
      /\ \A i \in 1 .. (Len(c.todo) - 1) : cc.todo[i] = c.todo[i + 1]
  BY <1>1, TailIs DEF IsSequence, Carries
<1>3. Passes(x, trace[1]) /\ trace[2] = After(x, trace[1])
  <2>1. 1 \in 1 .. Len(c.todo) /\ 1 + 1 = 2
    BY <1>2
  <2> QED BY <1>1, <1>2, <2>1 DEF Runs
<1>4. /\ f.version < E2f5
      /\ f.version < B449 => Effect(x, e) = Effect(x, d)
      /\ B449 <= f.version => Alike(Effect(x, d), Effect(x, e))
  BY <1>1, <1>3, ShadowStep
<1>5. /\ Machine(g, cc).view = View(g, cc) /\ Machine(g, cc).fk = cc.fk
      /\ Machine(f, c).view = e /\ Machine(f, c).fk = c.fk
  BY DEF Machine
<1>6. /\ View(g, cc) = Effect(x, e) /\ trace[2].view = Effect(x, d)
      /\ trace[2].tx = Machine(g, cc).tx /\ trace[2].fk = cc.fk
  BY <1>1, <1>3, <1>5 DEF After, Shadows
<1>7. Match(g.version, trace[2].view, View(g, cc))
  <2>1. f.version \in Int /\ g.version \in Int
    BY DEF Amid, B0ba, E2f5, IsDatabase, Base
  <2>2. CASE B449 <= f.version
    BY <1>4, <1>6, <2>1, <2>2 DEF Match, B449
  <2>3. CASE ~(B449 <= f.version)
    <3>1. View(g, cc) = trace[2].view
      BY <1>4, <1>6, <2>1, <2>3 DEF B449
    <3>2. ASSUME B449 <= g.version PROVE Alike(View(g, cc), View(g, cc))
      <4>1. g # f
        BY <2>3, <3>2
      <4>2. ~cc.tx
        BY <4>1 DEF Carries
      <4> QED BY <4>2, AlikeItself DEF View
    <3> QED BY <3>1, <3>2 DEF Match
  <2> QED BY <2>2, <2>3
<1> HIDE DEF x, d, e
<1>8. Runs(rest, cc.todo, Len(cc.todo))
  <2>1. SUFFICES ASSUME NEW i \in 1 .. (Len(c.todo) - 1)
                 PROVE  Passes(cc.todo[i], rest[i]) /\ rest[i + 1] = After(cc.todo[i], rest[i])
    BY <1>2 DEF Runs
  <2>2. i \in 1 .. Len(c.todo) /\ i + 1 \in 1 .. Len(c.todo)
    BY <1>2, <2>1
  <2>3. rest[i] = trace[i + 1] /\ rest[i + 1] = trace[(i + 1) + 1] /\ cc.todo[i] = c.todo[i + 1]
    BY <1>2, <2>1, <2>2
  <2> HIDE DEF rest
  <2> QED BY <1>1, <2>2, <2>3 DEF Runs
<1>9. rest[1] = trace[2]
  BY <1>2
<1> HIDE DEF rest
<1>10. Repeats(g, cc, rest)
  BY <1>2, <1>6, <1>7, <1>8, <1>9 DEF Repeats, Shadows
<1> QED BY <1>10

LEMMA StepPredicted ==
    ASSUME Control, CInv, HInv, HInv', CInv', PInv, Step PROVE PInv'
<1>1. /\ Execute /\ pc' = pc /\ target' = target /\ conn'.file = conn.file
      /\ \A f \in Files \ {conn.file} : files'[f] = files[f]
  BY ExecuteTouches DEF Step, script
<1>2. conn.file = FileAt(pc) /\ conn.file # None /\ conn.todo # <<>> /\ Real # Trial
  BY <1>1 DEF Control, Execute, Connected, Real, Trial
<1>3. /\ Carries(files[conn.file], conn, files'[conn.file], conn')
      /\ Machine(files'[conn.file], conn') = After(Head(conn.todo), Machine(files[conn.file], conn))
  BY <1>1, ExecuteCarries, ExecuteMachine
<1>4. PICK up \in BOOLEAN :
          /\ up \/ pc = "hand"
          /\ \E r \in B0ba .. E2f5 : \E k \in Nat :
                Amid(files[conn.file], conn, target, up, r, k)
  BY <1>1, <1>2 DEF CInv, Connection, Connected, Arrived, Underway
<1>5. PICK r \in B0ba .. E2f5 : \E k \in Nat : Amid(files[conn.file], conn, target, up, r, k)
  BY <1>4
<1>6. PICK k \in Nat : Amid(files[conn.file], conn, target, up, r, k)
  BY <1>5
<1>7. CASE pc = "rehearsal"
  <2>1. conn.file = Trial /\ files'[Real] = files[Real]
    BY <1>1, <1>2, <1>7 DEF FileAt, Files
  <2>2. PICK trace : \E n \in Nat :
            Rehearsed(files[Real], files[Trial], conn, target, trace, n)
    BY <1>7 DEF PInv
  <2>3. PICK n \in Nat : Rehearsed(files[Real], files[Trial], conn, target, trace, n)
    BY <2>2
  <2>4. IsDatabase(View(files[Trial], conn))
    BY <1>6, <2>1 DEF Amid
  <2>5. /\ Possible(Head(conn.todo), View(files[Trial], conn), conn.fk)
        /\ conn'.todo = Tail(conn.todo)
    BY <1>3, <2>1 DEF Carries
  <2>6. \E longer : Rehearsed(files[Real], files'[Trial], conn', target, longer, n + 1)
    BY <1>2, <1>3, <2>1, <2>3, <2>4, <2>5, RehearsalGoesOn
  <2>7. n + 1 \in Nat
    OBVIOUS
  <2> QED BY <1>1, <1>7, <2>1, <2>6, <2>7 DEF PInv
<1>8. CASE pc = "upgrade"
  <2>1. conn.file = Real /\ up = TRUE
    BY <1>2, <1>4, <1>8 DEF FileAt
  <2>2. PICK trace : Repeats(files[Real], conn, trace)
    BY <1>8 DEF PInv
  <2>3. /\ target \in Base .. E2f5 /\ IsDatabase(files[Real])
        /\ IsDatabase(files'[Real]) /\ OfRevision(files'[Real])
    BY DEF CInv, Types, HInv
  <2>4. Progress(files[Real], files'[Real], conn', target, TRUE)
    BY <1>3, <1>6, <2>1, <2>3, CarriesProgress
  <2>5. files[Real].version <= files'[Real].version
    BY <2>4 DEF Progress
  <2>6. \E rest : Repeats(files'[Real], conn', rest)
    BY <1>2, <1>3, <1>6, <2>1, <2>2, <2>3, <2>5, UpgradeGoesOn
  <2> QED BY <1>1, <1>8, <2>6 DEF PInv
<1>9. CASE pc \notin {"rehearsal", "upgrade"}
  <2>1. pc = "hand"
    BY <1>2, <1>9 DEF FileAt
  <2> QED BY <1>1, <2>1 DEF PInv
<1> QED BY <1>7, <1>8, <1>9

LEMMA UsersPredicted ==
    ASSUME Control, CInv, HInv, PInv, Sniff \/ Detect PROVE PInv'
<1>1. /\ Free /\ conn' = conn /\ pc' = pc /\ target' = target /\ files'[Trial] = files[Trial]
  <2>1. Real # Trial
    BY DEF Real, Trial
  <2> QED BY <2>1 DEF Sniff, Detect, script, Control, Files
<1> DEFINE f == files[Real]
           g == files'[Real]
<1>2. \A d : Match(f.version, d, f) => g.version = f.version /\ Match(f.version, d, g)
  BY UsersMatch DEF CInv, Types, HInv
<1> HIDE DEF f, g
<1>3. CASE pc = "compare"
  BY <1>1, <1>2, <1>3 DEF PInv, f, g
<1>4. CASE pc = "rehearsal"
  <2>1. PICK trace : \E n \in Nat : Rehearsed(f, files[Trial], conn, target, trace, n)
    BY <1>4 DEF PInv, f
  <2>2. PICK n \in Nat : Rehearsed(f, files[Trial], conn, target, trace, n)
    BY <2>1
  <2>3. g.version = f.version /\ Match(f.version, trace[1].view, g)
    BY <1>2, <2>2 DEF Rehearsed
  <2>4. Rehearsed(g, files[Trial], conn, target, trace, n)
    BY <2>2, <2>3 DEF Rehearsed
  <2> QED BY <1>1, <1>4, <2>4 DEF PInv, g
<1>5. CASE pc = "upgrade"
  <2>1. PICK trace : Repeats(f, conn, trace)
    BY <1>5 DEF PInv, f
  <2>2. ~conn.tx
    BY <1>1, <1>5 DEF Free, Control, FileAt
  <2>3. View(f, conn) = f /\ View(g, conn) = g /\ Machine(f, conn).tx = FALSE
        /\ Machine(g, conn).tx = FALSE
    BY <2>2 DEF View, Machine
  <2>4. Repeats(g, conn, trace)
    BY <1>2, <2>1, <2>3 DEF Repeats, Shadows
  <2> QED BY <1>1, <1>5, <2>4 DEF PInv, g
<1> QED BY <1>1, <1>3, <1>4, <1>5 DEF PInv

LEMMA PInvHolds ==
    Control /\ CInv /\ HInv /\ PInv /\ [Next]_vars /\ CInv' /\ HInv' => PInv'
<1> SUFFICES ASSUME Control, CInv, HInv, PInv, [Next]_vars, CInv', HInv' PROVE PInv'
  OBVIOUS
<1>1. IsDatabase(files[Real]) /\ IsDatabase(files[Trial]) /\ OfRevision(files[Real])
      /\ target \in Base .. E2f5 /\ files[Real].version \in Base .. E2f5
  BY DEF CInv, Types, HInv, IsDatabase
<1>2. ASSUME pc' \notin {"compare", "rehearsal", "upgrade"} PROVE PInv'
  BY <1>2 DEF PInv
<1>3. CASE Step
  BY <1>3, StepPredicted
<1>4. CASE Sniff \/ Detect
  BY <1>4, UsersPredicted
<1>5. CASE Seed
  <2>1. pc' = "compare" /\ files'[Real] = files[Real] /\ files'[Trial] = files[Real]
    BY <1>5 DEF Seed, Goes, Control, Files, Real, Trial
  <2>2. Match(files[Real].version, files[Real], files[Real])
    BY <1>1, AlikeItself DEF Match
  <2> QED BY <2>1, <2>2 DEF PInv
<1>6. CASE Rehearse
  <2>1. /\ pc = "compare" /\ pc' = "rehearsal" /\ files' = files /\ target' = target
        /\ ~conn'.tx /\ conn'.fk = TRUE
        /\ conn'.todo = UpgradePath(files[Real].version, target)
    BY <1>6 DEF Rehearse, At, Goes, Connect, NoConn, Version, Opens
  <2>2. Match(files[Real].version, files[Trial], files[Real])
    BY <2>1 DEF PInv
  <2>3. \E trace : \E n \in Nat :
            Rehearsed(files[Real], files[Trial], conn', target, trace, n)
    BY <1>1, <2>1, <2>2, RehearsalBegins
  <2> QED BY <2>1, <2>3 DEF PInv
<1>7. CASE Apply
  <2>1. /\ pc = "rehearsal" /\ pc' = "upgrade" /\ files'[Real] = files[Real]
        /\ target' = target /\ conn.todo = <<>> /\ ~conn'.tx /\ conn'.fk = TRUE
        /\ conn'.todo = UpgradePath(files[Real].version, target)
    BY <1>7 DEF Apply, At, Goes, Finished, Connect, NoConn, Version, Opens, Control, Files,
                Real, Trial
  <2>2. PICK trace : \E n \in Nat :
            Rehearsed(files[Real], files[Trial], conn, target, trace, n)
    BY <2>1 DEF PInv
  <2>3. PICK n \in Nat : Rehearsed(files[Real], files[Trial], conn, target, trace, n)
    BY <2>2
  <2>4. Repeats(files[Real], conn', trace)
    BY <1>1, <2>1, <2>3, UpgradeBegins
  <2> QED BY <2>1, <2>4 DEF PInv
<1>8. CASE Begin \/ RemoveDump \/ Dump \/ CommitDump \/ NothingToCommit \/ Refuse \/ Confirm
           \/ UpgradeFails \/ Stop \/ AlembicEnds \/ AlembicByHand
  <2>1. pc' \in {"rmtree", "dump", "commit", "seed", "idle", "hand"}
    BY <1>8 DEF Begin, RemoveDump, Dump, CommitDump, NothingToCommit, Refuse, Confirm,
                UpgradeFails, Stop, AlembicEnds, AlembicByHand, Goes, Ends
  <2> QED BY <1>2, <2>1
<1>9. CASE CleanTree
  BY <1>2, <1>9 DEF CleanTree
<1>10. CASE UNCHANGED vars
  BY <1>10 DEF vars, script, PInv
<1> QED BY <1>3, <1>4, <1>5, <1>6, <1>7, <1>8, <1>9, <1>10 DEF Next

LEMMA PInvAlways == Spec => []PInv
<1>1. Init => PInv
  BY DEF Init, PInv
<1>2. Control /\ CInv /\ HInv /\ PInv /\ [Next]_vars /\ CInv' /\ HInv' => PInv'
  BY PInvHolds
<1> QED BY <1>1, <1>2, CInvAlways, HInvAlways, PTL DEF Spec

\* What the rehearsal is for: whatever the database holds, however earlier runs were
\* killed, and whatever sniffers and detectors write meanwhile, a statement that the
\* copy let alembic carry out is carried out on the database too.
THEOREM RehearsalAlwaysPredicts == Spec => []RehearsalPredicts
<1>1. Control /\ CInv /\ PInv => RehearsalPredicts
  <2> SUFFICES ASSUME Control, CInv, PInv, pc = "upgrade", Refused PROVE FALSE
    BY DEF RehearsalPredicts
  <2>1. conn.file = Real /\ Connected /\ conn.todo # <<>>
        /\ ~Possible(Head(conn.todo), View(files[Real], conn), conn.fk)
    BY DEF Control, FileAt, Refused, Statement, Content, View
  <2>2. \E r \in B0ba .. E2f5 : \E k \in Nat : Amid(files[Real], conn, target, TRUE, r, k)
    BY <2>1 DEF CInv, Connection, Arrived, Underway
  <2>3. PICK r \in B0ba .. E2f5 : \E k \in Nat : Amid(files[Real], conn, target, TRUE, r, k)
    BY <2>2
  <2>4. PICK k \in Nat : Amid(files[Real], conn, target, TRUE, r, k)
    BY <2>3
  <2>5. PICK trace : Repeats(files[Real], conn, trace)
    BY DEF PInv
  <2>6. Len(conn.todo) \in Nat /\ Len(conn.todo) > 0 /\ Head(conn.todo) = conn.todo[1]
    BY <2>1, <2>5, TailIs DEF Repeats, IsSequence
  <2>7. Passes(Head(conn.todo), trace[1]) /\ Shadows(trace[1], files[Real], conn)
    <3>1. 1 \in 1 .. Len(conn.todo)
      BY <2>6
    <3> QED BY <2>5, <2>6, <3>1 DEF Repeats, Runs
  <2>8. target \in Base .. E2f5
    BY DEF CInv, Types
  <2> QED BY <2>1, <2>4, <2>7, <2>8, ShadowStep
<1> QED BY <1>1, CInvAlways, PInvAlways, PTL

-----------------------------------------------------------------------------
(* The tables and the indexes of each revision, behind each of its         *)
(* statements.                                                             *)

\* A table but for its rows.
Form(t) == Table(t.cols, t.notNull, t.refs)

\* d has tables of these forms and these indexes.
Laid(forms, indexes, d) ==
    /\ DOMAIN d.tables = DOMAIN forms
    /\ \A n \in DOMAIN forms : Form(d.tables[n]) = forms[n]
    /\ d.indexes = indexes

CellsForm == Table({"plmn"}, {"plmn"}, <<>>)
AlertsForm == Table({"session_id", "trigger_message_id"}, {"session_id"},
                    [session_id |-> "sessions", trigger_message_id |-> "messages"])
MessagesForm(added, notNull) ==
    Table({"session_id"} \cup added, notNull, [session_id |-> "sessions"])
SessionsForm(notNull) == Table({"cell_id"}, notNull, [cell_id |-> "cells"])

MessagesAt1 == MessagesForm({}, {"session_id"})
MessagesAt2 == MessagesForm({"enb_ue_s1ap_id", "mme_ue_s1ap_id"}, {})
MessagesWithPlmn == MessagesForm({"enb_ue_s1ap_id", "mme_ue_s1ap_id", "plmn"}, {})
MessagesAt5 == MessagesForm({"enb_ue_s1ap_id", "mme_ue_s1ap_id", "plmn", "cell_id"}, {})
SessionsAt1 == SessionsForm({"cell_id"})
SessionsAt3 == SessionsForm({})
SessionsAt5 == Table({"cell_id", "plmn"}, {}, <<>>)

Four == {"cells", "sessions", "messages", "alerts"}

Forms(messages, sessions) ==
    [n \in Four |-> CASE n = "cells"    -> CellsForm
                      [] n = "sessions" -> sessions
                      [] n = "messages" -> messages
                      [] n = "alerts"   -> AlertsForm]

SessionIndexes == {"idx_sessions_cell", "idx_sessions_started_at"}
AlertIndexes == {"idx_alerts_session", "idx_alerts_rule"}
Six == {"idx_messages_session_ts", "idx_messages_session_type"}
       \cup SessionIndexes \cup AlertIndexes
Seven == Six \cup {"idx_messages_enb_ue_s1ap_id"}
Eight == Seven \cup {"idx_messages_unsessionized"}
Nine == Eight \cup {"idx_messages_cell_enb_ue_s1ap_id"}

Owner(x) == IF x \in SessionIndexes THEN "sessions"
            ELSE IF x \in AlertIndexes THEN "alerts" ELSE "messages"
On(names) == [x \in names |-> Owner(x)]

\* The statement of b0ba that makes a table or an index.
Turn == [cells |-> 1, sessions |-> 2, messages |-> 3, alerts |-> 4,
         idx_messages_session_ts |-> 5, idx_messages_session_type |-> 6,
         idx_sessions_cell |-> 7, idx_sessions_started_at |-> 8,
         idx_alerts_session |-> 9, idx_alerts_rule |-> 10]

FormsAt(r, k) ==
    CASE r = B0ba ->
             [n \in {x \in Four : Turn[x] <= k} |-> Forms(MessagesAt1, SessionsAt1)[n]]
      [] r = B449 ->
             IF k = 0 THEN Forms(MessagesAt1, SessionsAt1)
             ELSE IF k <= 2 THEN Bind(Forms(MessagesAt1, SessionsAt1), Tmp["messages"], MessagesAt2)
             ELSE Forms(MessagesAt2, SessionsAt1)
      [] r = C692 ->
             IF k = 0 THEN Forms(MessagesAt2, SessionsAt1)
             ELSE IF k <= 2 THEN Bind(Forms(MessagesAt2, SessionsAt1), Tmp["sessions"], SessionsAt3)
             ELSE Forms(MessagesAt2, SessionsAt3)
      [] r = D1a7 -> Forms(MessagesAt2, SessionsAt3)
      [] r = E2f5 ->
             IF k = 0 THEN Forms(MessagesAt2, SessionsAt3)
             ELSE IF k = 1 THEN Forms(MessagesWithPlmn, SessionsAt3)
             ELSE IF k <= 3 THEN Forms(MessagesAt5, SessionsAt3)
             ELSE IF k <= 5 THEN Bind(Forms(MessagesAt5, SessionsAt3), "sessions_new", SessionsAt5)
             ELSE IF k = 6 THEN Unbind(Bind(Forms(MessagesAt5, SessionsAt3), "sessions_new",
                                            SessionsAt5), {"sessions"})
             ELSE Forms(MessagesAt5, SessionsAt5)

IndexesAt(r, k) ==
    CASE r = B0ba -> {x \in Six : Turn[x] <= k}
      [] r = B449 -> IF k < 4 THEN Six ELSE Seven
      [] r = C692 -> Seven
      [] r = D1a7 -> IF k = 0 THEN Seven ELSE Eight
      [] r = E2f5 ->
             IF k <= 5 THEN Eight
             ELSE IF k <= 7 THEN Eight \ SessionIndexes
             ELSE IF k = 8 THEN Eight \ {"idx_sessions_started_at"}
             ELSE IF k <= 10 THEN Eight ELSE Nine

\* A database behind the k-th statement of revision r.
Stands(r, k, d) == IsDatabase(d) /\ Laid(FormsAt(r, k), On(IndexesAt(r, k)), d)

\* What a statement makes of the forms of the tables.
FormsBehind(s, F) ==
    CASE s.op = "create"     -> Bind(F, s.name, s.table)
      [] s.op = "createLike" -> Bind(F, Tmp[s.name], Altered(F[s.name], s))
      [] s.op = "addColumn"  ->
             Changed(F, s.name, Table(F[s.name].cols \cup {s.col}, F[s.name].notNull,
                                      F[s.name].refs))
      [] s.op = "drop"       -> Unbind(F, {s.name})
      [] s.op = "rename"     -> Unbind(Bind(F, s.to, F[s.name]), {s.name})
      [] s.op = "replace"    -> Unbind(Bind(F, s.name, F[Tmp[s.name]]), {Tmp[s.name]})
      [] OTHER               -> F

\* The statement finds what it names, and what it makes is not there.
Named(s, names) ==
    /\ s.op \in Operations
    /\ s.op = "createLike" => s.name \in names /\ Tmp[s.name] \notin names
    /\ s.op = "create" => s.name \notin names /\ s.table = Form(s.table)
    /\ s.op \in {"addColumn", "drop", "createIndex"} => s.name \in names
    /\ s.op = "copy" => s.name \in names /\ s.to \in names
    /\ s.op = "rename" => s.name \in names /\ s.to \notin names
    /\ s.op = "replace" => s.name \in names /\ Tmp[s.name] \in names
    /\ s.op = "setVersion" => s.revision \in Base .. E2f5

LEMMA FormIs ==
    ASSUME NEW t
    PROVE  /\ Form(t).cols = t.cols /\ Form(t).notNull = t.notNull /\ Form(t).refs = t.refs
           /\ \A s : Form(Altered(t, s)) = Altered(Form(t), s)
           /\ \A col : Form(Widened(t, col)) = Table(t.cols \cup {col}, t.notNull, t.refs)
           /\ \A rows : Form(TableWith(t, rows)) = Form(t)
BY DEF Form, Table, Altered, Widened, TableWith

LEMMA LaidStep ==
    ASSUME NEW F, NEW X, NEW d, IsDatabase(d), Laid(F, X, d),
           NEW s, Named(s, DOMAIN F), NEW Y, IndexesBehind(s, X, Y)
    PROVE  IsDatabase(Effect(s, d)) /\ Laid(FormsBehind(s, F), Y, Effect(s, d))
<1> DEFINE e == Effect(s, d)
<1>1. Ready(s, d)
  <2>1. ASSUME s.op = "create" PROVE IsTable(s.table)
    BY <2>1, TableShape DEF Named, Form
  <2> QED BY <2>1 DEF Ready, Named, Laid
<1>2. IsDatabase(e)
  BY <1>1, EffectShape
<1>3. TablesBehind(s, d, e.tables) /\ IndexesBehind(s, d.indexes, e.indexes)
  BY <1>1, EffectIs, EffectIndexes DEF Ready
<1>4. e.indexes = Y
  BY <1>3 DEF Laid, IndexesBehind, Named, Operations
<1> HIDE DEF e
<1>5. DOMAIN d.tables = DOMAIN F /\ \A n \in DOMAIN F : Form(d.tables[n]) = F[n]
  BY DEF Laid
<1> DEFINE G == FormsBehind(s, F)
           ts == d.tables
           us == e.tables
           Same == DOMAIN us = DOMAIN G /\ \A n \in DOMAIN G : Form(us[n]) = G[n]
<1> HIDE DEF ts, us, G
<1>6. CASE s.op = "create"
  <2>1. us = Bind(ts, s.name, s.table) /\ G = Bind(F, s.name, s.table)
        /\ s.table = Form(s.table)
    BY <1>3, <1>6 DEF TablesBehind, FormsBehind, Named, us, ts, G
  <2>2. Same
    BY <1>5, <2>1 DEF Bind, ts
  <2> QED BY <1>2, <1>4, <2>2 DEF Laid, e, us, G
<1>7. CASE s.op = "createLike"
  <2>1. us = Bind(ts, Tmp[s.name], Altered(ts[s.name], s))
        /\ G = Bind(F, Tmp[s.name], Altered(F[s.name], s)) /\ s.name \in DOMAIN F
    BY <1>3, <1>7 DEF TablesBehind, FormsBehind, Named, us, ts, G
  <2>2. Form(Altered(ts[s.name], s)) = Altered(F[s.name], s)
    BY <1>5, <2>1, FormIs DEF ts
  <2>3. Same
    BY <1>5, <2>1, <2>2 DEF Bind, ts
  <2> QED BY <1>2, <1>4, <2>3 DEF Laid, e, us, G
<1>8. CASE s.op = "addColumn"
  <2> DEFINE new == Table(F[s.name].cols \cup {s.col}, F[s.name].notNull, F[s.name].refs)
  <2>1. us = Changed(ts, s.name, Widened(ts[s.name], s.col))
        /\ G = Changed(F, s.name, new) /\ s.name \in DOMAIN F
    BY <1>3, <1>8 DEF TablesBehind, FormsBehind, Named, us, ts, G
  <2>2. Form(Widened(ts[s.name], s.col)) = new
    <3>1. Form(ts[s.name]) = F[s.name]
      BY <1>5, <2>1 DEF ts
    <3> QED BY <3>1, FormIs
  <2> HIDE DEF new
  <2>3. Same
    BY <1>5, <2>1, <2>2 DEF Changed, ts
  <2> QED BY <1>2, <1>4, <2>3 DEF Laid, e, us, G
<1>9. CASE s.op = "copy"
  <2>1. us = Changed(ts, s.to, TableWith(ts[s.to], Copied(d, s.name, s.to))) /\ G = F
        /\ s.to \in DOMAIN F
    BY <1>3, <1>9 DEF TablesBehind, FormsBehind, Named, us, ts, G
  <2>2. Form(TableWith(ts[s.to], Copied(d, s.name, s.to))) = F[s.to]
    BY <1>5, <2>1, FormIs DEF ts
  <2>3. Same
    BY <1>5, <2>1, <2>2 DEF Changed, ts
  <2> QED BY <1>2, <1>4, <2>3 DEF Laid, e, us, G
<1>10. CASE s.op = "drop"
  <2>1. us = Unbind(ts, {s.name}) /\ G = Unbind(F, {s.name})
    BY <1>3, <1>10 DEF TablesBehind, FormsBehind, us, ts, G
  <2>2. Same
    BY <1>5, <2>1 DEF Unbind, ts
  <2> QED BY <1>2, <1>4, <2>2 DEF Laid, e, us, G
<1>11. CASE s.op = "rename"
  <2>1. us = Unbind(Bind(ts, s.to, ts[s.name]), {s.name})
        /\ G = Unbind(Bind(F, s.to, F[s.name]), {s.name}) /\ s.name \in DOMAIN F
    BY <1>3, <1>11 DEF TablesBehind, FormsBehind, Named, us, ts, G
  <2>2. Same
    BY <1>5, <2>1 DEF Unbind, Bind, ts
  <2> QED BY <1>2, <1>4, <2>2 DEF Laid, e, us, G
<1>12. CASE s.op = "replace"
  <2> DEFINE tmp == Tmp[s.name]
  <2>1. us = Unbind(Bind(ts, s.name, ts[tmp]), {tmp})
        /\ G = Unbind(Bind(F, s.name, F[tmp]), {tmp}) /\ tmp \in DOMAIN F
    BY <1>3, <1>12 DEF TablesBehind, FormsBehind, Named, us, ts, G
  <2> HIDE DEF tmp
  <2>2. Same
    BY <1>5, <2>1 DEF Unbind, Bind, ts
  <2> QED BY <1>2, <1>4, <2>2 DEF Laid, e, us, G
<1>13. CASE s.op \in Plain
  <2>1. us = ts /\ G = F
    BY <1>3, <1>13 DEF TablesBehind, FormsBehind, us, ts, G, Plain
  <2> QED BY <1>2, <1>4, <1>5, <2>1 DEF Laid, e, us, ts, G
<1> QED BY <1>6, <1>7, <1>8, <1>9, <1>10, <1>11, <1>12, <1>13 DEF Named, Operations, Plain

Like(name, dropped, added, nullable, notNull) ==
    [op |-> "createLike", name |-> name, dropped |-> dropped, added |-> added,
     nullable |-> nullable, notNull |-> notNull]
Replace(name) == [op |-> "replace", name |-> name]

LEMMA BatchText ==
    ASSUME NEW name, NEW dropped, NEW added, NEW nullable, NEW notNull
    PROVE  LET s == Batch(name, dropped, added, nullable, notNull)
           IN  /\ IsSequence(s) /\ Len(s) = 3
               /\ s[1] = Like(name, dropped, added, nullable, notNull)
               /\ s[2] = Copy(name, Tmp[name]) /\ s[3] = Replace(name)
<1> DEFINE a == Like(name, dropped, added, nullable, notNull)
           s == <<a, Copy(name, Tmp[name]), Replace(name)>>
<1>1. Batch(name, dropped, added, nullable, notNull) = s
  BY DEF Batch, Like, Replace
<1> HIDE DEF a
<1>2. /\ IsSequence(s) /\ Len(s) = 3 /\ s[1] = a /\ s[2] = Copy(name, Tmp[name])
      /\ s[3] = Replace(name)
  BY DEF IsSequence
<1> QED BY <1>1, <1>2 DEF a

LEMMA SessionsNewText ==
    ASSUME NEW cols, NEW refs
    PROVE  LET s == SessionsNew(cols, refs)
           IN  /\ IsSequence(s) /\ Len(s) = 8
               /\ s[1] = ForeignKeys(FALSE)
               /\ s[2] = Create("sessions_new", Table(cols, {}, refs))
               /\ s[3] = Copy("sessions", "sessions_new")
               /\ s[4] = Drop("sessions")
               /\ s[5] = Rename("sessions_new", "sessions")
               /\ s[6] = CreateIndex("idx_sessions_cell", "sessions")
               /\ s[7] = CreateIndex("idx_sessions_started_at", "sessions")
               /\ s[8] = ForeignKeys(TRUE)
<1> DEFINE a == Create("sessions_new", Table(cols, {}, refs))
<1> HIDE DEF a
<1>1. SessionsNew(cols, refs) =
          <<ForeignKeys(FALSE), a, Copy("sessions", "sessions_new"), Drop("sessions"),
            Rename("sessions_new", "sessions"), CreateIndex("idx_sessions_cell", "sessions"),
            CreateIndex("idx_sessions_started_at", "sessions"), ForeignKeys(TRUE)>>
  BY DEF SessionsNew, a
<1> DEFINE s == SessionsNew(cols, refs)
<1> HIDE DEF s
<1>2. /\ IsSequence(s) /\ Len(s) = 8 /\ s[1] = ForeignKeys(FALSE) /\ s[2] = a
      /\ s[3] = Copy("sessions", "sessions_new") /\ s[4] = Drop("sessions")
      /\ s[5] = Rename("sessions_new", "sessions")
      /\ s[6] = CreateIndex("idx_sessions_cell", "sessions")
      /\ s[7] = CreateIndex("idx_sessions_started_at", "sessions")
      /\ s[8] = ForeignKeys(TRUE)
  BY <1>1 DEF IsSequence, s
<1> QED BY <1>2 DEF s, a

TextB0ba(s) ==
    /\ s[1] = Create("cells", CellsForm) /\ s[2] = Create("sessions", SessionsAt1)
    /\ s[3] = Create("messages", MessagesAt1) /\ s[4] = Create("alerts", AlertsForm)
    /\ s[5] = CreateIndex("idx_messages_session_ts", "messages")
    /\ s[6] = CreateIndex("idx_messages_session_type", "messages")
    /\ s[7] = CreateIndex("idx_sessions_cell", "sessions")
    /\ s[8] = CreateIndex("idx_sessions_started_at", "sessions")
    /\ s[9] = CreateIndex("idx_alerts_session", "alerts")
    /\ s[10] = CreateIndex("idx_alerts_rule", "alerts")

TextB449(s) ==
    /\ s[1] = Like("messages", {}, {"enb_ue_s1ap_id", "mme_ue_s1ap_id"}, {"session_id"}, {})
    /\ s[2] = Copy("messages", Tmp["messages"]) /\ s[3] = Replace("messages")
    /\ s[4] = CreateIndex("idx_messages_enb_ue_s1ap_id", "messages")

TextC692(s) ==
    /\ s[1] = Like("sessions", {}, {}, {"cell_id"}, {})
    /\ s[2] = Copy("sessions", Tmp["sessions"]) /\ s[3] = Replace("sessions")

TextE2f5(s) ==
    /\ s[1] = AddColumn("messages", "plmn") /\ s[2] = AddColumn("messages", "cell_id")
    /\ s[3] = ForeignKeys(FALSE) /\ s[4] = Create("sessions_new", SessionsAt5)
    /\ s[5] = Copy("sessions", "sessions_new") /\ s[6] = Drop("sessions")
    /\ s[7] = Rename("sessions_new", "sessions")
    /\ s[8] = CreateIndex("idx_sessions_cell", "sessions")
    /\ s[9] = CreateIndex("idx_sessions_started_at", "sessions")
    /\ s[10] = ForeignKeys(TRUE)
    /\ s[11] = CreateIndex("idx_messages_cell_enb_ue_s1ap_id", "messages")

Lengths == <<10, 4, 3, 1, 11>>

Text(r, s) ==
    /\ r = B0ba => TextB0ba(s)
    /\ r = B449 => TextB449(s)
    /\ r = C692 => TextC692(s)
    /\ r = D1a7 => s[1] = CreateIndex("idx_messages_unsessionized", "messages")
    /\ r = E2f5 => TextE2f5(s)

LEMMA InitialText ==
    IsSequence(UpgradeB0ba) /\ Len(UpgradeB0ba) = 10 /\ TextB0ba(UpgradeB0ba)
<1> DEFINE a == Create("cells", CellsForm)
           b == Create("sessions", SessionsAt1)
           c == Create("messages", MessagesAt1)
           d == Create("alerts", AlertsForm)
           s == <<a, b, c, d>>
           t == InitialIndexes
<1>1. InitialTables = s
  BY DEF InitialTables, CellsForm, SessionsAt1, SessionsForm, MessagesAt1, MessagesForm,
         AlertsForm
<1> HIDE DEF a, b, c, d
<1>2. IsSequence(s) /\ Len(s) = 4 /\ s[1] = a /\ s[2] = b /\ s[3] = c /\ s[4] = d
  BY DEF IsSequence
<1>3. /\ IsSequence(t) /\ Len(t) = 6
      /\ t[1] = CreateIndex("idx_messages_session_ts", "messages")
      /\ t[2] = CreateIndex("idx_messages_session_type", "messages")
      /\ t[3] = CreateIndex("idx_sessions_cell", "sessions")
      /\ t[4] = CreateIndex("idx_sessions_started_at", "sessions")
      /\ t[5] = CreateIndex("idx_alerts_session", "alerts")
      /\ t[6] = CreateIndex("idx_alerts_rule", "alerts")
  BY DEF IsSequence, InitialIndexes
<1> HIDE DEF s, t
<1> DEFINE u == s \o t
<1>4. Joins(u, s, t)
  BY <1>2, <1>3, Behind
<1>5. UpgradeB0ba = u
  BY <1>1 DEF UpgradeB0ba, t, s
<1> HIDE DEF u
<1>6. u[1] = s[1] /\ u[2] = s[2] /\ u[3] = s[3] /\ u[4] = s[4] /\ Len(u) = 10
  BY <1>2, <1>3, <1>4 DEF Joins
<1>7. /\ u[4 + 1] = t[1] /\ u[4 + 2] = t[2] /\ u[4 + 3] = t[3] /\ u[4 + 4] = t[4]
      /\ u[4 + 5] = t[5] /\ u[4 + 6] = t[6]
  BY <1>2, <1>3, <1>4 DEF Joins
<1>8. TextB0ba(u)
  BY <1>2, <1>3, <1>6, <1>7 DEF TextB0ba, a, b, c, d
<1> QED BY <1>4, <1>5, <1>6, <1>8 DEF Joins

LEMMA LaterText ==
    /\ IsSequence(UpgradeB449) /\ Len(UpgradeB449) = 4 /\ TextB449(UpgradeB449)
    /\ IsSequence(UpgradeC692) /\ Len(UpgradeC692) = 3 /\ TextC692(UpgradeC692)
    /\ IsSequence(UpgradeD1a7) /\ Len(UpgradeD1a7) = 1
    /\ UpgradeD1a7[1] = CreateIndex("idx_messages_unsessionized", "messages")
<1>1. \A x, name : LET s == <<CreateIndex(x, name)>>
                   IN  IsSequence(s) /\ Len(s) = 1 /\ s[1] = CreateIndex(x, name)
  <2> SUFFICES ASSUME NEW x, NEW name
               PROVE  LET s == <<CreateIndex(x, name)>>
                      IN  IsSequence(s) /\ Len(s) = 1 /\ s[1] = CreateIndex(x, name)
    OBVIOUS
  <2> DEFINE a == CreateIndex(x, name)
  <2> HIDE DEF a
  <2>1. IsSequence(<<a>>) /\ Len(<<a>>) = 1 /\ <<a>>[1] = a
    BY DEF IsSequence
  <2> QED BY <2>1 DEF a
<1>2. IsSequence(UpgradeB449) /\ Len(UpgradeB449) = 4 /\ TextB449(UpgradeB449)
  <2> DEFINE s == Batch("messages", {}, {"enb_ue_s1ap_id", "mme_ue_s1ap_id"}, {"session_id"}, {})
             t == <<CreateIndex("idx_messages_enb_ue_s1ap_id", "messages")>>
             u == s \o t
  <2>1. /\ IsSequence(s) /\ Len(s) = 3
        /\ s[1] = Like("messages", {}, {"enb_ue_s1ap_id", "mme_ue_s1ap_id"}, {"session_id"}, {})
        /\ s[2] = Copy("messages", Tmp["messages"]) /\ s[3] = Replace("messages")
    BY BatchText
  <2>2. IsSequence(t) /\ Len(t) = 1 /\ t[1] = CreateIndex("idx_messages_enb_ue_s1ap_id", "messages")
    BY <1>1
  <2>3. UpgradeB449 = u
    BY DEF UpgradeB449
  <2> HIDE DEF s, t
  <2>4. Joins(u, s, t)
    BY <2>1, <2>2, Behind
  <2> HIDE DEF u
  <2>5. u[1] = s[1] /\ u[2] = s[2] /\ u[3] = s[3] /\ u[3 + 1] = t[1] /\ Len(u) = 4
    BY <2>1, <2>2, <2>4 DEF Joins
  <2> QED BY <2>1, <2>2, <2>3, <2>4, <2>5 DEF TextB449, Joins
<1>3. IsSequence(UpgradeC692) /\ Len(UpgradeC692) = 3 /\ TextC692(UpgradeC692)
  BY BatchText DEF UpgradeC692, TextC692
<1> QED BY <1>1, <1>2, <1>3 DEF UpgradeD1a7

LEMMA LastText ==
    IsSequence(UpgradeE2f5) /\ Len(UpgradeE2f5) = 11 /\ TextE2f5(UpgradeE2f5)
<1> DEFINE a == <<AddColumn("messages", "plmn"), AddColumn("messages", "cell_id")>>
           b == SessionsNew({"cell_id", "plmn"}, <<>>)
           c == <<CreateIndex("idx_messages_cell_enb_ue_s1ap_id", "messages")>>
           ab == a \o b
           u == ab \o c
<1>1. IsSequence(a) /\ Len(a) = 2
      /\ a[1] = AddColumn("messages", "plmn") /\ a[2] = AddColumn("messages", "cell_id")
  BY DEF IsSequence
<1>2. /\ IsSequence(b) /\ Len(b) = 8
      /\ b[1] = ForeignKeys(FALSE)
      /\ b[2] = Create("sessions_new", SessionsAt5)
      /\ b[3] = Copy("sessions", "sessions_new")
      /\ b[4] = Drop("sessions")
      /\ b[5] = Rename("sessions_new", "sessions")
      /\ b[6] = CreateIndex("idx_sessions_cell", "sessions")
      /\ b[7] = CreateIndex("idx_sessions_started_at", "sessions")
      /\ b[8] = ForeignKeys(TRUE)
  BY SessionsNewText DEF SessionsAt5
<1>3. IsSequence(c) /\ Len(c) = 1
      /\ c[1] = CreateIndex("idx_messages_cell_enb_ue_s1ap_id", "messages")
  BY DEF IsSequence
<1>4. UpgradeE2f5 = u
  BY DEF UpgradeE2f5
<1> HIDE DEF a, b, c
<1>5. Joins(ab, a, b)
  BY <1>1, <1>2, Behind
<1> HIDE DEF ab
<1>6. IsSequence(ab) /\ Len(ab) = 10 /\ ab[1] = a[1] /\ ab[2] = a[2]
  BY <1>1, <1>2, <1>5 DEF Joins
<1>9. \A i \in 1 .. 8 : ab[2 + i] = b[i]
  BY <1>1, <1>2, <1>5 DEF Joins
<1>10. /\ ab[3] = b[1] /\ ab[4] = b[2] /\ ab[5] = b[3] /\ ab[6] = b[4]
       /\ ab[7] = b[5] /\ ab[8] = b[6] /\ ab[9] = b[7] /\ ab[10] = b[8]
  <2>1. ab[2 + 1] = b[1] /\ ab[2 + 2] = b[2] /\ ab[2 + 3] = b[3] /\ ab[2 + 4] = b[4]
    BY <1>9
  <2>2. ab[2 + 5] = b[5] /\ ab[2 + 6] = b[6] /\ ab[2 + 7] = b[7] /\ ab[2 + 8] = b[8]
    BY <1>9
  <2> QED BY <2>1, <2>2
<1>7. Joins(u, ab, c)
  BY <1>3, <1>6, Behind
<1> HIDE DEF u
<1>8. /\ Len(u) = 11 /\ u[1] = ab[1] /\ u[2] = ab[2] /\ u[3] = ab[3] /\ u[4] = ab[4]
      /\ u[5] = ab[5] /\ u[6] = ab[6] /\ u[7] = ab[7] /\ u[8] = ab[8] /\ u[9] = ab[9]
      /\ u[10] = ab[10] /\ u[10 + 1] = c[1]
  BY <1>3, <1>6, <1>7 DEF Joins
<1>11. TextE2f5(u)
  BY <1>1, <1>2, <1>3, <1>6, <1>8, <1>10 DEF TextE2f5
<1> QED BY <1>4, <1>7, <1>8, <1>11 DEF Joins

\* The statements of each revision, with its end.
LEMMA WayText ==
    ASSUME NEW r \in B0ba .. E2f5
    PROVE  LET s == Way(TRUE, r)
           IN  /\ IsSequence(s) /\ Len(s) = Lengths[r] + 2 /\ Text(r, s)
               /\ s[Lengths[r] + 1] = SetVersion(r) /\ s[Lengths[r] + 2] = Commit
<1> USE DEF B0ba, B449, C692, D1a7, E2f5
<1> DEFINE t == Upgrade[r]
           end == <<SetVersion(r), Commit>>
           n == Lengths[r]
           s == t \o end
<1>1. r = 1 \/ r = 2 \/ r = 3 \/ r = 4 \/ r = 5
  OBVIOUS
<1>2. /\ Upgrade[1] = UpgradeB0ba /\ Upgrade[2] = UpgradeB449 /\ Upgrade[3] = UpgradeC692
      /\ Upgrade[4] = UpgradeD1a7 /\ Upgrade[5] = UpgradeE2f5
      /\ Lengths[1] = 10 /\ Lengths[2] = 4 /\ Lengths[3] = 3 /\ Lengths[4] = 1
      /\ Lengths[5] = 11
  BY DEF Upgrade, Lengths
<1>3. IsSequence(t) /\ Len(t) = n /\ n \in {1, 3, 4, 10, 11} /\ Text(r, t)
  BY <1>1, <1>2, InitialText, LaterText, LastText DEF Text
<1>4. IsSequence(end) /\ Len(end) = 2 /\ end[1] = SetVersion(r) /\ end[2] = Commit
  BY DEF IsSequence
<1>5. Way(TRUE, r) = s
  BY DEF Way, StepUp
<1> HIDE DEF t, end
<1>0. Joins(s, t, end)
  BY <1>3, <1>4, Behind
<1> HIDE DEF s
<1>6. /\ IsSequence(s) /\ Len(s) = n + 2
      /\ \A i \in 1 .. n : s[i] = t[i]
      /\ \A i \in 1 .. 2 : s[n + i] = end[i]
  BY <1>0, <1>3, <1>4 DEF Joins
<1>7. s[n + 1] = SetVersion(r) /\ s[n + 2] = Commit
  BY <1>4, <1>6
<1>8. Text(r, s)
  <2>1. CASE r = 1
    <3>1. \A i \in 1 .. 10 : s[i] = t[i]
      BY <1>2, <1>6, <2>1
    <3>2. s[1] = t[1] /\ s[2] = t[2] /\ s[3] = t[3] /\ s[4] = t[4] /\ s[5] = t[5]
      BY <3>1
    <3>3. s[6] = t[6] /\ s[7] = t[7] /\ s[8] = t[8] /\ s[9] = t[9] /\ s[10] = t[10]
      BY <3>1
    <3> QED BY <1>3, <2>1, <3>2, <3>3 DEF Text, TextB0ba
  <2>2. CASE r = 2
    <3>1. s[1] = t[1] /\ s[2] = t[2] /\ s[3] = t[3] /\ s[4] = t[4]
      BY <1>2, <1>6, <2>2
    <3> QED BY <1>3, <2>2, <3>1 DEF Text, TextB449
  <2>3. CASE r = 3
    <3>1. s[1] = t[1] /\ s[2] = t[2] /\ s[3] = t[3]
      BY <1>2, <1>6, <2>3
    <3> QED BY <1>3, <2>3, <3>1 DEF Text, TextC692
  <2>4. CASE r = 4
    <3>1. s[1] = t[1]
      BY <1>2, <1>6, <2>4
    <3> QED BY <1>3, <2>4, <3>1 DEF Text
  <2>5. CASE r = 5
    <3>1. \A i \in 1 .. 11 : s[i] = t[i]
      BY <1>2, <1>6, <2>5
    <3>2. s[1] = t[1] /\ s[2] = t[2] /\ s[3] = t[3] /\ s[4] = t[4] /\ s[5] = t[5]
      BY <3>1
    <3>3. s[6] = t[6] /\ s[7] = t[7] /\ s[8] = t[8] /\ s[9] = t[9] /\ s[10] = t[10]
          /\ s[11] = t[11]
      BY <3>1
    <3>4. TextE2f5(t) /\ (Text(r, s) <=> TextE2f5(s))
      BY <1>3, <2>5 DEF Text
    <3> HIDE DEF s
    <3>5. TextE2f5(s)
      BY <3>2, <3>3, <3>4 DEF TextE2f5
    <3> QED BY <3>4, <3>5
  <2> QED BY <1>1, <2>1, <2>2, <2>3, <2>4, <2>5
<1> QED BY <1>5, <1>6, <1>7, <1>8

-----------------------------------------------------------------------------
(* Each statement leads from its place to the next one.                    *)

Leads(s, F, X, G, Y) == Named(s, DOMAIN F) /\ FormsBehind(s, F) = G /\ IndexesBehind(s, X, Y)

LEMMA IndexLeads ==
    ASSUME NEW F, NEW names, NEW x, NEW name, name \in DOMAIN F, Owner(x) = name
    PROVE  Leads(CreateIndex(x, name), F, On(names), F, On(names \cup {x}))
<1> DEFINE s == CreateIndex(x, name)
<1>1. s.op = "createIndex" /\ s.index = x /\ s.name = name
  BY DEF CreateIndex
<1> HIDE DEF s
<1>2. Bind(On(names), x, name) = On(names \cup {x})
  BY DEF Bind, On
<1>3. Named(s, DOMAIN F) /\ FormsBehind(s, F) = F
  BY <1>1 DEF Named, FormsBehind, Operations
<1>4. IndexesBehind(s, On(names), On(names \cup {x}))
  BY <1>1, <1>2 DEF IndexesBehind
<1>5. Leads(s, F, On(names), F, On(names \cup {x}))
  BY <1>3, <1>4 DEF Leads
<1> QED BY <1>5 DEF s

LEMMA CreateLeads ==
    ASSUME NEW F, NEW X, NEW name, name \notin DOMAIN F, NEW t, t = Form(t)
    PROVE  Leads(Create(name, t), F, X, Bind(F, name, t), X)
<1> DEFINE s == Create(name, t)
<1>1. s.op = "create" /\ s.table = t /\ s.name = name
  BY DEF Create
<1> HIDE DEF s
<1>2. Named(s, DOMAIN F) /\ FormsBehind(s, F) = Bind(F, name, t)
  BY <1>1 DEF Named, FormsBehind, Operations
<1>3. IndexesBehind(s, X, X)
  BY <1>1 DEF IndexesBehind
<1>4. Leads(s, F, X, Bind(F, name, t), X)
  BY <1>2, <1>3 DEF Leads
<1> QED BY <1>4 DEF s

LEMMA LikeLeads ==
    ASSUME NEW F, NEW X, NEW name, name \in DOMAIN F, Tmp[name] \notin DOMAIN F,
           NEW dropped, NEW added, NEW nullable, NEW notNull
    PROVE  Leads(Like(name, dropped, added, nullable, notNull), F, X,
                 Bind(F, Tmp[name],
                      Table((F[name].cols \ dropped) \cup added,
                            (F[name].notNull \ nullable) \cup notNull, F[name].refs)), X)
<1> DEFINE s == Like(name, dropped, added, nullable, notNull)
           new == Table((F[name].cols \ dropped) \cup added,
                        (F[name].notNull \ nullable) \cup notNull, F[name].refs)
<1>1. /\ s.op = "createLike" /\ s.name = name /\ s.dropped = dropped /\ s.added = added
      /\ s.nullable = nullable /\ s.notNull = notNull
  BY DEF Like
<1> HIDE DEF s
<1>2. Altered(F[name], s) = new
  BY <1>1 DEF Altered
<1> HIDE DEF new
<1>3. Named(s, DOMAIN F) /\ FormsBehind(s, F) = Bind(F, Tmp[name], new)
  BY <1>1, <1>2 DEF Named, FormsBehind, Operations
<1>4. IndexesBehind(s, X, X)
  BY <1>1 DEF IndexesBehind
<1>5. Leads(s, F, X, Bind(F, Tmp[name], new), X)
  BY <1>3, <1>4 DEF Leads
<1> QED BY <1>5 DEF s, new

LEMMA CopyLeads ==
    ASSUME NEW F, NEW X, NEW name, NEW to, name \in DOMAIN F, to \in DOMAIN F
    PROVE  Leads(Copy(name, to), F, X, F, X)
<1> DEFINE s == Copy(name, to)
<1>1. s.op = "copy" /\ s.name = name /\ s.to = to
  BY DEF Copy
<1> HIDE DEF s
<1>2. Leads(s, F, X, F, X)
  BY <1>1 DEF Named, FormsBehind, Operations, IndexesBehind, Leads
<1> QED BY <1>2 DEF s

LEMMA ReplaceLeads ==
    ASSUME NEW F, NEW X, NEW name, name \in DOMAIN F, Tmp[name] \in DOMAIN F
    PROVE  Leads(Replace(name), F, X,
                 Unbind(Bind(F, name, F[Tmp[name]]), {Tmp[name]}), X)
<1> DEFINE s == Replace(name)
<1>1. s.op = "replace" /\ s.name = name
  BY DEF Replace
<1> HIDE DEF s
<1>2. Leads(s, F, X, Unbind(Bind(F, name, F[Tmp[name]]), {Tmp[name]}), X)
  BY <1>1 DEF Named, FormsBehind, Operations, IndexesBehind, Leads
<1> QED BY <1>2 DEF s

LEMMA RenameLeads ==
    ASSUME NEW F, NEW X, NEW name, NEW to, name \in DOMAIN F, to \notin DOMAIN F
    PROVE  Leads(Rename(name, to), F, X, Unbind(Bind(F, to, F[name]), {name}), X)
<1> DEFINE s == Rename(name, to)
<1>1. s.op = "rename" /\ s.name = name /\ s.to = to
  BY DEF Rename
<1> HIDE DEF s
<1>2. Leads(s, F, X, Unbind(Bind(F, to, F[name]), {name}), X)
  BY <1>1 DEF Named, FormsBehind, Operations, IndexesBehind, Leads
<1> QED BY <1>2 DEF s

LEMMA DropLeads ==
    ASSUME NEW F, NEW names, "sessions" \in DOMAIN F
    PROVE  Leads(Drop("sessions"), F, On(names), Unbind(F, {"sessions"}),
                 On(names \ SessionIndexes))
<1> DEFINE s == Drop("sessions")
<1>1. s.op = "drop" /\ s.name = "sessions"
  BY DEF Drop
<1> HIDE DEF s
<1>2. Unbind(On(names), {x \in DOMAIN On(names) : On(names)[x] = "sessions"})
      = On(names \ SessionIndexes)
  BY DEF Unbind, On, Owner
<1>3. IndexesBehind(s, On(names), On(names \ SessionIndexes))
  BY <1>1, <1>2 DEF IndexesBehind
<1>4. Named(s, DOMAIN F) /\ FormsBehind(s, F) = Unbind(F, {"sessions"})
  BY <1>1 DEF Named, FormsBehind, Operations
<1>5. Leads(s, F, On(names), Unbind(F, {"sessions"}), On(names \ SessionIndexes))
  BY <1>3, <1>4 DEF Leads
<1> QED BY <1>5 DEF s

LEMMA ColumnLeads ==
    ASSUME NEW F, NEW X, NEW name, NEW col, name \in DOMAIN F
    PROVE  Leads(AddColumn(name, col), F, X,
                 Changed(F, name, Table(F[name].cols \cup {col}, F[name].notNull,
                                        F[name].refs)), X)
<1> DEFINE s == AddColumn(name, col)
<1>1. s.op = "addColumn" /\ s.name = name /\ s.col = col
  BY DEF AddColumn
<1> HIDE DEF s
<1>2. Leads(s, F, X, Changed(F, name, Table(F[name].cols \cup {col}, F[name].notNull,
                                            F[name].refs)), X)
  BY <1>1 DEF Named, FormsBehind, Operations, IndexesBehind, Leads
<1> QED BY <1>2 DEF s

LEMMA PlainLeads ==
    ASSUME NEW F, NEW X
    PROVE  /\ \A r \in Base .. E2f5 : Leads(SetVersion(r), F, X, F, X)
           /\ Leads(Commit, F, X, F, X) /\ \A on : Leads(ForeignKeys(on), F, X, F, X)
<1>1. ASSUME NEW s, s.op \in {"setVersion", "commit", "foreignKeys"},
             s.op = "setVersion" => s.revision \in Base .. E2f5
      PROVE  Leads(s, F, X, F, X)
  BY <1>1 DEF Named, FormsBehind, Operations, IndexesBehind, Leads
<1>2. \A r \in Base .. E2f5 : SetVersion(r).op = "setVersion" /\ SetVersion(r).revision = r
  BY DEF SetVersion
<1>3. Commit.op = "commit" /\ \A on : ForeignKeys(on).op = "foreignKeys"
  BY DEF Commit, ForeignKeys
<1> QED BY <1>1, <1>2, <1>3

LEMMA FormFields ==
    /\ \A c, n, r : /\ Table(c, n, r).cols = c /\ Table(c, n, r).notNull = n
                    /\ Table(c, n, r).refs = r /\ Form(Table(c, n, r)) = Table(c, n, r)
BY DEF Table, Form

\* The forms of the four tables, under their names.
LEMMA FormsIs ==
    ASSUME NEW messages, NEW sessions
    PROVE  LET F == Forms(messages, sessions)
           IN  /\ DOMAIN F = Four
               /\ F["cells"] = CellsForm /\ F["sessions"] = sessions
               /\ F["messages"] = messages /\ F["alerts"] = AlertsForm
BY DEF Forms, Four

LEMMA FormsAre ==
    ASSUME NEW messages, NEW sessions, NEW G, G = [n \in DOMAIN G |-> G[n]],
           DOMAIN G = Four, G["cells"] = CellsForm, G["sessions"] = sessions,
           G["messages"] = messages, G["alerts"] = AlertsForm
    PROVE  G = Forms(messages, sessions)
<1>1. ASSUME NEW n \in Four PROVE G[n] = Forms(messages, sessions)[n]
  BY <1>1 DEF Forms, Four
<1> DEFINE of(n) == CASE n = "cells"    -> CellsForm
                      [] n = "sessions" -> sessions
                      [] n = "messages" -> messages
                      [] n = "alerts"   -> AlertsForm
<1>2. Forms(messages, sessions) = [n \in Four |-> of(n)]
  BY DEF Forms
<1> HIDE DEF of
<1>3. \A n \in Four : Forms(messages, sessions)[n] = of(n)
  BY <1>2
<1>4. \A n \in Four : G[n] = of(n)
  BY <1>1, <1>3
<1>5. G = [n \in Four |-> G[n]]
  OBVIOUS
<1> HIDE DEF Four
<1> QED BY <1>2, <1>4, <1>5

LEMMA FirstLeads ==
    ASSUME NEW k \in Nat, k < 10, NEW s, TextB0ba(s)
    PROVE  Leads(s[k + 1], FormsAt(B0ba, k), On(IndexesAt(B0ba, k)),
                 FormsAt(B0ba, k + 1), On(IndexesAt(B0ba, k + 1)))
<1> DEFINE W == Forms(MessagesAt1, SessionsAt1)
           F(j) == [n \in {x \in Four : Turn[x] <= j} |-> W[n]]
           N(j) == {x \in Six : Turn[x] <= j}
<1>1. ASSUME NEW j PROVE FormsAt(B0ba, j) = F(j) /\ IndexesAt(B0ba, j) = N(j)
  <2> DEFINE f == F(j)
             x == N(j)
  <2> HIDE DEF f, x
  <2>1. FormsAt(B0ba, j) = f
    BY DEF FormsAt, f, B0ba, B449, C692, D1a7, E2f5
  <2>2. IndexesAt(B0ba, j) = x
    BY DEF IndexesAt, x, B0ba, B449, C692, D1a7, E2f5
  <2> QED BY <2>1, <2>2 DEF f, x
<1>2. \A x \in Four \cup Six : Turn[x] \in Nat
  BY DEF Turn, Four, Six, SessionIndexes, AlertIndexes
<1>3. /\ DOMAIN W = Four /\ W["cells"] = CellsForm /\ W["sessions"] = SessionsAt1
      /\ W["messages"] = MessagesAt1 /\ W["alerts"] = AlertsForm
  BY FormsIs
<1>4. \A n \in Four : Form(W[n]) = W[n]
  BY <1>3, FormFields DEF Four, CellsForm, SessionsAt1, SessionsForm, MessagesAt1,
                          MessagesForm, AlertsForm
<1> HIDE DEF W
<1>5. ASSUME NEW n \in Four, Turn[n] = k + 1, \A x \in Four : Turn[x] = k + 1 => x = n,
             \A x \in Six : Turn[x] # k + 1, s[k + 1] = Create(n, W[n])
      PROVE  Leads(s[k + 1], F(k), On(N(k)), F(k + 1), On(N(k + 1)))
  <2>1. n \notin DOMAIN F(k) /\ W[n] = Form(W[n])
    BY <1>4, <1>5
  <2>2. Leads(Create(n, W[n]), F(k), On(N(k)), Bind(F(k), n, W[n]), On(N(k)))
    <3> DEFINE X == On(N(k))
               G == F(k)
    <3> HIDE DEF X, G
    <3>1. n \notin DOMAIN G /\ W[n] = Form(W[n])
      BY <2>1 DEF G
    <3>2. Leads(Create(n, W[n]), G, X, Bind(G, n, W[n]), X)
      BY <3>1, CreateLeads
    <3> QED BY <3>2 DEF X, G
  <2>3. \A x \in Four : Turn[x] <= k + 1 <=> Turn[x] <= k \/ x = n
    BY <1>2, <1>5
  <2>4. {x \in Four : Turn[x] <= k + 1} = {x \in Four : Turn[x] <= k} \cup {n}
    BY <1>5, <2>3
  <2>5. Bind(F(k), n, W[n]) = F(k + 1)
    BY <2>4 DEF Bind
  <2>6. \A x \in Six : Turn[x] <= k + 1 <=> Turn[x] <= k
    BY <1>2, <1>5
  <2>7. N(k + 1) = N(k)
    BY <2>6
  <2> QED BY <1>5, <2>2, <2>5, <2>7
<1>6. ASSUME NEW y \in Six, Turn[y] = k + 1, \A x \in Six : Turn[x] = k + 1 => x = y,
             \A x \in Four : Turn[x] <= k, s[k + 1] = CreateIndex(y, Owner(y))
      PROVE  Leads(s[k + 1], F(k), On(N(k)), F(k + 1), On(N(k + 1)))
  <2>1. {x \in Four : Turn[x] <= k} = Four /\ {x \in Four : Turn[x] <= k + 1} = Four
    <3>1. \A x \in Four : Turn[x] <= k + 1
      BY <1>2, <1>6
    <3> QED BY <1>6, <3>1
  <2>2. F(k + 1) = F(k) /\ Owner(y) \in DOMAIN F(k)
    BY <2>1 DEF Owner, Four
  <2>3. \A x \in Six : Turn[x] <= k + 1 <=> Turn[x] <= k \/ x = y
    BY <1>2, <1>6
  <2>4. N(k + 1) = N(k) \cup {y}
    BY <1>6, <2>3
  <2>5. Leads(CreateIndex(y, Owner(y)), F(k), On(N(k)), F(k), On(N(k) \cup {y}))
    <3> DEFINE M == N(k)
               G == F(k)
    <3> HIDE DEF M, G
    <3>1. Owner(y) \in DOMAIN G
      BY <2>2 DEF G
    <3>2. Leads(CreateIndex(y, Owner(y)), G, On(M), G, On(M \cup {y}))
      BY <3>1, IndexLeads
    <3> QED BY <3>2 DEF M, G
  <2> QED BY <1>6, <2>2, <2>4, <2>5
<1>7. k \in {0, 1, 2, 3} \/ k \in {4, 5, 6, 7, 8, 9}
  OBVIOUS
<1>8. CASE k \in {0, 1, 2, 3}
  <2> DEFINE n == CASE k = 0 -> "cells" [] k = 1 -> "sessions" [] k = 2 -> "messages"
                    [] k = 3 -> "alerts"
  <2>1. n \in Four /\ s[k + 1] = Create(n, W[n])
    BY <1>3, <1>8 DEF TextB0ba, Four
  <2>2. Turn[n] = k + 1 /\ \A x \in Four : Turn[x] = k + 1 => x = n
    BY <1>8 DEF Turn, Four
  <2>3. \A x \in Six : Turn[x] # k + 1
    BY <1>8 DEF Turn, Six, SessionIndexes, AlertIndexes
  <2> HIDE DEF n
  <2> QED BY <1>1, <1>5, <2>1, <2>2, <2>3
<1>9. CASE k \in {4, 5, 6, 7, 8, 9}
  <2> DEFINE y == CASE k = 4 -> "idx_messages_session_ts"
                    [] k = 5 -> "idx_messages_session_type"
                    [] k = 6 -> "idx_sessions_cell" [] k = 7 -> "idx_sessions_started_at"
                    [] k = 8 -> "idx_alerts_session" [] k = 9 -> "idx_alerts_rule"
  <2>1. y \in Six /\ s[k + 1] = CreateIndex(y, Owner(y))
    BY <1>9 DEF TextB0ba, Six, SessionIndexes, AlertIndexes, Owner
  <2>2. Turn[y] = k + 1 /\ \A x \in Six : Turn[x] = k + 1 => x = y
    BY <1>9 DEF Turn, Six, SessionIndexes, AlertIndexes
  <2>3. \A x \in Four : Turn[x] <= k
    BY <1>9 DEF Turn, Four
  <2> HIDE DEF y
  <2> QED BY <1>1, <1>6, <2>1, <2>2, <2>3
<1> QED BY <1>7, <1>8, <1>9

\* A table has taken the name of another.
Taken(F, name, tmp) == Unbind(Bind(F, name, F[tmp]), {tmp})

\* One of the four tables in another form.
LEMMA FormsBehindThem ==
    ASSUME NEW messages, NEW sessions, NEW t
    PROVE  LET F == Forms(messages, sessions)
               B == Bind(F, Tmp["messages"], t)
               C == Bind(F, Tmp["sessions"], t)
               D == Unbind(Bind(F, "sessions_new", t), {"sessions"})
           IN  /\ Taken(B, "messages", Tmp["messages"]) = Forms(t, sessions)
               /\ Taken(C, "sessions", Tmp["sessions"]) = Forms(messages, t)
               /\ Taken(D, "sessions", "sessions_new") = Forms(messages, t)
               /\ Changed(F, "messages", t) = Forms(t, sessions)
<1> DEFINE F == Forms(messages, sessions)
<1>1. /\ DOMAIN F = Four /\ F["cells"] = CellsForm /\ F["sessions"] = sessions
      /\ F["messages"] = messages /\ F["alerts"] = AlertsForm
  BY FormsIs
<1> HIDE DEF F
<1>2. /\ Tmp["messages"] \notin Four /\ Tmp["sessions"] \notin Four
      /\ "sessions_new" \notin Four
      /\ {"cells", "sessions", "messages", "alerts"} \subseteq Four
  BY DEF Tmp, Four
<1>3. ASSUME NEW name \in {"messages", "sessions"}, NEW tmp, tmp \notin Four
      PROVE  LET B == Bind(F, tmp, t)
                 G == Unbind(Bind(B, name, B[tmp]), {tmp})
             IN  /\ G = [n \in DOMAIN G |-> G[n]] /\ DOMAIN G = Four
                 /\ G[name] = t /\ \A n \in Four \ {name} : G[n] = F[n]
  <2>1. name \in Four
    BY <1>2
  <2> QED BY <1>1, <1>3, <2>1 DEF Bind, Unbind
<1>4. ASSUME NEW tmp, tmp \notin Four
      PROVE  LET B == Bind(F, tmp, t)
             IN  /\ Unbind(Bind(B, "messages", B[tmp]), {tmp}) = Forms(t, sessions)
                 /\ Unbind(Bind(B, "sessions", B[tmp]), {tmp}) = Forms(messages, t)
  <2> DEFINE B == Bind(F, tmp, t)
             G == Unbind(Bind(B, "messages", B[tmp]), {tmp})
             H == Unbind(Bind(B, "sessions", B[tmp]), {tmp})
  <2>1. /\ G = [n \in DOMAIN G |-> G[n]] /\ DOMAIN G = Four
        /\ G["messages"] = t /\ \A n \in Four \ {"messages"} : G[n] = F[n]
    BY <1>3, <1>4
  <2>2. /\ H = [n \in DOMAIN H |-> H[n]] /\ DOMAIN H = Four
        /\ H["sessions"] = t /\ \A n \in Four \ {"sessions"} : H[n] = F[n]
    BY <1>3, <1>4
  <2> HIDE DEF G, H
  <2>3. /\ G["cells"] = CellsForm /\ G["sessions"] = sessions /\ G["alerts"] = AlertsForm
        /\ H["cells"] = CellsForm /\ H["messages"] = messages /\ H["alerts"] = AlertsForm
    BY <1>1, <1>2, <2>1, <2>2
  <2>4. G = Forms(t, sessions)
    BY <2>1, <2>3, FormsAre
  <2>5. H = Forms(messages, t)
    BY <2>2, <2>3, FormsAre
  <2> QED BY <2>4, <2>5 DEF G, H
<1>5. LET D == Unbind(Bind(F, "sessions_new", t), {"sessions"})
      IN  Unbind(Bind(D, "sessions", D["sessions_new"]), {"sessions_new"})
            = Forms(messages, t)
  <2> DEFINE D == Unbind(Bind(F, "sessions_new", t), {"sessions"})
             G == Unbind(Bind(D, "sessions", D["sessions_new"]), {"sessions_new"})
  <2>1. /\ DOMAIN D = (Four \ {"sessions"}) \cup {"sessions_new"}
        /\ D["sessions_new"] = t /\ \A n \in Four \ {"sessions"} : D[n] = F[n]
    BY <1>1, <1>2 DEF Bind, Unbind
  <2> HIDE DEF D
  <2>2. /\ G = [n \in DOMAIN G |-> G[n]] /\ DOMAIN G = Four
        /\ G["sessions"] = t /\ \A n \in Four \ {"sessions"} : G[n] = F[n]
    BY <1>2, <2>1 DEF Bind, Unbind
  <2> HIDE DEF G
  <2>3. G["cells"] = CellsForm /\ G["messages"] = messages /\ G["alerts"] = AlertsForm
    BY <1>1, <1>2, <2>2
  <2>4. G = Forms(messages, t)
    BY <2>2, <2>3, FormsAre
  <2> QED BY <2>4 DEF G, D
<1>6. Changed(F, "messages", t) = Forms(t, sessions)
  <2> DEFINE G == Changed(F, "messages", t)
  <2>1. /\ G = [n \in DOMAIN G |-> G[n]] /\ DOMAIN G = Four /\ G["messages"] = t
        /\ \A n \in Four \ {"messages"} : G[n] = F[n]
    BY <1>1, <1>2 DEF Changed
  <2> HIDE DEF G
  <2>2. G["cells"] = CellsForm /\ G["sessions"] = sessions /\ G["alerts"] = AlertsForm
    BY <1>1, <1>2, <2>1
  <2>3. G = Forms(t, sessions)
    BY <2>1, <2>2, FormsAre
  <2> QED BY <2>3 DEF G
<1> QED BY <1>2, <1>4, <1>5, <1>6 DEF F, Taken

Onward(r, k, x) ==
    Leads(x, FormsAt(r, k), On(IndexesAt(r, k)), FormsAt(r, k + 1), On(IndexesAt(r, k + 1)))

LEMMA B449Leads ==
    ASSUME NEW s, TextB449(s)
    PROVE  \A k \in 0 .. 3 : Onward(B449, k, s[k + 1])
<1> DEFINE F == Forms(MessagesAt1, SessionsAt1)
           B == Bind(F, Tmp["messages"], MessagesAt2)
           G == Forms(MessagesAt2, SessionsAt1)
           X == On(Six)
<1>1. /\ FormsAt(B449, 0) = F /\ FormsAt(B449, 1) = B /\ FormsAt(B449, 2) = B
      /\ FormsAt(B449, 3) = G /\ FormsAt(B449, 4) = G
  <2> DEFINE f == F
             b == B
             g == G
  <2> HIDE DEF f, b, g
  <2>1. FormsAt(B449, 0) = f /\ FormsAt(B449, 1) = b /\ FormsAt(B449, 2) = b
        /\ FormsAt(B449, 3) = g /\ FormsAt(B449, 4) = g
    BY DEF FormsAt, B0ba, B449, C692, D1a7, E2f5, f, b, g
  <2> QED BY <2>1 DEF f, b, g
<1>2. /\ IndexesAt(B449, 0) = Six /\ IndexesAt(B449, 1) = Six /\ IndexesAt(B449, 2) = Six
      /\ IndexesAt(B449, 3) = Six /\ IndexesAt(B449, 4) = Seven
  BY DEF IndexesAt, B0ba, B449, C692, D1a7, E2f5
<1>3. DOMAIN F = Four /\ F["messages"] = MessagesAt1 /\ DOMAIN G = Four
  BY FormsIs
<1>4. "messages" \in Four /\ Tmp["messages"] \notin Four
  BY DEF Four, Tmp
<1>5. DOMAIN B = Four \cup {Tmp["messages"]}
  BY <1>3 DEF Bind
<1>6. Taken(B, "messages", Tmp["messages"]) = G
  BY FormsBehindThem
<1>7. Table((MessagesAt1.cols \ {}) \cup {"enb_ue_s1ap_id", "mme_ue_s1ap_id"},
            (MessagesAt1.notNull \ {"session_id"}) \cup {}, MessagesAt1.refs) = MessagesAt2
  <2>1. MessagesAt1.cols = {"session_id"} /\ MessagesAt1.notNull = {"session_id"}
        /\ MessagesAt1.refs = [session_id |-> "sessions"]
    BY DEF MessagesAt1, MessagesForm, Table
  <2>2. ({"session_id"} \ {}) \cup {"enb_ue_s1ap_id", "mme_ue_s1ap_id"}
          = {"session_id"} \cup {"enb_ue_s1ap_id", "mme_ue_s1ap_id"}
        /\ ({"session_id"} \ {"session_id"}) \cup {} = {}
    OBVIOUS
  <2> QED BY <2>1, <2>2 DEF MessagesAt2, MessagesForm
<1> HIDE DEF F, B, G, X
<1>8. Leads(Like("messages", {}, {"enb_ue_s1ap_id", "mme_ue_s1ap_id"}, {"session_id"}, {}),
            F, X, Bind(F, Tmp["messages"], MessagesAt2), X)
  <2>1. Leads(Like("messages", {}, {"enb_ue_s1ap_id", "mme_ue_s1ap_id"}, {"session_id"}, {}),
            F, X,
            Bind(F, Tmp["messages"],
                 Table((F["messages"].cols \ {}) \cup {"enb_ue_s1ap_id", "mme_ue_s1ap_id"},
                       (F["messages"].notNull \ {"session_id"}) \cup {},
                       F["messages"].refs)), X)
    BY <1>3, <1>4, LikeLeads
  <2> QED BY <1>3, <1>7, <2>1
<1>9. Leads(Copy("messages", Tmp["messages"]), B, X, B, X)
  BY <1>4, <1>5, CopyLeads
<1>10. Leads(Replace("messages"), B, X, G, X)
  <2>1. Leads(Replace("messages"), B, X, Taken(B, "messages", Tmp["messages"]), X)
    BY <1>4, <1>5, ReplaceLeads DEF Taken
  <2> QED BY <1>6, <2>1
<1>11. Leads(CreateIndex("idx_messages_enb_ue_s1ap_id", "messages"), G, On(Six), G, On(Seven))
  <2>1. Owner("idx_messages_enb_ue_s1ap_id") = "messages"
    BY DEF Owner, SessionIndexes, AlertIndexes
  <2> QED BY <1>3, <1>4, <2>1, IndexLeads DEF Seven
<1>12. ASSUME NEW k \in 0 .. 3 PROVE Onward(B449, k, s[k + 1])
  <2>1. k = 0 \/ k = 1 \/ k = 2 \/ k = 3
    OBVIOUS
  <2>2. CASE k = 0
    <3>1. Leads(s[1], FormsAt(B449, 0), On(Six), FormsAt(B449, 1), On(Six))
      BY <1>1, <1>8 DEF TextB449, B, X
    <3> QED BY <1>2, <2>2, <3>1 DEF Onward
  <2>3. CASE k = 1
    <3>1. Leads(s[2], FormsAt(B449, 1), On(Six), FormsAt(B449, 2), On(Six))
      BY <1>1, <1>9 DEF TextB449, X
    <3> QED BY <1>2, <2>3, <3>1 DEF Onward
  <2>4. CASE k = 2
    <3>1. Leads(s[3], FormsAt(B449, 2), On(Six), FormsAt(B449, 3), On(Six))
      BY <1>1, <1>10 DEF TextB449, X
    <3> QED BY <1>2, <2>4, <3>1 DEF Onward
  <2>5. CASE k = 3
    <3>1. Leads(s[4], FormsAt(B449, 3), On(Six), FormsAt(B449, 4), On(Seven))
      BY <1>1, <1>11 DEF TextB449
    <3> QED BY <1>2, <2>5, <3>1 DEF Onward
  <2> QED BY <2>1, <2>2, <2>3, <2>4, <2>5
<1> QED BY <1>12

LEMMA C692Leads ==
    ASSUME NEW s, TextC692(s)
    PROVE  \A k \in 0 .. 2 : Onward(C692, k, s[k + 1])
<1> DEFINE F == Forms(MessagesAt2, SessionsAt1)
           B == Bind(F, Tmp["sessions"], SessionsAt3)
           G == Forms(MessagesAt2, SessionsAt3)
           X == On(Seven)
<1>1. /\ FormsAt(C692, 0) = F /\ FormsAt(C692, 1) = B /\ FormsAt(C692, 2) = B
      /\ FormsAt(C692, 3) = G
  <2> DEFINE f == F
             b == B
             g == G
  <2> HIDE DEF f, b, g
  <2>1. FormsAt(C692, 0) = f /\ FormsAt(C692, 1) = b /\ FormsAt(C692, 2) = b
        /\ FormsAt(C692, 3) = g
    BY DEF FormsAt, B0ba, B449, C692, D1a7, E2f5, f, b, g
  <2> QED BY <2>1 DEF f, b, g
<1>2. \A k : IndexesAt(C692, k) = Seven
  BY DEF IndexesAt, B0ba, B449, C692, D1a7, E2f5
<1>3. DOMAIN F = Four /\ F["sessions"] = SessionsAt1
  BY FormsIs
<1>4. "sessions" \in Four /\ Tmp["sessions"] \notin Four
  BY DEF Four, Tmp
<1>5. DOMAIN B = Four \cup {Tmp["sessions"]}
  BY <1>3 DEF Bind
<1>6. Taken(B, "sessions", Tmp["sessions"]) = G
  BY FormsBehindThem
<1>7. Table((SessionsAt1.cols \ {}) \cup {}, (SessionsAt1.notNull \ {"cell_id"}) \cup {},
            SessionsAt1.refs) = SessionsAt3
  <2>1. SessionsAt1.cols = {"cell_id"} /\ SessionsAt1.notNull = {"cell_id"}
        /\ SessionsAt1.refs = [cell_id |-> "cells"]
    BY DEF SessionsAt1, SessionsForm, Table
  <2>2. ({"cell_id"} \ {}) \cup {} = {"cell_id"} /\ ({"cell_id"} \ {"cell_id"}) \cup {} = {}
    OBVIOUS
  <2> QED BY <2>1, <2>2 DEF SessionsAt3, SessionsForm
<1> HIDE DEF F, B, G, X
<1>8. Leads(Like("sessions", {}, {}, {"cell_id"}, {}), F, X,
            Bind(F, Tmp["sessions"], SessionsAt3), X)
  <2>1. Leads(Like("sessions", {}, {}, {"cell_id"}, {}), F, X,
              Bind(F, Tmp["sessions"],
                   Table((F["sessions"].cols \ {}) \cup {},
                         (F["sessions"].notNull \ {"cell_id"}) \cup {},
                         F["sessions"].refs)), X)
    BY <1>3, <1>4, LikeLeads
  <2> QED BY <1>3, <1>7, <2>1
<1>9. Leads(Copy("sessions", Tmp["sessions"]), B, X, B, X)
  BY <1>4, <1>5, CopyLeads
<1>10. Leads(Replace("sessions"), B, X, G, X)
  <2>1. Leads(Replace("sessions"), B, X, Taken(B, "sessions", Tmp["sessions"]), X)
    BY <1>4, <1>5, ReplaceLeads DEF Taken
  <2> QED BY <1>6, <2>1
<1>11. ASSUME NEW k \in 0 .. 2 PROVE Onward(C692, k, s[k + 1])
  <2>1. k = 0 \/ k = 1 \/ k = 2
    OBVIOUS
  <2>2. CASE k = 0
    <3>1. Leads(s[1], FormsAt(C692, 0), X, FormsAt(C692, 1), X)
      BY <1>1, <1>8 DEF TextC692, B
    <3> QED BY <1>2, <2>2, <3>1 DEF Onward, X
  <2>3. CASE k = 1
    <3>1. Leads(s[2], FormsAt(C692, 1), X, FormsAt(C692, 2), X)
      BY <1>1, <1>9 DEF TextC692
    <3> QED BY <1>2, <2>3, <3>1 DEF Onward, X
  <2>4. CASE k = 2
    <3>1. Leads(s[3], FormsAt(C692, 2), X, FormsAt(C692, 3), X)
      BY <1>1, <1>10 DEF TextC692
    <3> QED BY <1>2, <2>4, <3>1 DEF Onward, X
  <2> QED BY <2>1, <2>2, <2>3, <2>4
<1> QED BY <1>11

LEMMA D1a7Leads ==
    Onward(D1a7, 0, CreateIndex("idx_messages_unsessionized", "messages"))
<1> DEFINE F == Forms(MessagesAt2, SessionsAt3)
           x == "idx_messages_unsessionized"
<1>1. DOMAIN F = Four /\ "messages" \in Four
  BY FormsIs DEF Four
<1>2. \A k : FormsAt(D1a7, k) = F
  BY DEF FormsAt, B0ba, B449, C692, D1a7, E2f5
<1>3. IndexesAt(D1a7, 0) = Seven /\ IndexesAt(D1a7, 1) = Eight
  BY DEF IndexesAt, B0ba, B449, C692, D1a7, E2f5
<1> HIDE DEF F
<1>4. Owner(x) = "messages"
  BY DEF Owner, SessionIndexes, AlertIndexes
<1>5. Eight = Seven \cup {x}
  BY DEF Eight
<1> HIDE DEF x
<1>6. Leads(CreateIndex(x, "messages"), F, On(Seven), F, On(Eight))
  BY <1>1, <1>4, <1>5, IndexLeads
<1>7. Leads(CreateIndex(x, "messages"), FormsAt(D1a7, 0), On(IndexesAt(D1a7, 0)),
            FormsAt(D1a7, 0 + 1), On(IndexesAt(D1a7, 0 + 1)))
  BY <1>2, <1>3, <1>6
<1> QED BY <1>7 DEF Onward, x

LEMMA E2f5Leads ==
    ASSUME NEW s, TextE2f5(s)
    PROVE  \A k \in 0 .. 10 : Onward(E2f5, k, s[k + 1])
<1> DEFINE F == Forms(MessagesAt2, SessionsAt3)
           F1 == Forms(MessagesWithPlmn, SessionsAt3)
           F2 == Forms(MessagesAt5, SessionsAt3)
           B == Bind(F2, "sessions_new", SessionsAt5)
           D == Unbind(B, {"sessions"})
           G == Forms(MessagesAt5, SessionsAt5)
           two == Eight \ SessionIndexes
           one == Eight \ {"idx_sessions_started_at"}
<1>1. /\ FormsAt(E2f5, 0) = F /\ FormsAt(E2f5, 1) = F1 /\ FormsAt(E2f5, 2) = F2
      /\ FormsAt(E2f5, 3) = F2 /\ FormsAt(E2f5, 4) = B /\ FormsAt(E2f5, 5) = B
      /\ FormsAt(E2f5, 6) = D
      /\ \A k \in 7 .. 11 : FormsAt(E2f5, k) = G
  <2> DEFINE f == F
             f1 == F1
             f2 == F2
             b == B
             d == D
             g == G
  <2> HIDE DEF f, f1, f2, b, d, g
  <2>1. /\ FormsAt(E2f5, 0) = f /\ FormsAt(E2f5, 1) = f1 /\ FormsAt(E2f5, 2) = f2
        /\ FormsAt(E2f5, 3) = f2 /\ FormsAt(E2f5, 4) = b /\ FormsAt(E2f5, 5) = b
        /\ FormsAt(E2f5, 6) = d
        /\ \A k \in 7 .. 11 : FormsAt(E2f5, k) = g
    BY DEF FormsAt, B0ba, B449, C692, D1a7, E2f5, f, f1, f2, b, d, g
  <2> QED BY <2>1 DEF f, f1, f2, b, d, g
<1>2. /\ \A k \in 0 .. 5 : IndexesAt(E2f5, k) = Eight
      /\ IndexesAt(E2f5, 6) = two /\ IndexesAt(E2f5, 7) = two /\ IndexesAt(E2f5, 8) = one
      /\ IndexesAt(E2f5, 9) = Eight /\ IndexesAt(E2f5, 10) = Eight
      /\ IndexesAt(E2f5, 11) = Nine
  <2> DEFINE a2 == two
             a1 == one
  <2> HIDE DEF a2, a1
  <2>1. /\ \A k \in 0 .. 5 : IndexesAt(E2f5, k) = Eight
        /\ IndexesAt(E2f5, 6) = a2 /\ IndexesAt(E2f5, 7) = a2 /\ IndexesAt(E2f5, 8) = a1
        /\ IndexesAt(E2f5, 9) = Eight /\ IndexesAt(E2f5, 10) = Eight
        /\ IndexesAt(E2f5, 11) = Nine
    BY DEF IndexesAt, B0ba, B449, C692, D1a7, E2f5, a1, a2
  <2> QED BY <2>1 DEF a1, a2
<1>3. /\ DOMAIN F = Four /\ F["messages"] = MessagesAt2
      /\ DOMAIN F1 = Four /\ F1["messages"] = MessagesWithPlmn
      /\ DOMAIN F2 = Four /\ DOMAIN G = Four
  BY FormsIs
<1>4. "sessions_new" \notin Four /\ {"messages", "sessions"} \subseteq Four
      /\ "sessions_new" # "sessions"
  BY DEF Four
<1>5. DOMAIN B = Four \cup {"sessions_new"}
      /\ DOMAIN D = (Four \cup {"sessions_new"}) \ {"sessions"}
  BY <1>3 DEF Bind, Unbind
<1>6. /\ Changed(F, "messages", MessagesWithPlmn) = F1
      /\ Changed(F1, "messages", MessagesAt5) = F2
      /\ Taken(D, "sessions", "sessions_new") = G
  BY FormsBehindThem
<1>7. /\ Table(MessagesAt2.cols \cup {"plmn"}, MessagesAt2.notNull, MessagesAt2.refs)
            = MessagesWithPlmn
      /\ Table(MessagesWithPlmn.cols \cup {"cell_id"}, MessagesWithPlmn.notNull,
               MessagesWithPlmn.refs) = MessagesAt5
  <2>1. \A added : LET t == MessagesForm(added, {})
                   IN  t.cols = {"session_id"} \cup added /\ t.notNull = {}
                       /\ t.refs = [session_id |-> "sessions"]
    BY DEF MessagesForm, Table
  <2>2. \A added, col :
           Table(MessagesForm(added, {}).cols \cup {col}, MessagesForm(added, {}).notNull,
                 MessagesForm(added, {}).refs) = MessagesForm(added \cup {col}, {})
    <3> TAKE added, col
    <3>1. ({"session_id"} \cup added) \cup {col} = {"session_id"} \cup (added \cup {col})
      OBVIOUS
    <3> QED BY <2>1, <3>1 DEF MessagesForm
  <2>3. /\ {"enb_ue_s1ap_id", "mme_ue_s1ap_id"} \cup {"plmn"}
             = {"enb_ue_s1ap_id", "mme_ue_s1ap_id", "plmn"}
        /\ {"enb_ue_s1ap_id", "mme_ue_s1ap_id", "plmn"} \cup {"cell_id"}
             = {"enb_ue_s1ap_id", "mme_ue_s1ap_id", "plmn", "cell_id"}
    OBVIOUS
  <2> QED BY <2>2, <2>3 DEF MessagesAt2, MessagesWithPlmn, MessagesAt5
<1>8. SessionsAt5 = Form(SessionsAt5)
  BY FormFields DEF SessionsAt5
<1>9. /\ Owner("idx_sessions_cell") = "sessions" /\ Owner("idx_sessions_started_at") = "sessions"
      /\ Owner("idx_messages_cell_enb_ue_s1ap_id") = "messages"
      /\ one = two \cup {"idx_sessions_cell"}
      /\ Eight = one \cup {"idx_sessions_started_at"}
      /\ Nine = Eight \cup {"idx_messages_cell_enb_ue_s1ap_id"}
  BY DEF Owner, SessionIndexes, AlertIndexes, Nine, Eight, Seven, Six
<1> HIDE DEF F, F1, F2, B, D, G, one, two
<1>10. Leads(AddColumn("messages", "plmn"), F, On(Eight), F1, On(Eight))
  <2>1. Leads(AddColumn("messages", "plmn"), F, On(Eight),
              Changed(F, "messages", Table(F["messages"].cols \cup {"plmn"},
                                           F["messages"].notNull, F["messages"].refs)),
              On(Eight))
    BY <1>3, <1>4, ColumnLeads
  <2> QED BY <1>3, <1>6, <1>7, <2>1
<1>11. Leads(AddColumn("messages", "cell_id"), F1, On(Eight), F2, On(Eight))
  <2>1. Leads(AddColumn("messages", "cell_id"), F1, On(Eight),
              Changed(F1, "messages", Table(F1["messages"].cols \cup {"cell_id"},
                                            F1["messages"].notNull, F1["messages"].refs)),
              On(Eight))
    BY <1>3, <1>4, ColumnLeads
  <2> QED BY <1>3, <1>6, <1>7, <2>1
<1>12. Leads(ForeignKeys(FALSE), F2, On(Eight), F2, On(Eight))
       /\ Leads(ForeignKeys(TRUE), G, On(Eight), G, On(Eight))
  BY PlainLeads
<1>13. Leads(Create("sessions_new", SessionsAt5), F2, On(Eight), B, On(Eight))
  <2>1. Leads(Create("sessions_new", SessionsAt5), F2, On(Eight),
              Bind(F2, "sessions_new", SessionsAt5), On(Eight))
    BY <1>3, <1>4, <1>8, CreateLeads
  <2> QED BY <2>1 DEF B
<1>14. Leads(Copy("sessions", "sessions_new"), B, On(Eight), B, On(Eight))
  BY <1>4, <1>5, CopyLeads
<1>15. Leads(Drop("sessions"), B, On(Eight), D, On(two))
  <2>1. Leads(Drop("sessions"), B, On(Eight), Unbind(B, {"sessions"}),
              On(Eight \ SessionIndexes))
    BY <1>4, <1>5, DropLeads
  <2> QED BY <2>1 DEF D, two
<1>16. Leads(Rename("sessions_new", "sessions"), D, On(two), G, On(two))
  <2>1. Leads(Rename("sessions_new", "sessions"), D, On(two),
              Taken(D, "sessions", "sessions_new"), On(two))
    BY <1>4, <1>5, RenameLeads DEF Taken
  <2> QED BY <1>6, <2>1
<1>17. /\ Leads(CreateIndex("idx_sessions_cell", "sessions"), G, On(two), G, On(one))
       /\ Leads(CreateIndex("idx_sessions_started_at", "sessions"), G, On(one), G, On(Eight))
       /\ Leads(CreateIndex("idx_messages_cell_enb_ue_s1ap_id", "messages"), G, On(Eight),
                G, On(Nine))
  BY <1>3, <1>4, <1>9, IndexLeads
<1>18. /\ Leads(s[1], FormsAt(E2f5, 0), On(Eight), FormsAt(E2f5, 1), On(Eight))
       /\ Leads(s[2], FormsAt(E2f5, 1), On(Eight), FormsAt(E2f5, 2), On(Eight))
       /\ Leads(s[3], FormsAt(E2f5, 2), On(Eight), FormsAt(E2f5, 3), On(Eight))
       /\ Leads(s[4], FormsAt(E2f5, 3), On(Eight), FormsAt(E2f5, 4), On(Eight))
       /\ Leads(s[5], FormsAt(E2f5, 4), On(Eight), FormsAt(E2f5, 5), On(Eight))
       /\ Leads(s[6], FormsAt(E2f5, 5), On(Eight), FormsAt(E2f5, 6), On(two))
  BY <1>1, <1>10, <1>11, <1>12, <1>13, <1>14, <1>15 DEF TextE2f5
<1>19. /\ Leads(s[7], FormsAt(E2f5, 6), On(two), FormsAt(E2f5, 7), On(two))
       /\ Leads(s[8], FormsAt(E2f5, 7), On(two), FormsAt(E2f5, 8), On(one))
       /\ Leads(s[9], FormsAt(E2f5, 8), On(one), FormsAt(E2f5, 9), On(Eight))
       /\ Leads(s[10], FormsAt(E2f5, 9), On(Eight), FormsAt(E2f5, 10), On(Eight))
       /\ Leads(s[11], FormsAt(E2f5, 10), On(Eight), FormsAt(E2f5, 11), On(Nine))
  <2>1. FormsAt(E2f5, 7) = G /\ FormsAt(E2f5, 8) = G /\ FormsAt(E2f5, 9) = G
        /\ FormsAt(E2f5, 10) = G /\ FormsAt(E2f5, 11) = G
    BY <1>1
  <2> QED BY <1>1, <1>12, <1>16, <1>17, <2>1 DEF TextE2f5
<1>20. /\ IndexesAt(E2f5, 0) = Eight /\ IndexesAt(E2f5, 1) = Eight
       /\ IndexesAt(E2f5, 2) = Eight /\ IndexesAt(E2f5, 3) = Eight
       /\ IndexesAt(E2f5, 4) = Eight /\ IndexesAt(E2f5, 5) = Eight
  BY <1>2
<1>21. /\ Onward(E2f5, 0, s[1]) /\ Onward(E2f5, 1, s[2]) /\ Onward(E2f5, 2, s[3])
       /\ Onward(E2f5, 3, s[4]) /\ Onward(E2f5, 4, s[5]) /\ Onward(E2f5, 5, s[6])
  <2>1. 0 + 1 = 1 /\ 1 + 1 = 2 /\ 2 + 1 = 3 /\ 3 + 1 = 4 /\ 4 + 1 = 5 /\ 5 + 1 = 6
    OBVIOUS
  <2> QED BY <1>2, <1>18, <1>20, <2>1 DEF Onward
<1>22. /\ Onward(E2f5, 6, s[7]) /\ Onward(E2f5, 7, s[8]) /\ Onward(E2f5, 8, s[9])
       /\ Onward(E2f5, 9, s[10]) /\ Onward(E2f5, 10, s[11])
  <2>1. 6 + 1 = 7 /\ 7 + 1 = 8 /\ 8 + 1 = 9 /\ 9 + 1 = 10 /\ 10 + 1 = 11
    OBVIOUS
  <2> QED BY <1>2, <1>19, <2>1 DEF Onward
<1>23. ASSUME NEW k \in 0 .. 10 PROVE Onward(E2f5, k, s[k + 1])
  <2>1. k \in {0, 1, 2, 3, 4, 5} \/ k \in {6, 7, 8, 9, 10}
    OBVIOUS
  <2>2. CASE k \in {0, 1, 2, 3, 4, 5}
    BY <1>21, <2>2
  <2>3. CASE k \in {6, 7, 8, 9, 10}
    BY <1>22, <2>3
  <2> QED BY <2>1, <2>2, <2>3
<1> QED BY <1>23

\* The end of a revision changes no table and no index, and is where the next one
\* begins.
LEMMA PlacesBehind ==
    /\ \A r \in B0ba .. E2f5 : \A k \in Nat : k >= Lengths[r] =>
          /\ FormsAt(r, k) = FormsAt(r, Lengths[r])
          /\ IndexesAt(r, k) = IndexesAt(r, Lengths[r])
    /\ \A r \in B0ba .. D1a7 : /\ FormsAt(r, Lengths[r]) = FormsAt(r + 1, 0)
                               /\ IndexesAt(r, Lengths[r]) = IndexesAt(r + 1, 0)
<1> USE DEF B0ba, B449, C692, D1a7, E2f5
<1>1. /\ Lengths[1] = 10 /\ Lengths[2] = 4 /\ Lengths[3] = 3 /\ Lengths[4] = 1
      /\ Lengths[5] = 11
  BY DEF Lengths
<1> DEFINE W == Forms(MessagesAt1, SessionsAt1)
           V == Forms(MessagesAt2, SessionsAt1)
           U == Forms(MessagesAt2, SessionsAt3)
           Z == Forms(MessagesAt5, SessionsAt5)
<1>2. ASSUME NEW k \in Nat, k >= 10
      PROVE  FormsAt(1, k) = W /\ IndexesAt(1, k) = Six
  <2>1. \A x \in Four \cup Six : Turn[x] \in Nat /\ Turn[x] <= 10
    BY DEF Turn, Four, Six, SessionIndexes, AlertIndexes
  <2>2. \A x \in Four \cup Six : Turn[x] <= k
    BY <1>2, <2>1
  <2>3. {x \in Four : Turn[x] <= k} = Four /\ {x \in Six : Turn[x] <= k} = Six
    BY <2>2
  <2>4. [n \in Four |-> W[n]] = W
    BY DEF Forms
  <2> DEFINE f == [n \in {x \in Four : Turn[x] <= k} |-> W[n]]
  <2>5. f = W
    BY <2>3, <2>4
  <2> HIDE DEF f
  <2>6. FormsAt(1, k) = f
    BY DEF FormsAt, f
  <2>7. IndexesAt(1, k) = {x \in Six : Turn[x] <= k}
    BY DEF IndexesAt
  <2> QED BY <2>3, <2>5, <2>6, <2>7
<1> HIDE DEF W, V, U, Z
<1>3. /\ FormsAt(2, 0) = W /\ \A k \in Nat : k >= 4 => FormsAt(2, k) = V
      /\ FormsAt(3, 0) = V /\ \A k \in Nat : k >= 3 => FormsAt(3, k) = U
      /\ \A k \in Nat : FormsAt(4, k) = U
      /\ FormsAt(5, 0) = U /\ \A k \in Nat : k >= 11 => FormsAt(5, k) = Z
  BY DEF FormsAt, W, V, U, Z
<1>4. /\ IndexesAt(2, 0) = Six /\ \A k \in Nat : k >= 4 => IndexesAt(2, k) = Seven
      /\ \A k \in Nat : IndexesAt(3, k) = Seven
      /\ IndexesAt(4, 0) = Seven /\ \A k \in Nat : k >= 1 => IndexesAt(4, k) = Eight
      /\ IndexesAt(5, 0) = Eight /\ \A k \in Nat : k >= 11 => IndexesAt(5, k) = Nine
  BY DEF IndexesAt
<1>5. ASSUME NEW r \in 1 .. 5, NEW k \in Nat, k >= Lengths[r]
      PROVE  /\ FormsAt(r, k) = FormsAt(r, Lengths[r])
             /\ IndexesAt(r, k) = IndexesAt(r, Lengths[r])
  <2>1. r = 1 \/ r = 2 \/ r = 3 \/ r = 4 \/ r = 5
    OBVIOUS
  <2> QED BY <1>1, <1>2, <1>3, <1>4, <1>5, <2>1
<1>6. ASSUME NEW r \in 1 .. 4
      PROVE  /\ FormsAt(r, Lengths[r]) = FormsAt(r + 1, 0)
             /\ IndexesAt(r, Lengths[r]) = IndexesAt(r + 1, 0)
  <2>1. r = 1 \/ r = 2 \/ r = 3 \/ r = 4
    OBVIOUS
  <2> QED BY <1>1, <1>2, <1>3, <1>4, <2>1
<1> QED BY <1>5, <1>6

LEMMA WayOnward ==
    ASSUME NEW r \in B0ba .. E2f5, NEW k \in Nat, k < Len(Way(TRUE, r))
    PROVE  Onward(r, k, Way(TRUE, r)[k + 1])
<1> DEFINE s == Way(TRUE, r)
<1>1. /\ Len(s) = Lengths[r] + 2 /\ k < Len(s) /\ Text(r, s)
      /\ s[Lengths[r] + 1] = SetVersion(r) /\ s[Lengths[r] + 2] = Commit
  BY WayText
<1> HIDE DEF s
<1>2. Lengths[1] = 10 /\ Lengths[2] = 4 /\ Lengths[3] = 3 /\ Lengths[4] = 1 /\ Lengths[5] = 11
  BY DEF Lengths
<1>3. r = 1 \/ r = 2 \/ r = 3 \/ r = 4 \/ r = 5
  BY DEF B0ba, E2f5
<1>4. Lengths[r] \in Nat
  BY <1>2, <1>3
<1>5. ASSUME k < Lengths[r] PROVE Onward(r, k, s[k + 1])
  <2>1. CASE r = 1
    <3>1. Leads(s[k + 1], FormsAt(B0ba, k), On(IndexesAt(B0ba, k)),
                FormsAt(B0ba, k + 1), On(IndexesAt(B0ba, k + 1)))
      BY <1>1, <1>2, <1>5, <2>1, FirstLeads DEF Text, B0ba
    <3> QED BY <2>1, <3>1 DEF Onward, B0ba
  <2>2. CASE r = 2
    BY <1>1, <1>2, <1>5, <2>2, B449Leads DEF Text, B449
  <2>3. CASE r = 3
    BY <1>1, <1>2, <1>5, <2>3, C692Leads DEF Text, C692
  <2>4. CASE r = 4
    <3>1. k = 0
      BY <1>2, <1>5, <2>4
    <3>2. s[1] = CreateIndex("idx_messages_unsessionized", "messages")
      BY <1>1, <2>4 DEF Text, D1a7
    <3>3. Onward(4, 0, s[1])
      BY <3>2, D1a7Leads DEF D1a7
    <3> QED BY <2>4, <3>1, <3>3
  <2>5. CASE r = 5
    <3>1. TextE2f5(s)
      BY <1>1, <2>5 DEF Text, E2f5
    <3>2. k \in 0 .. 10
      BY <1>2, <1>5, <2>5
    <3>3. Onward(E2f5, k, s[k + 1])
      BY <3>1, <3>2, E2f5Leads
    <3> QED BY <2>5, <3>3 DEF E2f5
  <2> QED BY <1>3, <2>1, <2>2, <2>3, <2>4, <2>5
<1>6. ASSUME k >= Lengths[r] PROVE Onward(r, k, s[k + 1])
  <2>1. k + 1 \in Nat /\ k + 1 >= Lengths[r]
    BY <1>4, <1>6
  <2>2. FormsAt(r, k + 1) = FormsAt(r, k) /\ IndexesAt(r, k + 1) = IndexesAt(r, k)
    BY <1>6, <2>1, PlacesBehind
  <2>3. s[k + 1] \in {SetVersion(r), Commit}
    <3>1. k + 1 = Lengths[r] + 1 \/ k + 1 = Lengths[r] + 2
      BY <1>1, <1>4, <1>6
    <3> QED BY <1>1, <3>1
  <2>4. r \in Base .. E2f5
    BY DEF Base, B0ba, E2f5
  <2>5. Leads(s[k + 1], FormsAt(r, k), On(IndexesAt(r, k)), FormsAt(r, k), On(IndexesAt(r, k)))
    BY <2>3, <2>4, PlainLeads
  <2> QED BY <2>2, <2>5 DEF Onward
<1>7. Onward(r, k, s[k + 1])
  BY <1>4, <1>5, <1>6
<1> QED BY <1>7 DEF s

\* What the statements have made of the tables is what their texts say.
LEMMA StandsStep ==
    ASSUME NEW r \in B0ba .. E2f5, NEW k \in Nat, k < Len(Way(TRUE, r)),
           NEW d, Stands(r, k, d)
    PROVE  Stands(r, k + 1, Effect(Way(TRUE, r)[k + 1], d))
<1> DEFINE x == Way(TRUE, r)[k + 1]
           F == FormsAt(r, k)
           X == On(IndexesAt(r, k))
           G == FormsAt(r, k + 1)
           Y == On(IndexesAt(r, k + 1))
<1>1. Named(x, DOMAIN F) /\ FormsBehind(x, F) = G /\ IndexesBehind(x, X, Y)
  BY WayOnward DEF Onward, Leads
<1>2. IsDatabase(d) /\ Laid(F, X, d)
  BY DEF Stands
<1> HIDE DEF F, X, G, Y, x
<1>3. IsDatabase(Effect(x, d)) /\ Laid(FormsBehind(x, F), Y, Effect(x, d))
  BY <1>1, <1>2, LaidStep
<1> QED BY <1>1, <1>3 DEF Stands, G, Y, x

-----------------------------------------------------------------------------
(* What the revisions up to one make of an empty database.                 *)

\* Statements carried out one after the other, and what each has left.
Traced(at, path, d) ==
    /\ at[0] = d
    /\ \A i \in 1 .. Len(path) : at[i] = Effect(path[i], at[i - 1])

LEMMA PerformedTrace ==
    ASSUME NEW path, Len(path) \in Nat, NEW d
    PROVE  \E at : Traced(at, path, d) /\ Performed(path, d) = at[Len(path)]
<1> DEFINE n == Len(path)
           Upto(f, m) ==
              /\ f = [i \in 0 .. n |-> f[i]]
              /\ f[0] = d
              /\ \A k \in 1 .. n : k <= m => f[k] = Effect(path[k], f[k - 1])
           S == {m \in Nat : \E f : Upto(f, m)}
<1>0. n \in Nat
  OBVIOUS
<1> HIDE DEF n
<1>1. 0 \in S
  <2>1. Upto([k \in 0 .. n |-> d], 0)
    BY <1>0
  <2> QED BY <2>1
<1>2. ASSUME NEW m \in Nat, m \in S PROVE m + 1 \in S
  <2>1. PICK f : Upto(f, m)
    BY <1>2
  <2>2. CASE m + 1 \in 1 .. n
    <3> DEFINE new == Effect(path[m + 1], f[m])
               g == [i \in 0 .. n |-> IF i = m + 1 THEN new ELSE f[i]]
    <3> HIDE DEF new
    <3>1. g = [i \in 0 .. n |-> g[i]] /\ g[0] = d
      BY <1>0, <2>1
    <3>2. ASSUME NEW k \in 1 .. n, k <= m + 1 PROVE g[k] = Effect(path[k], g[k - 1])
      <4>1. k \in 0 .. n /\ k - 1 \in 0 .. n
        BY <1>0
      <4>2. CASE k = m + 1
        <5>1. g[k] = new /\ g[k - 1] = f[m]
          BY <1>0, <4>1, <4>2
        <5> QED BY <4>2, <5>1 DEF new
      <4>3. CASE k # m + 1
        <5>1. k <= m /\ k - 1 # m + 1
          BY <1>0, <3>2, <4>3
        <5>2. g[k] = f[k] /\ g[k - 1] = f[k - 1]
          BY <4>1, <4>3, <5>1
        <5> QED BY <2>1, <5>1, <5>2
      <4> QED BY <4>2, <4>3
    <3> HIDE DEF g
    <3>3. Upto(g, m + 1)
      BY <3>1, <3>2
    <3> HIDE DEF Upto
    <3>4. \E h : Upto(h, m + 1)
      BY <3>3
    <3> QED BY <3>4
  <2>3. CASE m + 1 \notin 1 .. n
    <3>1. \A k \in 1 .. n : k <= m + 1 => k <= m
      BY <1>0, <2>3
    <3>2. Upto(f, m + 1)
      BY <2>1, <3>1
    <3> HIDE DEF Upto
    <3>3. \E h : Upto(h, m + 1)
      BY <3>2
    <3> QED BY <3>3
  <2> QED BY <2>2, <2>3
<1> HIDE DEF S
<1>3. n \in S
  BY <1>0, <1>1, <1>2, Induction
<1>4. PICK f : Upto(f, n)
  BY <1>3 DEF S
<1> DEFINE Is(g) == g = [i \in 0 .. n |-> IF i = 0 THEN d ELSE Effect(path[i], g[i - 1])]
           at == CHOOSE g : Is(g)
<1>5. Is(f)
  <2>1. ASSUME NEW i \in 0 .. n
        PROVE  f[i] = IF i = 0 THEN d ELSE Effect(path[i], f[i - 1])
    <3>1. CASE i = 0
      BY <1>4, <3>1
    <3>2. CASE i # 0
      <4>1. i \in 1 .. n /\ i <= n
        BY <1>0, <3>2
      <4>2. f[i] = Effect(path[i], f[i - 1])
        BY <1>4, <4>1
      <4> QED BY <3>2, <4>2
    <3> QED BY <3>1, <3>2
  <2> QED BY <1>4, <2>1
<1>6. Is(at)
  BY <1>5
<1>7. Performed(path, d) = at[n]
  BY DEF Performed, n
<1> HIDE DEF at
<1>8. at[0] = d
  BY <1>0, <1>6
<1>9. ASSUME NEW i \in 1 .. n PROVE at[i] = Effect(path[i], at[i - 1])
  BY <1>0, <1>6
<1>10. Traced(at, path, d)
  BY <1>8, <1>9 DEF Traced, n
<1> QED BY <1>7, <1>10 DEF n

\* A database with the tables and indexes of a revision.
Complete(v, d) ==
    IF v < E2f5 THEN Stands(v + 1, 0, d) ELSE Stands(E2f5, Lengths[E2f5], d)

LEMMA RevisionCompletes ==
    ASSUME NEW v \in Base .. D1a7, NEW at, NEW m \in Nat, Stands(v + 1, 0, at[m]),
           \A j \in 1 .. Len(StepUp(v + 1)) :
               at[m + j] = Effect(StepUp(v + 1)[j], at[m + j - 1])
    PROVE  Len(StepUp(v + 1)) \in Nat /\ Complete(v + 1, at[m + Len(StepUp(v + 1))])
<1> DEFINE r == v + 1
           s == StepUp(r)
           n == Len(s)
           S == {j \in Nat : j <= n => Stands(r, j, at[m + j])}
<1>1. r \in B0ba .. E2f5
  BY DEF Base, B0ba, D1a7, E2f5
<1>2. Way(TRUE, r) = s
  BY DEF Way
<1>3. n = Lengths[r] + 2 /\ Lengths[r] \in Nat
  <2>1. Len(Way(TRUE, r)) = Lengths[r] + 2
    BY <1>1, WayText
  <2>2. Lengths[r] \in Nat
    BY <1>1 DEF Lengths, B0ba, E2f5
  <2> QED BY <1>2, <2>1, <2>2
<1>4. Stands(r, 0, at[m]) /\ \A j \in 1 .. n : at[m + j] = Effect(s[j], at[m + j - 1])
  OBVIOUS
<1> HIDE DEF r, s, n
<1>5. 0 \in S
  BY <1>4
<1>6. ASSUME NEW j \in Nat, j \in S PROVE j + 1 \in S
  <2>1. SUFFICES ASSUME j + 1 <= n PROVE Stands(r, j + 1, at[m + (j + 1)])
    OBVIOUS
  <2>2. Stands(r, j, at[m + j]) /\ j < n /\ j + 1 \in 1 .. n /\ m + (j + 1) - 1 = m + j
    BY <1>3, <1>6, <2>1
  <2>3. at[m + (j + 1)] = Effect(s[j + 1], at[m + j])
    BY <1>4, <2>2
  <2>4. Stands(r, j + 1, Effect(s[j + 1], at[m + j]))
    BY <1>1, <1>2, <2>2, StandsStep DEF n
  <2> QED BY <2>3, <2>4
<1> HIDE DEF S
<1>7. n \in Nat
  BY <1>3
<1>8. n \in S
  BY <1>5, <1>6, <1>7, Induction
<1>9. Stands(r, n, at[m + n])
  BY <1>7, <1>8 DEF S
<1>10. Stands(r, Lengths[r], at[m + n])
  <2>1. FormsAt(r, n) = FormsAt(r, Lengths[r]) /\ IndexesAt(r, n) = IndexesAt(r, Lengths[r])
    BY <1>1, <1>3, <1>7, PlacesBehind
  <2> QED BY <1>9, <2>1 DEF Stands
<1>11. Complete(r, at[m + n])
  <2>1. CASE r < E2f5
    <3>1. r \in B0ba .. D1a7
      BY <1>1, <2>1 DEF B0ba, D1a7, E2f5
    <3>2. Stands(r + 1, 0, at[m + n])
      BY <1>10, <3>1, PlacesBehind DEF Stands
    <3> QED BY <2>1, <3>2 DEF Complete
  <2>2. CASE ~(r < E2f5)
    <3>1. r = E2f5
      BY <1>1, <2>2 DEF B0ba, E2f5
    <3> QED BY <1>10, <2>2, <3>1 DEF Complete
  <2> QED BY <2>1, <2>2
<1> QED BY <1>7, <1>11 DEF r, s, n

LEMMA EmptyStands == Stands(B0ba, 0, Empty)
<1>1. IsDatabase(Empty) /\ Empty.tables = <<>> /\ Empty.indexes = <<>>
  <2>1. [Empty EXCEPT !.version = Base] = Empty
    BY DEF Empty
  <2>2. Base \in Base .. E2f5
    BY DEF Base, E2f5
  <2>3. IsDatabase(Empty)
    BY <2>1, <2>2, EmptyShape
  <2> QED BY <2>3 DEF Empty
<1>2. \A x \in Four \cup Six : Turn[x] > 0
  BY DEF Turn, Four, Six, SessionIndexes, AlertIndexes
<1>3. {x \in Four : Turn[x] <= 0} = {} /\ {x \in Six : Turn[x] <= 0} = {}
  <2>1. \A x \in Four \cup Six : Turn[x] \in Nat
    BY DEF Turn, Four, Six, SessionIndexes, AlertIndexes
  <2> QED BY <1>2, <2>1
<1> DEFINE W == Forms(MessagesAt1, SessionsAt1)
           f == [n \in {x \in Four : Turn[x] <= 0} |-> W[n]]
           is == {x \in Six : Turn[x] <= 0}
<1>4. DOMAIN f = {} /\ is = {}
  BY <1>3
<1> HIDE DEF f, is
<1>5. FormsAt(B0ba, 0) = f
  BY DEF FormsAt, f, B0ba, B449, C692, D1a7, E2f5
<1>6. IndexesAt(B0ba, 0) = is
  BY DEF IndexesAt, is, B0ba, B449, C692, D1a7, E2f5
<1>7. DOMAIN <<>> = {} /\ <<>> = [x \in {} |-> Owner(x)]
  OBVIOUS
<1>8. On({}) = <<>>
  BY <1>7 DEF On
<1> QED BY <1>1, <1>4, <1>5, <1>6, <1>7, <1>8 DEF Stands, Laid

LEMMA BuiltCompletes == ASSUME NEW v \in Base .. E2f5 PROVE Complete(v, Built(v))
<1> USE DEF Base, B0ba, D1a7, E2f5
<1> DEFINE P == UpgradePath(Base, v)
           n == Len(P)
           Rest(r) == UpgradePath(r, v)
<1>1. \A r \in 0 .. 5 : IsSequence(Rest(r))
  BY UpgradeParts
<1>2. n \in Nat
  BY <1>1 DEF IsSequence
<1>3. PICK at : Traced(at, P, Empty) /\ Performed(P, Empty) = at[n]
  BY <1>2, PerformedTrace
<1> DEFINE There(r, m) ==
              /\ Complete(r, at[m]) /\ n = m + Len(Rest(r))
              /\ \A i \in 1 .. Len(Rest(r)) : P[m + i] = Rest(r)[i]
           Claim(r) == \E m \in Nat : There(r, m)
<1>4. Claim(0)
  <2>1. Complete(0, Empty)
    BY EmptyStands DEF Complete
  <2>2. There(0, 0)
    BY <1>2, <1>3, <2>1 DEF Traced
  <2> QED BY <2>2
<1>5. ASSUME NEW r \in 0 .. 4, r < v, Claim(r) PROVE Claim(r + 1)
  <2>1. PICK m \in Nat : There(r, m)
    BY <1>5
  <2> DEFINE s == StepUp(r + 1)
             L == Len(s)
             R == Rest(r + 1)
  <2>0. r + 1 \in B0ba .. E2f5 /\ r \in Base .. E2f5 /\ r + 1 \in Base .. E2f5
    OBVIOUS
  <2>2. Rest(r) = s \o R
    <3>1. \A to \in Base .. E2f5 : r < to =>
              UpgradePath(r, to) = StepUp(r + 1) \o UpgradePath(r + 1, to)
      BY <2>0, UpgradeParts
    <3> QED BY <1>5, <3>1
  <2>3. IsSequence(s) /\ IsSequence(R)
    <3>1. IsSequence(Way(TRUE, r + 1))
      BY <2>0, WaySequence
    <3> QED BY <1>1, <3>1 DEF Way
  <2>4. Joins(Rest(r), s, R)
    BY <2>2, <2>3, Behind
  <2>5. L \in Nat /\ Len(R) \in Nat
    BY <2>3 DEF IsSequence
  <2> HIDE DEF P, n, Rest, R, s, L
  <2>6. n = m + (L + Len(R)) /\ Complete(r, at[m])
        /\ \A i \in 1 .. (L + Len(R)) : P[m + i] = Rest(r)[i]
    BY <2>1, <2>4, <2>5 DEF Joins, L
  <2>7. \A j \in 1 .. L : P[m + j] = s[j]
    BY <2>4, <2>5, <2>6 DEF Joins, L
  <2>8. \A i \in 1 .. Len(R) : P[(m + L) + i] = R[i]
    <3> TAKE i \in 1 .. Len(R)
    <3>1. L + i \in 1 .. (L + Len(R)) /\ m + (L + i) = (m + L) + i
      BY <2>5
    <3>2. Rest(r)[L + i] = R[i]
      BY <2>4 DEF Joins, L
    <3> QED BY <2>6, <3>1, <3>2
  <2>9. \A j \in 1 .. L : at[m + j] = Effect(s[j], at[m + j - 1])
    <3> TAKE j \in 1 .. L
    <3>1. m + j \in 1 .. n
      BY <2>5, <2>6
    <3>2. at[m + j] = Effect(P[m + j], at[(m + j) - 1])
      BY <1>3, <3>1 DEF Traced, n
    <3> QED BY <2>7, <3>2
  <2>10. Stands(r + 1, 0, at[m])
    BY <2>6 DEF Complete
  <2>11. Complete(r + 1, at[m + L])
    BY <2>9, <2>10, RevisionCompletes DEF s, L
  <2>12. m + L \in Nat /\ n = (m + L) + Len(R)
    BY <2>5, <2>6
  <2>13. There(r + 1, m + L)
    BY <2>8, <2>11, <2>12 DEF R
  <2> QED BY <2>12, <2>13
<1> HIDE DEF Claim
<1>6. Claim(v)
  <2>1. v \in {0, 1, 2, 3, 4, 5}
    OBVIOUS
  <2>2. v >= 1 => Claim(1)
    BY <1>4, <1>5
  <2>3. v >= 2 => Claim(2)
    BY <1>5, <2>2
  <2>4. v >= 3 => Claim(3)
    BY <1>5, <2>3
  <2>5. v >= 4 => Claim(4)
    BY <1>5, <2>4
  <2>6. v >= 5 => Claim(5)
    BY <1>5, <2>5
  <2> QED BY <1>4, <2>1, <2>2, <2>3, <2>4, <2>5, <2>6
<1>7. PICK m \in Nat : There(v, m)
  BY <1>6 DEF Claim
<1>8. Rest(v) = <<>>
  <2>1. \A to \in Base .. E2f5 : to <= v => UpgradePath(v, to) = <<>>
    BY UpgradeParts
  <2> QED BY <2>1
<1>9. m = n
  <2>1. Len(Rest(v)) = 0
    BY <1>8
  <2> HIDE DEF Rest, n, P
  <2> QED BY <1>7, <2>1
<1>10. Built(v) = at[n]
  BY <1>3 DEF Built
<1> QED BY <1>7, <1>9, <1>10

\* So is a sound database.
LEMMA SoundStands ==
    ASSUME NEW d, IsDatabase(d), Sound(d) PROVE Complete(d.version, d)
<1> DEFINE b == Built(d.version)
<1>1. d.version \in Base .. E2f5
  BY DEF IsDatabase
<1>2. Complete(d.version, b)
  BY <1>1, BuiltCompletes
<1>3. Shape(d) = Shape(b)
  BY DEF Sound
<1> HIDE DEF b
<1>4. ASSUME NEW F, NEW X, IsDatabase(b), Laid(F, X, b) PROVE Laid(F, X, d)
  <2> DEFINE ts == d.tables
             us == b.tables
             Bare(t) == [t EXCEPT !.rows = <<>>]
  <2>1. d.indexes = b.indexes
        /\ [t \in DOMAIN ts |-> Bare(ts[t])] = [t \in DOMAIN us |-> Bare(us[t])]
    <3>1. Shape(d).indexes = d.indexes /\ Shape(b).indexes = b.indexes
          /\ Shape(d).tables = [t \in DOMAIN ts |-> Bare(ts[t])]
          /\ Shape(b).tables = [t \in DOMAIN us |-> Bare(us[t])]
      BY DEF Shape
    <3> QED BY <1>3, <3>1
  <2>2. \A t \in DOMAIN ts : IsTable(ts[t])
    BY DEF IsDatabase
  <2>3. \A t \in DOMAIN us : IsTable(us[t])
    BY <1>4 DEF IsDatabase
  <2> HIDE DEF ts, us, Bare
  <2>4. DOMAIN ts = DOMAIN us /\ \A t \in DOMAIN ts : Bare(ts[t]) = Bare(us[t])
    BY <2>1
  <2>5. \A t : IsTable(t) => Bare(t).cols = t.cols /\ Bare(t).notNull = t.notNull
                             /\ Bare(t).refs = t.refs
    <3> TAKE t
    <3> HAVE IsTable(t)
    <3>1. t = [cols |-> t.cols, notNull |-> t.notNull, refs |-> t.refs, rows |-> t.rows]
      BY DEF IsTable
    <3> DEFINE a == t.cols
               m == t.notNull
               r == t.refs
               w == t.rows
               u == [cols |-> a, notNull |-> m, refs |-> r, rows |-> w]
    <3> HIDE DEF a, m, r, w
    <3>2. [u EXCEPT !.rows = <<>>] = [cols |-> a, notNull |-> m, refs |-> r, rows |-> <<>>]
      OBVIOUS
    <3>3. Bare(t) = [cols |-> a, notNull |-> m, refs |-> r, rows |-> <<>>]
      BY <3>1, <3>2 DEF Bare, a, m, r, w
    <3> QED BY <3>3 DEF a, m, r, w
  <2>6. \A t \in DOMAIN ts : Form(ts[t]) = Form(us[t])
    <3> TAKE t \in DOMAIN ts
    <3>1. ts[t].cols = us[t].cols /\ ts[t].notNull = us[t].notNull /\ ts[t].refs = us[t].refs
      BY <2>2, <2>3, <2>4, <2>5
    <3> QED BY <3>1 DEF Form
  <2>7. DOMAIN us = DOMAIN F /\ b.indexes = X /\ \A t \in DOMAIN F : Form(us[t]) = F[t]
    BY <1>4 DEF Laid, us
  <2> QED BY <2>1, <2>4, <2>6, <2>7 DEF Laid, ts
<1>5. \A r, k : Stands(r, k, b) => Stands(r, k, d)
  BY <1>4 DEF Stands
<1> QED BY <1>2, <1>5 DEF Complete

-----------------------------------------------------------------------------
(* The rows of a sound database without cells: none, below C692, that an   *)
(* upgrade could stumble over.                                             *)

Bare(d, name) == DOMAIN d.tables[name].rows = {}

Vacant(r, k, d) ==
    /\ r = B449 \/ (r = C692 /\ k <= 2) => Bare(d, "sessions")
    /\ r = B449 => Bare(d, "alerts")
    /\ r = B449 /\ k <= 2 => Bare(d, "messages")

\* What Sound says of one value.
LEMMA SoundRow ==
    ASSUME NEW d, IsDatabase(d), Sound(d), "copy" \notin DOMAIN d.tables,
           NEW t \in DOMAIN d.tables, NEW i \in DOMAIN d.tables[t].rows,
           NEW c \in d.tables[t].cols
    PROVE  LET v == d.tables[t].rows[i][c]
           IN  /\ c \in d.tables[t].notNull => v # None
               /\ c \in DOMAIN d.tables[t].refs /\ v # None /\ d.tables[t].refs[c] # "copy"
                     => v \in DOMAIN d.tables[d.tables[t].refs[c]].rows
<1> DEFINE ts == d.tables
           new == Shape(d).tables[t]
           us == Bind(ts, "copy", new)
           e == [d EXCEPT !.tables = Bind(@, "copy", new)]
<1>1. Fits(e, TRUE, t, "copy")
  BY DEF Sound
<1>2. e.tables = us
  <2>1. d = [version |-> d.version, tables |-> d.tables, indexes |-> d.indexes]
    BY DEF IsDatabase
  <2> HIDE DEF new
  <2> QED BY <2>1
<1>3. IsTable(ts[t])
  BY DEF IsDatabase
<1>4. new.cols = ts[t].cols /\ new.notNull = ts[t].notNull /\ new.refs = ts[t].refs
  <2> DEFINE u == ts[t]
  <2>1. new = [u EXCEPT !.rows = <<>>]
    BY DEF Shape
  <2>2. u = [cols |-> u.cols, notNull |-> u.notNull, refs |-> u.refs, rows |-> u.rows]
    BY <1>3 DEF IsTable
  <2> HIDE DEF u, new
  <2>3. new.cols = u.cols /\ new.notNull = u.notNull /\ new.refs = u.refs
    BY <2>1, <2>2
  <2> QED BY <2>3 DEF u
<1> HIDE DEF new, e, us, ts
<1>5. us["copy"] = new /\ DOMAIN us = DOMAIN ts \cup {"copy"}
      /\ \A x \in DOMAIN ts : us[x] = ts[x]
  BY DEF us, ts, Bind
<1> DEFINE v == ts[t].rows[i][c]
           row == Copied(e, t, "copy")
<1>6. i \in DOMAIN row /\ row[i][c] = v
  <2>1. us[t] = ts[t] /\ c \in us["copy"].cols /\ i \in DOMAIN us[t].rows
    BY <1>4, <1>5 DEF ts
  <2> QED BY <1>2, <2>1 DEF Copied, ts
<1> HIDE DEF row, v
<1>7. c \in us["copy"].cols
  BY <1>4, <1>5 DEF ts
<1>8. /\ c \in us["copy"].notNull => v # None
      /\ c \in DOMAIN us["copy"].refs /\ v # None =>
            us["copy"].refs[c] \in DOMAIN us /\ v \in DOMAIN us[us["copy"].refs[c]].rows
  BY <1>1, <1>2, <1>6, <1>7 DEF Fits, Has, row
<1>9. /\ c \in ts[t].notNull => v # None
      /\ c \in DOMAIN ts[t].refs /\ v # None =>
            ts[t].refs[c] \in DOMAIN us /\ v \in DOMAIN us[ts[t].refs[c]].rows
  BY <1>4, <1>5, <1>8
<1>10. c \in DOMAIN ts[t].refs /\ v # None /\ ts[t].refs[c] # "copy" =>
          v \in DOMAIN ts[ts[t].refs[c]].rows
  <2> DEFINE y == ts[t].refs[c]
  <2> HIDE DEF y
  <2>1. ASSUME y \in DOMAIN us, y # "copy" PROVE us[y] = ts[y]
    BY <1>5, <2>1
  <2> QED BY <1>9, <2>1 DEF y
<1> QED BY <1>9, <1>10 DEF v, ts

\* A table with a column that must refer to a row of a table without rows has none.
LEMMA SoundBare ==
    ASSUME NEW d, IsDatabase(d), Sound(d), "copy" \notin DOMAIN d.tables,
           NEW t \in DOMAIN d.tables, NEW c,
           c \in d.tables[t].cols, c \in d.tables[t].notNull, c \in DOMAIN d.tables[t].refs,
           d.tables[t].refs[c] # "copy", Bare(d, d.tables[t].refs[c])
    PROVE  Bare(d, t)
<1>1. ASSUME NEW i \in DOMAIN d.tables[t].rows PROVE FALSE
  <2>1. d.tables[t].rows[i][c] \in DOMAIN d.tables[d.tables[t].refs[c]].rows
    BY SoundRow
  <2> QED BY <2>1 DEF Bare
<1> QED BY <1>1 DEF Bare

\* The fields of a table of one of the forms.
LEMMA FormTable ==
    ASSUME NEW t, NEW cols, NEW notNull, NEW refs, Form(t) = Table(cols, notNull, refs)
    PROVE  t.cols = cols /\ t.notNull = notNull /\ t.refs = refs
<1>1. /\ Form(t).cols = t.cols /\ Form(t).notNull = t.notNull /\ Form(t).refs = t.refs
      /\ Table(cols, notNull, refs).cols = cols
      /\ Table(cols, notNull, refs).notNull = notNull
      /\ Table(cols, notNull, refs).refs = refs
  BY DEF Form, Table
<1> QED BY <1>1

LEMMA SoundIsVacant ==
    ASSUME NEW d, IsDatabase(d), Sound(d), NoCells(d), d.version \in B0ba .. D1a7
    PROVE  Stands(d.version + 1, 0, d) /\ Vacant(d.version + 1, 0, d)
<1> DEFINE v == d.version
           F == FormsAt(v + 1, 0)
<1>1. Stands(v + 1, 0, d)
  BY SoundStands DEF Complete, B0ba, D1a7, E2f5
<1>2. DOMAIN d.tables = DOMAIN F /\ \A n \in DOMAIN F : Form(d.tables[n]) = F[n]
  BY <1>1 DEF Stands, Laid
<1>3. v \in 1 .. 4
  BY DEF B0ba, D1a7
<1>4. ASSUME v <= 2
      PROVE  /\ Bare(d, "sessions")
             /\ v = 1 => Bare(d, "messages") /\ Bare(d, "alerts")
  <2>1. v = 1 \/ v = 2
    BY <1>3, <1>4
  <2> DEFINE m == IF v = 1 THEN MessagesAt1 ELSE MessagesAt2
             G == Forms(m, SessionsAt1)
  <2>2. F = G
    <3>1. FormsAt(2, 0) = Forms(MessagesAt1, SessionsAt1)
          /\ FormsAt(3, 0) = Forms(MessagesAt2, SessionsAt1)
      <4> DEFINE g == Forms(MessagesAt1, SessionsAt1)
                 h == Forms(MessagesAt2, SessionsAt1)
      <4> HIDE DEF g, h
      <4>1. FormsAt(2, 0) = g /\ FormsAt(3, 0) = h
        BY DEF FormsAt, B0ba, B449, C692, D1a7, E2f5, g, h
      <4> QED BY <4>1 DEF g, h
    <3>2. CASE v = 1
      BY <3>1, <3>2
    <3>3. CASE v = 2
      BY <3>1, <3>3
    <3> QED BY <2>1, <3>2, <3>3
  <2>3. DOMAIN G = Four /\ G["sessions"] = SessionsAt1 /\ G["messages"] = m
        /\ G["alerts"] = AlertsForm
    BY FormsIs
  <2> HIDE DEF F, G
  <2>4. {"cells", "sessions", "messages", "alerts"} \subseteq DOMAIN d.tables
        /\ "copy" \notin DOMAIN d.tables
    BY <1>2, <2>2, <2>3 DEF Four
  <2>5. Bare(d, "cells")
    <3>1. d.tables["cells"].rows = <<>>
      BY <2>4 DEF NoCells, Has
    <3> QED BY <3>1 DEF Bare
  <2>6. Bare(d, "sessions")
    <3>1. Form(d.tables["sessions"]) = SessionsAt1
      BY <1>2, <2>2, <2>3, <2>4
    <3>2. /\ d.tables["sessions"].cols = {"cell_id"}
          /\ d.tables["sessions"].notNull = {"cell_id"}
          /\ d.tables["sessions"].refs = [cell_id |-> "cells"]
      BY <3>1, FormTable DEF SessionsAt1, SessionsForm
    <3>3. "cell_id" \in DOMAIN d.tables["sessions"].refs
          /\ d.tables["sessions"].refs["cell_id"] = "cells"
      BY <3>2
    <3> QED BY <2>4, <2>5, <3>2, <3>3, SoundBare
  <2>7. ASSUME v = 1 PROVE Bare(d, "messages")
    <3>1. Form(d.tables["messages"]) = MessagesAt1
      BY <1>2, <2>2, <2>3, <2>4, <2>7
    <3>2. /\ d.tables["messages"].cols = {"session_id"} \cup {}
          /\ d.tables["messages"].notNull = {"session_id"}
          /\ d.tables["messages"].refs = [session_id |-> "sessions"]
      BY <3>1, FormTable DEF MessagesAt1, MessagesForm
    <3>3. "session_id" \in DOMAIN d.tables["messages"].refs
          /\ d.tables["messages"].refs["session_id"] = "sessions"
      BY <3>2
    <3> QED BY <2>4, <2>6, <3>2, <3>3, SoundBare
  <2>8. Bare(d, "alerts")
    <3>1. Form(d.tables["alerts"]) = AlertsForm
      BY <1>2, <2>2, <2>3, <2>4
    <3>2. /\ d.tables["alerts"].cols = {"session_id", "trigger_message_id"}
          /\ d.tables["alerts"].notNull = {"session_id"}
          /\ d.tables["alerts"].refs = [session_id |-> "sessions",
                                        trigger_message_id |-> "messages"]
      BY <3>1, FormTable DEF AlertsForm
    <3>3. "session_id" \in DOMAIN d.tables["alerts"].refs
          /\ d.tables["alerts"].refs["session_id"] = "sessions"
      BY <3>2
    <3> QED BY <2>4, <2>6, <3>2, <3>3, SoundBare
  <2> QED BY <2>6, <2>7, <2>8
<1> HIDE DEF F
<1>5. Vacant(v + 1, 0, d)
  BY <1>3, <1>4 DEF Vacant, B449, C692
<1> QED BY <1>1, <1>5

\* What a statement that finds what it names needs beyond.
LEMMA PossibleIs ==
    ASSUME NEW d, NEW fk, NEW x, Named(x, DOMAIN d.tables), x.op # "dropIndex",
           x.op = "addColumn" => x.col \notin d.tables[x.name].cols,
           x.op = "copy" => Fits(d, fk, x.name, x.to),
           x.op \in {"drop", "replace"} => (fk => ~Referenced(d, x.name)),
           x.op = "createIndex" => x.index \notin DOMAIN d.indexes
    PROVE  Possible(x, d, fk)
<1>1. CASE x.op \in {"create", "createLike", "rename"}
  BY <1>1 DEF Possible, Named, Has
<1>2. CASE x.op \in {"addColumn", "copy"}
  BY <1>2 DEF Possible, Named, Has
<1>3. CASE x.op \in {"drop", "replace"}
  BY <1>3 DEF Possible, Named, Has
<1>4. CASE x.op = "createIndex"
  BY <1>4 DEF Possible, Named, Has
<1>5. CASE x.op \in {"setVersion", "foreignKeys", "commit"}
  BY <1>5 DEF Possible
<1> QED BY <1>1, <1>2, <1>3, <1>4, <1>5 DEF Named, Operations

LEMMA BareFits ==
    ASSUME NEW d, NEW fk, NEW name, NEW to, Bare(d, name) PROVE Fits(d, fk, name, to)
<1>1. DOMAIN Copied(d, name, to) = {}
  BY DEF Copied, Bare
<1> QED BY <1>1 DEF Fits

\* What the k-th place of each revision asks of rows and names.
Asked(d, fk, x) ==
    /\ x.op # "dropIndex"
    /\ x.op = "addColumn" => x.col \notin d.tables[x.name].cols
    /\ x.op = "copy" => Fits(d, fk, x.name, x.to)
    /\ x.op \in {"drop", "replace"} => (fk => ~Referenced(d, x.name))
    /\ x.op = "createIndex" => x.index \notin DOMAIN d.indexes

LEMMA AskedB449 ==
    ASSUME NEW s, TextB449(s), NEW k \in 0 .. 3, NEW d, Stands(B449, k, d),
           Vacant(B449, k, d), NEW fk
    PROVE  Asked(d, fk, s[k + 1])
<1>1. k = 0 \/ k = 1 \/ k = 2 \/ k = 3
  OBVIOUS
<1>2. CASE k = 0
  <2>1. s[1].op = "createLike"
    BY DEF TextB449, Like
  <2> QED BY <1>2, <2>1 DEF Asked
<1>3. CASE k = 1
  <2>1. s[2].op = "copy" /\ s[2].name = "messages"
    BY DEF TextB449, Copy
  <2>2. Bare(d, "messages")
    BY <1>3 DEF Vacant
  <2> QED BY <1>3, <2>1, <2>2, BareFits DEF Asked
<1>4. CASE k = 2
  <2>1. s[3].op = "replace" /\ s[3].name = "messages"
    BY DEF TextB449, Replace
  <2>2. Bare(d, "alerts")
    BY DEF Vacant
  <2> DEFINE F == Forms(MessagesAt1, SessionsAt1)
             B == Bind(F, Tmp["messages"], MessagesAt2)
  <2>3. FormsAt(B449, 2) = B
    <3> DEFINE b == B
    <3> HIDE DEF b
    <3>1. FormsAt(B449, 2) = b
      BY DEF FormsAt, B0ba, B449, C692, D1a7, E2f5, b
    <3> QED BY <3>1 DEF b
  <2>4. /\ DOMAIN F = Four /\ F["cells"] = CellsForm /\ F["sessions"] = SessionsAt1
        /\ F["messages"] = MessagesAt1 /\ F["alerts"] = AlertsForm
    BY FormsIs
  <2> HIDE DEF F
  <2>5. /\ DOMAIN B = Four \cup {Tmp["messages"]} /\ B[Tmp["messages"]] = MessagesAt2
        /\ B["cells"] = CellsForm /\ B["sessions"] = SessionsAt1
    BY <2>4 DEF Bind, Four, Tmp
  <2> HIDE DEF B
  <2>6. DOMAIN d.tables = DOMAIN B /\ \A n \in DOMAIN B : Form(d.tables[n]) = B[n]
    BY <1>4, <2>3 DEF Stands, Laid
  <2>7. /\ d.tables[Tmp["messages"]].refs = [session_id |-> "sessions"]
        /\ d.tables["cells"].refs = <<>>
        /\ d.tables["sessions"].refs = [cell_id |-> "cells"]
    <3>1. "cells" \in DOMAIN B /\ "sessions" \in DOMAIN B /\ Tmp["messages"] \in DOMAIN B
      BY <2>5 DEF Four
    <3>2. /\ Form(d.tables[Tmp["messages"]]) = MessagesAt2
          /\ Form(d.tables["cells"]) = CellsForm /\ Form(d.tables["sessions"]) = SessionsAt1
      BY <2>5, <2>6, <3>1
    <3> QED BY <3>2, FormTable DEF MessagesAt2, MessagesForm, CellsForm, SessionsAt1,
                                    SessionsForm
  <2>8. ASSUME NEW t \in DOMAIN d.tables \ {"messages"}, NEW c \in DOMAIN d.tables[t].refs,
               NEW i \in DOMAIN d.tables[t].rows, d.tables[t].refs[c] = "messages"
        PROVE  FALSE
    <3>1. t \in {"cells", "sessions", "alerts", Tmp["messages"]}
      BY <2>5, <2>6 DEF Four
    <3>2. t # "alerts"
      BY <2>2 DEF Bare
    <3>3. t # "cells"
      <4>1. DOMAIN <<>> = {}
        OBVIOUS
      <4> QED BY <2>7, <2>8, <4>1
    <3>4. t # "sessions"
      BY <2>7, <2>8
    <3>5. t # Tmp["messages"]
      BY <2>7, <2>8
    <3> QED BY <3>1, <3>2, <3>3, <3>4, <3>5
  <2>9. ~Referenced(d, "messages")
    BY <2>8 DEF Referenced
  <2> QED BY <1>4, <2>1, <2>9 DEF Asked
<1>5. CASE k = 3
  <2>1. s[4].op = "createIndex" /\ s[4].index = "idx_messages_enb_ue_s1ap_id"
    BY DEF TextB449, CreateIndex
  <2>2. IndexesAt(B449, 3) = Six
    BY DEF IndexesAt, B0ba, B449, C692, D1a7, E2f5
  <2>3. d.indexes = On(Six)
    BY <1>5, <2>2 DEF Stands, Laid
  <2>4. "idx_messages_enb_ue_s1ap_id" \notin DOMAIN d.indexes
    BY <2>3 DEF On, Six, SessionIndexes, AlertIndexes
  <2> QED BY <1>5, <2>1, <2>4 DEF Asked
<1> QED BY <1>1, <1>2, <1>3, <1>4, <1>5

LEMMA AskedC692 ==
    ASSUME NEW s, TextC692(s), NEW k \in 0 .. 2, NEW d, Vacant(C692, k, d), NEW fk
    PROVE  Asked(d, fk, s[k + 1])
<1>1. k = 0 \/ k = 1 \/ k = 2
  OBVIOUS
<1>2. Bare(d, "sessions")
  BY <1>1 DEF Vacant
<1>3. CASE k = 0
  <2>1. s[1].op = "createLike"
    BY DEF TextC692, Like
  <2> QED BY <1>3, <2>1 DEF Asked
<1>4. CASE k = 1
  <2>1. s[2].op = "copy" /\ s[2].name = "sessions"
    BY DEF TextC692, Copy
  <2> QED BY <1>2, <1>4, <2>1, BareFits DEF Asked
<1>5. CASE k = 2
  <2>1. s[3].op = "replace" /\ s[3].name = "sessions"
    BY DEF TextC692, Replace
  <2>2. ~Referenced(d, "sessions")
    BY <1>2 DEF Referenced, Bare
  <2> QED BY <1>5, <2>1, <2>2 DEF Asked
<1> QED BY <1>1, <1>3, <1>4, <1>5

LEMMA AskedD1a7 ==
    ASSUME NEW d, Stands(D1a7, 0, d), NEW fk
    PROVE  Asked(d, fk, CreateIndex("idx_messages_unsessionized", "messages"))
<1> DEFINE x == CreateIndex("idx_messages_unsessionized", "messages")
<1>1. x.op = "createIndex" /\ x.index = "idx_messages_unsessionized"
  BY DEF CreateIndex
<1>2. IndexesAt(D1a7, 0) = Seven
  BY DEF IndexesAt, B0ba, B449, C692, D1a7, E2f5
<1>3. d.indexes = On(Seven)
  BY <1>2 DEF Stands, Laid
<1>4. "idx_messages_unsessionized" \notin DOMAIN d.indexes
  BY <1>3 DEF On, Seven, Six, SessionIndexes, AlertIndexes
<1> HIDE DEF x
<1>5. Asked(d, fk, x)
  BY <1>1, <1>4 DEF Asked
<1> QED BY <1>5 DEF x

LEMMA AskedE2f5 ==
    ASSUME NEW s, TextE2f5(s), NEW k \in 0 .. 10, NEW d, Stands(E2f5, k, d), NEW fk,
           k \in 3 .. 5 => ~fk
    PROVE  Asked(d, fk, s[k + 1])
<1> DEFINE F == FormsAt(E2f5, k)
           x == s[k + 1]
<1>1. /\ DOMAIN d.tables = DOMAIN F /\ \A n \in DOMAIN F : Form(d.tables[n]) = F[n]
  BY DEF Stands, Laid
<1>2. d.indexes = On(IndexesAt(E2f5, k))
  BY DEF Stands, Laid
<1>3. k \in {0, 1} \/ k \in {2, 3, 6, 9} \/ k = 4 \/ k = 5 \/ k \in {7, 8, 10}
  OBVIOUS
<1>4. CASE k \in {0, 1}
  <2> DEFINE m == IF k = 0 THEN MessagesAt2 ELSE MessagesWithPlmn
             G == Forms(m, SessionsAt3)
  <2>1. F = G
    <3>1. FormsAt(E2f5, 0) = Forms(MessagesAt2, SessionsAt3)
          /\ FormsAt(E2f5, 1) = Forms(MessagesWithPlmn, SessionsAt3)
      <4> DEFINE g == Forms(MessagesAt2, SessionsAt3)
                 h == Forms(MessagesWithPlmn, SessionsAt3)
      <4> HIDE DEF g, h
      <4>1. FormsAt(E2f5, 0) = g /\ FormsAt(E2f5, 1) = h
        BY DEF FormsAt, B0ba, B449, C692, D1a7, E2f5, g, h
      <4> QED BY <4>1 DEF g, h
    <3>2. CASE k = 0
      BY <3>1, <3>2
    <3>3. CASE k = 1
      BY <3>1, <3>3
    <3> QED BY <1>4, <3>2, <3>3
  <2>2. DOMAIN G = Four /\ G["messages"] = m
    BY FormsIs
  <2> HIDE DEF F, G
  <2>3. Form(d.tables["messages"]) = m
    BY <1>1, <2>1, <2>2 DEF Four
  <2>4. CASE k = 0
    <3>1. d.tables["messages"].cols = {"session_id"} \cup {"enb_ue_s1ap_id", "mme_ue_s1ap_id"}
      BY <2>3, <2>4, FormTable DEF MessagesAt2, MessagesForm
    <3>2. s[1].op = "addColumn" /\ s[1].name = "messages" /\ s[1].col = "plmn"
      BY DEF TextE2f5, AddColumn
    <3> QED BY <2>4, <3>1, <3>2 DEF Asked
  <2>5. CASE k = 1
    <3>1. d.tables["messages"].cols
            = {"session_id"} \cup {"enb_ue_s1ap_id", "mme_ue_s1ap_id", "plmn"}
      BY <2>3, <2>5, FormTable DEF MessagesWithPlmn, MessagesForm
    <3>2. s[2].op = "addColumn" /\ s[2].name = "messages" /\ s[2].col = "cell_id"
      BY DEF TextE2f5, AddColumn
    <3> QED BY <2>5, <3>1, <3>2 DEF Asked
  <2> QED BY <1>4, <2>4, <2>5
<1>5. CASE k \in {2, 3, 6, 9}
  <2>1. s[3].op = "foreignKeys" /\ s[4].op = "create" /\ s[7].op = "rename"
        /\ s[10].op = "foreignKeys"
    BY DEF TextE2f5, ForeignKeys, Create, Rename
  <2>2. s[k + 1].op \in {"foreignKeys", "create", "rename"}
    BY <1>5, <2>1
  <2> QED BY <2>2 DEF Asked
<1>6. CASE k = 4
  <2>1. s[5].op = "copy" /\ s[5].name = "sessions" /\ s[5].to = "sessions_new"
    BY DEF TextE2f5, Copy
  <2> DEFINE W == Forms(MessagesAt5, SessionsAt3)
             B == Bind(W, "sessions_new", SessionsAt5)
  <2>2. F = B
    <3> DEFINE b == B
    <3> HIDE DEF b
    <3>1. FormsAt(E2f5, 4) = b
      BY DEF FormsAt, B0ba, B449, C692, D1a7, E2f5, b
    <3> QED BY <1>6, <3>1 DEF b
  <2>3. "sessions_new" \in DOMAIN B /\ B["sessions_new"] = SessionsAt5
    BY DEF Bind
  <2> HIDE DEF F, B
  <2>4. Form(d.tables["sessions_new"]) = SessionsAt5
    BY <1>1, <2>2, <2>3
  <2>5. d.tables["sessions_new"].notNull = {} /\ d.tables["sessions_new"].refs = <<>>
    BY <2>4, FormTable DEF SessionsAt5
  <2>6. DOMAIN d.tables["sessions_new"].refs = {}
    BY <2>5
  <2>7. Fits(d, fk, "sessions", "sessions_new")
    BY <2>5, <2>6 DEF Fits
  <2> QED BY <1>6, <2>1, <2>7 DEF Asked
<1>7. CASE k = 5
  <2>1. s[6].op = "drop"
    BY DEF TextE2f5, Drop
  <2> QED BY <1>7, <2>1 DEF Asked
<1>8. CASE k \in {7, 8, 10}
  <2> DEFINE y == IF k = 7 THEN "idx_sessions_cell" ELSE IF k = 8 THEN "idx_sessions_started_at"
                  ELSE "idx_messages_cell_enb_ue_s1ap_id"
  <2>1. /\ s[8].op = "createIndex" /\ s[8].index = "idx_sessions_cell"
        /\ s[9].op = "createIndex" /\ s[9].index = "idx_sessions_started_at"
        /\ s[11].op = "createIndex" /\ s[11].index = "idx_messages_cell_enb_ue_s1ap_id"
    BY DEF TextE2f5, CreateIndex
  <2>2. s[k + 1].op = "createIndex" /\ s[k + 1].index = y
    BY <1>8, <2>1
  <2>3. IndexesAt(E2f5, 7) = Eight \ SessionIndexes
        /\ IndexesAt(E2f5, 8) = Eight \ {"idx_sessions_started_at"}
        /\ IndexesAt(E2f5, 10) = Eight
    BY DEF IndexesAt, B0ba, B449, C692, D1a7, E2f5
  <2>4. y \notin IndexesAt(E2f5, k)
    BY <1>8, <2>3 DEF Eight, Seven, Six, SessionIndexes, AlertIndexes
  <2>5. y \notin DOMAIN d.indexes
    BY <1>2, <2>4 DEF On
  <2> HIDE DEF y
  <2> QED BY <2>2, <2>5 DEF Asked
<1> QED BY <1>3, <1>4, <1>5, <1>6, <1>7, <1>8

\* While the sessions table is replaced there are no foreign keys.
Loose(r, k, fk) == r = E2f5 /\ k \in 3 .. 5 => fk = FALSE

LEMMA PossibleThere ==
    ASSUME NEW r \in B449 .. E2f5, NEW k \in Nat, k < Len(Way(TRUE, r)),
           NEW d, Stands(r, k, d), Vacant(r, k, d), NEW fk, Loose(r, k, fk)
    PROVE  Possible(Way(TRUE, r)[k + 1], d, fk)
<1> DEFINE s == Way(TRUE, r)
           x == s[k + 1]
<1>1. r \in B0ba .. E2f5
  BY DEF B0ba, B449, E2f5
<1>2. /\ Len(s) = Lengths[r] + 2 /\ k < Len(s) /\ Text(r, s)
      /\ s[Lengths[r] + 1] = SetVersion(r) /\ s[Lengths[r] + 2] = Commit
  BY <1>1, WayText
<1>3. Named(x, DOMAIN d.tables)
  <2>1. Named(x, DOMAIN FormsAt(r, k))
    BY <1>1, WayOnward DEF Onward, Leads
  <2> QED BY <2>1 DEF Stands, Laid
<1> HIDE DEF s
<1>4. Lengths[2] = 4 /\ Lengths[3] = 3 /\ Lengths[4] = 1 /\ Lengths[5] = 11
  BY DEF Lengths
<1>5. r = 2 \/ r = 3 \/ r = 4 \/ r = 5
  BY DEF B449, E2f5
<1>6. Lengths[r] \in Nat
  BY <1>4, <1>5
<1>7. ASSUME k < Lengths[r] PROVE Asked(d, fk, x)
  <2>1. CASE r = 2
    <3>1. TextB449(s) /\ k \in 0 .. 3 /\ r = B449
      BY <1>2, <1>4, <1>7, <2>1 DEF Text, B449
    <3> QED BY <3>1, AskedB449
  <2>2. CASE r = 3
    <3>1. TextC692(s) /\ k \in 0 .. 2 /\ r = C692
      BY <1>2, <1>4, <1>7, <2>2 DEF Text, C692
    <3> QED BY <3>1, AskedC692
  <2>3. CASE r = 4
    <3>1. k = 0 /\ r = D1a7
      BY <1>4, <1>7, <2>3 DEF D1a7
    <3>2. s[1] = CreateIndex("idx_messages_unsessionized", "messages")
      BY <1>2, <3>1 DEF Text
    <3>3. Asked(d, fk, s[1])
      BY <3>1, <3>2, AskedD1a7
    <3> QED BY <3>1, <3>3
  <2>4. CASE r = 5
    <3>1. TextE2f5(s) /\ k \in 0 .. 10 /\ r = E2f5
      BY <1>2, <1>4, <1>7, <2>4 DEF Text, E2f5
    <3>2. k \in 3 .. 5 => ~fk
      BY <3>1 DEF Loose
    <3> QED BY <3>1, <3>2, AskedE2f5
  <2> QED BY <1>5, <2>1, <2>2, <2>3, <2>4
<1>8. ASSUME k >= Lengths[r] PROVE Asked(d, fk, x)
  <2>1. k + 1 = Lengths[r] + 1 \/ k + 1 = Lengths[r] + 2
    BY <1>2, <1>6, <1>8
  <2>2. x = SetVersion(r) \/ x = Commit
    BY <1>2, <2>1
  <2>3. x.op \in {"setVersion", "commit"}
    BY <2>2 DEF SetVersion, Commit
  <2> QED BY <2>3 DEF Asked
<1>9. Asked(d, fk, x)
  BY <1>6, <1>7, <1>8
<1> HIDE DEF x
<1>10. Possible(x, d, fk)
  BY <1>3, <1>9, PossibleIs DEF Asked
<1> QED BY <1>10 DEF x, s

\* A statement that leaves a table alone.
LEMMA LeavesAlone ==
    ASSUME NEW x, x.op \in Operations, NEW d, NEW tables, TablesBehind(x, d, tables),
           NEW t \in DOMAIN d.tables,
           x.op \in {"create", "addColumn", "drop", "replace", "rename"} => x.name # t,
           x.op = "createLike" => Tmp[x.name] # t,
           x.op \in {"copy", "rename"} => x.to # t,
           x.op = "replace" => Tmp[x.name] # t
    PROVE  t \in DOMAIN tables /\ tables[t] = d.tables[t]
<1>1. CASE x.op = "create"
  BY <1>1 DEF TablesBehind, Bind
<1>2. CASE x.op = "createLike"
  BY <1>2 DEF TablesBehind, Bind
<1>3. CASE x.op = "addColumn"
  BY <1>3 DEF TablesBehind, Changed
<1>4. CASE x.op = "copy"
  BY <1>4 DEF TablesBehind, Changed
<1>5. CASE x.op = "drop"
  BY <1>5 DEF TablesBehind, Unbind
<1>6. CASE x.op = "rename"
  BY <1>6 DEF TablesBehind, Bind, Unbind
<1>7. CASE x.op = "replace"
  BY <1>7 DEF TablesBehind, Bind, Unbind
<1>8. CASE x.op \in {"createIndex", "dropIndex", "setVersion", "foreignKeys", "commit"}
  BY <1>8 DEF TablesBehind
<1> QED BY <1>1, <1>2, <1>3, <1>4, <1>5, <1>6, <1>7, <1>8 DEF Operations

LEMMA VacantStep ==
    ASSUME NEW r \in B449 .. E2f5, NEW k \in Nat, k < Len(Way(TRUE, r)),
           NEW d, Stands(r, k, d), Vacant(r, k, d)
    PROVE  Vacant(r, k + 1, Effect(Way(TRUE, r)[k + 1], d))
<1> DEFINE s == Way(TRUE, r)
           x == s[k + 1]
           e == Effect(x, d)
<1>1. r \in B0ba .. E2f5
  BY DEF B0ba, B449, E2f5
<1>2. /\ Len(s) = Lengths[r] + 2 /\ k < Len(s) /\ Text(r, s)
      /\ s[Lengths[r] + 1] = SetVersion(r) /\ s[Lengths[r] + 2] = Commit
  BY <1>1, WayText
<1>3. Named(x, DOMAIN d.tables)
  <2>1. Named(x, DOMAIN FormsAt(r, k))
    BY <1>1, WayOnward DEF Onward, Leads
  <2> QED BY <2>1 DEF Stands, Laid
<1> HIDE DEF s, x
<1>4. x.op \in Operations /\ TablesBehind(x, d, e.tables)
  <2>1. x.op \in Operations
    BY <1>3 DEF Named
  <2>2. /\ x.op = "addColumn" => x.name \in DOMAIN d.tables
        /\ x.op = "copy" => x.to \in DOMAIN d.tables
    BY <1>3 DEF Named
  <2> QED BY <2>1, <2>2, EffectIs DEF Stands
<1> HIDE DEF e
<1>5. Tmp["messages"] \notin DataTables /\ Tmp["sessions"] \notin DataTables
  BY DEF Tmp, DataTables
<1>6. r = B449 => \/ k < 2 /\ x.op \in {"createLike", "copy"} /\ x.name = "messages"
                     /\ (x.op = "copy" => x.to = Tmp["messages"])
                  \/ k = 2 /\ x.op = "replace" /\ x.name = "messages"
                  \/ k > 2 /\ x.op \in {"createIndex", "setVersion", "commit"}
  <2> SUFFICES ASSUME r = B449
               PROVE \/ k < 2 /\ x.op \in {"createLike", "copy"} /\ x.name = "messages"
                        /\ (x.op = "copy" => x.to = Tmp["messages"])
                     \/ k = 2 /\ x.op = "replace" /\ x.name = "messages"
                     \/ k > 2 /\ x.op \in {"createIndex", "setVersion", "commit"}
    OBVIOUS
  <2>1. Lengths[r] = 4
    BY DEF Lengths, B449
  <2>2. k \in 0 .. 5 /\ TextB449(s) /\ s[5] = SetVersion(r) /\ s[6] = Commit
    BY <1>2, <2>1 DEF Text, B449
  <2>3. s[1].op = "createLike" /\ s[1].name = "messages"
        /\ s[2].op = "copy" /\ s[2].name = "messages" /\ s[2].to = Tmp["messages"]
        /\ s[3].op = "replace" /\ s[3].name = "messages" /\ s[4].op = "createIndex"
        /\ s[5].op = "setVersion" /\ s[6].op = "commit"
    BY <2>2 DEF TextB449, Like, Copy, Replace, CreateIndex, SetVersion, Commit
  <2>4. k = 0 \/ k = 1 \/ k = 2 \/ k = 3 \/ k = 4 \/ k = 5
    BY <2>2
  <2> QED BY <2>3, <2>4 DEF x
<1>7. r = C692 /\ k < 2 => /\ x.op \in {"createLike", "copy"} /\ x.name = "sessions"
                           /\ x.op = "copy" => x.to = Tmp["sessions"]
  <2> SUFFICES ASSUME r = C692, k < 2
               PROVE  /\ x.op \in {"createLike", "copy"} /\ x.name = "sessions"
                      /\ x.op = "copy" => x.to = Tmp["sessions"]
    OBVIOUS
  <2>1. TextC692(s)
    BY <1>2 DEF Text
  <2>2. s[1].op = "createLike" /\ s[1].name = "sessions"
        /\ s[2].op = "copy" /\ s[2].name = "sessions" /\ s[2].to = Tmp["sessions"]
    BY <2>1 DEF TextC692, Like, Copy
  <2>3. k = 0 \/ k = 1
    OBVIOUS
  <2> QED BY <2>2, <2>3 DEF x
<1>8. r \in {B449, C692} =>
          {"messages", "sessions", "alerts"} \subseteq DOMAIN d.tables
  <2> DEFINE three == {"messages", "sessions", "alerts"}
             f1 == Forms(MessagesAt1, SessionsAt1)
             f2 == Forms(MessagesAt2, SessionsAt1)
             f3 == Forms(MessagesAt2, SessionsAt3)
             b1 == Bind(f1, Tmp["messages"], MessagesAt2)
             b2 == Bind(f2, Tmp["sessions"], SessionsAt3)
  <2>1. three \subseteq DOMAIN f1 /\ three \subseteq DOMAIN f2 /\ three \subseteq DOMAIN f3
    BY FormsIs DEF Four
  <2>2. three \subseteq DOMAIN b1 /\ three \subseteq DOMAIN b2
    BY <2>1 DEF Bind
  <2> HIDE DEF three, f1, f2, f3, b1, b2
  <2>3. r = B449 => FormsAt(r, k) \in {f1, b1, f2}
    BY DEF FormsAt, B0ba, B449, C692, D1a7, E2f5, f1, b1, f2
  <2>4. r = C692 => FormsAt(r, k) \in {f2, b2, f3}
    BY DEF FormsAt, B0ba, B449, C692, D1a7, E2f5, f2, b2, f3
  <2>5. r \in {B449, C692} => three \subseteq DOMAIN FormsAt(r, k)
    BY <2>1, <2>2, <2>3, <2>4
  <2> QED BY <2>5 DEF Stands, Laid, three
<1>9. ASSUME NEW t \in {"messages", "sessions", "alerts"}, Bare(d, t),
             \/ r = B449 /\ (t = "messages" => k < 2)
             \/ r = C692 /\ k < 2
      PROVE  Bare(e, t)
  <2>1. t \in DOMAIN d.tables /\ Tmp["messages"] # t /\ Tmp["sessions"] # t
    BY <1>5, <1>8, <1>9 DEF DataTables
  <2>2. e.tables[t] = d.tables[t]
    <3>1. /\ x.op \in {"create", "addColumn", "drop", "replace", "rename"} => x.name # t
          /\ x.op = "createLike" => Tmp[x.name] # t
          /\ x.op \in {"copy", "rename"} => x.to # t
          /\ x.op = "replace" => Tmp[x.name] # t
      BY <1>6, <1>7, <1>9, <2>1
    <3> QED BY <1>4, <2>1, <3>1, LeavesAlone
  <2> QED BY <1>9, <2>2 DEF Bare
<1>10. Vacant(r, k + 1, e)
  <2>1. /\ r = B449 \/ (r = C692 /\ k + 1 <= 2) => Bare(d, "sessions")
        /\ r = B449 => Bare(d, "alerts")
        /\ r = B449 /\ k + 1 <= 2 => Bare(d, "messages")
    BY DEF Vacant
  <2>2. r = B449 \/ (r = C692 /\ k + 1 <= 2) => Bare(e, "sessions")
    BY <1>9, <2>1
  <2>3. r = B449 => Bare(e, "alerts")
    BY <1>9, <2>1
  <2>4. r = B449 /\ k + 1 <= 2 => Bare(e, "messages")
    BY <1>9, <2>1
  <2> QED BY <2>2, <2>3, <2>4 DEF Vacant
<1> QED BY <1>10 DEF e, x, s

-----------------------------------------------------------------------------
(* The upgrade of a sound database meets nothing in its way.               *)

Unhindered(f, c, to) ==
    \/ c.todo = <<>>
    \/ \E r \in B449 .. E2f5 : \E k \in Nat :
          /\ Amid(f, c, to, TRUE, r, k)
          /\ Stands(r, k, View(f, c)) /\ Vacant(r, k, View(f, c)) /\ Loose(r, k, c.fk)

LEMMA UnhinderedGoes ==
    ASSUME NEW f, NEW c, NEW to \in Base .. E2f5, Unhindered(f, c, to), c.todo # <<>>
    PROVE  Possible(Head(c.todo), View(f, c), c.fk)
<1>1. PICK r \in B449 .. E2f5 : \E k \in Nat :
          /\ Amid(f, c, to, TRUE, r, k)
          /\ Stands(r, k, View(f, c)) /\ Vacant(r, k, View(f, c)) /\ Loose(r, k, c.fk)
  BY DEF Unhindered
<1>2. PICK k \in Nat :
          /\ Amid(f, c, to, TRUE, r, k)
          /\ Stands(r, k, View(f, c)) /\ Vacant(r, k, View(f, c)) /\ Loose(r, k, c.fk)
  BY <1>1
<1>3. r \in B0ba .. E2f5
  BY DEF B0ba, B449, E2f5
<1>4. Head(c.todo) = Way(TRUE, r)[k + 1]
  BY <1>2, <1>3, NextStatement DEF Ahead
<1>5. k < Len(Way(TRUE, r))
  BY <1>2 DEF Amid
<1>6. Possible(Way(TRUE, r)[k + 1], View(f, c), c.fk)
  BY <1>2, <1>5, PossibleThere
<1> QED BY <1>4, <1>6

\* Foreign keys are off when the sessions table is replaced: no transaction is open
\* when they are turned off.
LEMMA LooseStep ==
    ASSUME NEW f, NEW c, NEW to, NEW r \in B449 .. E2f5, NEW k \in Nat,
           Amid(f, c, to, TRUE, r, k), Loose(r, k, c.fk), NEW m,
           m = After(Way(TRUE, r)[k + 1], Machine(f, c))
    PROVE  Loose(r, k + 1, m.fk)
<1> SUFFICES ASSUME r = E2f5, k + 1 \in 3 .. 5 PROVE m.fk = FALSE
  BY DEF Loose
<1> DEFINE s == Way(TRUE, r)
           x == s[k + 1]
<1>1. TextE2f5(s)
  <2>1. r \in B0ba .. E2f5
    BY DEF B0ba, B449, E2f5
  <2> QED BY <2>1, WayText DEF Text
<1>2. c.tx <=> \E i \in 1 .. k : Begins(s[i])
  BY DEF Amid
<1>3. /\ x.op = "foreignKeys" /\ Machine(f, c).tx = FALSE => m.fk = x.on
      /\ x.op # "foreignKeys" => m.fk = c.fk
  BY DEF After, Machine
<1> HIDE DEF s
<1>4. k = 2 \/ k = 3 \/ k = 4
  OBVIOUS
<1>5. CASE k = 2
  <2>1. ~Begins(s[1]) /\ ~Begins(s[2])
    BY <1>1 DEF TextE2f5, AddColumn, Begins
  <2>2. \A i \in 1 .. k : i = 1 \/ i = 2
    BY <1>5
  <2>3. ~c.tx
    BY <1>2, <2>1, <2>2
  <2>4. Machine(f, c).tx = FALSE
    BY <2>3 DEF Machine
  <2>5. s[3].op = "foreignKeys" /\ s[3].on = FALSE
    BY <1>1 DEF TextE2f5, ForeignKeys
  <2>6. x = s[3]
    BY <1>5
  <2> QED BY <1>3, <2>4, <2>5, <2>6
<1>6. CASE k = 3 \/ k = 4
  <2>1. s[4].op = "create" /\ s[5].op = "copy"
    BY <1>1 DEF TextE2f5, Create, Copy
  <2>2. c.fk = FALSE
    BY <1>6 DEF Loose
  <2>3. x = s[4] \/ x = s[5]
    BY <1>6
  <2>4. x.op # "foreignKeys"
    BY <2>1, <2>3
  <2> QED BY <1>3, <2>2, <2>4
<1> QED BY <1>4, <1>5, <1>6

LEMMA UnhinderedStep ==
    ASSUME NEW f, NEW c, NEW to \in Base .. E2f5, Unhindered(f, c, to), c.todo # <<>>,
           NEW g, NEW cc, Carries(f, c, g, cc),
           Machine(g, cc) = After(Head(c.todo), Machine(f, c))
    PROVE  Unhindered(g, cc, to)
<1>1. PICK r \in B449 .. E2f5 : \E k \in Nat :
          /\ Amid(f, c, to, TRUE, r, k)
          /\ Stands(r, k, View(f, c)) /\ Vacant(r, k, View(f, c)) /\ Loose(r, k, c.fk)
  BY DEF Unhindered
<1>2. PICK k \in Nat :
          /\ Amid(f, c, to, TRUE, r, k)
          /\ Stands(r, k, View(f, c)) /\ Vacant(r, k, View(f, c)) /\ Loose(r, k, c.fk)
  BY <1>1
<1> DEFINE x == Head(c.todo)
           d == View(f, c)
           e == View(g, cc)
<1>3. r \in B0ba .. E2f5
  BY DEF B0ba, B449, E2f5
<1>4. x = Way(TRUE, r)[k + 1] /\ k < Len(Way(TRUE, r))
  BY <1>2, <1>3, NextStatement DEF Ahead, Amid
<1>5. Possible(x, d, c.fk) /\ cc.todo = Tail(c.todo)
  BY DEF Carries
<1>6. e = Effect(x, d) /\ Loose(r, k + 1, cc.fk)
  <2>1. /\ Machine(g, cc).view = e /\ Machine(g, cc).fk = cc.fk
        /\ After(x, Machine(f, c)).view = Effect(x, d)
    BY DEF Machine, After
  <2>2. Loose(r, k + 1, After(x, Machine(f, c)).fk)
    BY <1>2, <1>4, LooseStep
  <2> QED BY <2>1, <2>2
<1>7. Stands(r, k + 1, e) /\ Vacant(r, k + 1, e)
  <2>1. Stands(r, k + 1, Effect(Way(TRUE, r)[k + 1], d))
    BY <1>2, <1>3, <1>4, StandsStep
  <2>2. Vacant(r, k + 1, Effect(Way(TRUE, r)[k + 1], d))
    BY <1>2, <1>4, VacantStep
  <2> QED BY <1>4, <1>6, <2>1, <2>2
<1>8. k + 1 \in Nat
  OBVIOUS
<1>9. CASE ~c.tx /\ ~Begins(x) /\ x.op # "commit" /\ g = Effect(x, f) /\ ~cc.tx
  <2>1. Possible(x, f, c.fk)
    BY <1>5, <1>9 DEF View
  <2>2. Amid(g, cc, to, TRUE, r, k + 1)
    <3>1. Autocommitted(f, g, cc, to, TRUE, r, k)
      BY <1>2, <1>3, <1>5, <1>9, <2>1, AutocommitAmid
    <3> QED BY <3>1 DEF Autocommitted
  <2> QED BY <1>6, <1>7, <1>8, <2>2 DEF Unhindered
<1>10. CASE /\ c.tx \/ Begins(x)
            /\ x.op # "commit" /\ cc.tx /\ cc.view = Effect(x, View(f, c)) /\ g = f
  <2>1. Amid(f, cc, to, TRUE, r, k + 1)
    BY <1>2, <1>3, <1>5, <1>10, InTransactionAmid
  <2> QED BY <1>6, <1>7, <1>8, <1>10, <2>1 DEF Unhindered
<1>11. CASE x.op = "commit" /\ g = View(f, c) /\ ~cc.tx
  <2>1. Committed(f, g, cc, to, TRUE, r)
    BY <1>2, <1>3, <1>5, <1>11, CommitAmid
  <2>2. CASE r < to
    <3>1. r \in B0ba .. D1a7 /\ r + 1 \in B449 .. E2f5 /\ r \in 2 .. 4
      BY <2>2 DEF Base, B0ba, B449, D1a7, E2f5
    <3>2. Amid(g, cc, to, TRUE, r + 1, 0)
      BY <2>1, <2>2 DEF Committed
    <3>3. e = d
      BY <1>11 DEF View
    <3>4. k >= Lengths[r] /\ Lengths[r] \in Nat
      <4> DEFINE s == Way(TRUE, r)
                 safe == Safe(TRUE, r)
                 grow == Grow(TRUE, r)
                 goal == Goal(TRUE, r)
      <4>1. Len(s) = Lengths[r] + 2 /\ s[k + 1].op = "commit" /\ k < Len(s)
        BY <1>3, <1>4, <1>11, WayText
      <4>2. Lengths[r] \in Nat
        BY <3>1 DEF Lengths
      <4>3. safe \in BOOLEAN /\ grow \in BOOLEAN /\ Revision(safe, grow, goal, s)
        BY <1>3, SafeGrow
      <4> HIDE DEF s, safe, grow, goal
      <4>4. s[k + 1].op = "commit" <=> k + 1 = Len(s)
        BY <4>1, <4>3, RevisionFacts
      <4> QED BY <4>1, <4>2, <4>4
    <3>5. Stands(r + 1, 0, d)
      BY <1>2, <3>1, <3>4, <1>3, PlacesBehind DEF Stands
    <3>6. Vacant(r + 1, 0, d)
      BY <1>2, <3>1 DEF Vacant, B449, C692
    <3>7. Loose(r + 1, 0, cc.fk)
      BY DEF Loose
    <3>8. 0 \in Nat
      OBVIOUS
    <3> QED BY <3>1, <3>2, <3>3, <3>5, <3>6, <3>7, <3>8 DEF Unhindered
  <2>3. CASE ~(r < to)
    BY <2>1, <2>3 DEF Committed, Unhindered
  <2> QED BY <2>2, <2>3
<1> QED BY <1>9, <1>10, <1>11 DEF Carries

\* Alembic connects to a sound database, or a copy of it.
LEMMA UnhinderedAtFirst ==
    ASSUME NEW f, IsDatabase(f), Sound(f), NoCells(f), f.version # Base,
           NEW to \in Base .. E2f5, NEW c, ~c.tx, c.todo = UpgradePath(f.version, to)
    PROVE  Unhindered(f, c, to)
<1>1. CASE f.version < to
  <2> DEFINE r == f.version + 1
  <2>1. Amid(f, c, to, TRUE, r, 0)
    BY <1>1, BeforeUpgrade
  <2>2. f.version \in B0ba .. D1a7 /\ r \in B449 .. E2f5
    BY <1>1 DEF IsDatabase, Base, B0ba, B449, D1a7, E2f5
  <2>3. View(f, c) = f
    BY DEF View
  <2>4. Stands(r, 0, f) /\ Vacant(r, 0, f)
    BY <2>2, SoundIsVacant
  <2>5. Loose(r, 0, c.fk)
    BY DEF Loose
  <2>6. 0 \in Nat
    OBVIOUS
  <2> HIDE DEF r
  <2> QED BY <2>1, <2>2, <2>3, <2>4, <2>5, <2>6 DEF Unhindered
<1>2. CASE ~(f.version < to)
  BY <1>2, BeforeUpgrade DEF Unhindered
<1> QED BY <1>1, <1>2

-----------------------------------------------------------------------------
(* Nothing is ever written to cells.                                       *)

SparesCells(x) ==
    /\ x.op = "create" /\ x.name = "cells" => x.table.rows = <<>>
    /\ x.op \in {"addColumn", "replace"} => x.name # "cells"
    /\ x.op \in {"createLike", "replace"} => Tmp[x.name] # "cells"
    /\ x.op \in {"copy", "rename"} => x.to # "cells"

LEMMA RevisionsSpareCells ==
    ASSUME NEW up \in BOOLEAN, NEW r \in B0ba .. E2f5, NEW k \in Nat, k < Len(Way(up, r))
    PROVE  SparesCells(Way(up, r)[k + 1])
<1> DEFINE s == Way(up, r)
           x == s[k + 1]
           grow == Grow(up, r)
           safe == Safe(up, r)
           goal == Goal(up, r)
<1>1. safe \in BOOLEAN /\ grow \in BOOLEAN /\ Revision(safe, grow, goal, s)
  BY SafeGrow
<1>2. AllShape(up, r, s)
  BY WayShape
<1>3. up /\ r = B0ba => TextB0ba(s) /\ Len(s) = 12 /\ s[11] = SetVersion(r) /\ s[12] = Commit
  <2> SUFFICES ASSUME up, r = B0ba
               PROVE  TextB0ba(s) /\ Len(s) = 12 /\ s[11] = SetVersion(r) /\ s[12] = Commit
    OBVIOUS
  <2>1. Lengths[r] = 10
    BY DEF Lengths, B0ba
  <2>2. /\ Len(Way(TRUE, r)) = Lengths[r] + 2 /\ Text(r, Way(TRUE, r))
        /\ Way(TRUE, r)[Lengths[r] + 1] = SetVersion(r) /\ Way(TRUE, r)[Lengths[r] + 2] = Commit
    BY WayText
  <2>3. s = Way(TRUE, r)
    OBVIOUS
  <2> HIDE DEF s
  <2>4. Text(r, s) /\ Len(s) = Lengths[r] + 2
        /\ s[Lengths[r] + 1] = SetVersion(r) /\ s[Lengths[r] + 2] = Commit
    BY <2>2, <2>3
  <2>5. TextB0ba(s)
    BY <2>4 DEF Text
  <2>6. Lengths[r] + 2 = 12 /\ Lengths[r] + 1 = 11
    BY <2>1
  <2> QED BY <2>4, <2>5, <2>6
<1> HIDE DEF s, safe, grow, goal
<1>4. \A j \in 1 .. Len(s) : InPlace(safe, grow, s, j) /\ Shapes(up, r, s[j])
  BY <1>1, <1>2 DEF Revision, Orderly, AllShape
<1>5. Len(s) \in Nat /\ k < Len(s) /\ k + 1 \in 1 .. Len(s)
  <2>1. Len(s) \in Nat
    BY <1>2 DEF AllShape, IsSequence
  <2>2. k < Len(s)
    BY DEF s
  <2> QED BY <2>1, <2>2
<1>6. Tmp["messages"] # "cells" /\ Tmp["sessions"] # "cells"
  BY DEF Tmp
<1>7. ASSUME NEW j \in 1 .. Len(s), s[j].op = "copy"
      PROVE  s[j].name \in DataTables /\ s[j].to # "cells"
  <2>1. /\ j > 1 /\ s[j].name \in DataTables
        /\ \/ s[j - 1].op = "create" /\ s[j - 1].name = s[j].to
           \/ /\ s[j - 1].op = "createLike" /\ s[j - 1].name = s[j].name
              /\ Tmp[s[j].name] = s[j].to
    BY <1>4, <1>7 DEF InPlace
  <2>2. r # B0ba
    BY <1>4, <1>7 DEF Shapes
  <2>3. j - 1 \in 1 .. Len(s)
    BY <1>5, <2>1
  <2>4. s[j - 1].op = "create" => s[j - 1].name = "sessions_new"
    BY <1>4, <2>2, <2>3 DEF Shapes
  <2>5. s[j - 1].op = "createLike" => s[j - 1].name \in {"messages", "sessions"}
    BY <1>4, <2>3 DEF InPlace
  <2> QED BY <1>6, <2>1, <2>4, <2>5
<1>8. ASSUME x.op = "create", x.name = "cells" PROVE x.table.rows = <<>>
  <2>1. up /\ r = B0ba
    BY <1>4, <1>5, <1>8 DEF Shapes
  <2>0. k < 12
    BY <1>3, <1>5, <2>1
  <2>3. /\ s[1].table.rows = <<>>
        /\ s[2].name = "sessions" /\ s[3].name = "messages" /\ s[4].name = "alerts"
        /\ s[5].op = "createIndex" /\ s[6].op = "createIndex" /\ s[7].op = "createIndex"
        /\ s[8].op = "createIndex" /\ s[9].op = "createIndex" /\ s[10].op = "createIndex"
    BY <1>3, <2>1 DEF TextB0ba, Create, CreateIndex, CellsForm, Table
  <2>4. s[11].op = "setVersion" /\ s[12].op = "commit"
    BY <1>3, <2>1 DEF SetVersion, Commit
  <2>5. s[2].name # "cells" /\ s[3].name # "cells" /\ s[4].name # "cells"
    BY <2>3
  <2>6. \A j \in 5 .. 12 : s[j].op # "create"
    <3>1. \A j \in 5 .. 12 : \/ j = 5 \/ j = 6 \/ j = 7 \/ j = 8 \/ j = 9 \/ j = 10
                             \/ j = 11 \/ j = 12
      OBVIOUS
    <3> QED BY <2>3, <2>4, <3>1
  <2>7. k = 0 \/ k = 1 \/ k = 2 \/ k = 3 \/ k + 1 \in 5 .. 12
    BY <2>0
  <2>8. x.table = s[1].table
    BY <1>8, <2>5, <2>6, <2>7
  <2> QED BY <2>3, <2>8
<1>9. x.op = "addColumn" => x.name # "cells"
  BY <1>4, <1>5 DEF Shapes
<1>10. x.op = "createLike" => Tmp[x.name] # "cells"
  BY <1>4, <1>5, <1>6 DEF InPlace
<1>11. ASSUME x.op = "replace" PROVE x.name # "cells" /\ Tmp[x.name] # "cells"
  <2>1. /\ k + 1 > 1 /\ s[(k + 1) - 1].op = "copy" /\ s[(k + 1) - 1].name = x.name
        /\ s[(k + 1) - 1].to = Tmp[x.name]
    BY <1>4, <1>5, <1>11 DEF InPlace
  <2>2. (k + 1) - 1 \in 1 .. Len(s)
    BY <1>5, <2>1
  <2>3. s[(k + 1) - 1].name \in DataTables /\ s[(k + 1) - 1].to # "cells"
    BY <1>7, <2>1, <2>2
  <2> QED BY <2>1, <2>3 DEF DataTables
<1>12. x.op = "copy" => x.to # "cells"
  BY <1>5, <1>7
<1>13. x.op = "rename" => x.to # "cells"
  BY <1>4, <1>5 DEF Shapes
<1>14. SparesCells(x)
  BY <1>8, <1>9, <1>10, <1>11, <1>12, <1>13 DEF SparesCells
<1> QED BY <1>14 DEF s

LEMMA CellsStay ==
    ASSUME NEW x, x.op \in Operations, SparesCells(x), NEW d, NEW e, NoCells(d),
           TablesBehind(x, d, e.tables)
    PROVE  NoCells(e)
<1> SUFFICES ASSUME "cells" \in DOMAIN e.tables PROVE e.tables["cells"].rows = <<>>
  BY DEF NoCells, Has
<1>1. "cells" \in DOMAIN d.tables => d.tables["cells"].rows = <<>>
  BY DEF NoCells, Has
<1>2. CASE x.op = "create"
  <2>1. CASE x.name = "cells"
    BY <1>2, <2>1 DEF TablesBehind, SparesCells, Bind
  <2>2. CASE x.name # "cells"
    BY <1>1, <1>2, <2>2 DEF TablesBehind, Bind
  <2> QED BY <2>1, <2>2
<1>3. CASE x.op = "createLike"
  BY <1>1, <1>3 DEF TablesBehind, SparesCells, Bind
<1>4. CASE x.op = "addColumn"
  BY <1>1, <1>4 DEF TablesBehind, SparesCells, Changed
<1>5. CASE x.op = "copy"
  BY <1>1, <1>5 DEF TablesBehind, SparesCells, Changed
<1>6. CASE x.op = "drop"
  BY <1>1, <1>6 DEF TablesBehind, Unbind
<1>7. CASE x.op = "rename"
  <2>1. x.to # "cells" /\ e.tables = Unbind(Bind(d.tables, x.to, d.tables[x.name]), {x.name})
    BY <1>7 DEF TablesBehind, SparesCells
  <2>2. "cells" \in DOMAIN d.tables /\ e.tables["cells"] = d.tables["cells"]
    BY <2>1 DEF Bind, Unbind
  <2> QED BY <1>1, <2>2
<1>8. CASE x.op = "replace"
  <2>1. /\ x.name # "cells" /\ Tmp[x.name] # "cells"
        /\ e.tables = Unbind(Bind(d.tables, x.name, d.tables[Tmp[x.name]]), {Tmp[x.name]})
    BY <1>8 DEF TablesBehind, SparesCells
  <2>2. "cells" \in DOMAIN d.tables /\ e.tables["cells"] = d.tables["cells"]
    BY <2>1 DEF Bind, Unbind
  <2> QED BY <1>1, <2>2
<1>9. CASE x.op \in {"createIndex", "dropIndex", "setVersion", "foreignKeys", "commit"}
  BY <1>1, <1>9 DEF TablesBehind
<1> QED BY <1>2, <1>3, <1>4, <1>5, <1>6, <1>7, <1>8, <1>9 DEF Operations

\* A statement of alembic, wherever it is carried out.
LEMMA CarriesNoCells ==
    ASSUME NEW up \in BOOLEAN, NEW r \in B0ba .. E2f5, NEW k \in Nat, NEW f, NEW c,
           NEW to \in Base .. E2f5, Amid(f, c, to, up, r, k), c.todo # <<>>,
           NEW g, NEW cc, Carries(f, c, g, cc),
           Machine(g, cc) = After(Head(c.todo), Machine(f, c)),
           NoCells(f), NoCells(View(f, c))
    PROVE  NoCells(g) /\ NoCells(View(g, cc))
<1> DEFINE x == Head(c.todo)
           d == View(f, c)
           e == View(g, cc)
<1>1. x = Way(up, r)[k + 1] /\ k < Len(Way(up, r))
  BY NextStatement DEF Ahead, Amid
<1>2. SparesCells(x) /\ x.op \in Operations
  <2>1. /\ Safe(up, r) \in BOOLEAN /\ Grow(up, r) \in BOOLEAN
        /\ Revision(Safe(up, r), Grow(up, r), Goal(up, r), Way(up, r))
    BY SafeGrow
  <2>2. Way(up, r)[k + 1].op \in Operations
    <3> DEFINE s == Way(up, r)
               safe == Safe(up, r)
               grow == Grow(up, r)
               goal == Goal(up, r)
    <3>1. safe \in BOOLEAN /\ grow \in BOOLEAN /\ Revision(safe, grow, goal, s) /\ k < Len(s)
      BY <1>1, <2>1
    <3> HIDE DEF s, safe, grow, goal
    <3>2. s[k + 1].op \in Operations
      BY <3>1, RevisionFacts
    <3> QED BY <3>2 DEF s
  <2> QED BY <1>1, <2>2, RevisionsSpareCells
<1>3. IsDatabase(d) /\ Possible(x, d, c.fk)
  BY DEF Amid, Carries
<1>4. e = Effect(x, d)
  BY DEF Machine, After
<1>5. TablesBehind(x, d, e.tables)
  <2>1. Inside(f, c, to, up, r, k)
    BY <1>3, InRevision
  <2> QED BY <1>1, <1>4, <2>1 DEF Inside
<1>6. NoCells(e)
  <2> HIDE DEF x, d, e
  <2> QED BY <1>2, <1>5, CellsStay DEF d
<1>7. CASE ~c.tx /\ g = Effect(x, f)
  <2>1. d = f
    BY <1>7 DEF View
  <2> QED BY <1>4, <1>6, <1>7, <2>1
<1>8. CASE g = f
  BY <1>6, <1>8
<1>9. CASE g = d
  BY <1>6, <1>9
<1> QED BY <1>7, <1>8, <1>9 DEF Carries

LEMMA WithRowsCells ==
    ASSUME NEW d, NEW name, name # "cells", NEW rows, NoCells(d)
    PROVE  NoCells(WithRows(d, name, rows))
BY DEF NoCells, Has, WithRows, Bind

LEMMA UsersCells ==
    ASSUME Control, Sniff \/ Detect, NoCells(files[Real]) PROVE NoCells(files'[Real])
<1> DEFINE d == files[Real]
<1>1. CASE Sniff
  <2>1. PICK rows : files' = [files EXCEPT ![Real] = WithRows(d, "messages", rows)]
    BY <1>1 DEF Sniff, Insert
  <2>2. files'[Real] = WithRows(d, "messages", rows)
    BY <2>1 DEF Control, Files
  <2> QED BY <2>2, WithRowsCells
<1>2. CASE Detect
  <2>1. PICK m \in DOMAIN d.tables["messages"].rows,
             sid \in NewIds(d, "sessions"), aid \in NewIds(d, "alerts") :
            LET row     == d.tables["messages"].rows[m]
                session == Insert(d, "sessions", sid,
                                  [cell_id |-> row["cell_id"], plmn |-> row["plmn"]])
            IN  /\ row["session_id"] = None
                /\ files' = [files EXCEPT ![Real] =
                       Insert(Assign(session, m, sid), "alerts", aid,
                              [session_id |-> sid, trigger_message_id |-> m])]
    BY <1>2 DEF Detect
  <2> DEFINE row == d.tables["messages"].rows[m]
             s   == Insert(d, "sessions", sid,
                           [cell_id |-> row["cell_id"], plmn |-> row["plmn"]])
             a   == Assign(s, m, sid)
             f   == Insert(a, "alerts", aid, [session_id |-> sid, trigger_message_id |-> m])
  <2>2. f = files'[Real]
    BY <2>1 DEF Control, Files
  <2>3. NoCells(s)
    BY WithRowsCells DEF Insert
  <2> HIDE DEF s
  <2>4. NoCells(a)
    BY <2>3, WithRowsCells DEF Assign
  <2> HIDE DEF a
  <2>5. NoCells(f)
    BY <2>4, WithRowsCells DEF Insert
  <2> QED BY <2>2, <2>5
<1> QED BY <1>1, <1>2

-----------------------------------------------------------------------------
(* Below E2f5 neither sniffer nor detector writes: plmn is missing.        *)

LEMMA SoundBelow ==
    ASSUME NEW d, IsDatabase(d), Sound(d), d.version < E2f5
    PROVE  ~Known(d, "messages", SnifferColumns)
<1> DEFINE v == d.version
           F == FormsAt(v + 1, 0)
<1>1. v \in 0 .. 4
  BY DEF IsDatabase, Base, E2f5
<1>2. Stands(v + 1, 0, d)
  BY SoundStands DEF Complete
<1>3. DOMAIN d.tables = DOMAIN F /\ \A n \in DOMAIN F : Form(d.tables[n]) = F[n]
  BY <1>2 DEF Stands, Laid
<1> HIDE DEF v
<1>4. CASE v = 0
  <2>1. DOMAIN Empty.tables = DOMAIN FormsAt(B0ba, 0)
    BY EmptyStands DEF Stands, Laid
  <2>2. DOMAIN Empty.tables = {} /\ v + 1 = B0ba
    BY <1>4 DEF Empty, B0ba
  <2>3. "messages" \notin DOMAIN F
    BY <2>1, <2>2
  <2> QED BY <1>3, <2>3 DEF Known, Has
<1>5. CASE v \in 1 .. 4
  <2> DEFINE g1 == Forms(MessagesAt1, SessionsAt1)
             g2 == Forms(MessagesAt2, SessionsAt1)
             g3 == Forms(MessagesAt2, SessionsAt3)
  <2>1. /\ "messages" \in DOMAIN g1 /\ g1["messages"] = MessagesAt1
        /\ "messages" \in DOMAIN g2 /\ g2["messages"] = MessagesAt2
        /\ "messages" \in DOMAIN g3 /\ g3["messages"] = MessagesAt2
    BY FormsIs DEF Four
  <2> HIDE DEF g1, g2, g3
  <2>2. F \in {g1, g2, g3}
    <3>1. v = 1 \/ v = 2 \/ v = 3 \/ v = 4
      BY <1>5
    <3> QED BY <3>1 DEF FormsAt, B0ba, B449, C692, D1a7, E2f5, g1, g2, g3
  <2> HIDE DEF F
  <2>3. "messages" \in DOMAIN F /\ F["messages"] \in {MessagesAt1, MessagesAt2}
    BY <2>1, <2>2
  <2>4. Form(d.tables["messages"]) \in {MessagesAt1, MessagesAt2}
    BY <1>3, <2>3
  <2>5. "plmn" \notin d.tables["messages"].cols
    <3>1. Form(d.tables["messages"]).cols = d.tables["messages"].cols
      BY DEF Form, Table
    <3>2. "plmn" \notin MessagesAt1.cols /\ "plmn" \notin MessagesAt2.cols
      BY DEF MessagesAt1, MessagesAt2, MessagesForm, Table
    <3> HIDE DEF v
    <3> QED BY <2>4, <3>1, <3>2
  <2> QED BY <2>5 DEF Known, SnifferColumns
<1> QED BY <1>1, <1>4, <1>5

-----------------------------------------------------------------------------
(* What holds at every moment, so that an upgrade of a sound database      *)
(* succeeds: nobody has written to it below E2f5, and its cells are empty. *)

Early == {"rmtree", "dump", "commit", "seed", "compare"}

SInv ==
    /\ NoCells(files[Real])
    /\ Connected /\ conn.file = Real => NoCells(View(files[Real], conn))
    /\ pc \in Early /\ Sound(start) /\ start.version < E2f5 =>
           files[Real] = start /\ (pc = "compare" => files[Trial] = start)
    /\ pc = "rehearsal" /\ Sound(start) => Unhindered(files[Trial], conn, target)

LEMMA InitSInv == Init => SInv
<1> SUFFICES ASSUME Init PROVE SInv
  OBVIOUS
<1>1. PICK d \in Contents : files = [f \in {Real, Trial} |-> IF f = Real THEN d ELSE Empty]
  BY DEF Init
<1>2. NoCells(files[Real])
  BY <1>1, ContentsAssumption
<1>3. View(files[Real], conn) = files[Real] /\ pc = "idle"
  BY DEF Init, NoConn, View
<1> QED BY <1>2, <1>3 DEF SInv, Early

LEMMA StepStaysSound == ASSUME Control, CInv, SInv, Step PROVE SInv'
<1>1. /\ Execute /\ pc' = pc /\ target' = target /\ start' = start /\ conn'.file = conn.file
      /\ \A f \in Files \ {conn.file} : files'[f] = files[f]
  BY ExecuteTouches DEF Step, script
<1>2. conn.file = FileAt(pc) /\ conn.file # None /\ conn.todo # <<>> /\ Real # Trial
  BY <1>1 DEF Control, Execute, Connected, Real, Trial
<1>3. /\ Carries(files[conn.file], conn, files'[conn.file], conn')
      /\ Machine(files'[conn.file], conn') = After(Head(conn.todo), Machine(files[conn.file], conn))
  BY <1>1, ExecuteCarries, ExecuteMachine
<1>4. target \in Base .. E2f5 /\ pc \notin Early
  BY <1>2 DEF CInv, Types, FileAt, Early
<1>5. CASE pc = "rehearsal"
  <2>1. conn.file = Trial /\ files'[Real] = files[Real]
    BY <1>1, <1>2, <1>5 DEF FileAt, Files
  <2>2. ASSUME Sound(start) PROVE Unhindered(files'[Trial], conn', target)
    <3>1. Unhindered(files[Trial], conn, target)
      BY <1>5, <2>2 DEF SInv
    <3> QED BY <1>2, <1>3, <1>4, <2>1, <3>1, UnhinderedStep
  <2> QED BY <1>1, <1>2, <1>4, <1>5, <2>1, <2>2 DEF SInv
<1>6. CASE pc # "rehearsal"
  <2>1. conn.file = Real
    BY <1>2, <1>6 DEF FileAt
  <2>2. PICK up \in BOOLEAN : \E r \in B0ba .. E2f5 : \E k \in Nat :
            Amid(files[Real], conn, target, up, r, k)
    BY <1>2, <2>1 DEF CInv, Connection, Connected, Arrived, Underway
  <2>3. PICK r \in B0ba .. E2f5 : \E k \in Nat : Amid(files[Real], conn, target, up, r, k)
    BY <2>2
  <2>4. PICK k \in Nat : Amid(files[Real], conn, target, up, r, k)
    BY <2>3
  <2>5. NoCells(files[Real]) /\ NoCells(View(files[Real], conn))
    BY <1>2, <2>1 DEF SInv, Connected
  <2>6. NoCells(files'[Real]) /\ NoCells(View(files'[Real], conn'))
    BY <1>2, <1>3, <1>4, <2>1, <2>4, <2>5, CarriesNoCells
  <2> QED BY <1>1, <1>4, <1>6, <2>6 DEF SInv
<1> QED BY <1>5, <1>6

LEMMA UsersStaySound == ASSUME Control, CInv, SInv, Sniff \/ Detect PROVE SInv'
<1>1. /\ Free /\ conn' = conn /\ pc' = pc /\ target' = target /\ start' = start
      /\ files'[Trial] = files[Trial] /\ Known(files[Real], "messages", SnifferColumns)
  <2>1. Real # Trial
    BY DEF Real, Trial
  <2> QED BY <2>1 DEF Sniff, Detect, script, Control, Files
<1>2. NoCells(files'[Real])
  BY UsersCells DEF SInv
<1>3. Connected /\ conn.file = Real => NoCells(View(files'[Real], conn))
  BY <1>1, <1>2 DEF Free, View
<1>4. ASSUME pc \in Early, Sound(start), start.version < E2f5 PROVE FALSE
  <2>1. files[Real] = start /\ IsDatabase(files[Real])
    BY <1>4 DEF SInv, CInv, Types
  <2>2. ~Known(start, "messages", SnifferColumns)
    BY <1>4, <2>1, SoundBelow
  <2> QED BY <1>1, <2>1, <2>2
<1>5. pc = "rehearsal" /\ Sound(start) => Unhindered(files'[Trial], conn, target)
  BY <1>1 DEF SInv
<1> QED BY <1>1, <1>2, <1>3, <1>4, <1>5 DEF SInv, Connected

\* Alembic connects to the copy.
LEMMA RehearseUnhindered ==
    ASSUME Control, CInv, SInv, Rehearse, Sound(start)
    PROVE  Unhindered(files'[Trial], conn', target')
<1>1. /\ pc = "compare" /\ files' = files /\ target' = target /\ ~conn'.tx
      /\ files[Real].version # Base /\ files[Trial].version = files[Real].version
      /\ conn'.todo = UpgradePath(files[Trial].version, target)
  BY DEF Rehearse, At, Goes, Connect, NoConn, Version, Opens
<1>2. /\ target \in Base .. E2f5 /\ start.version \in Base .. E2f5
      /\ IsDatabase(files[Real]) /\ IsDatabase(files[Trial])
      /\ files[Real].version = start.version
  BY <1>1 DEF CInv, Types, Since, Kept, Adds
<1>3. CASE start.version < E2f5
  <2>1. files[Real] = start /\ files[Trial] = start /\ NoCells(files[Real])
    BY <1>1, <1>3 DEF SInv, Early
  <2>2. Unhindered(files[Trial], conn', target)
    BY <1>1, <1>2, <2>1, UnhinderedAtFirst
  <2> QED BY <1>1, <2>2
<1>4. CASE ~(start.version < E2f5)
  <2>1. target <= files[Trial].version /\ files[Trial].version \in Base .. E2f5
    BY <1>1, <1>2, <1>4 DEF Base, E2f5
  <2>2. conn'.todo = <<>>
    BY <1>1, <1>2, <2>1, UpgradeParts
  <2> QED BY <2>2 DEF Unhindered
<1> QED BY <1>3, <1>4

LEMMA SInvHolds == Control /\ CInv /\ SInv /\ [Next]_vars => SInv'
<1> SUFFICES ASSUME Control, CInv, SInv, [Next]_vars PROVE SInv'
  OBVIOUS
<1>1. Real # Trial /\ NoCells(files[Real])
  BY DEF Real, Trial, SInv
<1>2. ASSUME files'[Real] = files[Real], conn'.file = None \/ ~conn'.tx,
             pc' \notin Early, pc' # "rehearsal"
      PROVE  SInv'
  BY <1>1, <1>2 DEF SInv, View, Connected
<1>3. CASE Step
  BY <1>3, StepStaysSound
<1>4. CASE Sniff \/ Detect
  BY <1>4, UsersStaySound
<1>5. CASE Begin
  <2>1. start' = files[Real] /\ files' = files /\ pc' = "rmtree" /\ conn' = conn /\ pc = "idle"
    BY <1>5 DEF Begin
  <2>2. conn.file = None
    BY <2>1 DEF Control, FileAt
  <2> QED BY <1>1, <2>1, <2>2 DEF SInv, Connected
<1>6. CASE RemoveDump \/ Dump \/ CommitDump
  <2>1. /\ files' = files /\ conn' = conn /\ start' = start
        /\ pc \in Early /\ pc' \in {"dump", "commit", "seed"}
    BY <1>6 DEF RemoveDump, Dump, CommitDump, At, Goes, Early
  <2> QED BY <1>1, <2>1 DEF SInv, Connected
<1>7. CASE Seed
  <2>1. /\ pc = "seed" /\ pc' = "compare" /\ files'[Real] = files[Real]
        /\ files'[Trial] = files[Real] /\ conn' = conn /\ start' = start
    BY <1>1, <1>7 DEF Seed, At, Goes, Control, Files
  <2>2. conn.file = None
    BY <2>1 DEF Control, FileAt
  <2> QED BY <1>1, <2>1, <2>2 DEF SInv, Connected, Early
<1>8. CASE Rehearse
  <2>1. /\ pc' = "rehearsal" /\ files' = files /\ conn'.file = Trial /\ start' = start
    BY <1>8 DEF Rehearse, Goes, Connect, NoConn, Opens
  <2>2. Sound(start') => Unhindered(files'[Trial], conn', target')
    BY <1>8, <2>1, RehearseUnhindered
  <2> QED BY <1>1, <2>1, <2>2 DEF SInv, Early
<1>9. CASE Apply
  <2>1. pc' = "upgrade" /\ files'[Real] = files[Real] /\ ~conn'.tx
    BY <1>1, <1>9 DEF Apply, Goes, Connect, NoConn, Control, Files
  <2> QED BY <1>2, <2>1 DEF Early
<1>10. CASE Refuse \/ Stop
  <2>1. pc' = "idle" /\ files'[Real] = files[Real] /\ (conn'.file = None \/ ~conn'.tx)
    <3>1. CASE Refuse
      BY <1>1, <3>1 DEF Refuse, Ends, Control, Files, At, FileAt
    <3>2. CASE Stop
      BY <1>1, <3>2 DEF Stop, Ends, Control, Files, NoConn
    <3> QED BY <1>10, <3>1, <3>2
  <2> QED BY <1>2, <2>1 DEF Early
<1>11. CASE Confirm \/ UpgradeFails \/ AlembicEnds
  <2>1. pc' = "idle" /\ files' = files /\ ~conn'.tx
    BY <1>11 DEF Confirm, UpgradeFails, AlembicEnds, Ends, NoConn
  <2> QED BY <1>2, <2>1 DEF Early
<1>12. CASE AlembicByHand
  <2>1. pc' = "hand" /\ files' = files /\ ~conn'.tx
    BY <1>12 DEF AlembicByHand, Connect, NoConn
  <2> QED BY <1>2, <2>1 DEF Early
<1>13. CASE NothingToCommit \/ CleanTree
  <2>1. pc' = "idle" /\ files' = files /\ conn' = conn /\ pc \in {"commit", "idle"}
    BY <1>13 DEF NothingToCommit, CleanTree, At, Ends
  <2>2. conn.file = None
    BY <2>1 DEF Control, FileAt
  <2> QED BY <1>1, <2>1, <2>2 DEF SInv, Connected, Early
<1>14. CASE UNCHANGED vars
  BY <1>14 DEF vars, script, SInv, Connected
<1> QED BY <1>3, <1>4, <1>5, <1>6, <1>7, <1>8, <1>9, <1>10, <1>11, <1>12, <1>13, <1>14 DEF Next

LEMMA SInvAlways == Spec => []SInv
<1>1. Init => SInv
  BY InitSInv
<1>2. Control /\ CInv /\ SInv /\ [Next]_vars => SInv'
  BY SInvHolds
<1> QED BY <1>1, <1>2, CInvAlways, PTL DEF Spec

\* No upgrade of a database with the tables its revision has, in which every
\* reference leads to a row, meets a constraint, a name that is taken or a reference
\* in its way, whatever its rows are and whoever writes to it meanwhile: alembic
\* refuses a statement only where the database was not sound when the script began.
THEOREM SoundUpgradesAlwaysSucceed == Spec => []SoundUpgradesSucceed
<1>1. CInv /\ Control /\ SInv /\ RehearsalPredicts => SoundUpgradesSucceed
  <2> SUFFICES ASSUME CInv, Control, SInv, RehearsalPredicts,
                      pc \in {"rehearsal", "upgrade"}, Refused, Sound(start)
               PROVE  FALSE
    BY DEF SoundUpgradesSucceed
  <2>1. pc = "rehearsal"
    BY DEF RehearsalPredicts
  <2>2. /\ conn.todo # <<>> /\ conn.file = Trial /\ target \in Base .. E2f5
        /\ ~Possible(Head(conn.todo), View(files[Trial], conn), conn.fk)
    BY <2>1 DEF CInv, Types, Control, FileAt, Refused, Statement, Content, View
  <2>3. Unhindered(files[Trial], conn, target)
    BY <2>1 DEF SInv
  <2> QED BY <2>2, <2>3, UnhinderedGoes
<1> QED BY <1>1, CInvAlways, SInvAlways, RehearsalAlwaysPredicts, PTL
=============================================================================
