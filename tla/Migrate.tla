------------------------------ MODULE Migrate -------------------------------
(***************************************************************************)
(* scripts/migrate.py: dump the database, commit the dump to git, rehearse *)
(* the upgrade on a throwaway copy, upgrade the database.  Each step is an *)
(* external command; the script may be stopped between any two, and so may *)
(* alembic between two statements.  Sniffers and detectors write to the    *)
(* database meanwhile, and between two runs of the script the operator     *)
(* uses git and alembic.                                                   *)
(***************************************************************************)
EXTENDS Alembic

CONSTANTS
    Contents,               \* what the database holds at first
    Cells,                  \* of the messages a sniffer writes
    MaxRows, MaxStops, MaxRuns, MaxByHand   \* bounds

\* A database that alembic has made and, since e2f5 knows it, whose table cells has
\* never been populated.
NoCells(d) == Has(d, "cells") => d.tables["cells"].rows = <<>>

ASSUME ContentsAssumption ==
    \A d \in Contents : IsDatabase(d) /\ OfRevision(d) /\ NoCells(d)

VARIABLES
    pc,       \* the command the script is at
    target,   \* its second argument
    dump,     \* db_dump/ in the working tree, Empty when it is not there: git
              \* knows no empty directories
    head,     \* db_dump/ in the last commit
    start,    \* the database when the script was started
    reached,  \* dry_run_head
    exit,     \* how the last run ended
    stops, runs, byHand   \* counters for the bounds

script == <<pc, target, dump, head, start, reached, exit>>
vars == <<files, conn, script, stops, runs, byHand>>

Real == "real"
Trial == "trial"   \* .migtest.db

\* LTE_ROGUE_DB left out: the url of alembic.ini, which is the database to migrate.
MOpens(file) == Real

\* The file that alembic opens.
Opens(file) == file

Version(file) == files[Opens(file)].version

\* sqlite-diffable dumps tables with their rows, and no indexes.
Dumped(d) == [version |-> d.version, tables |-> d.tables, indexes |-> <<>>]

Init ==
    /\ \E d \in Contents : files = [f \in {Real, Trial} |-> IF f = Real THEN d ELSE Empty]
    /\ conn = NoConn
    /\ head \in {Dumped(d) : d \in Contents} /\ dump = head
    /\ pc = "idle" /\ target = Base /\ start = Empty /\ reached = Base
    /\ exit = None
    /\ stops = 0 /\ runs = 0 /\ byHand = 0

-----------------------------------------------------------------------------
(* The script                                                              *)

Ends(code) ==
    /\ pc' = "idle" /\ exit' = code
    /\ target' = Base /\ start' = Empty /\ reached' = Base

At(label) == pc = label /\ UNCHANGED <<stops, runs, byHand>>

Goes(label) == pc' = label /\ UNCHANGED <<target, start, exit>>

\* git status --porcelain says nothing.
Begin ==
    /\ pc = "idle"
    /\ dump = head
    /\ runs < MaxRuns /\ runs' = runs + 1
    /\ target' \in B0ba .. E2f5
    /\ start' = files[Real]
    /\ exit' = None
    /\ pc' = "rmtree"
    /\ UNCHANGED <<files, conn, dump, head, reached, stops, byHand>>

RemoveDump ==
    /\ At("rmtree") /\ Goes("dump")
    /\ dump' = Empty
    /\ UNCHANGED <<files, conn, head, reached>>

Dump ==
    /\ At("dump") /\ Goes("commit")
    /\ dump' = Dumped(files[Real])
    /\ UNCHANGED <<files, conn, head, reached>>

MCommitDump ==
    /\ At("commit") /\ Goes("seed")
    /\ dump # head
    /\ UNCHANGED <<files, conn, dump, head, reached>>

\* git add and git commit.
CommitDump ==
    /\ At("commit") /\ Goes("seed")
    /\ dump # head
    /\ head' = dump
    /\ UNCHANGED <<files, conn, dump, reached>>

\* git commit has nothing to commit, which is an error.
NothingToCommit ==
    /\ At("commit") /\ dump = head
    /\ Ends("raised")
    /\ UNCHANGED <<files, conn, dump, head>>

\* sqlite3 .dump, read back into a new .migtest.db.
Seed ==
    /\ At("seed") /\ Goes("compare")
    /\ files' = [files EXCEPT ![Trial] = files[Real]]
    /\ UNCHANGED <<conn, dump, head, reached>>

\* The real database has no revision, or the copy another one.
Refuse ==
    /\ At("compare")
    /\ Version(Real) = Base \/ Version(Trial) # Version(Real)
    /\ files' = [files EXCEPT ![Trial] = Empty]
    /\ Ends("refused")
    /\ UNCHANGED <<conn, dump, head>>

Rehearse ==
    /\ At("compare") /\ Goes("rehearsal")
    /\ Version(Real) # Base /\ Version(Trial) = Version(Real)
    /\ Connect(Opens(Trial), UpgradePath(Version(Trial), target))
    /\ UNCHANGED <<files, dump, head, reached>>

\* The rehearsal is over: its revision is kept, the copy is not.
Apply ==
    /\ At("rehearsal") /\ Goes("upgrade")
    /\ Finished
    /\ reached' = Version(Trial)
    /\ files' = [files EXCEPT ![Trial] = Empty]
    /\ Connect(Opens(Real), UpgradePath(Version(Real), target))
    /\ UNCHANGED <<dump, head>>

Confirm ==
    /\ At("upgrade")
    /\ Finished
    /\ conn' = NoConn
    /\ Ends(IF Version(Real) = reached THEN "done" ELSE "diverged")
    /\ UNCHANGED <<files, dump, head>>

MUpgradeFails ==
    /\ pc \in {"rehearsal", "upgrade"} /\ Refused
    /\ conn' = [NoConn EXCEPT !.file = conn.file]
    /\ UNCHANGED <<files, script, stops, runs, byHand>>

\* A statement fails: alembic rolls back, and its exit code ends the script.
UpgradeFails ==
    /\ pc \in {"rehearsal", "upgrade"} /\ Refused
    /\ conn' = NoConn
    /\ Ends("raised")
    /\ UNCHANGED <<files, dump, head, stops, runs, byHand>>

\* A statement of alembic, whoever runs it.
Step ==
    /\ Execute
    /\ UNCHANGED <<script, stops, runs, byHand>>

MStop ==
    /\ pc # "idle"
    /\ stops < MaxStops /\ stops' = stops + 1
    /\ Ends("raised")
    /\ UNCHANGED <<files, conn, dump, head, runs, byHand>>

Parts(d) == {Empty, [Empty EXCEPT !.version = d.version]}

\* The script is killed, or a command fails for a reason of its own; alembic goes
\* with it.  Of a dump or a copy that was being written there is the version at
\* most.
Stop ==
    /\ pc # "idle"
    /\ stops < MaxStops /\ stops' = stops + 1
    /\ conn' = NoConn
    /\ Ends("raised")
    /\ dump' \in IF pc = "dump" THEN Parts(files[Real]) ELSE {dump}
    /\ \E copy \in IF pc = "seed" THEN Parts(files[Real]) ELSE {files[Trial]} :
          files' = [files EXCEPT ![Trial] = copy]
    /\ UNCHANGED <<head, runs, byHand>>

-----------------------------------------------------------------------------
(* The operator                                                            *)

\* Stash or check out, or commit.
CleanTree ==
    /\ pc = "idle" /\ dump # head
    /\ \/ dump' = head /\ UNCHANGED head
       \/ head' = dump /\ UNCHANGED dump
    /\ UNCHANGED <<files, conn, pc, target, start, reached, exit, stops, runs, byHand>>

AlembicByHand ==
    /\ pc = "idle"
    /\ byHand < MaxByHand /\ byHand' = byHand + 1
    /\ \E to \in Base .. E2f5 :
          /\ target' = to
          /\ \E path \in {UpgradePath(Version(Real), to), DowngradePath(Version(Real), to)} :
                path # <<>> /\ Connect(Real, path)
    /\ pc' = "hand"
    /\ UNCHANGED <<files, dump, head, start, reached, exit, stops, runs>>

AlembicEnds ==
    /\ At("hand")
    /\ Finished \/ Refused
    /\ conn' = NoConn
    /\ Ends(IF Finished THEN "done" ELSE "raised")
    /\ UNCHANGED <<files, dump, head>>

-----------------------------------------------------------------------------
(* The users of the database.  Each writes in one transaction of its own,  *)
(* which it cannot while alembic has one open, and needs the columns that  *)
(* its statements name.                                                    *)

Free == ~(conn.file = Real /\ conn.tx)

Known(d, name, cols) == Has(d, name) /\ cols \subseteq d.tables[name].cols

Row(d, name, values) ==
    [c \in d.tables[name].cols |-> IF c \in DOMAIN values THEN values[c] ELSE None]

\* The id that the next row gets: no row is ever deleted.
NewIds(d, name) == (1 .. Len(d.tables[name].rows) + 1) \ DOMAIN d.tables[name].rows

Insert(d, name, id, values) ==
    WithRows(d, name, Bind(d.tables[name].rows, id, Row(d, name, values)))

\* UPDATE messages SET session_id
Assign(d, m, sid) ==
    LET t == d.tables["messages"]
    IN  WithRows(d, "messages",
                 Bind(t.rows, m, [c \in t.cols |-> IF c = "session_id" THEN sid
                                                  ELSE t.rows[m][c]]))

SnifferColumns == {"session_id", "enb_ue_s1ap_id", "mme_ue_s1ap_id", "plmn", "cell_id"}

Sniff ==
    /\ Free
    /\ LET d == files[Real]
       IN  /\ Known(d, "messages", SnifferColumns)
           /\ "session_id" \notin d.tables["messages"].notNull
           /\ Len(d.tables["messages"].rows) < MaxRows
           /\ \E cell \in Cells, id \in NewIds(d, "messages") :
                 files' = [files EXCEPT ![Real] =
                     Insert(d, "messages", id,
                            [enb_ue_s1ap_id |-> 1, plmn |-> cell, cell_id |-> cell])]
    /\ UNCHANGED <<conn, script, stops, runs, byHand>>

\* A pass that finds one message, opens a session for it and raises an alert.
Detect ==
    /\ Free
    /\ LET d == files[Real]
       IN  /\ Known(d, "messages", SnifferColumns)
           /\ Known(d, "sessions", {"plmn", "cell_id"})
           /\ Known(d, "alerts", {"session_id", "trigger_message_id"})
           /\ \E m \in DOMAIN d.tables["messages"].rows,
                 sid \in NewIds(d, "sessions"), aid \in NewIds(d, "alerts") :
                 LET row     == d.tables["messages"].rows[m]
                     session == Insert(d, "sessions", sid,
                                       [cell_id |-> row["cell_id"], plmn |-> row["plmn"]])
                 IN  /\ row["session_id"] = None
                     /\ files' = [files EXCEPT ![Real] =
                            Insert(Assign(session, m, sid), "alerts", aid,
                                   [session_id |-> sid, trigger_message_id |-> m])]
    /\ UNCHANGED <<conn, script, stops, runs, byHand>>

Next ==
    \/ Begin \/ RemoveDump \/ Dump \/ CommitDump \/ NothingToCommit \/ Seed
    \/ Refuse \/ Rehearse \/ Apply \/ Confirm \/ UpgradeFails \/ Step \/ Stop
    \/ CleanTree \/ AlembicByHand \/ AlembicEnds
    \/ Sniff \/ Detect

Spec == Init /\ [][Next]_vars

-----------------------------------------------------------------------------
(* Properties                                                              *)

MigrateTypeOK ==
    /\ pc \in {"idle", "rmtree", "dump", "commit", "seed", "compare", "rehearsal",
               "upgrade", "hand"}
    /\ DOMAIN files = {Real, Trial}
    /\ \A f \in DOMAIN files : IsDatabase(files[f])
    /\ conn.file = CASE pc = "rehearsal" -> Trial
                     [] pc \in {"upgrade", "hand"} -> Real
                     [] OTHER -> None
    /\ target \in Base .. E2f5 /\ reached \in Base .. E2f5
    /\ exit \in {None, "done", "raised", "refused", "diverged"}

\* The script implements the guarded upgrade: whenever the schema of the database
\* or a row of it changes under the script, the last commit holds a dump with
\* which all that the database held when the script was started can be restored.
Guarded == INSTANCE GuardedUpgrade
               WITH content <- files[Real], running <- pc \notin {"idle", "hand"},
                    saved <- head

GuardedSpec == Guarded!GSpec

\* No revision, finished, refused or killed at any statement, by the script or by
\* hand, loses a row, an assignment or an alert: but for the way back to nothing,
\* every content the file ever has keeps the one before.
RowsSurvive ==
    [][(pc = "hand" /\ target = Base) \/ Keeps(files[Real], files'[Real])]_vars

\* What the sniffer's INSERT and the detector's statements name.
Usable(d) ==
    /\ Known(d, "messages", SnifferColumns) /\ d.tables["messages"].notNull = {}
    /\ Known(d, "sessions", {"plmn", "cell_id"}) /\ d.tables["sessions"].notNull = {}
    /\ d.tables["sessions"].refs = <<>>
    /\ Known(d, "alerts", {"session_id", "trigger_message_id"})

\* A file that says it is at the head revision can be written by sniffer and
\* detector, whenever a revision on the way there or back was killed.  (One that
\* has lost alerts to a killed downgrade to nothing reaches the head without it:
\* no later revision names that table.)
HeadIsUsable ==
    files[Real].version = E2f5 /\ Has(files[Real], "alerts") => Usable(files[Real])

Shape(d) ==
    [indexes |-> d.indexes,
     tables |-> [t \in DOMAIN d.tables |-> [d.tables[t] EXCEPT !.rows = <<>>]]]

\* The schema is the one its revision has, and every reference leads to a row.
Sound(d) ==
    /\ Shape(d) = Shape(Built(d.version))
    /\ \A t \in DOMAIN d.tables :
          Fits([d EXCEPT !.tables = Bind(@, "copy", Shape(d).tables[t])], TRUE, t, "copy")

\* An upgrade from a sound database never meets a constraint, a name that is
\* taken or a reference in its way, whatever rows there are: if the script's
\* alembic fails, the database was not sound when the script was started.
SoundUpgradesSucceed ==
    pc \in {"rehearsal", "upgrade"} /\ Refused => ~Sound(start)

\* What the rehearsal is for: the upgrade of the database itself never fails,
\* although its users go on writing and however earlier runs were killed; what
\* would stop it stops the rehearsal.
RehearsalPredicts == pc = "upgrade" => ~Refused

\* A run that ends well has brought the database to its target, if it was not
\* beyond it, and has kept all it held.
DoneMeansMigrated ==
    [][pc = "upgrade" /\ pc' = "idle" /\ exit' = "done" =>
          /\ files'[Real].version =
                 IF target > start.version THEN target ELSE start.version
          /\ Keeps(start, files'[Real])]_vars

\* The rehearsal never touches the database: while it goes on only its users write
\* there.  (The script's own test, that both files report one revision, would not
\* notice.)
RehearsalIsApart ==
    [][pc = "rehearsal" => files'[Real] = files[Real] \/ UNCHANGED conn]_vars
=============================================================================
