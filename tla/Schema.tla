------------------------------- MODULE Schema -------------------------------
(***************************************************************************)
(* The revisions of alembic/versions as what they are: lists of SQL        *)
(* statements.  A database has tables, the indexes on them (each with the  *)
(* name of its table) and the revision in alembic_version.  A table has    *)
(* columns, those that refuse NULL, those that refer to the rows of        *)
(* another table, and rows; the id of a row is its position.  Kept are the *)
(* columns that may be NULL, refer to something, or come and go with a     *)
(* revision.                                                               *)
(***************************************************************************)
EXTENDS Integers, Sequences

CONSTANT None   \* SQL NULL

ASSUME NullAssumption == None \notin Int

\* The revisions in their order, behind the empty database.
Base == 0
B0ba == 1
B449 == 2
C692 == 3
D1a7 == 4
E2f5 == 5

Empty == [version |-> Base, tables |-> <<>>, indexes |-> <<>>]

Table(cols, notNull, refs) ==
    [cols |-> cols, notNull |-> notNull, refs |-> refs, rows |-> <<>>]

\* The same table, or the same database, with other rows.
TableWith(t, rows) ==
    [cols |-> t.cols, notNull |-> t.notNull, refs |-> t.refs, rows |-> rows]

\* Its rows have an id and a value for each column.
IsTable(t) ==
    /\ t = [cols |-> t.cols, notNull |-> t.notNull, refs |-> t.refs, rows |-> t.rows]
    /\ DOMAIN t.rows \subseteq Nat
    /\ t.rows = [i \in DOMAIN t.rows |-> [c \in t.cols |-> t.rows[i][c]]]

IsDatabase(d) ==
    /\ d = [version |-> d.version, tables |-> d.tables, indexes |-> d.indexes]
    /\ d.version \in Base .. E2f5
    /\ d.tables = [t \in DOMAIN d.tables |-> d.tables[t]]
    /\ \A t \in DOMAIN d.tables : IsTable(d.tables[t])

Has(d, name) == name \in DOMAIN d.tables

Bind(f, k, v) == [x \in DOMAIN f \cup {k} |-> IF x = k THEN v ELSE f[x]]
Unbind(f, K) == [x \in DOMAIN f \ K |-> f[x]]

WithRows(d, name, rows) ==
    [version |-> d.version, indexes |-> d.indexes,
     tables |-> Bind(d.tables, name, TableWith(d.tables[name], rows))]

-----------------------------------------------------------------------------
(* Statements                                                              *)

Create(name, table)      == [op |-> "create", name |-> name, table |-> table]
AddColumn(name, col)     == [op |-> "addColumn", name |-> name, col |-> col]
Copy(name, to)           == [op |-> "copy", name |-> name, to |-> to]
Drop(name)               == [op |-> "drop", name |-> name]
Rename(name, to)         == [op |-> "rename", name |-> name, to |-> to]
CreateIndex(index, name) == [op |-> "createIndex", index |-> index, name |-> name]
DropIndex(index)         == [op |-> "dropIndex", index |-> index]
ForeignKeys(on)          == [op |-> "foreignKeys", on |-> on]
SetVersion(revision)     == [op |-> "setVersion", revision |-> revision]
Commit                   == [op |-> "commit"]

Tmp == [messages |-> "_alembic_tmp_messages", sessions |-> "_alembic_tmp_sessions"]

\* batch_alter_table when it has to rebuild the table: the new form is made from
\* the one that is found, and the indexes are created again.
Batch(name, dropped, added, nullable, notNull) ==
    <<[op |-> "createLike", name |-> name, dropped |-> dropped, added |-> added,
       nullable |-> nullable, notNull |-> notNull],
      Copy(name, Tmp[name]),
      [op |-> "replace", name |-> name]>>

Altered(t, s) ==
    Table((t.cols \ s.dropped) \cup s.added, (t.notNull \ s.nullable) \cup s.notNull,
          t.refs)

\* ADD COLUMN, which is NULL in every row there is.
Widened(t, col) ==
    [cols |-> t.cols \cup {col}, notNull |-> t.notNull, refs |-> t.refs,
     rows |-> [i \in DOMAIN t.rows |-> Bind(t.rows[i], col, None)]]

\* Some row of another table refers to a row of this one.
Referenced(d, name) ==
    \E t \in DOMAIN d.tables \ {name} :
        \E c \in DOMAIN d.tables[t].refs, i \in DOMAIN d.tables[t].rows :
            /\ d.tables[t].refs[c] = name
            /\ d.tables[t].rows[i][c] \in DOMAIN d.tables[name].rows

Copied(d, name, to) ==
    LET old == d.tables[name]
    IN  [i \in DOMAIN old.rows |->
            [c \in d.tables[to].cols |-> IF c \in old.cols THEN old.rows[i][c] ELSE None]]

\* Constraints on the rows that are copied.
Fits(d, fk, name, to) ==
    \A i \in DOMAIN Copied(d, name, to) : \A c \in d.tables[to].cols :
        LET v == Copied(d, name, to)[i][c]
        IN  /\ c \in d.tables[to].notNull => v # None
            /\ (fk /\ c \in DOMAIN d.tables[to].refs /\ v # None) =>
                   /\ Has(d, d.tables[to].refs[c])
                   /\ v \in DOMAIN d.tables[d.tables[to].refs[c]].rows

\* Whether SQLite carries out a statement, with foreign keys enforced or not.
Possible(s, d, fk) ==
    CASE s.op = "create"      -> ~Has(d, s.name)
      [] s.op = "createLike"  -> Has(d, s.name) /\ ~Has(d, Tmp[s.name])
      [] s.op = "addColumn"   -> Has(d, s.name) /\ s.col \notin d.tables[s.name].cols
      [] s.op = "copy"        -> Has(d, s.name) /\ Fits(d, fk, s.name, s.to)
      [] s.op \in {"drop", "replace"} ->
             Has(d, s.name) /\ (fk => ~Referenced(d, s.name))
      [] s.op = "rename"      -> ~Has(d, s.to)
      [] s.op = "createIndex" -> Has(d, s.name) /\ s.index \notin DOMAIN d.indexes
      [] s.op = "dropIndex"   -> s.index \in DOMAIN d.indexes
      [] OTHER                -> TRUE

Effect(s, d) ==
    CASE s.op = "create" -> [d EXCEPT !.tables = Bind(@, s.name, s.table)]
      [] s.op = "createLike" ->
             [d EXCEPT !.tables = Bind(@, Tmp[s.name], Altered(@[s.name], s))]
      [] s.op = "addColumn" ->
             [d EXCEPT !.tables[s.name] = Widened(@, s.col)]
      [] s.op = "copy" ->
             [d EXCEPT !.tables[s.to].rows = Copied(d, s.name, s.to)]
      [] s.op = "drop" ->
             [d EXCEPT !.tables = Unbind(@, {s.name}),
                       !.indexes = Unbind(@, {x \in DOMAIN @ : @[x] = s.name})]
      [] s.op = "rename" ->
             [d EXCEPT !.tables = Unbind(Bind(@, s.to, @[s.name]), {s.name})]
      [] s.op = "replace" ->
             [d EXCEPT !.tables = Unbind(Bind(@, s.name, @[Tmp[s.name]]), {Tmp[s.name]})]
      [] s.op = "createIndex" -> [d EXCEPT !.indexes = Bind(@, s.index, s.name)]
      [] s.op = "dropIndex" -> [d EXCEPT !.indexes = Unbind(@, {s.index})]
      [] s.op = "setVersion" -> [d EXCEPT !.version = s.revision]
      [] OTHER -> d

-----------------------------------------------------------------------------
(* The revisions                                                           *)

InitialTables ==
    <<Create("cells", Table({"plmn"}, {"plmn"}, <<>>)),
      Create("sessions", Table({"cell_id"}, {"cell_id"}, [cell_id |-> "cells"])),
      Create("messages", Table({"session_id"}, {"session_id"},
                               [session_id |-> "sessions"])),
      Create("alerts", Table({"session_id", "trigger_message_id"}, {"session_id"},
                             [session_id |-> "sessions",
                              trigger_message_id |-> "messages"]))>>

InitialIndexes ==
    <<CreateIndex("idx_messages_session_ts", "messages"),
      CreateIndex("idx_messages_session_type", "messages"),
      CreateIndex("idx_sessions_cell", "sessions"),
      CreateIndex("idx_sessions_started_at", "sessions"),
      CreateIndex("idx_alerts_session", "alerts"),
      CreateIndex("idx_alerts_rule", "alerts")>>

MSessionsNew(cols, refs) ==
    <<Create("sessions_new", Table(cols, {}, refs)),
      Copy("sessions", "sessions_new"),
      Drop("sessions"),
      Rename("sessions_new", "sessions"),
      CreateIndex("idx_sessions_cell", "sessions"),
      CreateIndex("idx_sessions_started_at", "sessions")>>

\* The sessions table built by hand: with or without plmn, and with or without
\* the reference to cells.  sessions had two indexes.
SessionsNew(cols, refs) ==
    <<ForeignKeys(FALSE),
      Create("sessions_new", Table(cols, {}, refs)),
      Copy("sessions", "sessions_new"),
      Drop("sessions"),
      Rename("sessions_new", "sessions"),
      CreateIndex("idx_sessions_cell", "sessions"),
      CreateIndex("idx_sessions_started_at", "sessions"),
      ForeignKeys(TRUE)>>

\* b0ba: the tables, and all of them away again.
UpgradeB0ba == InitialTables \o InitialIndexes

DowngradeB0ba ==
    <<DropIndex("idx_alerts_rule"), DropIndex("idx_alerts_session"),
      DropIndex("idx_sessions_started_at"), DropIndex("idx_sessions_cell"),
      DropIndex("idx_messages_session_type"), DropIndex("idx_messages_session_ts"),
      Drop("alerts"), Drop("messages"), Drop("sessions"), Drop("cells")>>

\* b449: messages without a session, and the S1AP ids.
UpgradeB449 ==
    Batch("messages", {}, {"enb_ue_s1ap_id", "mme_ue_s1ap_id"}, {"session_id"}, {})
    \o <<CreateIndex("idx_messages_enb_ue_s1ap_id", "messages")>>

DowngradeB449 ==
    <<DropIndex("idx_messages_enb_ue_s1ap_id")>>
    \o Batch("messages", {"mme_ue_s1ap_id", "enb_ue_s1ap_id"}, {}, {}, {"session_id"})

\* c692: sessions without a cell.
UpgradeC692 == Batch("sessions", {}, {}, {"cell_id"}, {})
DowngradeC692 == Batch("sessions", {}, {}, {}, {"cell_id"})

\* d1a7: the index that the detector's SELECT reads.
UpgradeD1a7 == <<CreateIndex("idx_messages_unsessionized", "messages")>>
DowngradeD1a7 == <<DropIndex("idx_messages_unsessionized")>>

\* e2f5: the cell identity in both tables.
UpgradeE2f5 ==
    <<AddColumn("messages", "plmn"), AddColumn("messages", "cell_id")>>
    \o SessionsNew({"cell_id", "plmn"}, <<>>)
    \o <<CreateIndex("idx_messages_cell_enb_ue_s1ap_id", "messages")>>

DowngradeE2f5 ==
    <<DropIndex("idx_messages_cell_enb_ue_s1ap_id")>>
    \o SessionsNew({"cell_id"}, [cell_id |-> "cells"])
    \o Batch("messages", {"cell_id", "plmn"}, {}, {}, {})

Upgrade == <<UpgradeB0ba, UpgradeB449, UpgradeC692, UpgradeD1a7, UpgradeE2f5>>
Downgrade == <<DowngradeB0ba, DowngradeB449, DowngradeC692, DowngradeD1a7, DowngradeE2f5>>

\* Each revision ends with its new version and a COMMIT.
StepUp(r) == Upgrade[r] \o <<SetVersion(r), Commit>>

MStepDown(r) == Downgrade[r] \o <<Commit, SetVersion(r - 1), Commit>>

StepDown(r) == Downgrade[r] \o <<SetVersion(r - 1), Commit>>

\* alembic upgrade, which goes forward or nowhere, and alembic downgrade.
UpgradePath(from, to) ==
    LET Done(r) == IF from < r /\ r <= to THEN StepUp(r) ELSE <<>>
    IN  Done(B0ba) \o Done(B449) \o Done(C692) \o Done(D1a7) \o Done(E2f5)
DowngradePath(from, to) ==
    LET Undone(r) == IF to < r /\ r <= from THEN StepDown(r) ELSE <<>>
    IN  Undone(E2f5) \o Undone(D1a7) \o Undone(C692) \o Undone(B449) \o Undone(B0ba)

-----------------------------------------------------------------------------
(* What may be said of the content of a database, or of two                *)

\* What tells the revisions apart in the tables that sniffers and detectors use.
MessagesAt(revision, t) ==
    /\ "session_id" \in t.cols
    /\ t.notNull \subseteq {"session_id"} /\ DOMAIN t.refs \subseteq {"session_id"}
    /\ IF revision < B449 THEN "enb_ue_s1ap_id" \notin t.cols
       ELSE {"enb_ue_s1ap_id", "mme_ue_s1ap_id"} \subseteq t.cols /\ t.notNull = {}
    /\ revision = E2f5 => {"plmn", "cell_id"} \subseteq t.cols

SessionsAt(revision, t) ==
    IF revision = E2f5
    THEN {"plmn", "cell_id"} \subseteq t.cols /\ t.notNull = {} /\ t.refs = <<>>
    ELSE "plmn" \notin t.cols

\* The tables that are there are those of the revision.
OfRevision(d) ==
    /\ Has(d, "messages") => MessagesAt(d.version, d.tables["messages"])
    /\ Has(d, "sessions") => SessionsAt(d.version, d.tables["sessions"])
    /\ Has(d, "alerts") =>
           {"session_id", "trigger_message_id"} \subseteq d.tables["alerts"].cols
    /\ d.version = E2f5 => Has(d, "messages") /\ Has(d, "sessions")

DataTables == {"messages", "sessions", "alerts"}

\* e has every row of d with the values it had, but for what was NULL, in the
\* columns both know.
Keeps(d, e) ==
    \A t \in DataTables \cap DOMAIN d.tables :
        /\ Has(e, t)
        /\ \A i \in DOMAIN d.tables[t].rows :
              /\ i \in DOMAIN e.tables[t].rows
              /\ \A c \in d.tables[t].cols \cap e.tables[t].cols :
                    d.tables[t].rows[i][c] \in {None, e.tables[t].rows[i][c]}

\* d can be restored from a dump.
Restores(dump, d) == dump.version = d.version /\ Keeps(d, dump)

\* What statements make of a database, one after the other.
Performed(path, d) ==
    LET after[n \in 0 .. Len(path)] ==
            IF n = 0 THEN d ELSE Effect(path[n], after[n - 1])
    IN  after[Len(path)]

\* What the revisions up to one make of an empty database.
Built(revision) == Performed(UpgradePath(Base, revision), Empty)
=============================================================================
