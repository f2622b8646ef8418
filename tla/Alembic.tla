------------------------------ MODULE Alembic -------------------------------
(***************************************************************************)
(* One alembic process at a time, statement by statement, on one of        *)
(* several database files.  Python's sqlite3 opens a transaction before    *)
(* the first INSERT or UPDATE only, so the statements before it are        *)
(* committed one by one; a PRAGMA foreign_keys has no effect while a       *)
(* transaction is open; a process that ends otherwise than by COMMIT       *)
(* leaves in the file what was committed.                                  *)
(***************************************************************************)
EXTENDS Schema

VARIABLES
    files,   \* the database files by name; one that is not there counts as Empty
    conn     \* the connection of the alembic process

NoConn == [file |-> None, todo |-> <<>>, tx |-> FALSE, view |-> Empty, fk |-> TRUE]

\* env.py: the url, then foreign keys on for the new connection.
Connect(file, path) ==
    conn' = [NoConn EXCEPT !.file = file, !.todo = path]

Connected == conn.file # None

\* What the connection sees.
Content == IF conn.tx THEN conn.view ELSE files[conn.file]

Statement == Head(conn.todo)

MBegins(s) == s.op \in {"setVersion"}

\* The statements before which a transaction is opened.
Begins(s) == s.op \in {"copy", "setVersion"}

Refused ==
    /\ Connected /\ conn.todo # <<>>
    /\ ~Possible(Statement, Content, conn.fk)

\* A statement outside of any transaction: it is in the file at once.
Autocommit ==
    /\ ~conn.tx /\ ~Begins(Statement) /\ Statement.op # "commit"
    /\ files' = [files EXCEPT ![conn.file] = Effect(Statement, @)]
    /\ conn' = [conn EXCEPT !.todo = Tail(@),
                            !.fk = IF Statement.op = "foreignKeys"
                                   THEN Statement.on ELSE @]

InTransaction ==
    /\ conn.tx \/ Begins(Statement)
    /\ Statement.op # "commit"
    /\ conn' = [conn EXCEPT !.todo = Tail(@), !.tx = TRUE,
                            !.view = Effect(Statement, Content)]
    /\ UNCHANGED files

CommitRevision ==
    /\ Statement.op = "commit"
    /\ files' = [files EXCEPT ![conn.file] = Content]
    /\ conn' = [conn EXCEPT !.todo = Tail(@), !.tx = FALSE, !.view = Empty]

\* The next statement of a revision.
Execute ==
    /\ Connected /\ conn.todo # <<>>
    /\ Possible(Statement, Content, conn.fk)
    /\ Autocommit \/ InTransaction \/ CommitRevision

\* All revisions are done.
Finished == Connected /\ conn.todo = <<>>
=============================================================================
