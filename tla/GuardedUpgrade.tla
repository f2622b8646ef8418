--------------------------- MODULE GuardedUpgrade ---------------------------
(***************************************************************************)
(* What scripts/migrate.py promises about a database: while it runs, the   *)
(* schema and the rows that were there are touched only when history holds *)
(* a dump of all that the database held when the script was started.       *)
(* Whoever uses the database meanwhile only adds to it.                    *)
(***************************************************************************)
EXTENDS Schema

VARIABLES
    content,   \* of the database
    running,   \* whether the script is
    start,     \* the content when it was started
    saved      \* the dump in history

gvars == <<content, running, start, saved>>

GInit == ~running

Use ==
    /\ content'.version = content.version
    /\ Keeps(content, content')
    /\ UNCHANGED <<running, start, saved>>

Start ==
    /\ ~running /\ running'
    /\ start' = content
    /\ UNCHANGED <<content, saved>>

Save == running /\ Restores(saved', start) /\ UNCHANGED <<content, running, start>>

Change == running /\ Restores(saved, start) /\ UNCHANGED <<running, start, saved>>

\* The operator at work with alembic or git.
ByHand == ~running /\ ~running'

End == running /\ ~running' /\ UNCHANGED <<content, saved>>

GNext == Use \/ Start \/ Save \/ Change \/ ByHand \/ End

GSpec == GInit /\ [][GNext]_gvars
=============================================================================
