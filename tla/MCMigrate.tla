----------------------------- MODULE MCMigrate ------------------------------
(***************************************************************************)
(* Small instances of Migrate.                                             *)
(***************************************************************************)
EXTENDS Migrate

\* db_dump/ of the repository, one message of it: revision C692 with rows of the
\* time, a session without a cell, and a table left by a failed downgrade.
Sample ==
    [Built(C692) EXCEPT
        !.tables["messages"].rows =
            <<[session_id |-> 1, enb_ue_s1ap_id |-> 1, mme_ue_s1ap_id |-> None]>>,
        !.tables["sessions"].rows = <<[cell_id |-> None]>>,
        !.tables["alerts"].rows = <<[session_id |-> 1, trigger_message_id |-> 1]>>]

LeftOver ==
    [Sample EXCEPT !.tables = Bind(@, Tmp["sessions"],
        Table({"cell_id"}, {"cell_id"}, [cell_id |-> "cells"]))]

\* As a sniffer of its time left it: a message without a session, and no cells.
Legacy ==
    [Built(B449) EXCEPT
        !.tables["messages"].rows =
            <<[session_id |-> None, enb_ue_s1ap_id |-> 1, mme_ue_s1ap_id |-> None]>>]

SampleContents == {Empty, Sample, LeftOver, Legacy, Built(E2f5)}
=============================================================================
