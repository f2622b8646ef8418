------------------------------ MODULE Messages ------------------------------
(***************************************************************************)
(* The rows of the `messages` table: what the sniffer writes and what the  *)
(* detector reads.  A message_id is the position of the row in the table   *)
(* (AUTOINCREMENT, rows are never deleted).  Only the columns the detector *)
(* tests are kept.  A timestamp is a number: the text the sniffer writes   *)
(* has a fixed width, so the ORDER BY of the text, the parsed datetime and *)
(* the text written back all agree with the order of the numbers.          *)
(***************************************************************************)
EXTENDS Integers, Sequences

CONSTANTS
    None,        \* SQL NULL and Python None
    Plmn, Cell,  \* what identifies a cell: operator and 28-bit cell identity
    Enb, Mme     \* the two UE identifiers of S1AP

ASSUME NoneAssumption ==
    None \notin Plmn \cup Cell \cup Enb \cup Mme \cup Nat

\* The message types a decision depends on; Other is every type none of the
\* engine's and the rules' tests mentions (IdentityRequest, AttachComplete...).
NasTypes == {"AttachRequest", "AttachAccept", "AuthenticationRequest",
             "AuthenticationResponse", "AuthenticationFailure",
             "SecurityModeCommand", "DetachRequest", "Other"}

Identities == {"IMSI", "GUTI", "NULL"}

Row == [ts       : Nat,
        type     : NasTypes,
        identity : Identities,
        enb      : Enb \cup {None},
        mme      : Mme \cup {None},
        plmn     : Plmn \cup {None},
        cell     : Cell \cup {None}]

\* ORDER BY ts, message_id.
Before(table, m, n) ==
    \/ table[m].ts < table[n].ts
    \/ table[m].ts = table[n].ts /\ m < n
=============================================================================
