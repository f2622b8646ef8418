------------------------------ MODULE Pipeline ------------------------------
(***************************************************************************)
(* Sniffers and detectors as processes over one SQLite file, each with its *)
(* own connection, in the default rollback-journal mode.  SQLite is        *)
(* modelled by its locks: `lock` is the writer's (RESERVED) lock, taken by *)
(* the first INSERT of a transaction; a process that reads holds a SHARED  *)
(* lock, and a COMMIT must wait until nobody does.  Python's connection    *)
(* waits five seconds for a lock, the sniffer's not at all.                *)
(***************************************************************************)
EXTENDS Pass

CONSTANTS
    Detectors, Sniffers,  \* the processes
    CaptureOf,            \* the rows that each sniffer's pcap file holds
    MaxMessages,          \* bound on the rows that the captures hold together
    MaxFailures,          \* bound on crashes and lock time-outs
    MaxReadErrors         \* bound on capture files that cannot be read to the end

ASSUME CaptureAssumption ==
    \A s \in Sniffers :
        /\ CaptureOf[s] \in Seq(Row)
        /\ \A n \in 0 .. Len(CaptureOf[s]) : SubSeq(CaptureOf[s], 1, n) \in Captures
ASSUME ProcessAssumption ==
    None \notin Sniffers \cup Detectors /\ Sniffers \cap Detectors = {}
ASSUME BoundAssumption ==
    MaxMessages \in Nat /\ MaxFailures \in Nat /\ MaxReadErrors \in Nat

VARIABLES
    lock,      \* who holds the write lock, or None
    detector,  \* where each detector is in its run
    selected,  \* the rows each detector has read as unassigned
    sniffer,   \* whether each sniffer runs, and how it ended
    written,   \* how many rows of its capture each sniffer has inserted
    failures,  \* how many processes were lost so far
    readErrors \* how many captures were cut short so far

snifferVars == <<sniffer, written, readErrors>>
detectorVars == <<detector, selected>>

vars == <<storeVars, lock, snifferVars, detectorVars, failures>>

\* Who holds a SHARED lock: fetchall of the pass, or of the alert listing.
Readers == {d \in Detectors : detector[d] \in {"selecting", "printing"}}

Init ==
    /\ StoreInit
    /\ lock = None
    /\ detector = [d \in Detectors |-> "idle"]
    /\ selected = [d \in Detectors |-> {}]
    /\ sniffer = [s \in Sniffers |-> "running"]
    /\ written = [s \in Sniffers |-> 0]
    /\ failures = 0 /\ readErrors = 0

SomethingFails ==
    failures < MaxFailures /\ failures' = failures + 1

Release(p) == lock' = IF lock = p THEN None ELSE lock

-----------------------------------------------------------------------------
(* Sniffers                                                                *)

\* The loop over the records is over: the file ended, or pcap_next_ex failed,
\* which the loop takes for the end.
AtEnd(s) ==
    \/ sniffer[s] = "running" /\ written[s] = Len(CaptureOf[s])
    \/ sniffer[s] = "cut short"

MHasNext(s) == sniffer[s] = "running"

HasNext(s) == sniffer[s] = "running" /\ written[s] < Len(CaptureOf[s])

Ends(s, how) == sniffer' = [sniffer EXCEPT ![s] = how]

\* insert_message: the first one of the transaction takes the write lock.
InsertRow(s) ==
    /\ HasNext(s)
    /\ lock \in {None, s}
    /\ lock' = s
    /\ written' = [written EXCEPT ![s] = @ + 1]
    /\ UNCHANGED <<storeVars, detectorVars, sniffer, readErrors, failures>>

\* The result of the failed INSERT is not looked at and the loop goes on.
MInsertBusy(s) ==
    /\ HasNext(s)
    /\ lock \notin {None, s}
    /\ written' = [written EXCEPT ![s] = @ + 1]
    /\ sniffer' = [sniffer EXCEPT ![s] =
                    IF written'[s] = Len(CaptureOf[s]) THEN "exit 0" ELSE @]
    /\ UNCHANGED <<storeVars, lock, detectorVars, readErrors, failures>>

\* Somebody else writes: sqlite3_step returns SQLITE_BUSY at once, nobody
\* catches the exception and the process ends.
InsertBusy(s) ==
    /\ HasNext(s)
    /\ lock \notin {None, s}
    /\ Ends(s, "aborted")
    /\ UNCHANGED <<storeVars, lock, detectorVars, written, readErrors, failures>>

ReadError(s) ==
    /\ HasNext(s)
    /\ readErrors < MaxReadErrors
    /\ readErrors' = readErrors + 1
    /\ Ends(s, "cut short")
    /\ UNCHANGED <<storeVars, lock, detectorVars, written, failures>>

\* COMMIT, with what has been inserted.
SnifferCommit(s) ==
    /\ AtEnd(s)
    /\ written[s] = 0 \/ Readers = {}
    /\ messages' = messages \o SubSeq(CaptureOf[s], 1, written[s])
    /\ Release(s)
    /\ Ends(s, "exit 0")
    /\ UNCHANGED <<sessionOf, sessions, alerts, detectorVars, written, readErrors,
                   failures>>

\* COMMIT meets a reader and returns SQLITE_BUSY, which nobody looks at: the
\* connection is closed, SQLite rolls back, and the process reports success.
SnifferCommitBusy(s) ==
    /\ AtEnd(s)
    /\ written[s] > 0
    /\ Readers # {}
    /\ Release(s)
    /\ Ends(s, "exit 0")
    /\ UNCHANGED <<storeVars, detectorVars, written, readErrors, failures>>

SnifferCrash(s) ==
    /\ sniffer[s] \in {"running", "cut short"}
    /\ Release(s)
    /\ Ends(s, "aborted")
    /\ SomethingFails
    /\ UNCHANGED <<storeVars, detectorVars, written, readErrors>>

-----------------------------------------------------------------------------
(* Detectors                                                               *)

At(d, from, to) ==
    /\ detector[d] = from
    /\ detector' = [detector EXCEPT ![d] = to]

Leave(d) == selected' = [selected EXCEPT ![d] = {}]

\* The SELECT without its WHERE.
MUnassigned == DOMAIN messages

Unassigned == DOMAIN messages \ DOMAIN sessionOf

\* The SELECT, in a transaction of its own.
Select(d) ==
    /\ At(d, "idle", "selecting")
    /\ selected' = [selected EXCEPT ![d] = Unassigned]
    /\ UNCHANGED <<storeVars, lock, snifferVars, failures>>

\* What comes after fetchall: the first row with an eNB-UE id will be INSERTed
\* a session for; when there is none, the pass ends without writing.
Fetched(d) ==
    /\ At(d, "selecting", IF \E m \in selected[d] : messages[m].enb # None
                          THEN "selected" ELSE "printing")
    /\ UNCHANGED <<storeVars, lock, selected, snifferVars, failures>>

MTakeLock(d) ==
    /\ At(d, "selected", "writing")
    /\ lock' = d
    /\ UNCHANGED <<storeVars, selected, snifferVars, failures>>

\* The first INSERT of the transaction.
TakeLock(d) ==
    /\ At(d, "selected", "writing")
    /\ lock = None
    /\ lock' = d
    /\ UNCHANGED <<storeVars, selected, snifferVars, failures>>

Results(d) == Outcomes(selected[d], sessions)

\* flush and COMMIT: the pass becomes visible.
Commit(d) ==
    /\ At(d, "writing", "printing")
    /\ Readers = {}
    /\ \E pass \in Results(d) :
          /\ ~pass.refused
          /\ sessionOf' = Overlay(pass.owner, sessionOf)
          /\ sessions' = pass.table
          /\ alerts' = alerts \o pass.alerts
    /\ Release(d)
    /\ UNCHANGED <<messages, selected, snifferVars, failures>>

\* IntegrityError: ROLLBACK, and the command ends with a traceback.
Refused(d) ==
    /\ At(d, "writing", "idle")
    /\ \E pass \in Results(d) : pass.refused
    /\ Leave(d)
    /\ Release(d)
    /\ UNCHANGED <<storeVars, snifferVars, failures>>

\* The transaction is left open.
MLost(d) ==
    /\ \E from \in {"selecting", "selected", "writing", "printing"} :
          At(d, from, "idle")
    /\ Leave(d)
    /\ SomethingFails
    /\ UNCHANGED <<storeVars, lock, snifferVars>>

\* OperationalError, "database is locked": another writer at the INSERT or a
\* reader at the COMMIT was there for five seconds.  Or the process is killed.
Lost(d) ==
    /\ \E from \in {"selecting", "selected", "writing", "printing"} :
          At(d, from, "idle")
    /\ Leave(d)
    /\ Release(d)
    /\ SomethingFails
    /\ UNCHANGED <<storeVars, snifferVars>>

\* The alerts are printed.
Printed(d) ==
    /\ At(d, "printing", "idle")
    /\ Leave(d)
    /\ UNCHANGED <<storeVars, lock, snifferVars, failures>>

-----------------------------------------------------------------------------

SnifferNext(s) ==
    \/ InsertRow(s) \/ InsertBusy(s)
    \/ SnifferCommit(s) \/ SnifferCommitBusy(s)

DetectorNext(d) ==
    \/ Select(d) \/ Fetched(d) \/ TakeLock(d)
    \/ Commit(d) \/ Refused(d) \/ Printed(d)

Next ==
    \/ \E s \in Sniffers : SnifferNext(s) \/ ReadError(s) \/ SnifferCrash(s)
    \/ \E d \in Detectors : DetectorNext(d) \/ Lost(d)

Spec == Init /\ [][Next]_vars

\* Every process goes on, and the detector is run again and again.  Nothing is
\* assumed of crashes, time-outs and unreadable files but that they are
\* finitely many.
FairSpec ==
    /\ Spec
    /\ \A s \in Sniffers : WF_vars(SnifferNext(s))
    /\ \A d \in Detectors : WF_vars(DetectorNext(d))

-----------------------------------------------------------------------------
(* Properties                                                              *)

PipelineTypeOK ==
    /\ messages \in Seq(Row) /\ sessions \in Seq(Session) /\ alerts \in Seq(Alert)
    /\ sessionOf \in [DOMAIN sessionOf -> DOMAIN sessions]
    /\ lock \in Detectors \cup Sniffers \cup {None}
    /\ detector \in [Detectors -> {"idle", "selecting", "selected", "writing",
                                   "printing"}]
    /\ selected \in [Detectors -> SUBSET DOMAIN messages]
    /\ sniffer \in [Sniffers -> {"running", "cut short", "aborted", "exit 0"}]
    /\ \A s \in Sniffers : written[s] \in 0 .. Len(CaptureOf[s])

\* Nobody writes but the process that holds the lock, and a process that does
\* not run holds none.
LockIsHeldByWriter ==
    /\ \A d \in Detectors : detector[d] = "writing" <=> lock = d
    /\ \A s \in Sniffers :
          lock = s <=> /\ sniffer[s] \in {"running", "cut short"}
                       /\ written[s] > 0

\* A sniffer that reached the end of its file and met no reader reports success
\* only if it stores its capture, whole and in order.
ExitZeroMeansStored ==
    [][\A s \in Sniffers :
          sniffer[s] = "running" /\ sniffer'[s] = "exit 0" /\ Readers = {}
              => messages' = messages \o CaptureOf[s]]_vars

\* "stream all unassigned messages": a message that has a session keeps it.
AssignedOnce ==
    [][\A m \in DOMAIN sessionOf :
          m \in DOMAIN sessionOf' /\ sessionOf'[m] = sessionOf[m]]_vars

\* Whatever process is lost or turned away, every stored message with an
\* eNB-UE id is in a session in the end, unless twins arrive.
StoredIsAssigned ==
    []NoTwins =>
        \A m \in 1 .. MaxMessages :
            (m \in DOMAIN messages /\ messages[m].enb # None)
                ~> (m \in DOMAIN sessionOf)
=============================================================================
