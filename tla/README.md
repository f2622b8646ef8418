# Verification of lte-rogue-detector

TLA+ models, TLC runs and TLAPS proofs for the sniffer (C++), the SQLite file, the
detector and the scripts (Python) of this repository. Paths below are relative to the
repository root; `engine.py` is `detector/src/lte_rogue_detector/engine.py`,
`db.cpp`, `main.cpp`, `ingest.cpp`, `framing.cpp`, `s1ap.cpp` and `nas.cpp` are in
`sniffer/src/`.

## 1. The system

A sniffer process reads one pcap file, decodes the NAS messages in it and
writes one row per message to the table `messages` of a SQLite file. A detector
process reads the rows that have no session, groups them into sessions, runs
two detection rules over each session and writes `sessions`, the column
`messages.session_id` and `alerts`. The processes share nothing but the file. A third
program, `scripts/migrate.py`, takes the file from one revision of its schema to
another while it is in use.

| part | state | operations | interacts with |
|---|---|---|---|
| framing (`framing.cpp`) | offset of the walk over SCTP chunks | `link_payloads`, `sll_to_s1ap_payloads` | called by `ingest_packet`, hands spans to the S1AP decoder |
| S1AP decoder (`s1ap.cpp`, `bitreader.cpp`) | reader position, what is peeled so far | `peel_s1ap` | hands the NAS octets to the NAS decoder |
| NAS decoder (`nas.cpp`, `nas_ies.cpp`) | none | `decode_nas` | its fields become a row |
| `ingest_packet` (`ingest.cpp`) | none | `ingest_packet`, `emit_s1ap`, `emit_nas` | calls framing, S1AP and NAS decoder, then `insert_message`, for each packet |
| capture loop and writer (`main.cpp`, `db.cpp`) | one open transaction | `begin`, `insert_message`, `commit` | writes `messages` |
| schema (`alembic/versions`, `alembic/env.py`) | tables, constraints, revision | the statements of each revision, up and down | shared by all |
| sessionizer (`engine.py`, `_Sessionizer`) | map of open sessions | `_resolve_key`, `step`, `drain` | INSERTs sessions; tells the rule runner what opened |
| rule runner (`_RuleRunner`) | rule state of each open session | `on_open`, `on_message`, `on_close` | called per row, returns alerts |
| rules (`rules/*.py`) | a dict per session and rule | `observe` | pure but for their dict |
| pass (`process_stream`, `_PassWriter`) | selected rows, buffered assignments and alerts | SELECT, loop, flush, COMMIT or ROLLBACK | one transaction |
| command line (`cli.py`) | none | `run`, `alerts` | a pass, then a reading listing |
| migration (`scripts/migrate.py`) | snapshot in the tree and in git, copy for the rehearsal | snapshot, commit, copy, rehearse, upgrade, compare | runs git, sqlite3 and alembic; replaces the schema under the data while sniffers and detectors use it |
| capture generator (`scripts/craft_imsi_cleartext.py`) | none | builds three packets | its file is read by the sniffer |

What is hard here:

* **Passes cut sessions.** A pass knows only the rows it selected. Sessions, rule
  states and alerts exist in memory until the flush, and a pass may be lost
  anywhere.
* **Stale entries.** The map keeps sessions that were detached or are silent; they
  still count when a downlink without a cell looks for its session.
* **Processes.** The SELECT is outside the transaction; the write lock is taken by
  the first INSERT; a COMMIT fails when somebody reads; the sniffer waits for
  no lock and does not look at the result of COMMIT.
* **Order.** Rows are read by timestamp, not by arrival, and captures overlap.
* **Octets.** Truncated captures, padding, length octets, IEs in any order, several
  messages in one packet.
* **Schema changes.** Python's `sqlite3` opens a transaction only at the first INSERT
  or UPDATE, so a revision that is killed or refused is half in the file; a PRAGMA
  counts only outside a transaction; what a killed run left behind meets the next.

What makes each part correct: a payload lies inside the capture and each is found
(framing); all of a PDU or nothing (S1AP); a truncated PDU says less and never
something else (NAS); the rows
are the messages that arrived whole (`ingest_packet`); a capture is stored whole or the
process fails (writer); a
session is one UE context, with no silence and no message after a detach inside
(sessionizer); an alert is raised exactly when the whole session calls for it, or for the
IMSI rule its first attach (rules); finished sessions are published whole and never change, and every row
ends up in one (pass, processes); a migration loses nothing, and touches the database
only when it can be restored (migration).

`PROJECT.json` lists all components and, under `hazards`, each danger at its
line with the properties that look for it.

## 2. Modules

`M...` definitions are plausible mistakes. Each stands before the definition it
would replace; with it in place, the property named in `PROJECT.json` fails.

| module | models | state and actions against the code |
|---|---|---|
| `Messages` | rows of `messages` | a row keeps the columns the detector tests; a timestamp is a number, since the fixed-width text sorts like one |
| `Rules` | `rules/*.py` | `RuleState` is the dicts of both rules, `ObserveAll` their `observe`, `AlertsOf` the alerts raised |
| `Sessionizer` | decisions of `_Sessionizer` | `Resolve` is `_resolve_key`, `Reusable` the condition of `step`, `Latch` the MME id |
| `SessionStore` | **abstract specification**: what readers of the file are promised | `Arrive` adds a capture, `Publish` adds whole, well-formed sessions with their alerts; nothing else changes |
| `Detector` | `process_stream` row by row | `Select`, `ReadRow` (skip, continue, open), `Commit`, `Abort` (UNIQUE refuses), `Fail` (killed, locked), `Ingest` (a sniffer commits) |
| `Pass` | the same pass as one function | `RowRead` is a turn of the loop, `Turns` what the loop has built after each row, `Outcomes` the pass |
| `Pipeline` | sniffers and detectors on one file | `InsertRow`, `InsertBusy`, `ReadError`, `SnifferCommit`, `SnifferCommitBusy`, `SnifferCrash`; `Select`, `Fetched`, `TakeLock`, `Commit`, `Refused`, `Lost`, `Printed` |
| `SctpFraming` | `framing.cpp`, `link_payloads` to `sll_to_s1ap_payloads` | `RawNas`, `Dropped`, `Enter`, `NextChunk`, `Stop`: one step per chunk; `Fault` is a read where there is no memory, which ends the process |
| `S1apPdu` | S1AP messages on the wire | IEs, headers and lengths as the sender makes them, in octet counts |
| `S1apPeel` | `s1ap.cpp` | `OpenBody`, `ReadIe`, `Reject`, `Return`: one step per IE; the sender's encoding is that of the test vectors |
| `NasPdu` | `nas.cpp`, `nas_ies.cpp` | `Decode` is `decode_nas`, with `Inner` and the IE readers; `Encode` and `Meaning` are the sender's side |
| `NasDecoder` | a NAS PDU that arrives | `Arrive` lets one more octet arrive, and decodes what there is |
| `Craft` | `craft_imsi_cleartext.py` | its three NAS messages, PDUs and packets |
| `Ingest` | `ingest.cpp`, `insert_message` | `Frame` is a step of `SctpFraming`, `Unwrap` and `PeelOn` give a payload to `S1apPeel`, `EmitS1ap` and `EmitNas` decode and insert, `NextRecord` is the loop of `main.cpp` |
| `Schema` | the five revisions | a revision is its list of SQL statements, up and down; `Possible` says whether SQLite carries one out, `Effect` what it does |
| `Alembic` | one alembic process | `Autocommit`, `InTransaction`, `CommitRevision`: statement by statement, with the transactions of Python's `sqlite3` |
| `GuardedUpgrade` | **abstract specification**: a database is changed only when a dump of it is saved | `Use`, `Start`, `Save`, `Change`, `ByHand`, `End` |
| `Migrate` | `migrate.py` | `Begin`, `RemoveDump`, `Dump`, `CommitDump`, `NothingToCommit`, `Seed`, `Refuse`, `Rehearse`, `Apply`, `Confirm`, `UpgradeFails`: one step per external command; `Step` a statement of alembic; `Stop` a kill; `CleanTree`, `AlembicByHand`, `AlembicEnds` the operator; `Sniff`, `Detect` the users |
| `MC...` | small instances for TLC | |
| `...Proofs`, `Recursion` | theorems | section 5 |

`Detector` and `Pipeline` both extend `SessionStore` and share its variables, so
the abstract specification is the formula `StoreSpec` over the concrete tables;
the refinement mapping is the identity on the tables and forgets the rest.
`Detector` looks inside one pass and lets only one run at a time. `Pipeline` looks
between processes and does a pass in one step at its COMMIT. It may: from its
first INSERT to its COMMIT nobody else writes. `PassIsOneFunction` checks on
`Detector` that the function of `Pass` is what the many steps do.

`Ingest` composes the decoders with their own definitions: a step of the framing or of
the S1AP decoder in `Ingest` is a step of that module. `Migrate` extends `Alembic`, which
extends `Schema`; its refinement mapping to `GuardedUpgrade` takes the real file for the
content and the last commit for what is saved (`Guarded`, with `INSTANCE ... WITH`).

## 3. Runs

Every run finishes within a minute and a half. The runs have `CHECK_DEADLOCK
FALSE`: traffic, retries and the operator are bounded and a pure function returns, so
behaviours end.

| run | states | what it shows |
|---|---|---|
| `Detector` | 668542 | what a published session contains, with sessions ended by silence, by a detach of either side and by the next session of their key; two cells that share an eNB-UE id, downlinks without a cell, one of them of another eNB-UE id, the latched MME id; passes start at any moment and one may be lost at any row; within a pass only a silence or a detach splits a context; the counters a pass reports, its progress, and that `Pass` agrees; that `StoreSpec` is implemented, and every row with an eNB-UE id is finally assigned, unless two with one id bear the same instant (a UNIQUE refusal can then repeat for ever, see `TwoOperators`). And the rules: AKA alerts are exactly those a reading of the whole session calls for, IMSI alerts those that its first AttachRequest calls for, in every sequence of up to five messages the rules react to, and of six that begin with an AttachRequest |
| `OneDetector` | 22273 | three sniffers, one detector, a cut capture and two losses, rows of two operators that clash: lock, refinement, stored rows are finally assigned unless two with one eNB-UE id bear the same instant, and a sniffer that met no reader reports success only if it stored its capture |
| `Ingest` | 12432 | from the frames of a capture to rows. Packets with bundled, padded, malformed, unpadded and cut chunks, foreign headers, and total lengths below the header length: only the last take the walk out of the captured octets, no octet is handed out twice, of the others exactly the S1AP payloads are found. Foreign and cut PDUs among messages, IEs in every order, every NAS message behind every security header: each row is what its sender meant, none is missing, and the capture is read to its end |
| `Peeling` | 42594 | every order of IEs, cut at every octet: the message or nothing |
| `Decoding` | 19543 | every message type behind every security header, and noise, octet by octet |
| `Migration` | 794262 | the migration script with users of the database beside it, killed between any two statements and run again, also by an operator with alembic alone: no row is lost, a sound database is upgraded without a refusal, the rehearsal finds what would stop the upgrade, a database that says it is at the head can be used, and `GuardedUpgrade` is implemented |

Six more runs, `TwoOperators`, `TwoDetectors`, `LongNas`, `PrefixedIds`, `ShortTotal` and
`SecondAttach`, end in a **violation** of something the repository says; see 6.
`TrafficSpec` in `Detector` keeps two kinds of traffic apart: four rows that come, are
selected and are lost at any moment, and the messages of one session for the rules, all
there before one pass. The rules judge each published session by itself. Of six messages
only the sequences that begin with an AttachRequest are tried: before one the rules pass
everything over, so the others are sequences of five, or fewer, with a message in front.

### Bounds, and why they are enough

* *Four messages, two cells, two operators, two MME ids, one eNB-UE id*
  (`MaxSplit` in `Detector`; a second eNB-UE id of a downlink with the MME id of a session). Two keys with one
  eNB-UE id are what makes a downlink ambiguous. A session needs two messages to
  have an inside, a third to be closed by, and a fourth for a second pass. What the
  properties say of a session is about pairs of messages.
* *Gap 1 or 2, timestamps 1 to 4*: below, at and above the gap all occur.
* *Six messages for the rules* (`MaxMessages` in `Detector`): attach, challenge, answer or failure, second
  challenge, second answer, and the message that moves on.
* *One lost pass* (`MaxFailures`) in `Detector`, two in
  `OneDetector`: the next pass starts from the committed tables alone, so a loss
  leaves nothing behind that a second one could add to.
* *Three sniffers, up to two rows each; one or two detectors* (`Pipeline`): a holder of the
  lock, one who waits, and a reader.
* *Up to three chunks* of all residues modulo four, and the last one broken;
  header lengths 20 and 24 (`Ingest`). For the total lengths that wrap: up to
  one chunk, header lengths 20 and 60, total lengths of zero and one or four octets short
  (`Ingest`, `ShortTotal`).
* *A `size_t` of 30 bits* (`SizeT`), since TLC's integers have 32: all that counts is that
  no offset gets there (`SizeAssumption`). *24 octets of memory* behind a record that can
  be read (`Mapped`): a header or two, before a read faults.
* *Up to five IEs*, one of them unknown, ids of one to four octets, the largest cell.
* *NAS*: all seventeen types, security headers 0 to 4, all kinds of identity, all
  sequences of up to four octets over seven that mean something.
* *Captures of one to three packets* (`Ingest`): the crafted one, the same PDUs in
  packets that the sniffer reads, alone and in one packet; a middle PDU cut at each octet
  from 0 to 26, of another procedure, choice or NAS type, with an IE outside the length
  it claims, or fragmented; a raw NAS file; and each frame of any shape, with an
  IdentityRequest or a reset (`Strays`) for what the walk finds where no chunk of the
  sender begins. Packets are ingested one by one and share
  nothing but the table.
* *Two rows, two kills, two runs of the script, one use of alembic by hand*
  (`Migration`): a row from before and one that is written under way; a kill, and one
  of the run that meets its leftovers. The first content is an empty file, a database
  at b449 with a message that has no session (`Legacy`), the repository's dump (revision
  c692, a session without a cell), the same with the table that a failed downgrade left in
  it, or a fresh database at the head; every target and every revision by hand is tried.

### Fairness

* `Detector!FairSpec`, and the same fairness in `TrafficSpec`, whose bounds restrict
  rows and losses only: the detector is run again whenever there are unassigned rows
  (the watch mode of `engine.py:15`), and a pass that is not lost reads its next row
  and commits. Nothing is assumed of the sniffer, of crashes or of refused inserts.
* `Pipeline!FairSpec`: each process takes its next step. Crashes, lock time-outs and
  unreadable files are not fair, and finitely many (`MaxFailures`, `MaxReadErrors`).
* `IngestSpec`: a function that is called runs on; the sniffer is not killed here
  (`Pipeline` has that).

## 4. Assumptions on the constants

`None` is no timestamp and no identifier; `Captures` are sequences of rows, and what a
sniffer may commit (any prefix of its file, which is a sequence of rows) is among them;
sniffers and detectors are different processes; bounds are naturals; where the IPv4 total
length of a packet covers its header, the octets counted by it do not reach a whole
chunk header behind the chunks of the packet (else the walk would read one that the
record does not describe); a `size_t` holds more than a record, the memory behind it and
some lengths of 16 bits added up; chunk headers that are noise, and noise for the NAS decoder, are
chunks and octets; a PLMN has three octets; a capture for `Ingest` has at least one packet,
one link type, and a PDU for each of its chunks; a cell identity has 28 bits; a message
that carries an identity names its kind; `None` is no integer, so that no id of a row is NULL.
Of what a database holds at first: its tables have rows with a natural id and a value for
each column, it is at one of the six revisions, the tables that are there have the columns
and constraints of that revision (`OfRevision`; tables may be missing, others may be left
over, references may lead nowhere, indexes may be any), and `cells` is empty (`NoCells`).
The last is what e2f5 says of all databases there are (lines 31 and 32: the table is never
populated), and no program of the repository writes to it; section 6 says what would
happen otherwise. TLC evaluates the assumptions in every run.

## 5. Proofs

TLAPS checks every leaf. The theorems hold for every value of the constants that
meets section 4: any number of messages, cells, ids, captures, sniffers, detectors,
packets, chunks, IEs and octets, any content of a database and any number of kills
and retries.

* `Recursion`: induction over the naturals, and that a function defined by recursion
  over them is what its two equations say. The library has both with an operator as
  a parameter; here the statement is about a set (`0 \in S`, and `n + 1` with `n`) and
  about a sequence of functions, which the provers can instantiate. `PassProofs`,
  `FramingProofs`, `PeelProofs` and `MigrateProofs` rest on it.
* `PassProofs`: the pass as one function, for every table. `Turns` (in `Pass`) gives what
  the loop has built after each of its rows. The rows come in the order of `Ordered`
  (`RankFacts`: the n-th has n - 1 before it); every turn is exactly one turn of the loop
  (`TurnIsOne`) and stays one after a refusal; and after every turn the pass is `Whole`:
  what it holds is what `Publish` demands of the tables. A session spans its rows, no
  two clash, an alert is in its session and the only one of its rule.
  `PassPublishes` and `PassKeepsStore` say so of the tables after a commit, for
  both models that commit a pass.
* `DetectorProofs`, from the same invariants one after the other.
  * `TypeCorrect`, `OneContext`, `RunnerNeverMisses`. The inductive invariant `IInv` adds
    to `TypeOK` what a pass in flight keeps (`PassInv`: buffered assignments are of rows
    that are done and unassigned, and point to sessions of the transaction; open entries
    are such sessions), that an open session has the key it is found under
    (`KeyInv`), and the context of the *buffered* assignments (`ContextInv`). Without
    the last, a commit could publish anything.
  * `GapEndsSessions`, `DetachEndsSessions`. `OInv` adds that rows are read in order, and
    that an open entry remembers the last row of its session: its timestamp and
    whether it was a detach. A session is then extended only by a row that follows its
    last one within the gap.
  * `PassSplitsNothingElse`. `SplitInv` says of the map of open sessions that a row's own
    key still leads to its session unless a detach or a silence came in between;
    `ApartInv` says it of pairs of buffered rows, which a commit publishes.
  * `StatsAreTrue`, `PassesAdvance`. `CountInv`: the counters are the sizes of the
    buffers. `AdvanceInv`: a row with an eNB-UE id is passed over only when a session is
    open, hence one has been assigned.
  * `PassesAreFunctions`: the buffers are what `Turns` computes from the rows read so far
    (`OneInv`), so that the many steps of a pass and the function of `Pass` agree, in
    what they commit and in what the UNIQUE constraint refuses.
  * `Implements`, that is `Spec => StoreSpec`, then takes `Whole` from `PassProofs`: a
    commit is a `Publish` or, when every row was skipped, a stutter; all other steps
    but `Ingest` leave the tables alone.
  * `MmeLatched`, `ImsiAlertsJudgeFirstAttach`, `AkaAlertsExact`, `AkaAlertsNameTheEvidence`. What a
    rule should say is defined on a set of messages and their order alone (`Offence`,
    `Unauthenticated`, `RightEvidence`, ...). The invariant has two halves. An open
    session's dict and latched MME id are what its messages so far say (the last
    challenge, whether it is answered, whether the first attach was seen, the first
    MME id). And an alert is pending for a session exactly when its messages call for
    one. Every row comes later than all of its session (`Later`), so it cannot change
    what is settled: lemmas say for each notion how it goes from a set of messages to
    the set with a later one. A commit moves buffers to tables, of sessions that were
    not there before.
* `PipelineProofs`: `LockIsExclusive` (`LInv` adds the shapes of the control variables)
  and `ExitZeroStores`: a sniffer's counter is its capture's length when it commits
  after the whole file, and the commit appends that prefix. `TablesKeepShape`: any
  number of detectors may commit on top of each other and every reference still leads
  to a row. `OneDetectorImplements`: with a single detector, `Spec => StoreSpec`, since
  the rows it selected are still unassigned when it commits (`StillUnassigned`). Its
  hypothesis `Detectors = {d}` is not one of convenience: `TwoDetectors` refutes what
  follows from it.
* `FramingProofs`: `FramingTypes`, `OnlyWrapsLeavePacket`, `PayloadsFound`, for packets of
  any header and total length. `FInv` adds that,
  while the walk goes on, the packet has passed the header tests and all payloads found
  lie before the offset. Where the total length covers the header the difference of
  `framing.cpp:56` does not wrap (`Avail`), and what is within its reach was captured
  (`Reached`): the walk cannot fault. Where it does not, all that remains is that payloads
  do not overlap. `EInv` adds where the walk is: at the beginning of a
  chunk, with the chunks before it intact and their payloads taken. `Begins` rises with
  every intact chunk (an induction), so the chunk the walk meets is the one that was
  put there.
* `PeelProofs`: `PeelTypes`, `PeelsTheMessage`. The invariant says which IEs have
  been read, that what is left of the body is what they have not used, and that the fields
  found are those of the IEs read so far (`Found`); since the sender's order is
  one-to-one onto its IEs, the end of the body means that all were met, and a cut
  means that one does not fit. `PeelsTheMessage` needs `Readable`: ids of at most four
  octets, a NAS PDU below 128. `LongNas` and `PrefixedIds` are what happens without.
* `NasProofs`: `DecoderTypes`, `DecodesEveryMessage`, `CutsInventNothing`. The invariant
  says that what has arrived is a prefix of what was sent and `decoded` what
  `Decode` makes of it; the work is about `Decode`. `DecodeMore`: a longer PDU tells at
  least as much as its beginning, field by field, because no reader looks behind its
  end. `DecodesEncoded`: `Decode` of `Encode` is `Meaning`, for each type, header and
  identity, by where each field lies in the octets (`FieldHolds`).
* `MigrateProofs`: `SnapshotGuards` (`Spec => GuardedSpec`) and `RehearsalNeverTouches`.
  `Control` ties the file that alembic has open to where the script is. `Saved` says
  that from the dump on the tree, and from the commit on the last commit, restores what
  the database held at the start. For the steps of the users in between one needs that
  what they do, taken together, only adds: `Keeps` is not transitive as it stands (a
  column may go), so `Adds` strengthens it by equal columns and is.

  `MigrateTypes`, `NothingIsLost` and `DoneIsMigrated` are about the statements of
  alembic. Each revision is checked to be `Orderly`, from its text: what is copied to was
  made by the statement before, what takes the place of a table is a copy of it, no table
  is dropped otherwise but on the way back to nothing, none is copied twice, and columns
  are added before the first INSERT. The invariant (`Connection`, with `Amid`) says behind
  which statement of which revision alembic is, with the rest of that revision and all
  later ones still to come; that the file holds what was committed at once, and the
  transaction what `Carried` and `Made` allow: each table of the file has its rows, or is
  dropped with its copy (`Replaces`) to be renamed next. `Since` adds what the script has
  kept so far. A statement that is committed at once keeps all rows and columns
  (`AutocommitHolding`), a COMMIT puts into the file what its revision has carried
  (`CommitAmid`), what users add in between is in neither's way (`AmidAdded`). Kept rows
  compose only while no column goes: `Holding(TRUE, ...)` is transitive, and only e2f5 and
  downgrades are without it, which is why the script keeps what it held although it may
  pass through five revisions.

  `HeadIsAlwaysUsable`. A version at the head says nothing of the tables unless the
  tables of the file are those of its revision at *every* moment, for a kill may come at
  any. `HInv` says so (`OfRevision`), and that a connection to the database is `Useful`:
  behind statement k each table in its view is as it was before the revision, or as it is
  behind it once a `replace` or a `rename` among the k has put the new one in its place
  (`Formed`); what a statement has just made is of the new kind (`Fresh`), and the columns
  of e2f5 are there from its second statement on (`Widening`). `Settles` finds these statements in the text of each revision, so a
  revision that has come to its COMMIT has made all its tables new. Sniffer and detector
  change rows and no table (`SameForm`).

  `RehearsalAlwaysPredicts`. Alembic is a deterministic machine (`Machine`, `After`), and
  the rehearsal keeps the states it went through as a trace. `PInv`: while the rehearsal
  runs, a trace that begins with a copy which `Match`es the database and in which every
  statement was possible; while the upgrade runs, the rest of that trace, with the
  database in a state that the first of it `Shadows`. Below b449 nobody can have
  written since the copy, so both are equal. From b449 on they may differ, but only in
  messages without a session (`Alike`), which a sniffer adds where a killed e2f5 has left
  `plmn` behind; the revisions above b449 neither copy nor replace the messages (`Aside`),
  so that each statement is possible on the one exactly when it was on the other, and they
  still match behind it. Nothing is assumed of the database but that its tables are of its
  revision: leftovers, missing tables and dangling references stop both or neither.

  `SoundUpgradesAlwaysSucceed`. That a statement is possible on a sound database needs
  the exact tables and indexes it meets, not only those that users name. `FormsAt` and
  `IndexesAt` give both behind each statement of each revision, and `StandsStep` shows,
  statement by statement, that the text of the revisions leads from one to the next
  (`Leads`). `Sound` compares a database with `Built`, what the revisions make of an empty
  file; by induction along the path (`PerformedTrace`) that is where `FormsAt` ends
  (`BuiltCompletes`). Possible is a statement there only because of three more facts, which
  the invariant `SInv` carries. `Vacant`: below c692 a sound database has no sessions, since
  each needs a cell and there is none, hence at b0ba no messages and alerts, hence no row
  refers to a table that b449 or c692 replace. `Loose`: e2f5, which drops `sessions` while
  messages refer to it, has foreign keys off by then, because no transaction was open
  when it turned them off. And the database is still the one the script started with when
  the rehearsal begins: below e2f5 `plmn` is missing, and neither sniffer nor detector can
  write (`SoundBelow`). That the upgrade succeeds as well is then what
  `RehearsalAlwaysPredicts` says.

Only model-checked:

* liveness and everything under fairness (`EventuallyAssigned`, `StoredIsAssigned`,
  `CaptureEnds`): out of reach of the prover;
* `RowsAreTheMessages` (`Ingest`): each of the three decoders it composes is proved, but
  what it compares are concatenations over the packets, chunks and messages of a capture
  (`FlattenSeq`, `SelectSeq`), whose library definitions are recursive; what they are for
  every capture is an induction over data.

## 6. Where code and documentation disagree

| run | what TLC shows |
|---|---|
| `TwoOperators` | the UNIQUE constraint leaves the PLMN out and can refuse a pass for ever, though PLMN, cell and eNB-UE id identify a context (`engine.py:40`) |
| `TwoDetectors` | the SELECT is outside the transaction: a second detector gives an assigned message to another session when an earlier message was captured late. `LateCaptures` is made so that the two detectors' sessions start at different instants: where they start at the same one the UNIQUE constraint turns the slower detector away, by luck more than by design |
| `LongNas` | a NAS PDU of 128 octets or more has a two-octet length of which the second octet is taken for NAS (`s1ap.cpp:28` promises 16k) |
| `ShortTotal` | `framing.cpp:56` subtracts the header length from a total length that may be below it. The difference is a `size_t`, wraps, passes line 57 and bounds the walk no more: it reads chunk headers behind the captured octets, hands out what they claim as payloads, or dies reading. `framing.hpp:31` promises the payloads of the record's chunks; `OnlyWrapLeavesPacket` is that nothing else does this |
| `SecondAttach` | after an AttachRequest with a GUTI, one with an IMSI in the same session raises nothing, since the rule latches at the first whatever it carries (`ImsiObserve`); its docstring (`imsi_cleartext_with_guti.py:14`) says an AttachRequest with an IMSI is exactly what it flags |
| `PrefixedIds` | UE ids with the length octet that `s1ap.cpp:62` describes are read with that octet as their highest, and refused when they have four octets; the code (`s1ap.cpp:66`) and the test vectors know no length octet |

More were met while reading and are modelled as the code has them, without a run:

* `drain` at the end of a pass splits a session whose messages straddle two passes,
  though `engine.py:15` says batch and watch differ only in how often they run;
  `PassSplitsOnlyByGapOrDetach` shows that nothing else splits;
* an entry that is detached or silent still counts as a candidate when a downlink is
  matched, though `engine.py:90` speaks of "exactly one open session" (`Candidates`);
* `nas.cpp:134` calls the inner PDU plain, but only its protocol discriminator is
  tested, not its security header (`Inner`), so that ciphertext may pass for a message;
* a sniffer whose COMMIT meets a reader loses its capture and reports success
  (`SnifferCommitBusy`), and so does one whose file ends in a read error, for the rest
  of it (`ReadError`);
* `craft_imsi_cleartext.py` writes Ethernet frames, which `link_payloads` drops: the
  sniffer makes no row of its capture (in `Ingest` the crafted capture is meant to add
  none, its PDUs in Linux cooked frames add three).

And of the migration:

* the last check of `migrate.py` compares the revisions of the rehearsal and of the
  database; both are asked through the same environment variable, so had
  `LTE_ROGUE_DB` no effect it would compare the database with itself
  (`RehearsalIsApart` is the property that notices, its mutant does just that);
* when nothing was written since the last snapshot, `git commit` has nothing to commit
  and the script ends with an error before it upgrades (`NothingToCommit`): also after
  a run that was stopped behind its commit;
* `.migtest.db` stays behind when the dump or the rehearsal fails; the next run
  overwrites it;
* e2f5 adds its columns outside of any transaction: killed or refused behind one of
  them, the database says d1a7 and has the column, and every later upgrade to e2f5 is
  refused by its rehearsal until someone repairs it by hand. `db_dump/` in the repository holds the
  table that a downgrade of c692 left in the same way (`LeftOver` in `MCMigrate`);
* a downgrade to nothing that is killed drops `alerts` for good, and an upgrade then
  reaches the head without that table (hence the condition in `HeadIsUsable`);
* b449 and c692 rebuild a table with foreign keys on. SQLite refuses to drop the old one
  while a row of another table refers to it: b449 would fail on a database with alerts, c692
  on one with messages in sessions. No database has them before c692, because a session
  needs a cell there and nothing ever fills `cells`: the upgrades work by virtue of the
  unused table that e2f5 cuts off (`Vacant` in `MigrateProofs`, and the assumption
  `NoCells`);
* a downgrade of e2f5 restores the reference of `sessions.cell_id` to `cells` with
  foreign keys off, so the cells of sessions may refer to nothing.

## 7. Not modelled

* The digits of identities, PLMN and timestamp text, alert wording, the listing: only
  formatting. (The default of `alerts.created_at` has another format than
  `docs/schema.md` gives; no query compares it.)
* What lies in memory behind a record: any headers (`Headers`), for `Mapped` octets. What
  the S1AP decoder makes of payloads from there.
* SQLite itself: only which statements can conflict, what they refuse and what they do
  to tables. A deferred `BEGIN` takes no lock, the first INSERT the write lock, COMMIT
  waits for readers. In `Migrate` the users of the database write in one step each.
* `parse_emm_cause`, which nobody calls; the parsing of arguments.
* Sample data, build files, the Wireshark captures' contents.

## 8. Plan

Done: the core (`Messages`, `Rules`, `Sessionizer`, `SessionStore`, `Detector`), the
processes (`Pass`, `Pipeline`), the three decoders and their composition (`Ingest`,
`Craft`), the schema and its migration (`Schema`, `Alembic`, `Migrate`,
`GuardedUpgrade`), and the proofs above. Worth doing next, in this order:

1. `RowsAreTheMessages` as a theorem, from the three decoders' own: with `Ingest` written
   over recursive functions in place of the library's `FlattenSeq`, and `Recursion` for the
   inductions.
2. `Timestamps`: `format_ts`, `_parse_ts` and the text order, with its numeric edges.
3. Liveness of the migration: whether an operator who goes on retrying gets there. It
   needs an action for the repair by hand, of which the repository says nothing.
