--------------------------- MODULE PipelineProofs ---------------------------
(***************************************************************************)
(* For any number of sniffers and detectors: the write lock is held by the *)
(* one process that is writing, which is what lets Pass.tla treat a pass   *)
(* as one function of the tables it found.  A sniffer that says it has     *)
(* stored its capture has, when it met no reader.  And as long as there is *)
(* one detector, what the processes do to the tables is what SessionStore  *)
(* promises of them.                                                       *)
(***************************************************************************)
EXTENDS Pipeline, PassProofs

\* What the control of the processes needs to know of its variables.
ControlOK ==
    /\ detector \in [Detectors -> {"idle", "selecting", "selected", "writing",
                                   "printing"}]
    /\ sniffer \in [Sniffers -> {"running", "cut short", "aborted", "exit 0"}]
    /\ written \in [Sniffers -> Nat]
    /\ lock \in Detectors \cup Sniffers \cup {None}

LInv == ControlOK /\ LockIsHeldByWriter

LEMMA InitLock == Init => LInv
  BY ProcessAssumption DEF Init, LInv, ControlOK, LockIsHeldByWriter

LEMMA SnifferKeepsLock ==
    ASSUME LInv, NEW s \in Sniffers,
           SnifferNext(s) \/ ReadError(s) \/ SnifferCrash(s)
    PROVE  LInv'
<1> USE ProcessAssumption DEF LInv, ControlOK, LockIsHeldByWriter, snifferVars,
        detectorVars
<1>1. CASE InsertRow(s)
  <2>1. /\ sniffer[s] = "running" /\ lock \in {None, s} /\ lock' = s
        /\ written' = [written EXCEPT ![s] = @ + 1]
        /\ UNCHANGED <<detector, sniffer>>
    BY <1>1 DEF InsertRow, HasNext
  <2>2. written[s] \in Nat /\ written[s] + 1 \in Nat /\ written[s] + 1 > 0
    <3>1. written[s] \in Nat
      OBVIOUS
    <3> QED BY ONLY <3>1, SMT
  <2>3. written' \in [Sniffers -> Nat] /\ written'[s] = written[s] + 1
    BY <2>1, <2>2, Zenon
  <2>4. ControlOK'
    BY <2>1, <2>3
  <2>5. \A d \in Detectors : detector'[d] = "writing" <=> lock' = d
    BY <2>1
  <2>6. \A t \in Sniffers \ {s} : written'[t] = written[t] /\ lock # t /\ lock' # t
    BY <2>1
  <2>7. written'[s] > 0
    BY <2>2, <2>3
  <2> QED BY <2>1, <2>4, <2>5, <2>6, <2>7
<1>2. CASE InsertBusy(s)
  BY <1>2 DEF InsertBusy, HasNext, Ends
<1>3. CASE SnifferCommit(s) \/ SnifferCommitBusy(s)
  BY <1>3 DEF SnifferCommit, SnifferCommitBusy, AtEnd, Ends, Release
<1>4. CASE ReadError(s)
  BY <1>4 DEF ReadError, HasNext, Ends
<1>5. CASE SnifferCrash(s)
  BY <1>5 DEF SnifferCrash, Ends, Release
<1> QED BY <1>1, <1>2, <1>3, <1>4, <1>5 DEF SnifferNext

LEMMA DetectorKeepsLock ==
    ASSUME LInv, NEW d \in Detectors, DetectorNext(d) \/ Lost(d)
    PROVE  LInv'
<1> USE ProcessAssumption DEF LInv, ControlOK, LockIsHeldByWriter, snifferVars, At
<1>1. CASE Select(d) \/ Printed(d)
  BY <1>1 DEF Select, Printed
<1>2. CASE Fetched(d)
  BY <1>2 DEF Fetched
<1>3. CASE TakeLock(d)
  BY <1>3 DEF TakeLock
<1>4. CASE Commit(d)
  BY <1>4 DEF Commit, Release
<1>5. CASE Refused(d)
  BY <1>5 DEF Refused, Release
<1>6. CASE Lost(d)
  BY <1>6 DEF Lost, Release
<1> QED BY <1>1, <1>2, <1>3, <1>4, <1>5, <1>6 DEF DetectorNext

LEMMA LockInvariance == Spec => []LInv
<1>1. LInv /\ [Next]_vars => LInv'
  <2> SUFFICES ASSUME LInv, [Next]_vars PROVE LInv'
    OBVIOUS
  <2>1. CASE UNCHANGED vars
    BY <2>1 DEF vars, snifferVars, detectorVars, LInv, ControlOK, LockIsHeldByWriter
  <2>2. CASE Next
    BY <2>2, SnifferKeepsLock, DetectorKeepsLock DEF Next
  <2> QED BY <2>1, <2>2
<1> QED BY InitLock, <1>1, PTL DEF Spec

\* Nobody writes without the lock and nobody keeps it, whichever processes run,
\* crash, are turned away or read a damaged file: the RESERVED lock taken by
\* the first INSERT of a transaction (engine.py:156, db.cpp:203) is given back
\* by every way out of it.
THEOREM LockIsExclusive == Spec => []LockIsHeldByWriter
BY LockInvariance, PTL DEF LInv

LEMMA WholeFile ==
    ASSUME NEW S, NEW file \in Seq(S) PROVE SubSeq(file, 1, Len(file)) = file
<1> DEFINE whole == SubSeq(file, 1, Len(file))
<1>1. whole \in Seq(S) /\ Len(whole) = Len(file)
  OBVIOUS
<1>2. \A i \in 1 .. Len(file) : whole[i] = file[i]
  OBVIOUS
<1> QED BY <1>1, <1>2

\* A sniffer that comes to the end of its file and exits with 0 has appended the
\* whole capture to the table in its last step, however many processes run,
\* crash or wait, unless a reader was there when it committed (main.cpp:29).
THEOREM ExitZeroStores == Spec => ExitZeroMeansStored
<1> DEFINE Stored == \A s \in Sniffers :
              sniffer[s] = "running" /\ sniffer'[s] = "exit 0" /\ Readers = {}
                  => messages' = messages \o CaptureOf[s]
<1>1. LInv /\ [Next]_vars => [Stored]_vars
  <2> SUFFICES ASSUME LInv, [Next]_vars, NEW s \in Sniffers,
                      sniffer[s] = "running", sniffer'[s] = "exit 0", Readers = {}
               PROVE  messages' = messages \o CaptureOf[s]
    OBVIOUS
  <2>1. SnifferCommit(s)
    <3>1. sniffer' # sniffer
      OBVIOUS
    <3>2. ASSUME NEW d \in Detectors PROVE ~DetectorNext(d) /\ ~Lost(d)
      BY <3>1 DEF DetectorNext, Select, Fetched, TakeLock, Commit, Refused, Printed,
                  Lost, snifferVars
    <3>3. ASSUME NEW t \in Sniffers \ {s}
          PROVE  ~SnifferNext(t) /\ ~ReadError(t) /\ ~SnifferCrash(t)
      BY DEF LInv, ControlOK, SnifferNext, InsertRow, InsertBusy, SnifferCommit,
             SnifferCommitBusy, ReadError, SnifferCrash, Ends
    <3>4. ~ReadError(s) /\ ~SnifferCrash(s) /\ ~InsertRow(s) /\ ~InsertBusy(s)
      BY DEF LInv, ControlOK, InsertRow, InsertBusy, ReadError, SnifferCrash, Ends
    <3>5. ~SnifferCommitBusy(s)
      BY DEF SnifferCommitBusy
    <3>6. Next
      BY <3>1 DEF vars, snifferVars
    <3> QED BY <3>2, <3>3, <3>4, <3>5, <3>6 DEF Next, SnifferNext
  <2>2. written[s] = Len(CaptureOf[s])
    BY <2>1 DEF SnifferCommit, AtEnd
  <2>3. CaptureOf[s] \in Seq(Row)
    BY CaptureAssumption
  <2>4. SubSeq(CaptureOf[s], 1, Len(CaptureOf[s])) = CaptureOf[s]
    BY <2>3, WholeFile
  <2> QED BY <2>1, <2>2, <2>4 DEF SnifferCommit
<1> QED BY <1>1, LockInvariance, PTL DEF Spec, ExitZeroMeansStored

-----------------------------------------------------------------------------
(* The tables.                                                             *)

\* What a sniffer commits is the beginning of its capture.
LEMMA Inserted ==
    ASSUME NEW s \in Sniffers, NEW n \in 0 .. Len(CaptureOf[s])
    PROVE  SubSeq(CaptureOf[s], 1, n) \in Captures /\ SubSeq(CaptureOf[s], 1, n) \in Seq(Row)
BY CaptureAssumption, CapturesAssumption

TInv == LInv /\ PipelineTypeOK /\ StoreOK

LEMMA InitTables == Init => TInv
<1> SUFFICES ASSUME Init PROVE TInv
  OBVIOUS
<1>1. LInv
  BY InitLock
<1>2. StoreOK
  BY DEF Init, StoreInit, StoreOK
<1>3. \A s \in Sniffers : Len(CaptureOf[s]) \in Nat
  BY CaptureAssumption
<1>4. PipelineTypeOK
  BY <1>2, <1>3 DEF Init, StoreOK, PipelineTypeOK
<1> QED BY <1>1, <1>2, <1>4 DEF TInv

LEMMA SnifferKeepsTables ==
    ASSUME TInv, NEW s \in Sniffers,
           SnifferNext(s) \/ ReadError(s) \/ SnifferCrash(s)
    PROVE  /\ TInv'
           /\ UNCHANGED <<sessionOf, sessions, alerts, detectorVars>>
           /\ Arrive \/ UNCHANGED messages
           /\ DOMAIN messages \subseteq DOMAIN messages'
<1>1. LInv'
  BY SnifferKeepsLock DEF TInv
<1>2. UNCHANGED <<sessionOf, sessions, alerts, detectorVars>>
  BY DEF SnifferNext, InsertRow, InsertBusy, SnifferCommit, SnifferCommitBusy,
         ReadError, SnifferCrash, storeVars
<1>3. /\ messages' \in Seq(Row) /\ DOMAIN messages \subseteq DOMAIN messages'
      /\ Arrive \/ UNCHANGED messages
  <2>1. CASE SnifferCommit(s)
    <3> DEFINE capture == SubSeq(CaptureOf[s], 1, written[s])
    <3>1. capture \in Captures /\ capture \in Seq(Row)
      BY Inserted DEF TInv, PipelineTypeOK
    <3>2. messages' = messages \o capture /\ messages \in Seq(Row)
      BY <2>1 DEF SnifferCommit, TInv, StoreOK
    <3> HIDE DEF capture
    <3>3. messages' \in Seq(Row) /\ DOMAIN messages \subseteq DOMAIN messages'
      BY <3>1, <3>2, ConcatFacts
    <3>4. Arrive
      BY <1>2, <3>1, <3>2 DEF Arrive
    <3> QED BY <3>3, <3>4
  <2>2. CASE ~SnifferCommit(s)
    BY <2>2 DEF SnifferNext, InsertRow, InsertBusy, SnifferCommitBusy, ReadError,
                SnifferCrash, storeVars, TInv, StoreOK
  <2> QED BY <2>1, <2>2
<1>4. StoreOK'
  BY <1>2, <1>3 DEF TInv, StoreOK
<1>5. \A t \in Sniffers : written'[t] \in 0 .. Len(CaptureOf[t])
  <2>1. CASE InsertRow(s)
    <3>1. /\ written \in [Sniffers -> Nat] /\ written[s] < Len(CaptureOf[s])
          /\ written' = [written EXCEPT ![s] = @ + 1]
          /\ \A t \in Sniffers : written[t] \in 0 .. Len(CaptureOf[t])
      BY <2>1 DEF InsertRow, HasNext, TInv, LInv, ControlOK, PipelineTypeOK
    <3>2. Len(CaptureOf[s]) \in Nat
      BY CaptureAssumption
    <3> QED BY <3>1, <3>2
  <2>2. CASE ~InsertRow(s)
    <3>1. written' = written
      BY <2>2 DEF SnifferNext, InsertBusy, SnifferCommit, SnifferCommitBusy, ReadError,
                  SnifferCrash
    <3> QED BY <3>1 DEF TInv, PipelineTypeOK
  <2> QED BY <2>1, <2>2
<1>6. selected' \in [Detectors -> SUBSET DOMAIN messages']
  BY <1>2, <1>3 DEF detectorVars, TInv, PipelineTypeOK
<1>7. PipelineTypeOK'
  BY <1>1, <1>4, <1>5, <1>6 DEF LInv, ControlOK, StoreOK, PipelineTypeOK
<1> QED BY <1>1, <1>2, <1>3, <1>4, <1>7 DEF TInv

\* A commit is that of a whole pass over the rows that were selected.
LEMMA CommitIsWhole ==
    ASSUME TInv, NEW d \in Detectors, Commit(d)
    PROVE  \E p \in SoundPasses : /\ Whole(p, messages, selected[d], sessions)
                                  /\ Committed(p)
<1>1. selected[d] \in SUBSET DOMAIN messages
  BY DEF TInv, PipelineTypeOK
<1>2. PICK p \in SoundPasses :
        /\ Turns(messages, selected[d], sessions)[Cardinality(selected[d])] = {p}
        /\ Whole(p, messages, selected[d], sessions)
  BY <1>1, OutcomeWhole DEF TInv, StoreOK
<1>3. Results(d) = {p}
  BY <1>2 DEF Results, Outcomes
<1> QED BY <1>2, <1>3 DEF Commit, Committed

LEMMA DetectorKeepsTables ==
    ASSUME TInv, NEW d \in Detectors, DetectorNext(d) \/ Lost(d)
    PROVE  TInv'
<1>1. LInv'
  BY DetectorKeepsLock DEF TInv
<1>2. messages' = messages /\ written' = written
  BY DEF DetectorNext, Select, Fetched, TakeLock, Commit, Refused, Printed, Lost,
         storeVars, snifferVars
<1>3. StoreOK'
  <2>1. CASE Commit(d)
    <3>1. selected[d] \in SUBSET DOMAIN messages
      BY DEF TInv, PipelineTypeOK
    <3> QED BY <2>1, <3>1, CommitIsWhole, PassKeepsStore DEF TInv
  <2>2. CASE ~Commit(d)
    BY <2>2 DEF DetectorNext, Select, Fetched, TakeLock, Refused, Printed, Lost,
                storeVars, TInv, StoreOK
  <2> QED BY <2>1, <2>2
<1>4. selected' \in [Detectors -> SUBSET DOMAIN messages]
  <2>1. selected \in [Detectors -> SUBSET DOMAIN messages]
    BY DEF TInv, PipelineTypeOK
  <2> QED BY <2>1 DEF DetectorNext, Select, Fetched, TakeLock, Commit, Refused, Printed,
                      Lost, Unassigned, Leave
<1>5. PipelineTypeOK'
  BY <1>1, <1>2, <1>3, <1>4 DEF LInv, ControlOK, StoreOK, TInv, PipelineTypeOK
<1> QED BY <1>1, <1>3, <1>5 DEF TInv

LEMMA TableInvariance == Spec => []TInv
<1>1. TInv /\ [Next]_vars => TInv'
  <2> SUFFICES ASSUME TInv, [Next]_vars PROVE TInv'
    OBVIOUS
  <2>1. CASE UNCHANGED vars
    BY <2>1 DEF vars, storeVars, snifferVars, detectorVars, TInv, LInv, ControlOK,
                LockIsHeldByWriter, PipelineTypeOK, StoreOK
  <2>2. CASE Next
    BY <2>2, SnifferKeepsTables, DetectorKeepsTables DEF Next
  <2> QED BY <2>1, <2>2
<1> QED BY InitTables, <1>1, PTL DEF Spec

\* Whatever the captures hold and however many processes run at once, the
\* tables keep their shape: a message's session and an alert's session are rows
\* of the sessions table, also where two detectors commit over each other
\* (the INSERT of engine.py:155 and the flush of engine.py:226).
THEOREM TablesKeepShape == Spec => []PipelineTypeOK
BY TableInvariance, PTL DEF TInv

-----------------------------------------------------------------------------
(* One detector.                                                           *)

\* The rows of the pass are still unassigned when it commits.
StillUnassigned ==
    \A d \in Detectors :
        detector[d] \in {"selecting", "selected", "writing"} =>
            selected[d] \cap DOMAIN sessionOf = {}

LEMMA OneDetectorStep ==
    ASSUME NEW d, Detectors = {d}, TInv, StillUnassigned, [Next]_vars
    PROVE  StillUnassigned' /\ [StoreNext]_storeVars
<1>1. CASE UNCHANGED vars
  BY <1>1 DEF vars, detectorVars, storeVars, StillUnassigned
<1>2. CASE \E s \in Sniffers : SnifferNext(s) \/ ReadError(s) \/ SnifferCrash(s)
  <2>1. PICK s \in Sniffers : SnifferNext(s) \/ ReadError(s) \/ SnifferCrash(s)
    BY <1>2
  <2>2. /\ UNCHANGED <<sessionOf, sessions, alerts, detectorVars>>
        /\ Arrive \/ UNCHANGED messages
    BY <2>1, SnifferKeepsTables
  <2> QED BY <2>2 DEF detectorVars, storeVars, StoreNext, StillUnassigned
<1>3. CASE \E e \in Detectors : DetectorNext(e) \/ Lost(e)
  <2>1. DetectorNext(d) \/ Lost(d)
    BY <1>3
  <2>2. CASE Commit(d)
    <3>1. selected[d] \cap DOMAIN sessionOf = {} /\ detector'[d] = "printing"
      BY <2>2 DEF Commit, At, StillUnassigned, TInv, PipelineTypeOK
    <3>2. selected[d] \in SUBSET (DOMAIN messages \ DOMAIN sessionOf)
      BY <3>1 DEF TInv, PipelineTypeOK
    <3>3. Publish \/ UNCHANGED storeVars
      BY <2>2, <3>2, CommitIsWhole, PassPublishes DEF TInv
    <3> QED BY <3>1, <3>3 DEF StoreNext, StillUnassigned
  <2>3. CASE Select(d)
    <3>1. selected'[d] = DOMAIN messages \ DOMAIN sessionOf
      BY <2>3 DEF Select, Unassigned, TInv, PipelineTypeOK
    <3> QED BY <2>3, <3>1 DEF Select, storeVars, StillUnassigned
  <2>4. CASE Fetched(d) \/ TakeLock(d) \/ Refused(d) \/ Printed(d) \/ Lost(d)
    <3>1. UNCHANGED storeVars
      BY <2>4 DEF Fetched, TakeLock, Refused, Printed, Lost
    <3>2. \/ selected' = selected /\ detector[d] \in {"selecting", "selected", "writing"}
          \/ detector'[d] \in {"idle", "printing"}
      BY <2>4 DEF Fetched, TakeLock, Refused, Printed, Lost, At, TInv, PipelineTypeOK
    <3> QED BY <3>1, <3>2 DEF StillUnassigned, storeVars
  <2> QED BY <2>1, <2>2, <2>3, <2>4 DEF DetectorNext
<1> QED BY <1>1, <1>2, <1>3 DEF Next

\* With one detector, readers of the file see what SessionStore promises,
\* whatever sniffers, crashes, time-outs, refused passes and unreadable captures
\* there are: the rows that a pass read before it had the lock are still
\* unassigned when it commits (fetch_unassigned before transaction in
\* process_stream).  With two it is not so.
THEOREM OneDetectorImplements ==
    ASSUME NEW d, Detectors = {d} PROVE Spec => StoreSpec
<1>1. Init => StoreInit /\ StillUnassigned
  BY DEF Init, StillUnassigned
<1>2. TInv /\ StillUnassigned /\ [Next]_vars => StillUnassigned' /\ [StoreNext]_storeVars
  BY OneDetectorStep
<1> QED BY <1>1, <1>2, TableInvariance, PTL DEF Spec, StoreSpec
=============================================================================
