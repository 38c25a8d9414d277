----------------------------- MODULE FileProofs ----------------------------
(***************************************************************************)
(* Theorems about FileImport, for every set of uploads and sheets: what    *)
(* IntakeProofs establishes of the intake holds beside the files as well.  *)
(***************************************************************************)
EXTENDS FileImport, IntakeProofs, SequenceTheorems

(* A request of the data import works on an upload, and on at least one    *)
(* row while it writes.                                                    *)
JobsOK == \A r \in Requests :
    /\ job[r].call # None => job[r].upload \in Uploads
    /\ job[r].call = "FileWrite" => job[r].rows # <<>>

FileInv == FileTypeOK /\ JobsOK

StockInv == PublishedOK /\ PublishedSessions /\ OnceInv

-----------------------------------------------------------------------------
(* Types. *)

(* A list of valid rows is a list of rows.                                 *)
LEMMA ValidAreRows ==
  ASSUME NEW s \in Seq(Macs \cup {NoMac}) PROVE s \in Seq(Rows)
  BY DEF Rows

(* A list of more than one row has rows after its first.                   *)
LEMMA RowsLeft ==
  ASSUME NEW S, NEW s \in Seq(S), s # <<>>, Len(s) # 1
  PROVE  Tail(s) \in Seq(S) /\ Tail(s) # <<>>
  <1>1. Len(s) \in Nat /\ Len(s) > 1
    BY EmptySeq
  <1> DEFINE t == Tail(s)
  <1>2. t \in Seq(S) /\ Len(t) = Len(s) - 1
    BY HeadTailProperties
  <1>3. Len(<<>>) = 0
    BY EmptySeq
  <1> HIDE DEF t
  <1>4. t \in Seq(S) /\ t # <<>>
    BY <1>1, <1>2, <1>3
  <1> QED BY <1>4 DEF t

(* Nothing uploaded and nothing in flight is typed.                        *)
LEMMA NoneTyped == NoPreview \in PreviewRec /\ NoJob \in JobRec
  <1>1. <<>> \in Seq(Macs \cup {NoMac}) /\ <<>> \in Seq(Rows)
    OBVIOUS
  <1> QED BY <1>1 DEF NoPreview, PreviewRec, NoJob, JobRec

(* An execution that is over leaves typed previews and jobs.               *)
LEMMA DoneTyped ==
  ASSUME FileInv, NEW r \in Requests, FileDone(r) PROVE FileInv'
  <1>1. <<>> \in Seq(Macs \cup {NoMac})
    OBVIOUS
  <1>2. previews' \in [Uploads -> PreviewRec]
    BY <1>1 DEF FileInv, FileTypeOK, FileDone, Executed, PreviewRec
  <1>3. job' \in [Requests -> JobRec]
    BY NoneTyped DEF FileInv, FileTypeOK, FileDone
  <1>4. JobsOK'
    BY DEF FileInv, FileTypeOK, JobsOK, FileDone, NoJob, None
  <1> QED BY <1>2, <1>3, <1>4 DEF FileInv, FileTypeOK

(* A request that holds a typed job, and the previews as they are.         *)
LEMMA HeldTyped ==
  ASSUME FileInv, NEW r \in Requests, NEW j \in JobRec,
         j.call # None => j.upload \in Uploads,
         j.call = "FileWrite" => j.rows # <<>>,
         job' = [job EXCEPT ![r] = j], UNCHANGED previews
  PROVE  FileInv'
  BY DEF FileInv, FileTypeOK, JobsOK

(* The uploads and the requests of this service keep the types.            *)
LEMMA FileStepTyped ==
  ASSUME FileInv, NEW r \in Requests, FileStep(r) PROVE FileInv'
  <1>a. \A u \in Uploads : previews[u] \in PreviewRec
    BY DEF FileInv, FileTypeOK
  <1>b. job[r] \in JobRec
    BY DEF FileInv, FileTypeOK
  <1>c. Modes \subseteq Merges \cup {Ticket}
    BY FileAssumption
  <1>1. CASE CheckRead(r)
    <2>1. PICK u \in Uploads, mode \in Modes :
            job' = [job EXCEPT ![r] = [call |-> "FileCheck", upload |-> u,
                                       rows |-> previews[u].rows, mode |-> mode]]
      BY <1>1 DEF CheckRead
    <2>2. [call |-> "FileCheck", upload |-> u,
           rows |-> previews[u].rows, mode |-> mode] \in JobRec
      BY <1>a, <1>c DEF PreviewRec, JobRec
    <2> QED BY <1>1, <2>1, <2>2, HeldTyped DEF CheckRead
  <1>2. CASE CheckFile(r)
    <2>1. PICK valid \in Seq(Macs \cup {NoMac}) :
            /\ previews' = [previews EXCEPT ![job[r].upload].state = "checked",
                                            ![job[r].upload].valid = valid]
            /\ job' = [job EXCEPT ![r] = NoJob]
      <3> DEFINE rows == job[r].rows
                 accepted == {i \in DOMAIN rows : Accepted(rows, rows[i], job[r].mode)}
      <3>1. rows \in Seq(Rows)
        BY DEF FileInv, FileTypeOK, JobRec
      <3>2. \A i \in accepted : rows[i] \in Macs \cup {NoMac}
        BY <3>1 DEF Accepted, ValidTicketRow, ValidRow
      <3>3. Keep(rows, accepted) \in Seq(Macs \cup {NoMac})
        <4> HIDE DEF rows
        <4>1. accepted \in SUBSET DOMAIN rows
          OBVIOUS
        <4> HIDE DEF accepted
        <4> QED BY <3>1, <3>2, <4>1, KeepFacts
      <3> QED BY <1>2, <3>3 DEF CheckFile
    <2>2. previews' \in [Uploads -> PreviewRec]
      BY <2>1 DEF FileInv, FileTypeOK, PreviewRec
    <2>3. job' \in [Requests -> JobRec] /\ JobsOK'
      BY <2>1, NoneTyped DEF FileInv, FileTypeOK, JobsOK, NoJob, None
    <2> QED BY <2>2, <2>3 DEF FileInv, FileTypeOK
  <1>3. CASE ExecuteNothing(r)
    <2>1. PICK u \in Uploads : previews' = Executed(u)
      BY <1>3 DEF ExecuteNothing
    <2>2. <<>> \in Seq(Macs \cup {NoMac})
      OBVIOUS
    <2>3. previews' \in [Uploads -> PreviewRec]
      BY <2>1, <2>2 DEF FileInv, FileTypeOK, Executed, PreviewRec
    <2> QED BY <1>3, <2>3 DEF ExecuteNothing, FileInv, FileTypeOK, JobsOK
  <1>4. CASE ExecuteRead(r)
    <2>1. PICK u \in Uploads, mode \in Modes :
            /\ previews[u].valid # <<>>
            /\ job' = [job EXCEPT ![r] = [call |-> "FileWrite", upload |-> u,
                                          rows |-> previews[u].valid, mode |-> mode]]
      BY <1>4 DEF ExecuteRead
    <2>2. previews[u].valid \in Seq(Rows)
      BY <1>a, ValidAreRows DEF PreviewRec
    <2>3. [call |-> "FileWrite", upload |-> u,
           rows |-> previews[u].valid, mode |-> mode] \in JobRec
      BY <1>c, <2>2 DEF JobRec
    <2> QED BY <1>4, <2>1, <2>3, HeldTyped DEF ExecuteRead
  <1>5. CASE WriteRow(r)
    <2>1. CASE FileDone(r)
      BY <2>1, DoneTyped
    <2>2. CASE /\ job' = [job EXCEPT ![r].rows = Tail(@)]
               /\ UNCHANGED previews
               /\ Len(job[r].rows) # 1
      <3> DEFINE j == [job[r] EXCEPT !.rows = Tail(@)]
      <3>1. job[r].rows \in Seq(Rows) /\ job[r].rows # <<>>
        BY <1>5, <1>b DEF WriteRow, FileInv, JobsOK, JobRec
      <3>2. Tail(job[r].rows) \in Seq(Rows) /\ Tail(job[r].rows) # <<>>
        BY <2>2, <3>1, RowsLeft
      <3>3. j \in JobRec /\ (j.call # None => j.upload \in Uploads) /\ j.rows # <<>>
        BY <1>b, <3>2 DEF JobRec, FileInv, JobsOK
      <3>4. job' = [job EXCEPT ![r] = j]
        BY <2>2
      <3> HIDE DEF j
      <3> QED BY <2>2, <3>3, <3>4, HeldTyped
    <2> QED BY <1>5, <2>1, <2>2 DEF WriteRow
  <1>6. CASE WriteFails(r)
    BY <1>6, DoneTyped DEF WriteFails
  <1> QED BY <1>1, <1>2, <1>3, <1>4, <1>5, <1>6 DEF FileStep

(* Every step keeps the types of the previews and of the jobs.             *)
LEMMA FileTypeStep ==
  ASSUME FileInv, [FileNext]_<<vars, fileVars>> PROVE FileInv'
  <1>1. CASE UNCHANGED fileVars
    BY <1>1 DEF fileVars, FileInv, FileTypeOK, JobsOK
  <1>2. ASSUME NEW u \in Uploads, UploadFile(u) \/ ShowSheet(u) PROVE FileInv'
    <2>1. PICK rows \in Sheets :
            \/ previews' = [previews EXCEPT ![u] = [NoPreview EXCEPT !.state = "uploaded",
                                                                    !.rows = rows]]
            \/ previews' = [previews EXCEPT ![u].rows = rows]
      BY <1>2 DEF UploadFile, ShowSheet
    <2>2. rows \in Seq(Rows)
      BY FileAssumption
    <2>3. [NoPreview EXCEPT !.state = "uploaded", !.rows = rows] \in PreviewRec
      BY <2>2, NoneTyped DEF PreviewRec
    <2>4. [previews[u] EXCEPT !.rows = rows] \in PreviewRec
      BY <2>2 DEF FileInv, FileTypeOK, PreviewRec
    <2>5. previews' \in [Uploads -> PreviewRec]
      BY <2>1, <2>3, <2>4 DEF FileInv, FileTypeOK
    <2> QED BY <1>2, <2>5 DEF UploadFile, ShowSheet, FileInv, FileTypeOK, JobsOK
  <1>3. CASE Stop
    <2>1. [NoPreview EXCEPT !.state = "gone"] \in PreviewRec
      BY NoneTyped DEF PreviewRec
    <2>2. previews' \in [Uploads -> PreviewRec]
      BY <1>3, <2>1, NoneTyped DEF Stop
    <2>3. job' \in [Requests -> JobRec] /\ JobsOK'
      BY <1>3, NoneTyped DEF Stop, JobsOK, NoJob, None
    <2> QED BY <2>2, <2>3 DEF FileInv, FileTypeOK
  <1> QED BY <1>1, <1>2, <1>3, FileStepTyped DEF FileNext, fileVars

-----------------------------------------------------------------------------
(* The intake beside the files. *)

(* A step of this module is one of the intake, or changes no variable of   *)
(* it, or writes a row, or stops the process.                              *)
LEMMA FileStepKinds ==
  ASSUME [FileNext]_<<vars, fileVars>>
  PROVE  \/ [Next]_vars
         \/ \E r \in Requests : WriteRow(r)
         \/ Stop
  BY DEF FileNext, IntakeStep, Next, FileStep, UploadFile, ShowSheet, CheckRead, CheckFile,
         ExecuteNothing, ExecuteRead, WriteFails

(* A row inserts a mac that no device has and no transaction is inserting. *)
LEMMA RowWritten ==
  ASSUME FileInv, NEW r \in Requests, WriteRow(r)
  PROVE  /\ UNCHANGED <<imp, ses, torn, pc, loc>>
         /\ \/ UNCHANGED from
            \/ \E row : /\ ~ Stocked(row) /\ ~ Awaited(row)
                        /\ from' = [from EXCEPT ![row] = @ \cup {job[r].upload}]
         /\ job[r].upload \in Uploads
  <1>1. job[r].call # None
    BY DEF WriteRow, None
  <1> QED BY <1>1 DEF WriteRow, FileInv, JobsOK

(* The types and the claims of the requests of the intake survive.         *)
LEMMA IntakeTyped ==
  ASSUME TypeInv, FileInv, [FileNext]_<<vars, fileVars>> PROVE TypeInv'
  <1>1. CASE [Next]_vars
    BY <1>1, TypeStep
  <1>2. ASSUME NEW r \in Requests, WriteRow(r) PROVE TypeInv'
    <2>1. from' \in [Macs -> SUBSET (Sessions \cup Uploads)]
      BY <1>2, RowWritten DEF TypeInv, TypeOK
    <2> QED BY <1>2, <2>1, RowWritten
            DEF TypeInv, TypeOK, HoldsOK, SessionsOK, Holds, Allocated
  <1>3. CASE Stop
    <2>1. TypeOK'
      BY <1>3, BlankType DEF Stop, TypeInv, TypeOK, Steps
    <2>2. HoldsOK'
      BY <1>3 DEF Stop, HoldsOK, Holds, ImportCalls, OpenCalls, CompleteCalls
    <2>3. SessionsOK'
      BY <1>3 DEF Stop, TypeInv, SessionsOK, Allocated
    <2> QED BY <2>1, <2>2, <2>3 DEF TypeInv
  <1> QED BY <1>1, <1>2, <1>3, FileStepKinds

(* A row that is written is an origin of its own, and no session's.        *)
LEMMA RowKeepsStock ==
  ASSUME TypeInv, FileInv, StockInv, NEW r \in Requests, WriteRow(r) PROVE StockInv'
  <1>1. CASE UNCHANGED from
    BY <1>1, RowWritten DEF StockInv, PublishedOK, PublishedSessions, OnceInv, Adding,
                            Allocated
  <1>2. CASE ~ UNCHANGED from
    <2>1. PICK row : /\ ~ Stocked(row) /\ ~ Awaited(row)
                     /\ from' = [from EXCEPT ![row] = @ \cup {job[r].upload}]
      BY <1>2, RowWritten
    <2>2. row \in Macs
      BY <1>2, <2>1 DEF TypeInv, TypeOK
    <2>3. /\ from'[row] = {job[r].upload}
          /\ \A m \in Macs \ {row} : from'[m] = from[m]
      BY <2>1, <2>2 DEF Stocked, TypeInv, TypeOK
    <2>4. \A q \in Requests : Adding(q)' = Adding(q) /\ row \notin Adding(q)
      BY <2>1, RowWritten DEF Adding, Awaited, InTxn
    <2>5. \A q \in Requests : Adding(q) \subseteq Macs
      BY DEF Adding, ToSet, TypeInv, TypeOK, LocRec
    <2>6. OnceInv'
      BY <2>2, <2>3, <2>4, <2>5 DEF StockInv, OnceInv
    <2>7. job[r].upload \notin Sessions
      BY RowWritten, FileAssumption
    <2>8. PublishedOK' /\ PublishedSessions'
      BY <2>3, <2>7, RowWritten DEF StockInv, PublishedOK, PublishedSessions, Allocated
    <2> QED BY <2>6, <2>8 DEF StockInv
  <1> QED BY <1>1, <1>2

(* What is in stock keeps its one origin, whoever writes it.               *)
LEMMA StockStep ==
  ASSUME TypeInv, FileInv, StockInv, [FileNext]_<<vars, fileVars>> PROVE StockInv'
  <1>1. CASE [Next]_vars
    BY <1>1, PublishedStep, PublishedSessionsStep, OnceStep DEF StockInv
  <1>2. CASE Stop
    BY <1>2 DEF Stop, StockInv, PublishedOK, PublishedSessions, OnceInv, Adding, TxnSteps,
                Allocated
  <1> QED BY <1>1, <1>2, RowKeepsStock, FileStepKinds

-----------------------------------------------------------------------------
(* The inductive invariant of the two services together.                   *)
LEMMA FileInvariant == FileSpec => [](TypeInv /\ FileInv /\ StockInv)
  <1>1. Init /\ FileInit => TypeInv /\ FileInv /\ StockInv
    <2> SUFFICES ASSUME Init, FileInit PROVE TypeInv /\ FileInv /\ StockInv
      OBVIOUS
    <2>1. TypeInv
      BY TypeInit
    <2>2. FileInv
      BY NoneTyped DEF FileInit, FileInv, FileTypeOK, JobsOK, NoJob, None
    <2>3. StockInv
      BY DEF Init, StockInv, PublishedOK, PublishedSessions, NoImport, NoSession, Allocated,
             SessionStatuses, OnceInv, Adding, TxnSteps
    <2> QED BY <2>1, <2>2, <2>3
  <1>2. TypeInv /\ FileInv /\ StockInv /\ [FileNext]_<<vars, fileVars>>
          => (TypeInv /\ FileInv /\ StockInv)'
    BY IntakeTyped, FileTypeStep, StockStep
  <1> QED BY <1>1, <1>2, PTL DEF FileSpec

(* The documents, the previews and the requests of both services are typed *)
(* while files are imported beside the intake.                             *)
THEOREM FileTypeCorrect == FileSpec => [](TypeOK /\ FileTypeOK)
  <1>1. TypeInv /\ FileInv => TypeOK /\ FileTypeOK
    BY DEF TypeInv, FileInv
  <1> QED BY <1>1, FileInvariant, PTL

(* No device enters the stock twice when files are executed, repeatedly    *)
(* and at the same time, while sessions that list its mac are completed.   *)
THEOREM FileStockedOnce == FileSpec => []StockedOnce
  <1>1. StockInv => StockedOnce
    BY OriginOnce DEF StockInv
  <1> QED BY <1>1, FileInvariant, PTL

(* What a session stocked is of a ticket that was PUBLIC, files or not.    *)
THEOREM FileStockedFromPublished == FileSpec => []StockedFromPublished
  <1>1. TypeInv /\ StockInv => StockedFromPublished
    BY DEF StockInv, PublishedSessions, StockedFromPublished, TypeInv, TypeOK
  <1> QED BY <1>1, FileInvariant, PTL

(* Beside the files too, totalScanned is the number of scans of a session. *)
THEOREM FileScannedCorrect == FileSpec => []ScannedMatchesDetails
  <1>1. Init => ScannedMatchesDetails
    BY DEF Init, ScannedMatchesDetails, NoSession
  <1>2. TypeInv /\ FileInv /\ ScannedMatchesDetails /\ [FileNext]_<<vars, fileVars>>
          => ScannedMatchesDetails'
    <2> SUFFICES ASSUME TypeInv, FileInv, ScannedMatchesDetails,
                        [FileNext]_<<vars, fileVars>>
                 PROVE  ScannedMatchesDetails'
      OBVIOUS
    <2>1. CASE [Next]_vars
      BY <2>1, ScannedStep
    <2>2. CASE UNCHANGED ses
      BY <2>2 DEF ScannedMatchesDetails
    <2> QED BY <2>1, <2>2, FileStepKinds, RowWritten DEF Stop
  <1> QED BY <1>1, <1>2, FileInvariant, PTL DEF FileSpec

=============================================================================
