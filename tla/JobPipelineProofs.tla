------------------------- MODULE JobPipelineProofs -------------------------
(***************************************************************************)
(* Proofs about JobPipeline, for every number of jobs, workers and faults. *)
(* The first part holds whatever the faults; the second one, that a        *)
(* completed job has its whole file and that the pipeline implements       *)
(* JobLifecycle, needs a queue that delivers at most once; that a          *)
(* completed job stays completed, that reporting it never fails too.  The  *)
(* last part, about downloads, rests on both.                              *)
(***************************************************************************)
EXTENDS JobPipeline, TLAPS

\* A worker is idle exactly when it executes nothing.
IdleWorkers == \A x \in Workers : doing[x] = NoJob <=> at[x] = "idle"

\* A handler that has not dispatched its job: there is no message of it and no
\* execution, and the row exists from the commit on.
Undispatched ==
  \A j \in Jobs :
    /\ pc[j] \in {"idle", "written", "staged", "rejected", "committed", "created"} =>
         queue[j] = 0 /\ ~Executing(j)
    /\ pc[j] \in {"idle", "written", "staged", "rejected"} => status[j] = "none"
    /\ pc[j] \in {"written", "staged", "committed", "created", "dispatchFailed", "accepted"} =>
         input[j]
    /\ pc[j] \in {"committed", "created", "dispatchFailed", "accepted"} => status[j] # "none"
    /\ pc[j] = "rejected" => ~input[j]
    /\ queue[j] > 0 \/ Executing(j) => input[j] /\ status[j] # "none"

Inv ==
  /\ TypeOK
  /\ IdleWorkers
  /\ Undispatched
  /\ SomebodyCarriesOn

\* What a row or a download leads to is there: no step takes an output away.
Reachable ==
  /\ \A j \in Jobs :
       /\ outputPath[j] \/ download[j] = "reading" => output[j] # "absent"
       /\ download[j] # "absent"
  /\ \A x \in Workers : at[x] = "complete" => output[doing[x]] # "absent"

-----------------------------------------------------------------------------
(* At-most-once delivery.                                                   *)

AtMostOnce == Faults \intersect {"duplicate", "ambiguous"} = {}

\* A job is in one place: with its handler, in the queue or with one worker.
OnePlace ==
  /\ \A j \in Jobs :
       /\ queue[j] > 0 => queue[j] = 1 /\ ~Executing(j)
       /\ queue[j] > 0 \/ Executing(j) => pc[j] \in {"accepted", "lost"}
  /\ \A x, y \in Workers : doing[x] = doing[y] /\ doing[x] # NoJob => x = y

\* The row is what the place of the job says, and the files as far as they go.
RowInPlace ==
  /\ \A j \in Jobs :
       /\ queue[j] > 0 \/ pc[j] \in {"committed", "created", "dispatchFailed"} =>
            status[j] = "queued"
       /\ status[j] = "completed" => outputPath[j]
       /\ outputPath[j] => status[j] \in Terminal /\ output[j] = "whole"
       /\ errorMessage[j] <=> status[j] = "failed"
  /\ \A x \in Workers :
       /\ at[x] = "begin" => status[doing[x]] = "queued"
       /\ at[x] \in {"open", "writing", "staging", "copying", "complete"} =>
            status[doing[x]] = "processing"
       /\ at[x] = "reporting" => status[doing[x]] = "completed"
       /\ at[x] = "failing" =>
            \/ status[doing[x]] = "processing"
            \/ status[doing[x]] = "completed" /\ "report" \in Faults
       /\ at[x] \in {"staging", "copying"} => stage[doing[x]] = "whole"
       /\ at[x] = "complete" => output[doing[x]] = "whole"

OnceInv == Inv /\ OnePlace /\ RowInPlace

-----------------------------------------------------------------------------
(* The general part.                                                        *)

LEMMA InitInv == Init => Inv
  BY BackendsAssumption, StoragesAssumption, MaxFaultsAssumption, NoJobAssumption
     DEF Init, Inv, TypeOK, IdleWorkers, Undispatched, SomebodyCarriesOn, InHand, Executing,
         HandlerLabels, WorkerLabels, Answers, Statuses, FileStates

\* Every step of a handler, with or without a fault.
LEMMA HandlerType ==
  ASSUME TypeOK, NEW j \in Jobs,
         WriteUpload(j) \/ HandlerStep(j) \/ EnqueueAmbiguous(j) \/ HandlerFails(j)
           \/ Redeliver(j) \/ BeginDownload(j) \/ EndDownload(j)
  PROVE  TypeOK'
  <1> USE MaxFaultsAssumption
      DEF TypeOK, Goto, Fault, NoFault, row, files, work, others, HandlerLabels, Answers, Statuses,
          Terminal
  <1>1. CASE WriteUpload(j)
    BY <1>1 DEF WriteUpload
  <1>2. CASE RejectUpload(j)
    BY <1>2 DEF RejectUpload
  <1>3. CASE StageUpload(j)
    BY <1>3 DEF StageUpload
  <1>4. CASE RefuseJob(j)
    BY <1>4 DEF RefuseJob
  <1>5. CASE CommitJob(j)
    BY <1>5 DEF CommitJob
  <1>6. CASE ReturnJob(j)
    BY <1>6 DEF ReturnJob
  <1>7. CASE Enqueue(j)
    BY <1>7 DEF Enqueue
  <1>8. CASE EnqueueRaises(j)
    BY <1>8 DEF EnqueueRaises
  <1>9. CASE MarkDispatchFailed(j)
    BY <1>9 DEF MarkDispatchFailed
  <1>10. CASE EnqueueAmbiguous(j)
    BY <1>10 DEF EnqueueAmbiguous
  <1>11. CASE HandlerFails(j)
    <2>1. input' \in [Jobs -> BOOLEAN]
      BY <1>11 DEF HandlerFails
    <2>2. faults' \in 0 .. MaxFaults /\ struck' \subseteq Jobs
      BY <1>11 DEF HandlerFails
    <2>3. pc' \in [Jobs -> HandlerLabels]
      BY <1>11 DEF HandlerFails
    <2>4. QED
      BY <1>11, <2>1, <2>2, <2>3 DEF HandlerFails
  <1>12. CASE Redeliver(j)
    BY <1>12 DEF Redeliver
  <1>13. CASE UploadFails(j)
    <2>1. input' \in [Jobs -> BOOLEAN]
      BY <1>13 DEF UploadFails
    <2>2. QED
      BY <1>13, <2>1 DEF UploadFails
  <1>14. CASE BeginDownload(j) \/ EndDownload(j)
    BY <1>14 DEF BeginDownload, EndDownload, FileStates
  <1>15. QED
    BY <1>1, <1>2, <1>3, <1>4, <1>5, <1>6, <1>7, <1>8, <1>9, <1>10, <1>11, <1>12, <1>13, <1>14
       DEF HandlerStep

\* The files after a copy or an upload: there is an output, whole if the staged file was
\* and nobody interfered.
LEMMA StoredType ==
  ASSUME TypeOK, NEW x \in Workers
  PROVE  /\ Stored(x) \in [Jobs -> FileStates]
         /\ \A j \in Jobs : j # doing[x] => Stored(x)[j] = output[j]
         /\ doing[x] \in Jobs => Stored(x)[doing[x]] # "absent"
         /\ doing[x] \in Jobs /\ stage[doing[x]] = "whole" /\ ~AnotherAt(x, "copying")
              => Stored(x)[doing[x]] = "whole"
  BY DEF TypeOK, Stored, FileStates

\* Every step of a worker.
LEMMA WorkerType ==
  ASSUME TypeOK, IdleWorkers, NEW x \in Workers, WorkerStep(x) \/ ReportFails(x) \/ ExecutionFails(x)
  PROVE  TypeOK' /\ IdleWorkers'
  <1> USE MaxFaultsAssumption, NoJobAssumption
      DEF TypeOK, IdleWorkers, Fault, NoFault, row, files, work, others, WorkerLabels, Statuses,
          Terminal, FileStates, Advance, Free
  <1>1. CASE Take(x)
    <2>1. PICK j \in Jobs : queue[j] > 0 /\ queue' = [queue EXCEPT ![j] = @ - 1]
                            /\ doing' = [doing EXCEPT ![x] = j]
      BY <1>1 DEF Take
    <2>2. queue' \in [Jobs -> Nat]
      BY <2>1
    <2>3. QED
      BY <1>1, <2>1, <2>2 DEF Take
  <1>2. CASE BeginJob(x)
    BY <1>2 DEF BeginJob
  <1>3. CASE OpenFails(x)
    BY <1>3 DEF OpenFails
  <1>4. CASE OpenInput(x)
    BY <1>4 DEF OpenInput
  <1>5. CASE SaveFixed(x)
    BY <1>5 DEF SaveFixed
  <1>6. CASE SaveFails(x)
    BY <1>6 DEF SaveFails
  <1>7. CASE StageOutput(x)
    BY <1>7 DEF StageOutput
  <1>8. CASE StageOutputFails(x)
    <2>1. stage' \in [Jobs -> FileStates] /\ output' \in [Jobs -> FileStates]
      BY <1>8, StoredType DEF StageOutputFails
    <2>2. at' \in [Workers -> WorkerLabels] /\ IdleWorkers'
      BY <1>8 DEF StageOutputFails
    <2>3. QED
      BY <1>8, <2>1, <2>2 DEF StageOutputFails
  <1>9. CASE OutputStaged(x)
    BY <1>9, StoredType DEF OutputStaged
  <1>10. CASE CompleteJob(x)
    BY <1>10 DEF CompleteJob
  <1>11. CASE FailJob(x)
    BY <1>11 DEF FailJob
  <1>12. CASE ReportJob(x) \/ ReportFails(x) \/ ExecutionFails(x)
    BY <1>12 DEF ReportJob, ReportFails, ExecutionFails
  <1>13. QED
    BY <1>1, <1>2, <1>3, <1>4, <1>5, <1>6, <1>7, <1>8, <1>9, <1>10, <1>11, <1>12
       DEF WorkerStep

\* A handler keeps the row, the upload and the queue of its job in step.
LEMMA HandlerInv ==
  ASSUME Inv, NEW j \in Jobs,
         WriteUpload(j) \/ HandlerStep(j) \/ EnqueueAmbiguous(j) \/ HandlerFails(j)
           \/ Redeliver(j) \/ BeginDownload(j) \/ EndDownload(j)
  PROVE  Inv'
  <1>1. TypeOK'
    BY HandlerType DEF Inv
  <1>2. UNCHANGED work
    BY DEF WriteUpload, HandlerStep, RejectUpload, UploadFails, StageUpload, RefuseJob, CommitJob,
           ReturnJob, Enqueue, EnqueueRaises, MarkDispatchFailed, EnqueueAmbiguous,
           HandlerFails, Redeliver, BeginDownload, EndDownload
  <1>3. IdleWorkers' /\ \A i \in Jobs : Executing(i)' = Executing(i) /\ InHand(i)' = InHand(i)
    BY <1>2 DEF work, Inv, IdleWorkers, Executing, InHand
  <1>4. Undispatched' /\ SomebodyCarriesOn'
    <2> USE <1>3 DEF Inv, TypeOK, Undispatched, SomebodyCarriesOn, Goto, NoFault, Fault, row, others
    <2>1. CASE WriteUpload(j)
      BY <2>1 DEF WriteUpload
    <2>2. CASE RejectUpload(j)
      BY <2>2 DEF RejectUpload
    <2>3. CASE StageUpload(j)
      BY <2>3 DEF StageUpload
    <2>4. CASE RefuseJob(j)
      BY <2>4 DEF RefuseJob
    <2>5. CASE CommitJob(j)
      BY <2>5 DEF CommitJob
    <2>6. CASE ReturnJob(j)
      BY <2>6 DEF ReturnJob
    <2>7. CASE Enqueue(j)
      BY <2>7 DEF Enqueue
    <2>8. CASE EnqueueRaises(j)
      BY <2>8 DEF EnqueueRaises
    <2>9. CASE MarkDispatchFailed(j)
      BY <2>9 DEF MarkDispatchFailed
    <2>10. CASE EnqueueAmbiguous(j)
      BY <2>10 DEF EnqueueAmbiguous
    <2>11. CASE HandlerFails(j)
      BY <2>11 DEF HandlerFails
    <2>12. CASE Redeliver(j)
      BY <2>12 DEF Redeliver
    <2>13. CASE UploadFails(j)
      BY <2>13 DEF UploadFails
    <2>14. CASE BeginDownload(j) \/ EndDownload(j)
      BY <2>14 DEF BeginDownload, EndDownload
    <2>15. QED
      BY <2>1, <2>2, <2>3, <2>4, <2>5, <2>6, <2>7, <2>8, <2>9, <2>10, <2>11, <2>12, <2>13,
         <2>14 DEF HandlerStep
  <1>5. QED
    BY <1>1, <1>3, <1>4 DEF Inv

\* A worker that goes on with its job, or ends it, leaves nobody else's job alone.
LEMMA WorkerInv ==
  ASSUME Inv, NEW x \in Workers, WorkerStep(x) \/ ReportFails(x) \/ ExecutionFails(x)
  PROVE  Inv'
  <1>1. TypeOK' /\ IdleWorkers'
    BY WorkerType DEF Inv
  <1>2. Undispatched' /\ SomebodyCarriesOn'
    <2> USE NoJobAssumption
        DEF Inv, TypeOK, IdleWorkers, Undispatched, SomebodyCarriesOn, Executing, InHand, NoFault,
            Fault, row, files, work, others, Advance, Free
    <2>1. CASE Take(x)
      <3>1. PICK j \in Jobs : queue[j] > 0 /\ queue' = [queue EXCEPT ![j] = @ - 1]
                              /\ doing' = [doing EXCEPT ![x] = j]
        BY <2>1 DEF Take
      <3>2. doing'[x] = j /\ \A y \in Workers \ {x} : doing'[y] = doing[y]
        BY <3>1
      <3>3. \A i \in Jobs : /\ Executing(i)' <=> (Executing(i) \/ i = j)
                            /\ InHand(i)' <=> (InHand(i) \/ i = j)
        BY <2>1, <3>2 DEF Take
      <3>4. \A i \in Jobs : queue'[i] > 0 => queue[i] > 0
        BY <3>1
      <3>5. \A i \in Jobs : i # j => queue'[i] = queue[i]
        BY <3>1
      <3>6. UNCHANGED <<pc, status, input, struck>>
        BY <2>1 DEF Take
      <3>7. pc[j] \notin {"idle", "written", "staged", "rejected", "committed", "created"}
        BY <3>1
      <3>8. QED
        BY <3>1, <3>3, <3>4, <3>5, <3>6, <3>7
    <2>2. CASE BeginJob(x)
      BY <2>2 DEF BeginJob
    <2>3. CASE OpenFails(x) \/ OpenInput(x) \/ SaveFixed(x) \/ SaveFails(x) \/ StageOutput(x)
                 \/ StageOutputFails(x) \/ OutputStaged(x) \/ ReportFails(x)
      BY <2>3 DEF OpenFails, OpenInput, SaveFixed, SaveFails, StageOutput, StageOutputFails,
                  OutputStaged, ReportFails
    <2>4. CASE CompleteJob(x)
      BY <2>4 DEF CompleteJob
    <2>5. CASE FailJob(x)
      BY <2>5 DEF FailJob
    <2>6. CASE ExecutionFails(x)
      BY <2>6 DEF ExecutionFails
    <2>7. CASE ReportJob(x)
      BY <2>7 DEF ReportJob
    <2>8. QED
      BY <2>1, <2>2, <2>3, <2>4, <2>5, <2>6, <2>7 DEF WorkerStep
  <1>3. QED
    BY <1>1, <1>2 DEF Inv

\* The crash strikes exactly the jobs that nobody else holds.
LEMMA CrashInv ==
  ASSUME Inv, ApiCrash
  PROVE  Inv'
  <1>1. TypeOK' /\ IdleWorkers'
    BY MaxFaultsAssumption
       DEF ApiCrash, Fault, Inv, TypeOK, IdleWorkers, HeldByApi, HandlerLabels, WorkerLabels,
           Answers, row, files, work, others
  <1>2. CASE backend = "local"
    BY <1>1, <1>2, NoJobAssumption
       DEF ApiCrash, Inv, TypeOK, Undispatched, SomebodyCarriesOn, Executing, InHand, HeldByApi,
           Answers, row
  <1>3. CASE backend # "local"
    BY <1>1, <1>3
       DEF ApiCrash, Inv, TypeOK, Undispatched, SomebodyCarriesOn, Executing, InHand, HeldByApi,
           Answers, row, work
  <1>4. QED
    BY <1>2, <1>3

LEMMA NextInv == Inv /\ [Next]_vars => Inv'
  <1> SUFFICES ASSUME Inv, [Next]_vars PROVE Inv'
    OBVIOUS
  <1>1. CASE UNCHANGED vars
    BY <1>1 DEF vars, Inv, TypeOK, IdleWorkers, Undispatched, SomebodyCarriesOn, Executing, InHand
  <1>2. CASE Next
    BY <1>1, <1>2, HandlerInv, WorkerInv, CrashInv DEF Next, Finished
  <1>3. QED
    BY <1>1, <1>2

LEMMA Invariance == Spec => []Inv
  BY InitInv, NextInv, PTL DEF Spec

\* Rows, files, queue and workers keep to their types, whatever the faults.
THEOREM TypeCorrect == Spec => []TypeOK
  <1>1. Inv => TypeOK
    BY DEF Inv
  <1>2. QED
    BY <1>1, Invariance, PTL

\* A refused upload leaves nothing behind, and no worker ever misses the upload
\* of a job it was given, whatever the faults.
THEOREM UploadsSafe == Spec => []UploadsMatchJobs
  <1>1. Inv => UploadsMatchJobs
    BY DEF Inv, Undispatched, UploadsMatchJobs
  <1>2. QED
    BY <1>1, Invariance, PTL

\* A job is forgotten only if a fault struck it.
THEOREM NobodyForgotten == Spec => []SomebodyCarriesOn
  <1>1. Inv => SomebodyCarriesOn
    BY DEF Inv
  <1>2. QED
    BY <1>1, Invariance, PTL

-----------------------------------------------------------------------------
(* With at-most-once delivery.                                              *)

LEMMA InitOnce == Init => OnceInv
  <1> SUFFICES ASSUME Init PROVE OnceInv
    OBVIOUS
  <1>1. Inv
    BY InitInv
  <1>2. OnePlace /\ RowInPlace
    BY NoJobAssumption DEF Init, OnePlace, RowInPlace, Executing
  <1>3. QED
    BY <1>1, <1>2 DEF OnceInv

\* A handler touches the row only while the job is with it.
LEMMA HandlerOnce ==
  ASSUME AtMostOnce, OnceInv, NEW j \in Jobs,
         WriteUpload(j) \/ HandlerStep(j) \/ EnqueueAmbiguous(j) \/ HandlerFails(j)
           \/ Redeliver(j) \/ BeginDownload(j) \/ EndDownload(j)
  PROVE  OnePlace' /\ RowInPlace'
  <1>1. UNCHANGED <<work, files>> /\ ~EnqueueAmbiguous(j) /\ ~Redeliver(j)
    BY DEF WriteUpload, HandlerStep, RejectUpload, UploadFails, StageUpload, RefuseJob, CommitJob,
           ReturnJob, Enqueue, EnqueueRaises, MarkDispatchFailed, EnqueueAmbiguous,
           HandlerFails, Redeliver, BeginDownload, EndDownload, Fault, AtMostOnce
  <1>2. /\ \A i \in Jobs : Executing(i)' = Executing(i)
        /\ UNCHANGED <<doing, at, stage, output>>
    BY <1>1 DEF work, files, Executing
  <1>3. \A x \in Workers : doing[x] # NoJob => Executing(doing[x]) /\ doing[x] \in Jobs
    BY DEF Executing, OnceInv, Inv, TypeOK
  <1> USE <1>2, <1>3
      DEF OnceInv, Inv, TypeOK, IdleWorkers, Undispatched, OnePlace, RowInPlace, Terminal, Goto,
          NoFault, Fault, row, files, others
  <1>4. CASE WriteUpload(j)
    BY <1>4 DEF WriteUpload
  <1>5. CASE RejectUpload(j) \/ StageUpload(j) \/ RefuseJob(j)
    BY <1>5 DEF RejectUpload, StageUpload, RefuseJob
  <1>6. CASE CommitJob(j)
    BY <1>6 DEF CommitJob
  <1>7. CASE ReturnJob(j)
    BY <1>7 DEF ReturnJob
  <1>8. CASE Enqueue(j)
    BY <1>8 DEF Enqueue
  <1>9. CASE EnqueueRaises(j)
    BY <1>9 DEF EnqueueRaises
  <1>10. CASE MarkDispatchFailed(j)
    BY <1>10 DEF MarkDispatchFailed
  <1>11. CASE HandlerFails(j)
    BY <1>11 DEF HandlerFails
  <1>12. CASE UploadFails(j)
    BY <1>12 DEF UploadFails
  <1>13. CASE BeginDownload(j) \/ EndDownload(j)
    BY <1>13 DEF BeginDownload, EndDownload
  <1>14. QED
    BY <1>1, <1>4, <1>5, <1>6, <1>7, <1>8, <1>9, <1>10, <1>11, <1>12, <1>13 DEF HandlerStep

\* A worker is alone with the row and the files of its job.
LEMMA WorkerOnce ==
  ASSUME OnceInv, NEW x \in Workers, WorkerStep(x) \/ ReportFails(x) \/ ExecutionFails(x)
  PROVE  OnePlace' /\ RowInPlace'
  <1>1. \A y \in Workers : doing[y] # NoJob => Executing(doing[y]) /\ doing[y] \in Jobs
    BY DEF Executing, OnceInv, Inv, TypeOK
  <1>2. \A y \in Workers \ {x} : doing[x] # NoJob => doing[y] # doing[x]
    BY DEF OnceInv, OnePlace
  <1>3. \A l : ~AnotherAt(x, l) \/ doing[x] = NoJob
    BY <1>2 DEF AnotherAt
  <1> USE NoJobAssumption, <1>1, <1>2
      DEF OnceInv, Inv, TypeOK, IdleWorkers, OnePlace, RowInPlace, Terminal, NoFault, Fault, row, files,
          work, others, Advance, Free
  <1>4. CASE Take(x)
    <2>1. PICK j \in Jobs : queue[j] > 0 /\ queue' = [queue EXCEPT ![j] = @ - 1]
                            /\ doing' = [doing EXCEPT ![x] = j]
      BY <1>4 DEF Take
    <2>2. queue[j] = 1 /\ queue'[j] = 0 /\ \A i \in Jobs : i # j => queue'[i] = queue[i]
      BY <2>1
    <2>3. doing'[x] = j /\ \A y \in Workers \ {x} : doing'[y] = doing[y]
      BY <2>1
    <2>4. \A i \in Jobs : Executing(i)' <=> (Executing(i) \/ i = j)
      BY <1>4, <2>3 DEF Take, Executing
    <2>5. ~Executing(j) /\ pc[j] \in {"accepted", "lost"} /\ status[j] = "queued"
      BY <2>1
    <2>6. UNCHANGED <<pc, status, outputPath, errorMessage, stage, output>>
      BY <1>4 DEF Take
    <2>7. OnePlace'
      BY <2>2, <2>3, <2>4, <2>5, <2>6 DEF Executing
    <2>8. RowInPlace'
      BY <1>4, <2>2, <2>3, <2>5, <2>6 DEF Take
    <2>9. QED
      BY <2>7, <2>8
  <1>5. ASSUME UNCHANGED <<pc, queue, doing>>
        PROVE  OnePlace'
    BY <1>5 DEF Executing
  <1>6. CASE BeginJob(x)
    BY <1>5, <1>6 DEF BeginJob
  <1>7. CASE OpenFails(x)
    BY <1>5, <1>7 DEF OpenFails
  <1>8. CASE OpenInput(x)
    BY <1>5, <1>8 DEF OpenInput
  <1>9. CASE SaveFixed(x)
    BY <1>3, <1>5, <1>9 DEF SaveFixed
  <1>10. CASE SaveFails(x)
    BY <1>5, <1>10 DEF SaveFails
  <1>11. CASE StageOutput(x)
    BY <1>5, <1>11 DEF StageOutput
  <1>12. CASE StageOutputFails(x)
    BY <1>5, <1>12, StoredType DEF StageOutputFails
  <1>13. CASE OutputStaged(x)
    BY <1>3, <1>5, <1>13, StoredType DEF OutputStaged
  <1>14. ASSUME ReportJob(x) \/ FailJob(x) \/ ExecutionFails(x)
         PROVE  OnePlace'
    BY <1>14 DEF ReportJob, FailJob, ExecutionFails, Executing
  <1>15. CASE CompleteJob(x)
    BY <1>5, <1>15 DEF CompleteJob, Terminal
  <1>16. CASE FailJob(x)
    BY <1>14, <1>16 DEF FailJob, Terminal
  <1>17. CASE ReportJob(x) \/ ExecutionFails(x)
    BY <1>14, <1>17 DEF ReportJob, ExecutionFails
  <1>18. CASE ReportFails(x)
    BY <1>5, <1>18 DEF ReportFails
  <1>19. QED
    BY <1>4, <1>6, <1>7, <1>8, <1>9, <1>10, <1>11, <1>12, <1>13, <1>15, <1>16, <1>17, <1>18
       DEF WorkerStep

\* A crash takes jobs from their places and changes no row and no file.
LEMMA CrashOnce ==
  ASSUME OnceInv, ApiCrash
  PROVE  OnePlace' /\ RowInPlace'
  <1>1. CASE backend = "local"
    BY <1>1, NoJobAssumption
       DEF ApiCrash, OnceInv, Inv, TypeOK, OnePlace, RowInPlace, Executing, Answers, row, files
  <1>2. CASE backend # "local"
    BY <1>2
       DEF ApiCrash, OnceInv, Inv, TypeOK, OnePlace, RowInPlace, Executing, Answers, row,
           files, work, others
  <1>3. QED
    BY <1>1, <1>2

LEMMA NextOnce == AtMostOnce /\ OnceInv /\ [Next]_vars => OnceInv'
  <1> SUFFICES ASSUME AtMostOnce, OnceInv, [Next]_vars PROVE OnceInv'
    OBVIOUS
  <1>1. Inv'
    BY NextInv DEF OnceInv
  <1>2. CASE UNCHANGED vars
    BY <1>1, <1>2 DEF vars, OnceInv, OnePlace, RowInPlace, Executing
  <1>3. CASE Next
    BY <1>1, <1>2, <1>3, HandlerOnce, WorkerOnce, CrashOnce DEF Next, Finished, OnceInv
  <1>4. QED
    BY <1>2, <1>3

LEMMA OnceInvariance == ASSUME AtMostOnce PROVE Spec => []OnceInv
  <1>1. OnceInv /\ [Next]_vars => OnceInv'
    BY NextOnce
  <1>2. QED
    BY <1>1, InitOnce, PTL DEF Spec

\* While the queue delivers at most once, a completed job has its whole file and
\* no error, whatever crashed or failed on the way.
THEOREM CompletedSafe == ASSUME AtMostOnce PROVE Spec => []CompletedIsWhole
  <1>1. OnceInv => CompletedIsWhole
    BY DEF OnceInv, Inv, TypeOK, RowInPlace, CompletedIsWhole
  <1>2. QED
    BY <1>1, OnceInvariance, PTL

-----------------------------------------------------------------------------
(* The pipeline implements the lifecycle.                                   *)

\* The refinement mapping of JobPipeline's instance Lifecycle.
Result == [j \in Jobs |-> IF outputPath[j] THEN output[j] ELSE "absent"]

LEMMA InitRefines == Init => Lifecycle!LifecycleInit
  BY DEF Init, Lifecycle!LifecycleInit

\* The file a client can reach changes only by the step that completes its job.
LEMMA ResultStays ==
  ASSUME OnceInv, [Next]_vars, NEW j \in Jobs, outputPath'[j] = outputPath[j],
         AtMostOnce
  PROVE  Result'[j] = Result[j]
  <1>1. OnceInv'
    BY NextOnce
  <1>2. outputPath[j] => output[j] = "whole"
    BY DEF OnceInv, RowInPlace
  <1>3. outputPath'[j] => output'[j] = "whole"
    BY <1>1 DEF OnceInv, RowInPlace
  <1>4. QED
    BY <1>2, <1>3 DEF Result

\* A step that changes no row is a stutter of the lifecycle.
LEMMA StutterRefines ==
  ASSUME AtMostOnce, OnceInv, [Next]_vars, UNCHANGED <<status, outputPath>>
  PROVE  UNCHANGED Lifecycle!lifecycleVars
  <1>1. Result' = Result
    <2>1. \A j \in Jobs : Result'[j] = Result[j]
      BY ResultStays
    <2>2. QED
      BY <2>1 DEF Result
  <1>2. QED
    BY <1>1 DEF Lifecycle!lifecycleVars, Result

\* A step that moves the status of one job, not to completed, is a move of it.
LEMMA MoveRefines ==
  ASSUME AtMostOnce, OnceInv, [Next]_vars, UNCHANGED outputPath
  PROVE  Result' = Result
  <1>1. \A j \in Jobs : Result'[j] = Result[j]
    BY ResultStays
  <1>2. QED
    BY <1>1 DEF Result

LEMMA HandlerRefines ==
  ASSUME AtMostOnce, OnceInv, [Next]_vars, NEW j \in Jobs,
         WriteUpload(j) \/ HandlerStep(j) \/ EnqueueAmbiguous(j) \/ HandlerFails(j)
           \/ Redeliver(j) \/ BeginDownload(j) \/ EndDownload(j)
  PROVE  [Lifecycle!LifecycleNext]_(Lifecycle!lifecycleVars)
  <1>1. CASE CommitJob(j)
    <2>1. status[j] = "none"
      BY <1>1 DEF CommitJob, OnceInv, Inv, Undispatched
    <2>2. Result' = Result
      BY <1>1, MoveRefines DEF CommitJob
    <2>3. Lifecycle!Submit(j)
      BY <1>1, <2>1, <2>2 DEF CommitJob, Lifecycle!Submit, Lifecycle!Move, Result
    <2>4. QED
      BY <2>3 DEF Lifecycle!LifecycleNext
  <1>2. CASE MarkDispatchFailed(j)
    <2>1. status[j] = "queued"
      BY <1>2 DEF MarkDispatchFailed, OnceInv, RowInPlace
    <2>2. Result' = Result
      BY <1>2, MoveRefines DEF MarkDispatchFailed
    <2>3. Lifecycle!Undeliverable(j)
      BY <1>2, <2>1, <2>2
         DEF MarkDispatchFailed, Lifecycle!Undeliverable, Lifecycle!Move, Result
    <2>4. QED
      BY <2>3 DEF Lifecycle!LifecycleNext
  <1>3. CASE UNCHANGED row
    BY <1>3, StutterRefines DEF row
  <1>4. QED
    BY <1>1, <1>2, <1>3
       DEF WriteUpload, HandlerStep, RejectUpload, UploadFails, StageUpload, RefuseJob, ReturnJob, Enqueue,
           EnqueueRaises, EnqueueAmbiguous, HandlerFails, Redeliver, BeginDownload, EndDownload

LEMMA WorkerRefines ==
  ASSUME AtMostOnce, OnceInv, [Next]_vars, NEW x \in Workers,
         WorkerStep(x) \/ ReportFails(x) \/ ExecutionFails(x)
  PROVE  [Lifecycle!LifecycleNext]_(Lifecycle!lifecycleVars)
  <1>1. at[x] # "idle" => doing[x] \in Jobs
    BY DEF OnceInv, Inv, TypeOK, IdleWorkers
  <1>2. CASE BeginJob(x)
    <2>1. doing[x] \in Jobs /\ status[doing[x]] = "queued"
      BY <1>1, <1>2 DEF BeginJob, Advance, OnceInv, RowInPlace
    <2>2. Result' = Result
      BY <1>2, MoveRefines DEF BeginJob
    <2>3. Lifecycle!Start(doing[x])
      BY <1>2, <2>1, <2>2 DEF BeginJob, Lifecycle!Start, Lifecycle!Move, Result
    <2>4. QED
      BY <2>1, <2>3 DEF Lifecycle!LifecycleNext
  <1>3. CASE FailJob(x)
    <2>1. doing[x] \in Jobs /\ status[doing[x]] \in {"processing", "completed"}
      BY <1>1, <1>3 DEF FailJob, OnceInv, RowInPlace
    <2>2. Result' = Result
      BY <1>3, MoveRefines DEF FailJob
    <2>3. Lifecycle!Fail(doing[x]) \/ Lifecycle!Withdraw(doing[x])
      BY <1>3, <2>1, <2>2
         DEF FailJob, Lifecycle!Fail, Lifecycle!Withdraw, Lifecycle!Move, Result
    <2>4. QED
      BY <2>1, <2>3 DEF Lifecycle!LifecycleNext
  <1>4. CASE CompleteJob(x)
    <2>1. /\ doing[x] \in Jobs /\ status[doing[x]] = "processing"
          /\ output[doing[x]] = "whole"
      BY <1>1, <1>4 DEF CompleteJob, Advance, OnceInv, RowInPlace
    <2>2. outputPath' = [outputPath EXCEPT ![doing[x]] = TRUE] /\ output' = output
      BY <1>4 DEF CompleteJob, files
    <2>3. Result' = [Result EXCEPT ![doing[x]] = "whole"]
      BY <2>1, <2>2 DEF Result, OnceInv, Inv, TypeOK
    <2>4. \E j \in Jobs : Lifecycle!Complete(j)
      BY <1>4, <2>1, <2>3 DEF CompleteJob, Lifecycle!Complete, Lifecycle!Move, Result
    <2>5. QED
      BY <2>4 DEF Lifecycle!LifecycleNext
  <1>5. CASE UNCHANGED row
    BY <1>5, StutterRefines DEF row
  <1>6. QED
    BY <1>2, <1>3, <1>4, <1>5
       DEF WorkerStep, Take, OpenFails, OpenInput, SaveFixed, SaveFails, StageOutput,
           StageOutputFails, OutputStaged, ReportJob, ReportFails, ExecutionFails

LEMMA NextRefines ==
  AtMostOnce /\ OnceInv /\ [Next]_vars => [Lifecycle!LifecycleNext]_(Lifecycle!lifecycleVars)
  <1> SUFFICES ASSUME AtMostOnce, OnceInv, [Next]_vars
               PROVE  [Lifecycle!LifecycleNext]_(Lifecycle!lifecycleVars)
    OBVIOUS
  <1>1. CASE UNCHANGED vars \/ ApiCrash \/ Finished
    BY <1>1, StutterRefines DEF vars, ApiCrash, Finished, row
  <1>2. QED
    BY <1>1, HandlerRefines, WorkerRefines DEF Next

\* While the queue delivers at most once, every fault, crash and interleaving of
\* handlers and workers shows a client nothing but the lifecycle, whose one step back
\* is the failure to report a completed job.
THEOREM Refinement == ASSUME AtMostOnce PROVE Spec => ImplementsLifecycle
  <1>1. OnceInv /\ [Next]_vars => [Lifecycle!LifecycleNext]_(Lifecycle!lifecycleVars)
    BY NextRefines
  <1>2. QED
    BY <1>1, InitRefines, OnceInvariance, PTL
       DEF Spec, ImplementsLifecycle, Lifecycle!LifecycleSpec

-----------------------------------------------------------------------------
(* A finished job.                                                          *)

\* What a client that has stopped asking can count on: a finished job is not executed
\* again, its file stays what it is, and only from completed to failed can its status
\* still change.
FinishedStays ==
  [][\A j \in Jobs : status[j] \in Terminal =>
       /\ status'[j] \in {status[j], "failed"}
       /\ Result'[j] = Result[j]]_vars

\* The lifecycle leaves a finished job but by Withdraw.
LEMMA LifecycleEnds ==
  ASSUME OnceInv, [Lifecycle!LifecycleNext]_(Lifecycle!lifecycleVars), NEW j \in Jobs,
         status[j] \in Terminal
  PROVE  status'[j] \in {status[j], "failed"} /\ Result'[j] = Result[j]
  <1>1. status \in [Jobs -> Statuses] /\ status[j] \notin {"none", "queued", "processing"}
    BY DEF OnceInv, Inv, TypeOK, Terminal
  <1>2. CASE UNCHANGED Lifecycle!lifecycleVars
    BY <1>2 DEF Lifecycle!lifecycleVars, Result
  <1>3. ASSUME NEW i \in Jobs, NEW from \in {"none", "queued", "processing"}, NEW to,
               Lifecycle!Move(i, from, to)
        PROVE  i # j /\ status'[j] = status[j]
    BY <1>1, <1>3 DEF Lifecycle!Move
  <1>4. ASSUME NEW i \in Jobs,
               Lifecycle!Submit(i) \/ Lifecycle!Undeliverable(i) \/ Lifecycle!Start(i)
                 \/ Lifecycle!Fail(i)
        PROVE  status'[j] = status[j] /\ Result'[j] = Result[j]
    BY <1>3, <1>4
       DEF Lifecycle!Submit, Lifecycle!Undeliverable, Lifecycle!Start, Lifecycle!Fail, Result
  <1>5. ASSUME NEW i \in Jobs, Lifecycle!Complete(i)
        PROVE  status'[j] = status[j] /\ Result'[j] = Result[j]
    <2>1. Result' = [Result EXCEPT ![i] = "whole"]
      BY <1>5 DEF Lifecycle!Complete, Result
    <2>2. i # j /\ status'[j] = status[j]
      BY <1>3, <1>5 DEF Lifecycle!Complete
    <2>3. QED
      BY <2>1, <2>2 DEF Result
  <1>6. ASSUME NEW i \in Jobs, Lifecycle!Withdraw(i)
        PROVE  status'[j] \in {status[j], "failed"} /\ Result'[j] = Result[j]
    BY <1>1, <1>6 DEF Lifecycle!Withdraw, Lifecycle!Move, Result
  <1>7. QED
    BY <1>2, <1>4, <1>5, <1>6 DEF Lifecycle!LifecycleNext

\* While the queue delivers at most once, no crash, failure or interleaving brings a
\* finished job back or takes its file away.
THEOREM FinishedIsFinal == ASSUME AtMostOnce PROVE Spec => FinishedStays
  <1>1. OnceInv /\ [Next]_vars =>
          [\A j \in Jobs : status[j] \in Terminal =>
             /\ status'[j] \in {status[j], "failed"}
             /\ Result'[j] = Result[j]]_vars
    BY NextRefines, LifecycleEnds
  <1>2. QED
    BY <1>1, OnceInvariance, PTL DEF Spec, FinishedStays

\* Only a failure to report it makes a completed job a failed one.
LEMMA CompletedKept ==
  ASSUME AtMostOnce, "report" \notin Faults, OnceInv, [Next]_vars, NEW j \in Jobs,
         status[j] = "completed"
  PROVE  status'[j] = "completed"
  <1>1. CASE \E x \in Workers : FailJob(x)
    <2>1. PICK x \in Workers : FailJob(x)
      BY <1>1
    <2>2. status[doing[x]] = "processing"
      BY <2>1 DEF FailJob, OnceInv, RowInPlace
    <2>3. QED
      BY <2>1, <2>2 DEF FailJob, OnceInv, Inv, TypeOK
  <1>2. CASE \E x \in Workers : BeginJob(x)
    <2>1. PICK x \in Workers : BeginJob(x)
      BY <1>2
    <2>2. status[doing[x]] = "queued"
      BY <2>1 DEF BeginJob, Advance, OnceInv, RowInPlace
    <2>3. QED
      BY <2>1, <2>2 DEF BeginJob, OnceInv, Inv, TypeOK
  <1>3. CASE \E x \in Workers : CompleteJob(x)
    BY <1>3 DEF CompleteJob, OnceInv, Inv, TypeOK
  <1>4. CASE \E i \in Jobs : CommitJob(i)
    <2>1. PICK i \in Jobs : CommitJob(i)
      BY <1>4
    <2>2. status[i] = "none"
      BY <2>1 DEF CommitJob, OnceInv, Inv, Undispatched
    <2>3. QED
      BY <2>1, <2>2 DEF CommitJob, OnceInv, Inv, TypeOK
  <1>5. CASE \E i \in Jobs : MarkDispatchFailed(i)
    <2>1. PICK i \in Jobs : MarkDispatchFailed(i)
      BY <1>5
    <2>2. status[i] = "queued"
      BY <2>1 DEF MarkDispatchFailed, OnceInv, RowInPlace
    <2>3. QED
      BY <2>1, <2>2 DEF MarkDispatchFailed, OnceInv, Inv, TypeOK
  <1>6. CASE UNCHANGED row
    BY <1>6 DEF row
  <1>7. QED
    BY <1>1, <1>2, <1>3, <1>4, <1>5, <1>6
    DEF Next, WriteUpload, HandlerStep, RejectUpload, UploadFails, StageUpload, RefuseJob,
        ReturnJob, Enqueue, EnqueueRaises, EnqueueAmbiguous, HandlerFails, Redeliver,
        BeginDownload, EndDownload, WorkerStep, Take, OpenFails, OpenInput, SaveFixed,
        SaveFails, StageOutput, StageOutputFails, OutputStaged, ReportJob, ReportFails,
        ExecutionFails, ApiCrash, Finished, vars, row

\* While the queue delivers at most once and what follows the commit of a completed job
\* does not fail, a job that showed completed stays completed.  Each condition is needed:
\* the run pipeline_duplicate breaks the first, ReportFails followed by FailJob the second.
THEOREM CompletedIsFinal ==
  ASSUME AtMostOnce, "report" \notin Faults PROVE Spec => CompletedStays
  <1>1. OnceInv /\ [Next]_vars
          => [\A j \in Jobs : status[j] = "completed" => status'[j] = "completed"]_vars
    BY CompletedKept
  <1>2. QED
    BY <1>1, OnceInvariance, PTL DEF Spec, CompletedStays

-----------------------------------------------------------------------------
(* Downloads.                                                               *)

\* While the queue delivers at most once, a download reads the file of a job that has
\* been completed.
Readers ==
  AtMostOnce => OnceInv /\ \A j \in Jobs : /\ download[j] = "reading" => outputPath[j]
                                          /\ download[j] # "partial"

DownloadInv == Inv /\ Reachable /\ Readers

\* No worker takes an output away, and it completes a job that has one.
LEMMA WorkerReachable ==
  ASSUME Inv, Reachable, NEW x \in Workers, WorkerStep(x) \/ ReportFails(x) \/ ExecutionFails(x)
  PROVE  Reachable'
  <1>1. \A y \in Workers : at[y] # "idle" => doing[y] \in Jobs
    BY DEF Inv, TypeOK, IdleWorkers
  <1>2. UNCHANGED download
    BY DEF WorkerStep, Take, BeginJob, OpenFails, OpenInput, SaveFixed, SaveFails, StageOutput,
           StageOutputFails, OutputStaged, CompleteJob, ReportJob, ReportFails, FailJob,
           ExecutionFails, others
  <1> USE <1>1, <1>2 DEF Inv, TypeOK, Reachable
  <1>3. CASE Take(x) \/ ReportJob(x) \/ ReportFails(x) \/ FailJob(x) \/ ExecutionFails(x)
    BY <1>3 DEF Take, ReportJob, ReportFails, FailJob, ExecutionFails, Advance, Free, files, row
  <1>4. CASE BeginJob(x) \/ OpenFails(x) \/ OpenInput(x) \/ SaveFixed(x) \/ SaveFails(x)
    BY <1>4 DEF BeginJob, OpenFails, OpenInput, SaveFixed, SaveFails, Advance, files, row
  <1>5. CASE StageOutput(x)
    BY <1>5 DEF StageOutput, Advance, row
  <1>6. CASE StageOutputFails(x)
    BY <1>6, StoredType DEF StageOutputFails, Advance, files, row
  <1>7. CASE OutputStaged(x)
    BY <1>7, StoredType DEF OutputStaged, Advance, row
  <1>8. CASE CompleteJob(x)
    BY <1>8 DEF CompleteJob, Advance, files
  <1>9. QED
    BY <1>3, <1>4, <1>5, <1>6, <1>7, <1>8 DEF WorkerStep

LEMMA NextReachable ==
  ASSUME Inv, Reachable, [Next]_vars
  PROVE  Reachable'
  <1>1. ASSUME NEW j \in Jobs,
               WriteUpload(j) \/ HandlerStep(j) \/ EnqueueAmbiguous(j) \/ HandlerFails(j)
                 \/ Redeliver(j)
        PROVE  UNCHANGED <<outputPath, work, files, download>>
    BY <1>1 DEF WriteUpload, HandlerStep, RejectUpload, UploadFails, StageUpload, RefuseJob,
                CommitJob, ReturnJob, Enqueue, EnqueueRaises, MarkDispatchFailed,
                EnqueueAmbiguous, HandlerFails, Redeliver, row, others
  <1>2. CASE UNCHANGED <<outputPath, work, files, download>>
    BY <1>2 DEF Reachable, work, files
  <1>3. ASSUME NEW j \in Jobs, BeginDownload(j) \/ EndDownload(j) PROVE Reachable'
    BY <1>3 DEF BeginDownload, EndDownload, Reachable, Inv, TypeOK, work, files, row
  <1>4. CASE ApiCrash
    <2>1. /\ \A x \in Workers : (at'[x] = at[x] /\ doing'[x] = doing[x]) \/ at'[x] = "idle"
          /\ \A j \in Jobs : download'[j] = download[j] \/ download'[j] = "none"
          /\ UNCHANGED <<outputPath, output>>
      BY <1>4 DEF ApiCrash, work, files, row
    <2>2. QED
      BY <2>1 DEF Reachable
  <1>5. QED
    BY <1>1, <1>2, <1>3, <1>4, WorkerReachable DEF Next, Finished, vars, work, files

\* No step takes a row's output_path away.
LEMMA OutputPathStays ==
  ASSUME TypeOK, [Next]_vars, NEW j \in Jobs, outputPath[j]
  PROVE  outputPath'[j]
  <1>1. CASE \E x \in Workers : CompleteJob(x)
    BY <1>1 DEF CompleteJob, TypeOK
  <1>2. CASE UNCHANGED outputPath
    BY <1>2
  <1>3. QED
    BY <1>1, <1>2
    DEF Next, WriteUpload, HandlerStep, RejectUpload, UploadFails, StageUpload, RefuseJob,
        CommitJob, ReturnJob, Enqueue, EnqueueRaises, MarkDispatchFailed, EnqueueAmbiguous,
        HandlerFails, Redeliver, BeginDownload, EndDownload, WorkerStep, Take, BeginJob,
        OpenFails, OpenInput, SaveFixed, SaveFails, StageOutput, StageOutputFails,
        OutputStaged, ReportJob, ReportFails, FailJob, ExecutionFails, ApiCrash, Finished,
        vars, row

LEMMA NextReaders ==
  ASSUME Inv, Readers, [Next]_vars
  PROVE  Readers'
  <1> SUFFICES ASSUME AtMostOnce, OnceInv, OnceInv', NEW j \in Jobs,
                      download[j] = "reading" => outputPath[j],
                      download[j] # "partial"
               PROVE  /\ download'[j] = "reading" => outputPath'[j]
                      /\ download'[j] # "partial"
    BY NextOnce DEF Readers, AtMostOnce
  <1>1. outputPath[j] => outputPath'[j]
    BY OutputPathStays DEF OnceInv, Inv
  <1>2. CASE download'[j] = download[j]
    BY <1>1, <1>2
  <1>3. ASSUME NEW i \in Jobs, BeginDownload(i), i = j
        PROVE  download'[j] = "reading" /\ outputPath[j]
    BY <1>3 DEF BeginDownload, OnceInv, Inv, TypeOK
  <1>4. ASSUME NEW i \in Jobs, EndDownload(i), i = j
        PROVE  download'[j] \in {"none", "whole"}
    BY <1>4 DEF EndDownload, OnceInv, RowInPlace, Inv, TypeOK
  <1>5. CASE ApiCrash
    BY <1>1, <1>5 DEF ApiCrash
  <1>6. ASSUME NEW i \in Jobs, BeginDownload(i) \/ EndDownload(i), i # j
        PROVE  download'[j] = download[j]
    BY <1>6 DEF BeginDownload, EndDownload, OnceInv, Inv, TypeOK
  <1>7. CASE UNCHANGED others
    BY <1>2, <1>7 DEF others
  <1>8. QED
    BY <1>1, <1>2, <1>3, <1>4, <1>5, <1>6, <1>7
    DEF Next, WriteUpload, HandlerStep, RejectUpload, UploadFails, StageUpload, RefuseJob,
        CommitJob, ReturnJob, Enqueue, EnqueueRaises, MarkDispatchFailed, EnqueueAmbiguous,
        HandlerFails, Redeliver, WorkerStep, Take, BeginJob, OpenFails, OpenInput, SaveFixed,
        SaveFails, StageOutput, StageOutputFails, OutputStaged, CompleteJob, ReportJob,
        ReportFails, FailJob, ExecutionFails, Finished, vars, others

\* A download that saw its job completed finds a file, whatever the faults, and the whole
\* file while the queue delivers at most once.
THEOREM DownloadsSafe == Spec => []DownloadsServed
  <1>1. Init => DownloadInv
    <2> SUFFICES ASSUME Init PROVE DownloadInv
      OBVIOUS
    <2>1. Reachable
      BY DEF Init, Reachable
    <2>2. Readers
      BY InitOnce DEF Init, Readers
    <2>3. QED
      BY <2>1, <2>2, InitInv DEF DownloadInv
  <1>2. DownloadInv /\ [Next]_vars => DownloadInv'
    BY NextInv, NextReachable, NextReaders DEF DownloadInv
  <1>3. DownloadInv => DownloadsServed
    BY DEF DownloadInv, Reachable, Readers, AtMostOnce, DownloadsServed
  <1>4. QED
    BY <1>1, <1>2, <1>3, PTL DEF Spec
=============================================================================
