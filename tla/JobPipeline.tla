---------------------------- MODULE JobPipeline ----------------------------
(***************************************************************************)
(* A job from its upload to its downloads: the create_job and download     *)
(* handlers, the storage (local files or S3), the dispatcher (an executor  *)
(* inside the API process, or Celery) and process_job, with the faults     *)
(* that hit them.                                                          *)
(*                                                                         *)
(* A step is one durable effect: a file written, copied or deleted, a      *)
(* commit, a message handed to the queue.  The admission decision          *)
(* (billing, quota) is left open here; module Quota models it.  Audit      *)
(* entries are not modelled; that writing one can fail is.                 *)
(*                                                                         *)
(* Faults, of which at most MaxFaults happen in a behaviour:               *)
(*   "handler"    a statement or a file operation of a create_job handler  *)
(*                raises                                                   *)
(*   "execution"  an exception escapes process_job, or its worker dies     *)
(*   "report"     what process_job does between the commit that completes  *)
(*                a job and its end raises, and the session can be used on *)
(*   "crash"      the API process dies                                     *)
(*   "duplicate"  the broker delivers a message again                      *)
(*   "ambiguous"  delay() raises although the message was published        *)
(***************************************************************************)
EXTENDS Integers, FiniteSets

CONSTANTS
  Jobs,         \* jobs, each by the id its create_job request drew
  Workers,      \* worker threads or processes (worker_concurrency)
  Backends,     \* queue backends to consider: "local", "celery"
  Storages,     \* storage backends to consider: "local", "s3"
  Faults,       \* the faults to consider
  MaxFaults,    \* bound on their number
  NoJob         \* what an idle worker works on

ASSUME BackendsAssumption == Backends \subseteq {"local", "celery"}
ASSUME StoragesAssumption == Storages \subseteq {"local", "s3"}
ASSUME FaultsAssumption ==
  Faults \subseteq {"handler", "execution", "report", "crash", "duplicate", "ambiguous"}
ASSUME MaxFaultsAssumption == MaxFaults \in Nat
ASSUME NoJobAssumption == NoJob \notin Jobs

VARIABLES
  backend,      \* PDF_SAAS_QUEUE_BACKEND, fixed at start
  storage,      \* PDF_SAAS_STORAGE_BACKEND, fixed at start
  pc,           \* pc[j]: where the create_job handler of j is, or its answer
  input,        \* input[j]: the uploaded file is in storage
  status,       \* status[j]: Job.status, "none" while there is no row
  outputPath,   \* outputPath[j]: Job.output_path is set
  errorMessage, \* errorMessage[j]: Job.error_message is set
  queue,        \* queue[j]: messages naming j that no worker has taken
  doing,        \* doing[x]: the job worker x executes
  at,           \* at[x]: where in process_job the worker is
  stage,        \* stage[j]: the file under tmp/worker_outputs
  output,       \* output[j]: the file in the output storage
  download,     \* download[j]: a download under way, or the file that the last one got
  faults,       \* faults that happened
  struck        \* history: jobs a fault left without anyone to finish them

row == <<status, outputPath, errorMessage>>
files == <<stage, output>>
work == <<doing, at>>
others == <<backend, storage, download>>
vars == <<backend, storage, pc, input, status, outputPath, errorMessage, queue, doing, at,
          stage, output, download, faults, struck>>

Answers == {"rejected", "error", "accepted", "lost"}
HandlerLabels == {"idle", "written", "staged", "committed", "created", "dispatchFailed"}
                   \union Answers
WorkerLabels == {"idle", "begin", "open", "writing", "staging", "copying", "complete",
                 "reporting", "failing"}
FileStates == {"absent", "partial", "whole"}
Terminal == {"completed", "failed"}
Statuses == {"none", "queued", "processing"} \union Terminal

Executing(j) == \E x \in Workers : doing[x] = j

Init ==
  /\ backend \in Backends
  /\ storage \in Storages
  /\ pc = [j \in Jobs |-> "idle"]
  /\ input = [j \in Jobs |-> FALSE]
  /\ status = [j \in Jobs |-> "none"]
  /\ outputPath = [j \in Jobs |-> FALSE]
  /\ errorMessage = [j \in Jobs |-> FALSE]
  /\ queue = [j \in Jobs |-> 0]
  /\ doing = [x \in Workers |-> NoJob]
  /\ at = [x \in Workers |-> "idle"]
  /\ stage = [j \in Jobs |-> "absent"]
  /\ output = [j \in Jobs |-> "absent"]
  /\ download = [j \in Jobs |-> "none"]
  /\ faults = 0
  /\ struck = {}

Goto(j, l) == pc' = [pc EXCEPT ![j] = l]

Fault(f) ==
  /\ f \in Faults
  /\ faults < MaxFaults
  /\ faults' = faults + 1

NoFault == UNCHANGED <<faults, struck>>

-----------------------------------------------------------------------------
(* The create_job handler.                                                  *)

\* The upload is written under the input directory.
WriteUpload(j) ==
  /\ pc[j] = "idle"
  /\ input' = [input EXCEPT ![j] = TRUE]
  /\ Goto(j, "written")
  /\ NoFault
  /\ UNCHANGED <<others, row, queue, work, files>>

\* An empty or oversized file is unlinked.
RejectUpload(j) ==
  /\ pc[j] = "written"
  /\ input' = [input EXCEPT ![j] = FALSE]
  /\ Goto(j, "rejected")
  /\ NoFault
  /\ UNCHANGED <<others, row, queue, work, files>>

\* The file could not be put into the bucket, or the answer was lost after it was: the
\* local copy is unlinked, the object is not looked for.
UploadFails(j) ==
  /\ storage = "s3"
  /\ pc[j] = "written"
  /\ input' \in {input, [input EXCEPT ![j] = FALSE]}
  /\ Goto(j, "error")
  /\ NoFault
  /\ UNCHANGED <<others, row, queue, work, files>>

StageUpload(j) ==
  /\ pc[j] = "written"
  /\ Goto(j, "staged")
  /\ NoFault
  /\ UNCHANGED <<others, input, row, queue, work, files>>

\* A plausible bug: the staged file of a refused request stays.
RefuseJobKeepingUpload(j) ==
  /\ pc[j] = "staged"
  /\ Goto(j, "rejected")
  /\ NoFault
  /\ UNCHANGED <<others, input, row, queue, work, files>>

\* Billing or quota refuses: no job, so the staged file is deleted again.
RefuseJob(j) ==
  /\ pc[j] = "staged"
  /\ input' = [input EXCEPT ![j] = FALSE]
  /\ Goto(j, "rejected")
  /\ NoFault
  /\ UNCHANGED <<others, row, queue, work, files>>

\* create_job_with_quota_reservation commits the row; the handler's variable
\* job is still None until the call returns.
CommitJob(j) ==
  /\ pc[j] = "staged"
  /\ status' = [status EXCEPT ![j] = "queued"]
  /\ Goto(j, "committed")
  /\ NoFault
  /\ UNCHANGED <<others, input, outputPath, errorMessage, queue, work, files>>

ReturnJob(j) ==
  /\ pc[j] = "committed"
  /\ Goto(j, "created")
  /\ NoFault
  /\ UNCHANGED <<others, input, row, queue, work, files>>

Enqueue(j) ==
  /\ pc[j] = "created"
  /\ queue' = [queue EXCEPT ![j] = @ + 1]
  /\ Goto(j, "accepted")
  /\ NoFault
  /\ UNCHANGED <<others, input, row, work, files>>

\* A plausible bug: the error is answered without marking the job.
EnqueueRaisesUnmarked(j) ==
  /\ pc[j] = "created"
  /\ Goto(j, "error")
  /\ NoFault
  /\ UNCHANGED <<others, input, row, queue, work, files>>

\* The executor is shut down or the broker refuses.
EnqueueRaises(j) ==
  /\ pc[j] = "created"
  /\ Goto(j, "dispatchFailed")
  /\ NoFault
  /\ UNCHANGED <<others, input, row, queue, work, files>>

\* The message is published but delay() raises.
EnqueueAmbiguous(j) ==
  /\ backend = "celery"
  /\ pc[j] = "created"
  /\ Fault("ambiguous")
  /\ queue' = [queue EXCEPT ![j] = @ + 1]
  /\ Goto(j, "dispatchFailed")
  /\ UNCHANGED <<others, input, row, work, files, struck>>

\* update_status(FAILED) in a new session, whatever the status is by now; 500.
MarkDispatchFailed(j) ==
  /\ pc[j] = "dispatchFailed"
  /\ status' = [status EXCEPT ![j] = "failed"]
  /\ errorMessage' = [errorMessage EXCEPT ![j] = TRUE]
  /\ Goto(j, "error")
  /\ NoFault
  /\ UNCHANGED <<others, input, outputPath, queue, work, files>>

\* An exception ends the handler.  While job is None the staged file is
\* deleted, even if the row was committed, unless this raises too; before and
\* after that, nothing is.
HandlerFails(j) ==
  /\ pc[j] \in {"written", "staged", "committed", "created", "dispatchFailed"}
  /\ Fault("handler")
  /\ \/ input' = input
     \/ pc[j] \in {"staged", "committed"} /\ input' = [input EXCEPT ![j] = FALSE]
  /\ struck' = IF status[j] = "none" THEN struck ELSE struck \union {j}
  /\ Goto(j, "error")
  /\ UNCHANGED <<others, row, queue, work, files>>

HandlerStep(j) ==
  \/ RejectUpload(j) \/ UploadFails(j) \/ StageUpload(j) \/ RefuseJob(j) \/ CommitJob(j)
  \/ ReturnJob(j) \/ Enqueue(j) \/ EnqueueRaises(j) \/ MarkDispatchFailed(j)

-----------------------------------------------------------------------------
(* The queue and process_job.                                               *)

\* A plausible bug: a worker takes a message that is not there any more.
TakeUnchecked(x) ==
  /\ doing[x] = NoJob
  /\ \E j \in Jobs :
       /\ pc[j] = "accepted"
       /\ queue' = [queue EXCEPT ![j] = @ - 1]
       /\ doing' = [doing EXCEPT ![x] = j]
  /\ at' = [at EXCEPT ![x] = "begin"]
  /\ NoFault
  /\ UNCHANGED <<others, pc, input, row, files>>

\* A free worker takes a message; Celery acknowledges it here, so nothing
\* brings it back if the execution dies.
Take(x) ==
  /\ doing[x] = NoJob
  /\ \E j \in Jobs :
       /\ queue[j] > 0
       /\ queue' = [queue EXCEPT ![j] = @ - 1]
       /\ doing' = [doing EXCEPT ![x] = j]
  /\ at' = [at EXCEPT ![x] = "begin"]
  /\ NoFault
  /\ UNCHANGED <<others, pc, input, row, files>>

\* The broker hands out a message again that a worker has or had (Redis
\* visibility timeout, a retried publish).
Redeliver(j) ==
  /\ backend = "celery"
  /\ Fault("duplicate")
  /\ pc[j] = "accepted"
  /\ queue' = [queue EXCEPT ![j] = @ + 1]
  /\ UNCHANGED <<others, pc, input, row, work, files, struck>>

\* Worker x, which is at label from, goes on to label to.
Advance(x, from, to) ==
  /\ at[x] = from
  /\ at' = [at EXCEPT ![x] = to]

\* The execution is over.
Free(x) ==
  /\ doing' = [doing EXCEPT ![x] = NoJob]
  /\ at' = [at EXCEPT ![x] = "idle"]

\* update_status(PROCESSING) on a fresh read: error_message is cleared.
BeginJob(x) ==
  /\ Advance(x, "begin", "open")
  /\ status' = [status EXCEPT ![doing[x]] = "processing"]
  /\ errorMessage' = [errorMessage EXCEPT ![doing[x]] = FALSE]
  /\ NoFault
  /\ UNCHANGED <<others, pc, input, outputPath, queue, doing, files>>

\* materialize_input finds no file, or the PDF cannot be opened or fixed.
OpenFails(x) ==
  /\ Advance(x, "open", "failing")
  /\ NoFault
  /\ UNCHANGED <<others, pc, input, row, queue, doing, files>>

\* A plausible bug: an execution clears the output of an earlier one.
OpenInputClearing(x) ==
  /\ Advance(x, "open", "writing")
  /\ input[doing[x]]
  /\ stage' = [stage EXCEPT ![doing[x]] = "partial"]
  /\ output' = [output EXCEPT ![doing[x]] = "absent"]
  /\ NoFault
  /\ UNCHANGED <<others, pc, input, row, queue, doing>>

\* pdf.save starts to write the staging path, which all executions of a job share.
OpenInput(x) ==
  /\ Advance(x, "open", "writing")
  /\ input[doing[x]]
  /\ stage' = [stage EXCEPT ![doing[x]] = "partial"]
  /\ NoFault
  /\ UNCHANGED <<others, pc, input, row, queue, doing, output>>

\* Another execution of the same job is at label l.
AnotherAt(x, l) == \E y \in Workers \ {x} : doing[y] = doing[x] /\ at[y] = l

\* The file is whole, unless another execution is still writing it.
SaveFixed(x) ==
  /\ Advance(x, "writing", "staging")
  /\ stage' = [stage EXCEPT ![doing[x]] =
                 IF AnotherAt(x, "writing") THEN "partial" ELSE "whole"]
  /\ NoFault
  /\ UNCHANGED <<others, pc, input, row, queue, doing, output>>

SaveFails(x) ==
  /\ Advance(x, "writing", "failing")
  /\ NoFault
  /\ UNCHANGED <<others, pc, input, row, queue, doing, files>>

\* A plausible bug: the copy is started and not waited for.
StageOutputAsync(x) ==
  /\ Advance(x, "staging", "complete")
  /\ stage[doing[x]] # "absent"
  /\ output' = [output EXCEPT ![doing[x]] = "partial"]
  /\ NoFault
  /\ UNCHANGED <<others, pc, input, row, queue, doing, stage>>

\* stage_output_file starts to copy, or to upload; the staged file must still be there.
\* The object in a bucket is only replaced when the upload is complete.
StageOutput(x) ==
  /\ Advance(x, "staging", "copying")
  /\ stage[doing[x]] # "absent"
  /\ output' = IF storage = "s3" THEN output ELSE [output EXCEPT ![doing[x]] = "partial"]
  /\ NoFault
  /\ UNCHANGED <<others, pc, input, row, queue, doing, stage>>

\* The copy is as good as the staged file was.  Two copies of one file spoil each other;
\* of two uploads the last one counts.
Stored(x) ==
  [output EXCEPT ![doing[x]] =
     IF stage[doing[x]] = "whole" /\ (storage = "s3" \/ ~AnotherAt(x, "copying"))
     THEN "whole" ELSE "partial"]

\* The staged file is gone, or the copy fails part of the way.  A failed upload unlinks
\* the staged file, and the object may be there although the answer was lost.
StageOutputFails(x) ==
  /\ Advance(x, "staging", "failing") \/ Advance(x, "copying", "failing")
  /\ \/ storage = "local" /\ UNCHANGED files
     \/ /\ storage = "s3"
        /\ stage' = [stage EXCEPT ![doing[x]] = "absent"]
        /\ output' = output \/ (at[x] = "copying" /\ output' = Stored(x))
  /\ NoFault
  /\ UNCHANGED <<others, pc, input, row, queue, doing>>

\* The copy or upload is complete, and the staged file is unlinked.
OutputStaged(x) ==
  /\ Advance(x, "copying", "complete")
  /\ output' = Stored(x)
  /\ stage' = [stage EXCEPT ![doing[x]] = "absent"]
  /\ NoFault
  /\ UNCHANGED <<others, pc, input, row, queue, doing>>

\* A plausible bug: the output reference is not passed on.
CompleteJobUnlinked(x) ==
  /\ Advance(x, "complete", "reporting")
  /\ status' = [status EXCEPT ![doing[x]] = "completed"]
  /\ NoFault
  /\ UNCHANGED <<others, pc, input, outputPath, errorMessage, queue, doing, files>>

\* A plausible bug: the upload is dropped as soon as one execution is done.
CompleteJobDropping(x) ==
  /\ Advance(x, "complete", "reporting")
  /\ status' = [status EXCEPT ![doing[x]] = "completed"]
  /\ outputPath' = [outputPath EXCEPT ![doing[x]] = TRUE]
  /\ input' = [input EXCEPT ![doing[x]] = FALSE]
  /\ NoFault
  /\ UNCHANGED <<others, pc, errorMessage, queue, doing, files>>

\* The commit of update_status(COMPLETED).  The session holds the row as BeginJob left
\* it, so error_message = None is no change to it and the column is not written.
CompleteJob(x) ==
  /\ Advance(x, "complete", "reporting")
  /\ status' = [status EXCEPT ![doing[x]] = "completed"]
  /\ outputPath' = [outputPath EXCEPT ![doing[x]] = TRUE]
  /\ NoFault
  /\ UNCHANGED <<others, pc, input, errorMessage, queue, doing, files>>

\* The row is read back and the entry job.completed is written.
ReportJob(x) ==
  /\ at[x] = "reporting"
  /\ Free(x)
  /\ NoFault
  /\ UNCHANGED <<others, pc, input, row, queue, files>>

\* Either of them raises.  Both are still inside the try, so the last except branch
\* takes the completed job for a failed one.
ReportFails(x) ==
  /\ Advance(x, "reporting", "failing")
  /\ Fault("report")
  /\ UNCHANGED <<others, pc, input, row, queue, doing, files, struck>>

\* A plausible bug: the except branch only logs.
FailJobSilently(x) ==
  /\ at[x] = "failing"
  /\ Free(x)
  /\ NoFault
  /\ UNCHANGED <<others, pc, input, row, queue, files>>

\* update_status(FAILED) in one of the except branches; output_path stays as it is.
FailJob(x) ==
  /\ at[x] = "failing"
  /\ Free(x)
  /\ status' = [status EXCEPT ![doing[x]] = "failed"]
  /\ errorMessage' = [errorMessage EXCEPT ![doing[x]] = TRUE]
  /\ NoFault
  /\ UNCHANGED <<others, pc, input, outputPath, queue, files>>

\* The execution ends without another write: a failed commit leaves a session
\* in which the except branch fails too, and the first statements are outside
\* the try.  The executor keeps the exception; nobody looks at it.
ExecutionFails(x) ==
  /\ doing[x] # NoJob
  /\ Fault("execution")
  /\ Free(x)
  /\ struck' = struck \union {doing[x]}
  /\ UNCHANGED <<others, pc, input, row, queue, files>>

WorkerStep(x) ==
  \/ Take(x) \/ BeginJob(x) \/ OpenFails(x) \/ OpenInput(x) \/ SaveFixed(x) \/ SaveFails(x)
  \/ StageOutput(x) \/ StageOutputFails(x) \/ OutputStaged(x) \/ CompleteJob(x)
  \/ ReportJob(x) \/ FailJob(x)

-----------------------------------------------------------------------------
(* Downloads.                                                               *)

\* A plausible bug: a job is not asked whether it is completed.
BeginDownloadEarly(j) ==
  /\ download[j] # "reading"
  /\ status[j] # "none"
  /\ download' = [download EXCEPT ![j] = "reading"]
  /\ UNCHANGED <<backend, storage, pc, input, row, queue, work, files>>
  /\ NoFault

\* download_job_result reads the row.
BeginDownload(j) ==
  /\ download[j] # "reading"
  /\ status[j] = "completed" /\ outputPath[j]
  /\ download' = [download EXCEPT ![j] = "reading"]
  /\ UNCHANGED <<backend, storage, pc, input, row, queue, work, files>>
  /\ NoFault

\* It serves the file, or the client follows the signed URL; or no URL can be signed, or
\* the client gives up.
EndDownload(j) ==
  /\ download[j] = "reading"
  /\ download' \in {[download EXCEPT ![j] = output[j]], [download EXCEPT ![j] = "none"]}
  /\ UNCHANGED <<backend, storage, pc, input, row, queue, work, files>>
  /\ NoFault

-----------------------------------------------------------------------------
\* Jobs that only the API process knows of: in its handlers and, with the local
\* dispatcher, in its executor's queue and threads.
HeldByApi ==
  {j \in Jobs : \/ pc[j] \in {"committed", "created", "dispatchFailed"}
                \/ backend = "local" /\ (queue[j] > 0 \/ Executing(j))}

\* The API process dies.  Its next start (lifespan) looks at no job.
ApiCrash ==
  /\ Fault("crash")
  /\ pc' = [j \in Jobs |-> IF pc[j] \in Answers \union {"idle"} THEN pc[j] ELSE "lost"]
  /\ struck' = struck \union HeldByApi
  /\ IF backend = "local"
     THEN /\ queue' = [j \in Jobs |-> 0]
          /\ doing' = [x \in Workers |-> NoJob]
          /\ at' = [x \in Workers |-> "idle"]
     ELSE UNCHANGED <<queue, work>>
  /\ download' = [j \in Jobs |-> IF download[j] = "reading" /\ storage = "local" THEN "none"
                                                                         ELSE download[j]]
  /\ UNCHANGED <<backend, storage, input, row, files>>

\* Nothing is left to do; new requests are bounded by Jobs.
Finished ==
  /\ \A j \in Jobs : pc[j] \in Answers /\ queue[j] = 0
  /\ \A x \in Workers : doing[x] = NoJob
  /\ UNCHANGED vars

Next ==
  \/ \E j \in Jobs : WriteUpload(j) \/ HandlerStep(j) \/ EnqueueAmbiguous(j)
                       \/ HandlerFails(j) \/ Redeliver(j) \/ BeginDownload(j) \/ EndDownload(j)
  \/ \E x \in Workers : WorkerStep(x) \/ ReportFails(x) \/ ExecutionFails(x)
  \/ ApiCrash
  \/ Finished

Spec == Init /\ [][Next]_vars

\* Running handlers and workers keep going; no fault has to happen.
Fairness ==
  /\ \A j \in Jobs : WF_vars(HandlerStep(j))
  /\ \A x \in Workers : WF_vars(WorkerStep(x))

FairSpec == Spec /\ Fairness

-----------------------------------------------------------------------------
(* Properties.                                                              *)

TypeOK ==
  /\ backend \in Backends
  /\ storage \in Storages
  /\ pc \in [Jobs -> HandlerLabels]
  /\ input \in [Jobs -> BOOLEAN]
  /\ status \in [Jobs -> Statuses]
  /\ outputPath \in [Jobs -> BOOLEAN]
  /\ errorMessage \in [Jobs -> BOOLEAN]
  /\ queue \in [Jobs -> Nat]
  /\ doing \in [Workers -> Jobs \union {NoJob}]
  /\ at \in [Workers -> WorkerLabels]
  /\ stage \in [Jobs -> FileStates]
  /\ output \in [Jobs -> FileStates]
  /\ download \in [Jobs -> {"none", "reading"} \union FileStates]
  /\ faults \in 0 .. MaxFaults
  /\ struck \subseteq Jobs

\* Upload files and job rows agree: a refused request leaves neither, and a job
\* that was handed to the queue still has its upload when a worker opens it.
UploadsMatchJobs ==
  \A j \in Jobs :
    /\ pc[j] = "rejected" => ~input[j] /\ status[j] = "none"
    /\ queue[j] > 0 \/ Executing(j) => input[j]

\* A worker has j and has yet to write a status that ends it.
InHand(j) == \E x \in Workers : doing[x] = j /\ at[x] # "reporting"

\* A job that is not finished has somebody who will finish it - its handler, a
\* message or a worker - unless a fault struck it.
SomebodyCarriesOn ==
  \A j \in Jobs :
    status[j] \in {"queued", "processing"} /\ j \notin struck =>
      \/ pc[j] \in {"committed", "created", "dispatchFailed"}
      \/ queue[j] > 0
      \/ InHand(j)

\* A completed job has its fixed file, whole, and no error message, whatever
\* crashed before; a failed one says why.
CompletedIsWhole ==
  \A j \in Jobs :
    /\ status[j] = "completed" => outputPath[j] /\ output[j] = "whole" /\ ~errorMessage[j]
    /\ status[j] = "failed" => errorMessage[j]

\* However often the queue delivers a message, a download that has seen its job completed
\* finds a file, also when executions of the job, failures and crashes come in between; and
\* the whole file while the queue delivers at most once.
DownloadsServed ==
  \A j \in Jobs :
    /\ download[j] # "absent"
    /\ Faults \intersect {"duplicate", "ambiguous"} = {} => download[j] # "partial"

\* Every job ends completed or failed, unless a fault struck it.
FinishesUnlessStruck ==
  \A j \in Jobs : status[j] # "none" ~> status[j] \in Terminal \/ j \in struck

\* README.md:175, "Watch status move queued -> processing -> completed": a job
\* that was accepted does not stay queued or processing for good.
AcceptedJobFinishes ==
  \A j \in Jobs : pc[j] = "accepted" ~> status[j] \in Terminal

\* CLIENT_HANDOFF.md:19, "Wait until status shows complete": a job that showed
\* it stays completed.
CompletedStays ==
  [][\A j \in Jobs : status[j] = "completed" => status'[j] = "completed"]_vars

\* While the queue delivers at most once, the rows and files are the lifecycle that
\* JobLifecycle lays down, with its one step back, whatever fails and crashes.
Lifecycle == INSTANCE JobLifecycle WITH
  result <- [j \in Jobs |-> IF outputPath[j] THEN output[j] ELSE "absent"]

ImplementsLifecycle == Lifecycle!LifecycleSpec
=============================================================================
