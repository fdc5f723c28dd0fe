------------------------- MODULE ClientPortalProofs -------------------------
(***************************************************************************)
(* Proofs about ClientPortal, for every number of pages, jobs, faults and  *)
(* answers on their way.                                                   *)
(***************************************************************************)
EXTENDS ClientPortal, TLAPS

\* The steps that concern one page.
PageSteps(p) ==
  \/ Open(p) \/ Submits(p) \/ OtherFails(p) \/ Departs(p) \/ ServeUpload(p) \/ Created(p)
  \/ \E j \in Jobs : Tick(p, j) \/ Serve(p, j) \/ \E a \in Answers : Polled(p, j, a)

\* What a page may do to the interval that it holds: keep it, clear it, or replace it.
Keeps(p) == UNCHANGED <<page, intervals, pollTimer>>
Clears(p) ==
  /\ StopPolling(p)
  /\ page' \in {page, [page EXCEPT ![p] = "gone"]}
Replaces(p, j) ==
  /\ StartPolling(p, j)
  /\ UNCHANGED page

\* A job that a page polls, or asks about, or has learnt of, has its row.
JobsKnown ==
  /\ \A i \in intervals \union asked : status[i[2]] # "none"
  /\ \A p \in Pages :
       upload[p] # None /\ upload[p].at = "created" => status[upload[p].job] # "none"

Inv == TypeOK /\ JobsKnown

-----------------------------------------------------------------------------
(* Types.                                                                   *)

LEMMA NewJobType ==
  ASSUME NewJobs # {}
  PROVE  (CHOOSE j \in NewJobs : TRUE) \in Jobs
  BY DEF NewJobs

LEMMA ShowType ==
  ASSUME TypeOK, NEW p \in Pages, NEW style \in {"idle", "busy", "done", "fail"},
         NEW j \in Jobs \union {None}, Show(p, style, j)
  PROVE  shown' \in [Pages -> {"idle", "busy", "done", "fail"} \X (Jobs \union {None})]
  BY DEF TypeOK, Show, Blank

LEMMA UploadType ==
  ASSUME TypeOK, NEW p \in Pages, NEW u \in Uploads \union {None}, Upload(p, u)
  PROVE  upload' \in [Pages -> Uploads \union {None}]
  BY DEF TypeOK, Upload

LEMMA PollingType ==
  ASSUME TypeOK, NEW p \in Pages,
         Keeps(p) \/ Clears(p) \/ \E j \in Jobs : Replaces(p, j)
  PROVE  /\ page' \in [Pages -> {"new", "open", "gone"}]
         /\ intervals' \subseteq Pages \X Jobs
         /\ pollTimer' \in [Pages -> Jobs \union {None}]
  <1>1. intervals \subseteq Pages \X Jobs
    BY DEF TypeOK
  <1>2. ASSUME NEW j \in Jobs, Replaces(p, j)
        PROVE  intervals' \subseteq Pages \X Jobs /\ pollTimer' \in [Pages -> Jobs \union {None}]
    BY <1>1, <1>2 DEF TypeOK, Replaces, StartPolling, Stopped
  <1>3. ASSUME Clears(p)
        PROVE  intervals' \subseteq Pages \X Jobs /\ pollTimer' \in [Pages -> Jobs \union {None}]
    BY <1>1, <1>3 DEF TypeOK, Clears, StopPolling, Stopped
  <1>4. ASSUME Keeps(p)
        PROVE  intervals' \subseteq Pages \X Jobs /\ pollTimer' \in [Pages -> Jobs \union {None}]
    BY <1>4 DEF TypeOK, Keeps
  <1>5. page' \in [Pages -> {"new", "open", "gone"}]
    BY DEF TypeOK, Keeps, Clears, Replaces
  <1>6. QED
    BY <1>2, <1>3, <1>4, <1>5

LEMMA StyleType ==
  ASSUME NEW a \in Answers
  PROVE  /\ Style(a) \in {"idle", "busy", "done", "fail"}
         /\ Style(a) = "done" <=> a = "completed"
  BY DEF Style, Answers, Statuses

LEMMA InitType == Init => TypeOK
  BY PortalAssumption DEF Init, TypeOK, LifecycleInit, Blank, Statuses

LEMMA StepType ==
  ASSUME Inv, NEW p \in Pages, PageSteps(p)
  PROVE  TypeOK'
  <1> USE DEF Inv
  <1>1. CASE Open(p)
    BY <1>1 DEF Open, TypeOK, jobVars, lifecycleVars, requests, history
  <1>2. CASE Submits(p)
    <2>1. /\ Keeps(p) \/ Clears(p)
          /\ Show(p, "busy", None) \/ Show(p, "fail", None)
      BY <1>2 DEF Submits, Keeps, Clears, Leave, Goes
    <2>2. upload' \in [Pages -> Uploads \union {None}]
      <3> DEFINE u == [job |-> CHOOSE j \in NewJobs : TRUE, at |-> "sent"]
      <3>1. upload' = upload \/ (NewJobs # {} /\ Upload(p, u))
        BY <1>2 DEF Submits
      <3>2. ASSUME NewJobs # {} PROVE u \in Uploads
        BY <3>2, NewJobType DEF Uploads
      <3>3. QED
        BY <3>1, <3>2, UploadType DEF TypeOK
    <2>3. isSubmitting' \in [Pages -> BOOLEAN]
      BY <1>2 DEF Submits, TypeOK
    <2>4. QED
      BY <1>2, <2>1, <2>2, <2>3, ShowType, PollingType
      DEF Submits, TypeOK, jobVars, lifecycleVars, history
  <1>3. CASE OtherFails(p)
    BY <1>3, ShowType DEF OtherFails, TypeOK, jobVars, lifecycleVars, requests, history
  <1>4. CASE Departs(p)
    <2>1. Clears(p)
      BY <1>4 DEF Departs, Clears, Leave, Goes
    <2>2. QED
      BY <1>4, <2>1, ShowType, PollingType DEF Departs, TypeOK, jobVars, lifecycleVars, requests, history
  <1>5. CASE ServeUpload(p)
    <2>1. upload' \in [Pages -> Uploads \union {None}]
      <3>1. upload[p] \in Uploads
        BY <1>5 DEF ServeUpload, TypeOK
      <3>2. /\ [upload[p] EXCEPT !.at = "created"] \in Uploads
            /\ [upload[p] EXCEPT !.at = "error"] \in Uploads
        BY <3>1 DEF Uploads
      <3>3. QED
        BY <1>5, <3>2, UploadType DEF ServeUpload
    <2>2. status' \in [Jobs -> Statuses \union {"none"}] /\ result' = result
      BY <1>5 DEF ServeUpload, Submit, Move, jobVars, lifecycleVars, TypeOK, Statuses
    <2>3. faults' \in 0 .. MaxFaults
      BY <1>5, PortalAssumption DEF ServeUpload, TypeOK
    <2>4. QED
      BY <1>5, <2>1, <2>2, <2>3 DEF ServeUpload, TypeOK, jobVars, view, history
  <1>6. CASE Created(p)
    <2>1. upload[p].job \in Jobs
      BY <1>6 DEF Created, TypeOK, Uploads
    <2>2. /\ Keeps(p) \/ Clears(p) \/ Replaces(p, upload[p].job)
          /\ Show(p, "busy", upload[p].job) \/ Show(p, "fail", None)
      BY <1>6 DEF Created, Keeps, Clears, Replaces, Leave, Goes
    <2>3. /\ upload' \in [Pages -> Uploads \union {None}]
          /\ isSubmitting' \in [Pages -> BOOLEAN]
          /\ activeJobId' \in [Pages -> Jobs \union {None}]
          /\ late' \subseteq Pages /\ refused' \subseteq Pages
      BY <1>6, <2>1 DEF Created, Completes, Upload, TypeOK
    <2>4. QED
      BY <1>6, <2>1, <2>2, <2>3, ShowType, PollingType DEF Created, TypeOK, jobVars, lifecycleVars
  <1>7. ASSUME NEW j \in Jobs, Tick(p, j) PROVE TypeOK'
    <2>1. Keeps(p) \/ Clears(p)
      BY <1>7 DEF Tick, Keeps, Clears, Goes
    <2>2. shown' \in [Pages -> {"idle", "busy", "done", "fail"} \X (Jobs \union {None})]
      BY <1>7, ShowType DEF Tick, TypeOK
    <2>3. asked' \subseteq Pages \X Jobs
      BY <1>7 DEF Tick, TypeOK
    <2>4. QED
      BY <1>7, <2>1, <2>2, <2>3, PollingType DEF Tick, TypeOK, jobVars, lifecycleVars, history
  <1>8. ASSUME NEW j \in Jobs, Serve(p, j) PROVE TypeOK'
    <2>1. faults' \in 0 .. MaxFaults
      BY <1>8, PortalAssumption DEF Serve, TypeOK
    <2>2. asked' \subseteq Pages \X Jobs
      BY <1>8 DEF Serve, TypeOK
    <2>3. answers' \subseteq Pages \X Jobs \X Answers
      <3>1. status[j] \in Answers /\ "error" \in Answers
        BY <1>8 DEF Serve, TypeOK, JobsKnown, Answers
      <3>2. QED
        BY <1>8, <3>1 DEF Serve, TypeOK
    <2>4. QED
      BY <1>8, <2>1, <2>2, <2>3 DEF Serve, TypeOK, jobVars, lifecycleVars, view, history
  <1>9. ASSUME NEW j \in Jobs, NEW a \in Answers, Polled(p, j, a) PROVE TypeOK'
    <2>1. Keeps(p) \/ Clears(p)
      BY <1>9 DEF Polled, Keeps, Clears, Leave, Goes
    <2>2. shown' \in [Pages -> {"idle", "busy", "done", "fail"} \X (Jobs \union {None})]
      BY <1>9, ShowType, StyleType DEF Polled
    <2>3. overtaken' \subseteq Pages /\ answers' \subseteq Pages \X Jobs \X Answers
      BY <1>9 DEF Polled, TypeOK
    <2>4. QED
      BY <1>9, <2>1, <2>2, <2>3, PollingType DEF Polled, TypeOK, jobVars, lifecycleVars
  <1>10. QED
    BY <1>1, <1>2, <1>3, <1>4, <1>5, <1>6, <1>7, <1>8, <1>9 DEF PageSteps

-----------------------------------------------------------------------------
(* Jobs.                                                                    *)

\* The steps that no page takes.
JobSteps == Work \/ \E j \in Jobs : TakesBack(j) \/ Repeats(j)

\* A row stays; a completed job stays completed and a whole file stays whole, unless the
\* job is taken back or executed again.
JobsStay ==
  /\ undone \subseteq undone'
  /\ \A j \in Jobs : status[j] # "none" => status'[j] # "none"
  /\ \A j \in Jobs \ undone' :
       /\ status[j] = "completed" => status'[j] = "completed"
       /\ result[j] = "whole" => result'[j] = "whole"

LEMMA NextCases ==
  ASSUME [Next]_vars
  PROVE  \/ \E p \in Pages : PageSteps(p)
         \/ JobSteps
         \/ SessionChanges \/ UNCHANGED vars
  BY DEF Next, PageSteps, JobSteps

\* What a step does to the jobs: one of them goes on or is created, is written again after
\* it ended, or nothing.
LEMMA JobCases ==
  ASSUME TypeOK, [Next]_vars
  PROVE  \/ /\ \E j \in Jobs : Submit(j) \/ Undeliverable(j) \/ Start(j) \/ Complete(j) \/ Fail(j)
            /\ undone' = undone
         \/ \E j \in Jobs : TakesBack(j) \/ Repeats(j)
         \/ UNCHANGED jobVars
  <1>1. ASSUME NEW p \in Pages, ServeUpload(p)
        PROVE  ((\E j \in Jobs : Submit(j)) /\ undone' = undone) \/ UNCHANGED jobVars
    BY <1>1 DEF ServeUpload, TypeOK, Uploads
  <1>2. ASSUME NEW p \in Pages, PageSteps(p), ~ServeUpload(p)
        PROVE  UNCHANGED jobVars
    BY <1>2 DEF PageSteps, Open, Submits, OtherFails, Departs, Created, Tick, Serve, Polled
  <1>3. QED
    BY <1>1, <1>2, NextCases DEF JobSteps, Work, SessionChanges, vars

LEMMA StepJobs ==
  ASSUME TypeOK, [Next]_vars
  PROVE  JobsStay
  <1>1. ASSUME NEW j \in Jobs,
               Submit(j) \/ Undeliverable(j) \/ Start(j) \/ Complete(j) \/ Fail(j),
               undone' = undone
        PROVE  JobsStay
    BY <1>1 DEF Submit, Undeliverable, Start, Complete, Fail, Move, TypeOK, JobsStay
  <1>2. ASSUME NEW j \in Jobs, TakesBack(j) \/ Repeats(j) PROVE JobsStay
    BY <1>2 DEF TakesBack, Repeats, Withdraw, Move, Undoes, TypeOK, JobsStay
  <1>3. CASE UNCHANGED jobVars
    BY <1>3 DEF jobVars, lifecycleVars, JobsStay
  <1>4. QED
    BY <1>1, <1>2, <1>3, JobCases

LEMMA StepKnown ==
  ASSUME Inv, NEW p \in Pages, PageSteps(p), JobsStay
  PROVE  JobsKnown'
  <1> DEFINE Known(i) == i \in Pages \X Jobs /\ status'[i[2]] # "none"
             Learnt(q) == upload'[q] # None /\ upload'[q].at = "created"
                            => status'[upload'[q].job] # "none"
  <1>1. \A i \in intervals \union asked : Known(i)
    BY DEF Inv, TypeOK, JobsKnown, JobsStay
  <1>2. \A q \in Pages : upload'[q] = upload[q] => Learnt(q)
    BY DEF Inv, TypeOK, JobsKnown, JobsStay, Uploads
  <1>3. CASE Open(p) \/ OtherFails(p)
    BY <1>1, <1>2, <1>3 DEF Open, OtherFails, requests, JobsKnown
  <1>4. CASE Submits(p)
    <2>1. intervals' \subseteq intervals /\ asked' = asked
      BY <1>4 DEF Submits, Leave, StopPolling, Stopped
    <2>2. ASSUME NEW q \in Pages PROVE Learnt(q)
      <3>1. upload'[q] = upload[q] \/ upload'[q].at = "sent"
        BY <1>4 DEF Submits, Upload, Inv, TypeOK
      <3>2. QED
        BY <1>2, <3>1
    <2>3. QED
      BY <1>1, <2>1, <2>2 DEF JobsKnown
  <1>5. CASE Departs(p)
    <2>1. intervals' \subseteq intervals /\ asked' = asked /\ upload' = upload
      BY <1>5 DEF Departs, Leave, StopPolling, Stopped, requests
    <2>2. QED
      BY <1>1, <1>2, <2>1 DEF JobsKnown
  <1>6. CASE ServeUpload(p)
    <2>1. intervals' = intervals /\ asked' = asked
      BY <1>6 DEF ServeUpload, view
    <2>2. ASSUME NEW q \in Pages PROVE Learnt(q)
      <3>1. upload[p] \in Uploads
        BY <1>6 DEF ServeUpload, Inv, TypeOK
      <3>2. CASE /\ Submit(upload[p].job)
                 /\ Upload(p, [upload[p] EXCEPT !.at = "created"])
        <4>1. status'[upload[p].job] = "queued" /\ upload'[p].job = upload[p].job
          BY <3>1, <3>2 DEF Submit, Move, Upload, Uploads, Inv, TypeOK
        <4>2. QED
          BY <1>2, <3>2, <4>1 DEF Upload, Inv, TypeOK
      <3>3. CASE Upload(p, [upload[p] EXCEPT !.at = "error"])
        <4>1. upload'[p].at = "error"
          BY <3>1, <3>3 DEF Upload, Uploads, Inv, TypeOK
        <4>2. QED
          BY <1>2, <3>3, <4>1 DEF Upload, Inv, TypeOK
      <3>4. QED
        BY <1>6, <3>2, <3>3 DEF ServeUpload
    <2>3. QED
      BY <1>1, <2>1, <2>2 DEF JobsKnown
  <1>7. CASE Created(p)
    <2>1. asked' = asked
      BY <1>7 DEF Created
    <2>2. ASSUME NEW i \in intervals' PROVE Known(i)
      <3>1. i \in intervals \/ (upload[p].at = "created" /\ i = <<p, upload[p].job>>)
        BY <1>7, <2>2 DEF Created, Leave, StopPolling, StartPolling, Stopped
      <3>2. upload[p] # None /\ upload[p].job \in Jobs
        BY <1>7 DEF Created, Inv, TypeOK, Uploads
      <3>3. QED
        BY <1>1, <3>1, <3>2 DEF Inv, JobsKnown, JobsStay
    <2>3. \A q \in Pages : Learnt(q)
      BY <1>2, <1>7 DEF Created, Upload, Inv, TypeOK
    <2>4. QED
      BY <1>1, <2>1, <2>2, <2>3 DEF JobsKnown
  <1>8. ASSUME NEW j \in Jobs, Tick(p, j) PROVE JobsKnown'
    <2>1. intervals' \subseteq intervals /\ upload' = upload
      BY <1>8 DEF Tick, StopPolling, Stopped
    <2>2. asked' \subseteq asked \union {<<p, j>>} /\ <<p, j>> \in intervals
      BY <1>8 DEF Tick
    <2>3. QED
      BY <1>1, <1>2, <2>1, <2>2 DEF JobsKnown
  <1>9. ASSUME NEW j \in Jobs, Serve(p, j) PROVE JobsKnown'
    <2>1. intervals' = intervals /\ asked' \subseteq asked /\ upload' = upload
      BY <1>9 DEF Serve, view
    <2>2. QED
      BY <1>1, <1>2, <2>1 DEF JobsKnown
  <1>10. ASSUME NEW j \in Jobs, NEW a \in Answers, Polled(p, j, a) PROVE JobsKnown'
    <2>1. intervals' \subseteq intervals /\ asked' = asked /\ upload' = upload
      BY <1>10 DEF Polled, Leave, StopPolling, Stopped
    <2>2. QED
      BY <1>1, <1>2, <2>1 DEF JobsKnown
  <1>11. QED
    BY <1>3, <1>4, <1>5, <1>6, <1>7, <1>8, <1>9, <1>10 DEF PageSteps

LEMMA InitInv == Init => Inv
  BY InitType DEF Init, Inv, JobsKnown

LEMMA NextInv ==
  ASSUME Inv, [Next]_vars
  PROVE  Inv'
  <1>1. JobsStay
    BY StepJobs DEF Inv
  <1>2. ASSUME NEW p \in Pages, PageSteps(p) PROVE Inv'
    BY <1>1, <1>2, StepType, StepKnown DEF Inv
  <1>3. CASE JobSteps
    <2>1. /\ status' \in [Jobs -> Statuses \union {"none"}]
          /\ result' \in [Jobs -> {"absent", "partial", "whole"}]
          /\ undone' \subseteq Jobs
          /\ faults' \in 0 .. MaxFaults
      BY <1>3, PortalAssumption
      DEF JobSteps, Work, TakesBack, Repeats, Undoes, Undeliverable, Start, Complete, Fail,
          Withdraw, Move, Inv, TypeOK, Statuses
    <2>2. UNCHANGED <<session, view, requests, history>>
      BY <1>3 DEF JobSteps, Work, TakesBack, Repeats, Undoes, Unseen
    <2>3. TypeOK'
      BY <2>1, <2>2 DEF Inv, TypeOK, view, requests, history
    <2>4. JobsKnown'
      BY <1>1, <2>2 DEF Inv, TypeOK, JobsKnown, JobsStay, view, requests, Uploads
    <2>5. QED
      BY <2>3, <2>4 DEF Inv
  <1>4. CASE SessionChanges
    BY <1>4 DEF SessionChanges, Inv, TypeOK, JobsKnown, jobVars, lifecycleVars, view, requests, history
  <1>5. CASE UNCHANGED vars
    BY <1>5 DEF vars, Inv, TypeOK, JobsKnown, jobVars, lifecycleVars, view, requests, history
  <1>6. QED
    BY <1>2, <1>3, <1>4, <1>5, NextCases

\* Every reachable state is well typed: no page polls or shows a job that is not one.
THEOREM TypeSafe == Spec => []TypeOK
  <1>1. Init => Inv
    BY InitInv
  <1>2. Inv /\ [Next]_vars => Inv'
    BY NextInv
  <1>3. Inv => TypeOK
    BY DEF Inv
  <1>4. QED
    BY <1>1, <1>2, <1>3, PTL DEF Spec

-----------------------------------------------------------------------------
(* Intervals.                                                               *)

LEMMA PageIntervals ==
  ASSUME Inv, NEW p \in Pages, PageSteps(p)
  PROVE  /\ late \subseteq late'
         /\ \/ Open(p)
            \/ Keeps(p)
            \/ Clears(p)
            \/ \E j \in Jobs : Replaces(p, j) /\ (page[p] = "gone" => p \in late')
  <1>1. CASE Open(p) \/ OtherFails(p)
    BY <1>1 DEF Open, OtherFails, Keeps, history
  <1>2. CASE Submits(p)
    BY <1>2 DEF Submits, Keeps, Clears, Leave, Goes, history
  <1>3. CASE Departs(p)
    BY <1>3 DEF Departs, Clears, Leave, Goes, history
  <1>4. CASE ServeUpload(p)
    BY <1>4 DEF ServeUpload, Keeps, view, history
  <1>5. CASE Created(p)
    <2>1. upload[p].job \in Jobs
      BY <1>5 DEF Created, Inv, TypeOK, Uploads
    <2>2. QED
      BY <1>5, <2>1 DEF Created, Keeps, Clears, Replaces, Leave, Goes
  <1>6. ASSUME NEW j \in Jobs, Tick(p, j) \/ Serve(p, j)
        PROVE  late' = late /\ (Keeps(p) \/ Clears(p))
    BY <1>6 DEF Tick, Serve, Keeps, Clears, Goes, view, history
  <1>7. ASSUME NEW j \in Jobs, NEW a \in Answers, Polled(p, j, a)
        PROVE  late' = late /\ (Keeps(p) \/ Clears(p))
    BY <1>7 DEF Polled, Keeps, Clears, Leave, Goes
  <1>8. QED
    BY <1>1, <1>2, <1>3, <1>4, <1>5, <1>6, <1>7 DEF PageSteps

LEMMA StepOwned ==
  ASSUME Inv, IntervalsOwned, NEW p \in Pages, PageSteps(p)
  PROVE  IntervalsOwned'
  <1> SUFFICES ASSUME NEW i \in intervals'
               PROVE  pollTimer'[i[1]] = i[2] /\ (page'[i[1]] = "gone" => i[1] \in late')
    BY DEF IntervalsOwned
  <1>1. late \subseteq late'
    BY PageIntervals
  <1>2. CASE Open(p) \/ Keeps(p)
    BY <1>1, <1>2 DEF Open, Keeps, IntervalsOwned, Inv, TypeOK
  <1>3. CASE Clears(p)
    <2>1. i \in intervals /\ i # <<p, pollTimer[p]>>
      BY <1>3 DEF Clears, StopPolling, Stopped
    <2>2. i[1] \in Pages /\ i = <<i[1], pollTimer[i[1]]>>
      BY <2>1 DEF IntervalsOwned, Inv, TypeOK
    <2>3. i[1] # p
      BY <2>1, <2>2
    <2>4. QED
      BY <1>1, <1>3, <2>1, <2>2, <2>3 DEF Clears, StopPolling, IntervalsOwned, Inv, TypeOK
  <1>4. ASSUME NEW j \in Jobs, Replaces(p, j), page[p] = "gone" => p \in late'
        PROVE  pollTimer'[i[1]] = i[2] /\ (page'[i[1]] = "gone" => i[1] \in late')
    <2>1. CASE i = <<p, j>>
      BY <1>4, <2>1 DEF Replaces, StartPolling, Inv, TypeOK
    <2>2. CASE i # <<p, j>>
      <3>1. i \in intervals /\ i # <<p, pollTimer[p]>>
        BY <1>4, <2>2 DEF Replaces, StartPolling, Stopped
      <3>2. i[1] \in Pages /\ i = <<i[1], pollTimer[i[1]]>>
        BY <3>1 DEF IntervalsOwned, Inv, TypeOK
      <3>3. i[1] # p
        BY <3>1, <3>2
      <3>4. QED
        BY <1>1, <1>4, <3>1, <3>2, <3>3 DEF Replaces, StartPolling, IntervalsOwned, Inv, TypeOK
    <2>3. QED
      BY <2>1, <2>2
  <1>5. QED
    BY <1>2, <1>3, <1>4, PageIntervals

\* No interval runs that its page could not clear, and a page that is gone polls only for
\* a job that it learnt of too late: startPolling and ngOnDestroy clear the one they hold.
THEOREM IntervalsSafe == Spec => []IntervalsOwned
  <1>1. Init => Inv /\ IntervalsOwned
    BY InitInv DEF Init, IntervalsOwned
  <1>2. Inv /\ IntervalsOwned /\ [Next]_vars => Inv' /\ IntervalsOwned'
    <2> SUFFICES ASSUME Inv, IntervalsOwned, [Next]_vars PROVE IntervalsOwned'
      BY NextInv
    <2>1. CASE UNCHANGED <<view, history>>
      BY <2>1 DEF view, history, IntervalsOwned
    <2>2. QED
      BY <2>1, NextCases, StepOwned DEF JobSteps, Work, TakesBack, Repeats, Undoes, Unseen, SessionChanges, vars
  <1>3. QED
    BY <1>1, <1>2, PTL DEF Spec

-----------------------------------------------------------------------------
(* Submissions.                                                             *)

LEMMA StepBusy ==
  ASSUME Inv, BusyIsUnderWay, NEW p \in Pages, PageSteps(p)
  PROVE  BusyIsUnderWay'
  <1> SUFFICES ASSUME NEW q \in Pages, isSubmitting'[q]
               PROVE  upload'[q] # None \/ q \in refused'
    BY DEF BusyIsUnderWay
  <1>1. CASE UNCHANGED <<upload, isSubmitting, refused>>
    BY <1>1 DEF BusyIsUnderWay
  <1>2. CASE Submits(p)
    <2> DEFINE u == [job |-> CHOOSE j \in NewJobs : TRUE, at |-> "sent"]
    <2>1. CASE NewJobs # {} /\ Upload(p, u) /\ refused' = refused
               /\ isSubmitting' = [isSubmitting EXCEPT ![p] = TRUE]
      <3>1. u \in Uploads
        BY <2>1, NewJobType DEF Uploads
      <3>2. u # None
        BY <3>1, PortalAssumption
      <3>3. QED
        BY <2>1, <3>2 DEF Upload, BusyIsUnderWay, Inv, TypeOK
    <2>2. QED
      BY <1>1, <1>2, <2>1 DEF Submits, history
  <1>3. CASE ServeUpload(p)
    <2>1. PICK u \in Uploads : Upload(p, u)
      <3>1. upload[p] \in Uploads
        BY <1>3 DEF ServeUpload, Inv, TypeOK
      <3>2. /\ [upload[p] EXCEPT !.at = "created"] \in Uploads
            /\ [upload[p] EXCEPT !.at = "error"] \in Uploads
        BY <3>1 DEF Uploads
      <3>3. QED
        BY <1>3, <3>2 DEF ServeUpload
    <2>2. upload'[p] # None /\ (q # p => upload'[q] = upload[q])
      BY <2>1, PortalAssumption DEF Upload, Inv, TypeOK
    <2>3. QED
      BY <1>3, <2>2 DEF ServeUpload, view, history, BusyIsUnderWay
  <1>4. CASE Created(p)
    <2>1. q = p => p \in refused'
      BY <1>4 DEF Created, Completes, Inv, TypeOK
    <2>2. q # p => upload'[q] = upload[q] /\ isSubmitting'[q] = isSubmitting[q]
      BY <1>4 DEF Created, Completes, Upload, Inv, TypeOK
    <2>3. refused \subseteq refused'
      BY <1>4 DEF Created
    <2>4. QED
      BY <2>1, <2>2, <2>3 DEF BusyIsUnderWay
  <1>5. QED
    BY <1>1, <1>2, <1>3, <1>4
    DEF PageSteps, Open, OtherFails, Departs, Tick, Serve, Polled, requests, view, history

\* A form is busy only while its file is under way, or after a submission has failed: then
\* the callback that frees the form does not run.
THEOREM BusySafe == Spec => []BusyIsUnderWay
  <1>1. Init => Inv /\ BusyIsUnderWay
    BY InitInv DEF Init, BusyIsUnderWay
  <1>2. Inv /\ BusyIsUnderWay /\ [Next]_vars => Inv' /\ BusyIsUnderWay'
    <2> SUFFICES ASSUME Inv, BusyIsUnderWay, [Next]_vars PROVE BusyIsUnderWay'
      BY NextInv
    <2>1. CASE UNCHANGED <<view, requests, history>>
      BY <2>1 DEF view, requests, history, BusyIsUnderWay
    <2>2. QED
      BY <2>1, NextCases, StepBusy DEF JobSteps, Work, TakesBack, Repeats, Undoes, Unseen, SessionChanges, vars
  <1>3. QED
    BY <1>1, <1>2, PTL DEF Spec

-----------------------------------------------------------------------------
(* Downloads.                                                               *)

CompletedIsWhole == \A j \in Jobs \ undone : status[j] = "completed" => result[j] = "whole"

\* What the API has said, and what a page shows, stays true of a job that is left alone.
AnswersStand ==
  /\ \A p \in Pages, j \in Jobs :
       <<p, j, "completed">> \in answers => status[j] = "completed" \/ j \in undone
  /\ \A p \in Pages : shown[p][1] = "done" => shown[p][2] \in Jobs

DoneInv == Inv /\ CompletedIsWhole /\ AnswersStand /\ DoneIsDownloadable

LEMMA StepWhole ==
  ASSUME Inv, CompletedIsWhole, [Next]_vars
  PROVE  CompletedIsWhole'
  <1>1. ASSUME NEW j \in Jobs,
               Submit(j) \/ Undeliverable(j) \/ Start(j) \/ Complete(j) \/ Fail(j),
               undone' = undone
        PROVE  CompletedIsWhole'
    BY <1>1 DEF Submit, Undeliverable, Start, Complete, Fail, Move, CompletedIsWhole, Inv, TypeOK
  <1>2. ASSUME NEW j \in Jobs, TakesBack(j) \/ Repeats(j) PROVE CompletedIsWhole'
    BY <1>2 DEF TakesBack, Repeats, Withdraw, Move, Undoes, CompletedIsWhole, Inv, TypeOK
  <1>3. CASE UNCHANGED jobVars
    BY <1>3 DEF jobVars, lifecycleVars, CompletedIsWhole
  <1>4. QED
    BY <1>1, <1>2, <1>3, JobCases DEF Inv

\* What a step lets a page show: what it showed, nothing new, or an answer that arrived.
LEMMA PageShows ==
  ASSUME Inv, NEW p \in Pages, PageSteps(p), NEW q \in Pages, shown'[q][1] = "done"
  PROVE  \/ shown'[q] = shown[q]
         \/ \E j \in Jobs : shown'[q] = <<"done", j>> /\ <<p, j, "completed">> \in answers
  <1>1. CASE UNCHANGED shown
    BY <1>1
  <1>2. CASE q # p
    BY <1>2 DEF PageSteps, Open, Submits, OtherFails, Departs, ServeUpload, Created, Tick, Serve,
                Polled, Show, view, Inv, TypeOK
  <1>3. ASSUME NEW style \in {"idle", "busy", "fail"}, NEW j \in Jobs \union {None},
               Show(p, style, j), q = p
        PROVE  FALSE
    BY <1>3 DEF Show, Blank, Inv, TypeOK
  <1>4. CASE Submits(p) \/ OtherFails(p) \/ Departs(p)
    BY <1>2, <1>3, <1>4 DEF Submits, OtherFails, Departs
  <1>5. CASE Created(p)
    <2>1. upload[p].job \in Jobs
      BY <1>5 DEF Created, Inv, TypeOK, Uploads
    <2>2. QED
      BY <1>2, <1>3, <1>5, <2>1 DEF Created
  <1>6. ASSUME NEW j \in Jobs, Tick(p, j), q = p PROVE shown' = shown
    BY <1>3, <1>6 DEF Tick
  <1>7. ASSUME NEW j \in Jobs, NEW a \in Answers, Polled(p, j, a), q = p
        PROVE  shown'[q] = <<"done", j>> /\ <<p, j, "completed">> \in answers
    <2>1. Show(p, Style(a), j) /\ <<p, j, a>> \in answers
      BY <1>7 DEF Polled
    <2>2. shown'[q] = <<Style(a), j>>
      BY <1>7, <2>1 DEF Show, Blank, Inv, TypeOK
    <2>3. QED
      BY <2>1, <2>2, StyleType
  <1>8. QED
    BY <1>1, <1>2, <1>4, <1>5, <1>6, <1>7 DEF PageSteps, Open, ServeUpload, Serve, view

LEMMA StepDone ==
  ASSUME DoneInv, NEW p \in Pages, PageSteps(p), JobsStay
  PROVE  AnswersStand' /\ DoneIsDownloadable'
  <1>1. ASSUME NEW q \in Pages, NEW j \in Jobs, <<q, j, "completed">> \in answers'
        PROVE  status'[j] = "completed" \/ j \in undone'
    <2>1. CASE <<q, j, "completed">> \in answers
      BY <2>1 DEF DoneInv, AnswersStand, JobsStay
    <2>2. CASE answers' \subseteq answers
      BY <1>1, <2>1, <2>2
    <2>3. ASSUME NEW k \in Jobs, Serve(p, k) PROVE status'[j] = "completed" \/ j \in undone'
      BY <1>1, <2>1, <2>3 DEF Serve, jobVars, lifecycleVars
    <2>4. QED
      BY <2>2, <2>3
      DEF PageSteps, Open, Submits, OtherFails, Departs, ServeUpload, Created, Tick, Polled, requests
  <1>2. ASSUME NEW j \in Jobs,
               (status[j] = "completed" /\ result[j] = "whole") \/ j \in undone
        PROVE  (status'[j] = "completed" /\ result'[j] = "whole") \/ j \in undone'
    BY <1>2 DEF JobsStay
  <1>3. ASSUME NEW q \in Pages, shown'[q][1] = "done"
        PROVE  \E j \in Jobs :
                 /\ shown'[q][2] = j
                 /\ (status'[j] = "completed" /\ result'[j] = "whole") \/ j \in undone'
    <2>1. CASE shown'[q] = shown[q]
      BY <1>2, <1>3, <2>1 DEF DoneInv, AnswersStand, DoneIsDownloadable
    <2>2. ASSUME NEW j \in Jobs, shown'[q] = <<"done", j>>, <<p, j, "completed">> \in answers
          PROVE  /\ shown'[q][2] = j
                 /\ (status'[j] = "completed" /\ result'[j] = "whole") \/ j \in undone'
      BY <1>2, <2>2 DEF DoneInv, AnswersStand, CompletedIsWhole
    <2>3. QED
      BY <1>3, <2>1, <2>2, PageShows DEF DoneInv
  <1>4. QED
    BY <1>1, <1>3 DEF AnswersStand, DoneIsDownloadable

\* A file that a page says is ready is given out, whole, by a handler that looks at the
\* status again, however late the answer came that the page shows, unless the job was taken
\* back or executed again.
THEOREM DownloadSafe == Spec => []DoneIsDownloadable
  <1>1. Init => DoneInv
    BY InitInv DEF Init, LifecycleInit, Blank, DoneInv, CompletedIsWhole, AnswersStand,
                   DoneIsDownloadable
  <1>2. DoneInv /\ [Next]_vars => DoneInv'
    <2> SUFFICES ASSUME DoneInv, [Next]_vars PROVE AnswersStand' /\ DoneIsDownloadable'
      BY NextInv, StepWhole DEF DoneInv
    <2>1. JobsStay
      BY StepJobs DEF DoneInv, Inv
    <2>2. CASE UNCHANGED <<view, requests>>
      <3>1. UNCHANGED <<shown, answers>>
        BY <2>2 DEF view, requests
      <3>2. QED
        BY <2>1, <3>1 DEF DoneInv, AnswersStand, DoneIsDownloadable, JobsStay
    <2>3. QED
      BY <2>1, <2>2, NextCases, StepDone
      DEF JobSteps, Work, TakesBack, Repeats, Undoes, Unseen, SessionChanges, vars
  <1>3. DoneInv => DoneIsDownloadable
    BY DEF DoneInv
  <1>4. QED
    BY <1>1, <1>2, <1>3, PTL DEF Spec

-----------------------------------------------------------------------------
(* How polling ends.                                                        *)

\* Why p no longer polls j: it has gone, it polls its next submission, it shows an answer
\* that ends polling, or an answer came after its polling had ended.
Explained(p, j) ==
  \/ page'[p] = "gone"
  \/ activeJobId'[p] # j
  \/ shown'[p] \in {"done", "fail"} \X {j}
  \/ p \in overtaken'

\* The step that ends the polling of an open page leaves nothing to ask for.
PollingExplained ==
  [][\A p \in Pages, j \in Jobs :
       page[p] = "open" /\ <<p, j>> \in intervals /\ <<p, j>> \notin intervals' =>
         Explained(p, j)]_vars

LEMMA StepExplained ==
  ASSUME Inv, IntervalsOwned, NEW p \in Pages, PageSteps(p), NEW q \in Pages, NEW j \in Jobs,
         page[q] = "open", <<q, j>> \in intervals, <<q, j>> \notin intervals'
  PROVE  Explained(q, j)
  <1>1. pollTimer[q] = j
    BY DEF IntervalsOwned
  <1>2. ~ UNCHANGED intervals
    OBVIOUS
  <1>3. q = p
    BY PageIntervals DEF Open, Keeps, Clears, StopPolling, Replaces, StartPolling, Stopped
  <1>4. ASSUME Goes(p) PROVE Explained(q, j)
    BY <1>3, <1>4 DEF Goes, Explained, Inv, TypeOK
  <1>5. CASE Submits(p) \/ Departs(p)
    BY <1>2, <1>4, <1>5 DEF Submits, Departs, Leave
  <1>6. CASE Created(p)
    <2>1. CASE Expired(p)
      BY <1>2, <1>4, <1>6, <2>1 DEF Created, Leave
    <2>2. CASE StartPolling(p, upload[p].job) /\ activeJobId' = [activeJobId EXCEPT ![p] = upload[p].job]
      BY <1>3, <2>2 DEF StartPolling, Explained, Inv, TypeOK
    <2>3. QED
      BY <1>2, <1>6, <2>1, <2>2 DEF Created
  <1>7. ASSUME NEW i \in Jobs, Tick(p, i) PROVE Explained(q, j)
    BY <1>2, <1>3, <1>4, <1>7 DEF Tick
  <1>8. ASSUME NEW i \in Jobs, NEW a \in Answers, Polled(p, i, a) PROVE Explained(q, j)
    <2>1. CASE i # j
      <3>1. <<p, i>> \notin intervals
        BY <1>1, <1>3, <2>1 DEF IntervalsOwned
      <3>2. QED
        BY <1>3, <1>8, <3>1 DEF Polled, Explained
    <2>2. CASE i = j /\ Ends(a) /\ UNCHANGED page
      <3>1. shown'[q] = <<Style(a), j>>
        BY <1>3, <1>8, <2>2 DEF Polled, Show, Inv, TypeOK
      <3>2. Style(a) \in {"done", "fail"}
        BY <2>2 DEF Ends, Style
      <3>3. QED
        BY <3>1, <3>2 DEF Explained
    <2>3. QED
      BY <1>2, <1>4, <1>8, <2>1, <2>2 DEF Polled, Leave
  <1>9. QED
    BY <1>2, <1>5, <1>6, <1>7, <1>8 DEF PageSteps, Open, OtherFails, ServeUpload, Serve, view

\* An open page never just stops asking about a job: what EndIsShown needs beside timers that
\* fire and answers that arrive.
THEOREM PollingEndsExplained == Spec => PollingExplained
  <1>1. Spec => [](Inv /\ IntervalsOwned)
    <2>1. Init => Inv
      BY InitInv
    <2>2. Inv /\ [Next]_vars => Inv'
      BY NextInv
    <2>3. QED
      BY <2>1, <2>2, IntervalsSafe, PTL DEF Spec
  <1>2. Inv /\ IntervalsOwned /\ [Next]_vars =>
          [\A p \in Pages, j \in Jobs :
             page[p] = "open" /\ <<p, j>> \in intervals /\ <<p, j>> \notin intervals' =>
               Explained(p, j)]_vars
    BY NextCases, StepExplained DEF JobSteps, Work, TakesBack, Repeats, Undoes, Unseen, SessionChanges, view
  <1>3. QED
    BY <1>1, <1>2, PTL DEF Spec, PollingExplained
=============================================================================
