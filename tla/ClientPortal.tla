---------------------------- MODULE ClientPortal ----------------------------
(***************************************************************************)
(* The client's page in the browser: pages/client-portal and the guard and *)
(* session service it uses (frontend/src/app).  A page submits files and   *)
(* polls the job of its last submission.  The jobs take the steps of the   *)
(* JobLifecycle that JobPipeline implements while the queue delivers each  *)
(* message once, and those of executions by messages delivered again.      *)
(*                                                                         *)
(* Every callback is one step.  Answers arrive in any order: polling sends *)
(* the next request without waiting for the answer of the last one.        *)
(* Requests of one page for one job that nobody has answered yet are one   *)
(* element of a set, and so are equal answers on their way.  Nothing is    *)
(* unsubscribed when a page goes, so its callbacks still run.  All tabs    *)
(* share the session.                                                      *)
(***************************************************************************)
EXTENDS JobLifecycle, Integers, FiniteSets

CONSTANTS
  Pages,      \* instances of the component, over time and in all tabs
  None,
  MaxFaults,  \* bound: requests about the pages' own jobs that fail, and finished jobs
              \* that are taken back or executed again
  MaxAnswers  \* bound: different answers on their way to a page

Uploads == [job : Jobs, at : {"sent", "created", "error"}]

ASSUME PortalAssumption ==
  /\ None \notin Jobs \union Uploads
  /\ MaxFaults \in Nat
  /\ MaxAnswers \in Nat \ {0}

VARIABLES
  undone,        \* history: jobs whose completion was taken back or that were executed again
  session,       \* whether there is a client session that has not expired
  page,          \* page[p]: before ngOnInit, open, or after ngOnDestroy
  intervals,     \* intervals that run: <<p, j>> polls job j for page p
  pollTimer,     \* pollTimer[p]: the job of the interval that p can clear, or None
  isSubmitting,
  activeJobId,
  shown,         \* shown[p]: style of the status line, and the job it is about, while open
  upload,        \* upload[p]: the createJob under way: the job, and what became of it
  asked,         \* <<p, j>>: a getJob that the API has not answered
  answers,       \* <<p, j, a>>: an answer to getJob that has not arrived
  faults,        \* how many of MaxFaults there were
  late,          \* history: pages that learnt of a job when they were gone
  overtaken,     \* history: pages that got an answer after its polling had ended
  refused        \* history: pages of which a submission failed

jobVars == <<lifecycleVars, undone>>
view == <<page, intervals, pollTimer, isSubmitting, activeJobId, shown>>
requests == <<upload, asked, answers>>
history == <<late, overtaken, refused>>
vars == <<jobVars, session, view, requests, faults, history>>

Statuses == {"queued", "processing", "completed", "failed"}
Answers == Statuses \union {"error"}
Final == {"completed", "failed"}
Blank == <<"idle", None>>

Init ==
  /\ LifecycleInit
  /\ undone = {}
  /\ session \in BOOLEAN
  /\ page = [p \in Pages |-> "new"]
  /\ intervals = {}
  /\ pollTimer = [p \in Pages |-> None]
  /\ isSubmitting = [p \in Pages |-> FALSE]
  /\ activeJobId = [p \in Pages |-> None]
  /\ shown = [p \in Pages |-> Blank]
  /\ upload = [p \in Pages |-> None]
  /\ asked = {} /\ answers = {}
  /\ faults = 0
  /\ late = {} /\ overtaken = {} /\ refused = {}

-----------------------------------------------------------------------------
(* What callbacks do.                                                       *)

Goes(p) == page' = [page EXCEPT ![p] = "gone"]

\* setStatus.  Nobody sees it when the page is gone, or goes with this step.
Show(p, style, j) ==
  shown' = [shown EXCEPT ![p] = IF page'[p] = "gone" THEN Blank ELSE <<style, j>>]

Upload(p, u) == upload' = [upload EXCEPT ![p] = u]

Stopped(p) == intervals \ {<<p, pollTimer[p]>>}

StopPolling(p) ==
  /\ intervals' = Stopped(p)
  /\ pollTimer' = [pollTimer EXCEPT ![p] = None]

\* A plausible bug: the interval of the last job is not cleared.
StartPollingOnly(p, j) ==
  /\ intervals' = intervals \union {<<p, j>>}
  /\ pollTimer' = [pollTimer EXCEPT ![p] = j]

\* A plausible bug: the active job is polled, which is not assigned yet.
StartPollingActive(p, j) ==
  /\ intervals' = Stopped(p) \union {<<p, activeJobId[p]>>}
  /\ pollTimer' = [pollTimer EXCEPT ![p] = activeJobId[p]]

StartPolling(p, j) ==
  /\ intervals' = Stopped(p) \union {<<p, j>>}
  /\ pollTimer' = [pollTimer EXCEPT ![p] = j]

\* requireAuthToken has found no session: an open page is left for the sign-in page.
Expired(p) == ~session /\ page[p] = "open"

\* A plausible bug: the page goes without stopping its polling.
LeaveOnly(p) == Goes(p) /\ UNCHANGED <<intervals, pollTimer>>

\* ngOnDestroy.
Leave(p) == Goes(p) /\ StopPolling(p)

-----------------------------------------------------------------------------
(* The user and the session.                                                *)

\* The route's guard has let the page open.
Open(p) ==
  /\ page[p] = "new" /\ session
  /\ page' = [page EXCEPT ![p] = "open"]
  /\ UNCHANGED <<jobVars, session, intervals, pollTimer, isSubmitting, activeJobId, shown,
                 requests, faults, history>>

NewJobs == {j \in Jobs : status[j] = "none" /\ \A p \in Pages : upload[p] # None => upload[p].job # j}

\* submit, by a button that is not disabled: it sends the file, which will be a new job,
\* or says what is missing, or finds no session.
Submits(p) ==
  /\ page[p] = "open" /\ ~isSubmitting[p]
  /\ \/ /\ session
        /\ NewJobs # {}
        /\ Upload(p, [job |-> CHOOSE j \in NewJobs : TRUE, at |-> "sent"])
        /\ isSubmitting' = [isSubmitting EXCEPT ![p] = TRUE]
        /\ UNCHANGED <<page, intervals, pollTimer>>
        /\ Show(p, "busy", None)
     \/ /\ session
        /\ UNCHANGED <<page, intervals, pollTimer, isSubmitting, upload>>
        /\ Show(p, "fail", None)
     \/ /\ ~session
        /\ UNCHANGED <<isSubmitting, upload>>
        /\ Leave(p)
        /\ Show(p, "fail", None)
  /\ UNCHANGED <<jobVars, session, activeJobId, asked, answers, faults, history>>

\* An answer to listJobs or downloadJob is an error.
OtherFails(p) ==
  /\ page[p] = "open"
  /\ UNCHANGED <<jobVars, session, page, intervals, pollTimer, isSubmitting, activeJobId,
                 requests, faults, history>>
  /\ Show(p, "fail", None)

\* signOut, or the user goes elsewhere, or a callback of another page of this tab has
\* found no session.
Departs(p) ==
  /\ page[p] = "open"
  /\ session' \in {session, FALSE}
  /\ Leave(p)
  /\ Show(p, "idle", None)
  /\ UNCHANGED <<jobVars, isSubmitting, activeJobId, requests, faults, history>>

\* The session expires or ends in another tab, or the client signs in.
SessionChanges ==
  /\ session' = ~session
  /\ UNCHANGED <<jobVars, view, requests, faults, history>>

-----------------------------------------------------------------------------
(* Polling and answers.                                                     *)

Tick(p, j) ==
  /\ <<p, j>> \in intervals
  /\ \/ /\ session
        /\ asked' = asked \union {<<p, j>>}
        /\ UNCHANGED <<page, intervals, pollTimer, shown>>
     \/ /\ ~session
        /\ StopPolling(p)
        /\ IF page[p] = "open" THEN Goes(p) ELSE UNCHANGED page
        /\ Show(p, "fail", None)
        /\ UNCHANGED asked
  /\ UNCHANGED <<jobVars, session, isSubmitting, activeJobId, upload, answers, faults,
                 history>>

\* The API answers getJob, or the request or its answer is lost.
Serve(p, j) ==
  /\ <<p, j>> \in asked
  /\ Cardinality({a \in answers : a[1] = p}) < MaxAnswers
  /\ asked' = asked \ {<<p, j>>}
  /\ \/ answers' = answers \union {<<p, j, status[j]>>} /\ UNCHANGED faults
     \/ /\ faults < MaxFaults
        /\ faults' = faults + 1
        /\ answers' = answers \union {<<p, j, "error">>}
  /\ UNCHANGED <<jobVars, session, view, upload, history>>

\* The API creates a job or refuses it, or the request or its answer is lost.
ServeUpload(p) ==
  /\ upload[p] # None
  /\ \/ /\ upload[p].at = "sent"
        /\ Submit(upload[p].job)
        /\ Upload(p, [upload[p] EXCEPT !.at = "created"])
        /\ UNCHANGED <<faults, undone>>
     \/ /\ faults < MaxFaults
        /\ faults' = faults + 1
        /\ Upload(p, [upload[p] EXCEPT !.at = "error"])
        /\ UNCHANGED jobVars
  /\ UNCHANGED <<session, view, asked, answers, history>>

\* A plausible bug: the form stays busy.
CompletesNot(p) == UNCHANGED isSubmitting

\* The callback complete, which does not follow an error.
Completes(p) == isSubmitting' = [isSubmitting EXCEPT ![p] = FALSE]

\* The answer to createJob arrives, and on success the page polls the job.
Created(p) ==
  LET j == upload[p].job IN
  /\ upload[p] # None
  /\ \/ /\ upload[p].at = "created"
        /\ activeJobId' = [activeJobId EXCEPT ![p] = j]
        /\ Completes(p)
        /\ IF Expired(p) THEN Leave(p) ELSE StartPolling(p, j) /\ UNCHANGED page
        /\ IF session THEN Show(p, "busy", j) ELSE Show(p, "fail", None)
        /\ late' = IF page[p] = "gone" THEN late \union {p} ELSE late
        /\ UNCHANGED refused
     \/ /\ upload[p].at = "error"
        /\ refused' = refused \union {p}
        /\ UNCHANGED <<page, intervals, pollTimer, isSubmitting, activeJobId, late>>
        /\ Show(p, "fail", None)
  /\ Upload(p, None)
  /\ UNCHANGED <<jobVars, session, asked, answers, faults, overtaken>>

\* A plausible bug: a failed job is polled like one that waits.
EndsCompleted(answer) == answer \in {"completed", "error"}

\* A plausible bug: polling ends when the job has left the queue.
EndsProcessing(answer) == answer # "queued"

\* The answers that end polling.
Ends(answer) == answer \in {"completed", "failed", "error"}

\* A plausible bug: a job that has left the queue without failing is shown as ready.
StyleNotQueued(answer) ==
  CASE answer = "queued" -> "idle" [] answer \in {"failed", "error"} -> "fail" [] OTHER -> "done"

\* How the page shows an answer: as ready, as a failure, as waiting, or as under way.
Style(answer) ==
  CASE answer = "completed" -> "done" [] answer \in {"failed", "error"} -> "fail"
    [] answer = "queued" -> "idle" [] OTHER -> "busy"

\* An answer to getJob arrives.  It ends the polling that is under way, also of another
\* job; the page fetches the list, and shows the job's status.
Polled(p, j, answer) ==
  /\ <<p, j, answer>> \in answers
  /\ answers' = answers \ {<<p, j, answer>>}
  /\ IF Expired(p) /\ answer # "error" THEN Leave(p)
     ELSE /\ IF Ends(answer) THEN StopPolling(p) ELSE UNCHANGED <<intervals, pollTimer>>
          /\ UNCHANGED page
  /\ Show(p, Style(answer), j)
  /\ overtaken' = IF <<p, j>> \in intervals THEN overtaken ELSE overtaken \union {p}
  /\ UNCHANGED <<jobVars, session, isSubmitting, activeJobId, upload, asked, faults, late,
                 refused>>

Unseen == UNCHANGED <<session, view, requests, history>>

\* The steps forward of a job.
Work ==
  /\ \E j \in Jobs : Undeliverable(j) \/ Start(j) \/ Complete(j) \/ Fail(j)
  /\ UNCHANGED <<undone, faults>>
  /\ Unseen

Undoes(j) ==
  /\ faults < MaxFaults
  /\ faults' = faults + 1
  /\ undone' = undone \union {j}
  /\ Unseen

\* Reporting a completed job failed.
TakesBack(j) == Withdraw(j) /\ Undoes(j)

\* The queue has delivered the message of a finished job again: its row says processing
\* until this execution ends too, or the file is written under a row that is completed.
Repeats(j) ==
  /\ status[j] \in Final
  /\ \/ status' = [status EXCEPT ![j] = "processing"] /\ UNCHANGED result
     \/ /\ status[j] = "completed"
        /\ result' = [result EXCEPT ![j] = "partial"]
        /\ UNCHANGED status
  /\ Undoes(j)

Next ==
  \/ \E p \in Pages :
       \/ Open(p) \/ Submits(p) \/ OtherFails(p) \/ Departs(p) \/ ServeUpload(p) \/ Created(p)
       \/ \E j \in Jobs : Tick(p, j) \/ Serve(p, j) \/ \E a \in Answers : Polled(p, j, a)
  \/ SessionChanges \/ Work
  \/ \E j \in Jobs : TakesBack(j) \/ Repeats(j)

\* Intervals fire, the API answers, and answers arrive.
Fairness ==
  \A p \in Pages, j \in Jobs :
    WF_vars(Tick(p, j)) /\ WF_vars(Serve(p, j)) /\ WF_vars(\E a \in Answers : Polled(p, j, a))

Spec == Init /\ [][Next]_vars /\ Fairness

-----------------------------------------------------------------------------
(* Properties.                                                              *)

TypeOK ==
  /\ status \in [Jobs -> Statuses \union {"none"}]
  /\ result \in [Jobs -> {"absent", "partial", "whole"}]
  /\ undone \subseteq Jobs
  /\ session \in BOOLEAN
  /\ page \in [Pages -> {"new", "open", "gone"}]
  /\ intervals \subseteq Pages \X Jobs
  /\ pollTimer \in [Pages -> Jobs \union {None}]
  /\ isSubmitting \in [Pages -> BOOLEAN]
  /\ activeJobId \in [Pages -> Jobs \union {None}]
  /\ shown \in [Pages -> {"idle", "busy", "done", "fail"} \X (Jobs \union {None})]
  /\ upload \in [Pages -> Uploads \union {None}]
  /\ asked \subseteq Pages \X Jobs
  /\ answers \subseteq Pages \X Jobs \X Answers
  /\ faults \in 0 .. MaxFaults
  /\ late \subseteq Pages /\ overtaken \subseteq Pages /\ refused \subseteq Pages

\* No interval runs that its page has lost the handle of, also when the answers of two
\* submissions overlap with polling; and a page that is gone polls only for a job that
\* it learnt of too late.
IntervalsOwned ==
  \A i \in intervals :
    pollTimer[i[1]] = i[2] /\ (page[i[1]] = "gone" => i[1] \in late)

\* A file that a page says is ready is given out, whole, by download_job_result, which
\* looks at the status again, however late the answer came that the page shows; unless the
\* job's completion was taken back or the job was executed again, of which no page learns.
DoneIsDownloadable ==
  \A p \in Pages :
    LET j == shown[p][2] IN
    shown[p][1] = "done" => (status[j] = "completed" /\ result[j] = "whole") \/ j \in undone

\* A form that is busy has its file under way, or a submission has failed: then it stays
\* disabled.
BusyIsUnderWay ==
  \A p \in Pages : isSubmitting[p] => upload[p] # None \/ p \in refused

\* Polling of a job that has ended ends too, in pages that are gone as in those that are
\* open, whatever becomes of the session; unless the job is executed again.
PollingEnds ==
  \A p \in Pages, j \in Jobs :
    (<<p, j>> \in intervals /\ status[j] \in Final) ~>
      <<p, j>> \notin intervals \/ status[j] \notin Final

\* An open page shows how its last submission ended, or that a request failed, unless the
\* job is executed again, or an answer arrived after its polling had ended: that one may
\* have ended the polling of this job or replaced what was shown.
EndIsShown ==
  \A p \in Pages, j \in Jobs :
    (page[p] = "open" /\ <<p, j>> \in intervals /\ status[j] \in Final) ~>
      \/ page[p] = "gone"
      \/ activeJobId[p] # j
      \/ shown[p] \in {"done", "fail"} \X {j}
      \/ status[j] \notin Final
      \/ p \in overtaken
=============================================================================
