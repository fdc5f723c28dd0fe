------------------------------- MODULE Quota -------------------------------
(***************************************************************************)
(* The monthly job quota of backend/app: UsageRepository, the reservation  *)
(* in JobRepository.create_job_with_quota_reservation, the part of the     *)
(* create_job handler around it, the plan changes that move the limit, and *)
(* the QuotaResetScheduler thread that opens and purges usage rows.        *)
(*                                                                         *)
(* Every handler runs in a thread with its own database session.  A step   *)
(* of the model is one statement or one commit of such a session; between  *)
(* two steps of one session every other session may run.  The UPDATE of a  *)
(* usage row holds the row until its transaction ends (PostgreSQL, READ    *)
(* COMMITTED); rowHolder is that lock.  Months are numbered from 0.        *)
(***************************************************************************)
EXTENDS Integers, FiniteSets

CONSTANTS
  Submitters,   \* POST /jobs requests; each names the job it would create
  Readers,      \* requests that only show usage (_workspace_info)
  Scheduler,    \* the quota-reset thread
  Workspaces,
  Limits,       \* values of monthly_job_limit that plans and admins set
  Retention,    \* usage_retention_months
  MaxPeriod,    \* bound on the clock: months 0 .. MaxPeriod
  Unread,       \* the limit, or the key, a request has not read yet
  Nobody        \* rowHolder of a row that no transaction has updated

ASSUME SubmittersAssumption == IsFiniteSet(Submitters)
ASSUME ActorsAssumption ==
  /\ Submitters \intersect Readers = {}
  /\ Scheduler \notin Submitters \union Readers
  /\ Nobody \notin Submitters
ASSUME WorkspacesAssumption == Workspaces # {}
ASSUME LimitsAssumption == Limits \subseteq Int /\ Limits # {} /\ Unread \notin Limits
\* config.py:159 clamps usage_retention_months to at least 1.
ASSUME RetentionAssumption == Retention \in Nat \ {0}
ASSUME MaxPeriodAssumption == MaxPeriod \in Nat
ASSUME UnreadAssumption == Unread \notin Workspaces \X (0 .. MaxPeriod)

VARIABLES
  now,          \* the current month (period_start_utc)
  limit,        \* limit[w]: Workspace.monthly_job_limit
  allowed,      \* allowed[w]: billing_status is active or trialing
  rows,         \* the keys that have a WorkspaceUsage row
  jobsCount,    \* jobsCount[k]: jobs_count of that row; 0 where there is no row
  rowHolder,    \* rowHolder[k]: the submitter whose open transaction updated the row
  jobs,         \* the committed Job rows
  pc,           \* pc[a]: what the actor does next
  key,          \* key[a]: the usage row (workspace, month) the actor works on
  readLimit,    \* readLimit[r]: the limit the request read from its workspace
  stale,        \* submitters that fetched a usage row which was deleted since
  todo,         \* workspaces the scheduler has still to open a row for
  runMonth      \* the month the scheduler's run started in

dbVars == <<now, limit, allowed, rows, jobsCount, rowHolder, jobs>>
localVars == <<pc, key, readLimit, stale, todo, runMonth>>
vars == <<now, limit, allowed, rows, jobsCount, rowHolder, jobs,
          pc, key, readLimit, stale, todo, runMonth>>

Periods == 0 .. MaxPeriod
Keys == Workspaces \X Periods
Actors == Submitters \union Readers \union {Scheduler}

\* Where a submitter has got its answer, or its connection was dropped.
Answered == {"accepted", "billing", "quota", "error"}
Labels == {"idle", "admit", "select", "insert", "reselect", "fetched",
           "reserved", "committed", "cleanup"} \union Answered

ChargedTo(k) == {j \in jobs : key[j] = k}

\* Rows the cleanup never deletes: the current month and Retention before it.
Retained(k) == k[2] >= now - Retention

-----------------------------------------------------------------------------
Init ==
  /\ now = 0
  /\ limit \in [Workspaces -> Limits]
  /\ allowed \in [Workspaces -> BOOLEAN]
  /\ rows = {}
  /\ jobsCount = [k \in Keys |-> 0]
  /\ rowHolder = [k \in Keys |-> Nobody]
  /\ jobs = {}
  /\ pc = [a \in Actors |-> "idle"]
  /\ key = [a \in Actors |-> Unread]
  /\ readLimit = [r \in Submitters |-> Unread]
  /\ stale = {}
  /\ todo = {}
  /\ runMonth = 0

\* A month ends.
Tick ==
  /\ now < MaxPeriod
  /\ now' = now + 1
  /\ UNCHANGED <<limit, allowed, rows, jobsCount, rowHolder, jobs, localVars>>

\* update_plan commits: an admin's PATCH or a Stripe event sets the limit and
\* the billing status.  Which values, and their races, is not this module's matter.
UpdatePlan(w) ==
  /\ \E l \in Limits : limit' = [limit EXCEPT ![w] = l]
  /\ \E b \in BOOLEAN : allowed' = [allowed EXCEPT ![w] = b]
  /\ UNCHANGED <<now, rows, jobsCount, rowHolder, jobs, localVars>>

-----------------------------------------------------------------------------
(* get_or_create, shared by create_job, _workspace_info and the scheduler.  *)

\* The first SELECT: the row is there, or the caller goes on to insert it.
SelectUsage(a) ==
  /\ pc[a] = "select"
  /\ \/ /\ key[a] \in rows
        /\ pc' = [pc EXCEPT ![a] = "fetched"]
     \/ /\ key[a] \notin rows
        /\ pc' = [pc EXCEPT ![a] = "insert"]
  /\ UNCHANGED <<dbVars, key, readLimit, stale, todo, runMonth>>

\* INSERT and commit; uq_workspace_period lets only one of two inserters through.
InsertUsage(a) ==
  /\ pc[a] = "insert"
  /\ key[a] \notin rows
  /\ rows' = rows \union {key[a]}
  /\ pc' = [pc EXCEPT ![a] = "fetched"]
  /\ UNCHANGED <<now, limit, allowed, jobsCount, rowHolder, jobs, key, readLimit, stale, todo, runMonth>>

\* IntegrityError: roll back and look again.
InsertConflict(a) ==
  /\ pc[a] = "insert"
  /\ key[a] \in rows
  /\ pc' = [pc EXCEPT ![a] = "reselect"]
  /\ UNCHANGED <<dbVars, key, readLimit, stale, todo, runMonth>>

\* What an exception makes of each kind of actor: a request ends with an
\* error, the scheduler's loop swallows it and sleeps until its next run.
FailedLabel(a) == IF a = Scheduler THEN "idle" ELSE "error"

\* The second SELECT; if a cleanup deleted the row meanwhile the error is raised.
ReselectUsage(a) ==
  /\ pc[a] = "reselect"
  /\ \/ /\ key[a] \in rows
        /\ pc' = [pc EXCEPT ![a] = "fetched"]
     \/ /\ key[a] \notin rows
        /\ pc' = [pc EXCEPT ![a] = FailedLabel(a)]
  /\ UNCHANGED <<dbVars, key, readLimit, stale, todo, runMonth>>

-----------------------------------------------------------------------------
(* POST /jobs, from period_start_utc() to the answer.                       *)

\* The upload is staged and the month is computed.
StartSubmit(r) ==
  /\ pc[r] = "idle"
  /\ \E w \in Workspaces : key' = [key EXCEPT ![r] = <<w, now>>]
  /\ pc' = [pc EXCEPT ![r] = "admit"]
  /\ UNCHANGED <<dbVars, readLimit, stale, todo, runMonth>>

\* The workspace is read again: its billing status decides now, its limit is
\* carried to the reservation.  No operation deletes or deactivates a workspace.
ReadWorkspace(r) ==
  /\ pc[r] = "admit"
  /\ LET w == key[r][1] IN
     \/ /\ ~allowed[w]
        /\ pc' = [pc EXCEPT ![r] = "billing"]
        /\ UNCHANGED readLimit
     \/ /\ allowed[w]
        /\ readLimit' = [readLimit EXCEPT ![r] = limit[w]]
        /\ pc' = [pc EXCEPT ![r] = "select"]
  /\ UNCHANGED <<dbVars, key, stale, todo, runMonth>>

\* A plausible bug: the comparison lets one job too many through.
HasRoomOffByOne(r) == r \notin stale /\ jobsCount[key[r]] <= readLimit[r]

\* The WHERE clause of the reservation: the fetched row exists and is not full.
HasRoom(r) == r \notin stale /\ jobsCount[key[r]] < readLimit[r]

\* A plausible bug: the count is compared in one statement and written in another.
ReserveUnlocked(r) ==
  /\ pc[r] = "fetched"
  /\ HasRoom(r)
  /\ rowHolder' = [rowHolder EXCEPT ![key[r]] = r]
  /\ pc' = [pc EXCEPT ![r] = "reserved"]
  /\ UNCHANGED <<now, limit, allowed, rows, jobsCount, jobs, key, readLimit, stale, todo, runMonth>>

\* UPDATE ... WHERE id = :id AND jobs_count < :limit hits the row and holds it.
Reserve(r) ==
  /\ pc[r] = "fetched"
  /\ rowHolder[key[r]] = Nobody
  /\ HasRoom(r)
  /\ rowHolder' = [rowHolder EXCEPT ![key[r]] = r]
  /\ pc' = [pc EXCEPT ![r] = "reserved"]
  /\ UNCHANGED <<now, limit, allowed, rows, jobsCount, jobs, key, readLimit, stale, todo, runMonth>>

\* A plausible bug: a row that another transaction holds counts as full.
RejectHeldRow(r) ==
  /\ pc[r] = "fetched"
  /\ ~HasRoom(r) \/ rowHolder[key[r]] # Nobody
  /\ pc' = [pc EXCEPT ![r] = "quota"]
  /\ UNCHANGED <<dbVars, key, readLimit, stale, todo, runMonth>>

\* The UPDATE hits no row: roll back, answer 429.
RejectQuota(r) ==
  /\ pc[r] = "fetched"
  /\ r \notin stale => rowHolder[key[r]] = Nobody
  /\ ~HasRoom(r)
  /\ pc' = [pc EXCEPT ![r] = "quota"]
  /\ UNCHANGED <<dbVars, key, readLimit, stale, todo, runMonth>>

\* The job and the incremented count become durable together.
CommitJob(r) ==
  /\ pc[r] = "reserved"
  /\ jobsCount' = [jobsCount EXCEPT ![key[r]] = @ + 1]
  /\ jobs' = jobs \union {r}
  /\ rowHolder' = [rowHolder EXCEPT ![key[r]] = Nobody]
  /\ pc' = [pc EXCEPT ![r] = "committed"]
  /\ UNCHANGED <<now, limit, allowed, rows, key, readLimit, stale, todo, runMonth>>

\* refresh, count_for_period, the audit entry and the answer.
AnswerAccepted(r) ==
  /\ pc[r] = "committed"
  /\ pc' = [pc EXCEPT ![r] = "accepted"]
  /\ UNCHANGED <<dbVars, key, readLimit, stale, todo, runMonth>>

\* A plausible bug: the failed transaction is not ended and keeps its row.
SubmitFailsHolding(r) ==
  /\ pc[r] \notin Answered \union {"idle"}
  /\ pc' = [pc EXCEPT ![r] = "error"]
  /\ UNCHANGED <<dbVars, key, readLimit, stale, todo, runMonth>>

\* A plausible bug: the reservation is given back although it was rolled back.
SubmitFailsRefunding(r) ==
  /\ pc[r] = "reserved"
  /\ jobsCount' = [jobsCount EXCEPT ![key[r]] = @ - 1]
  /\ rowHolder' = [rowHolder EXCEPT ![key[r]] = Nobody]
  /\ pc' = [pc EXCEPT ![r] = "error"]
  /\ UNCHANGED <<now, limit, allowed, rows, jobs, key, readLimit, stale, todo, runMonth>>

\* A statement, a commit or the process fails: the open transaction is rolled
\* back, so a row the request had updated is released unchanged.
SubmitFails(r) ==
  /\ pc[r] \notin Answered \union {"idle"}
  /\ rowHolder' = [k \in Keys |-> IF rowHolder[k] = r THEN Nobody ELSE rowHolder[k]]
  /\ pc' = [pc EXCEPT ![r] = "error"]
  /\ UNCHANGED <<now, limit, allowed, rows, jobsCount, jobs, key, readLimit, stale, todo, runMonth>>

SubmitStep(r) ==
  \/ ReadWorkspace(r)
  \/ SelectUsage(r) \/ InsertUsage(r) \/ InsertConflict(r) \/ ReselectUsage(r)
  \/ Reserve(r) \/ RejectQuota(r) \/ CommitJob(r) \/ AnswerAccepted(r)

-----------------------------------------------------------------------------
(* Requests that show a workspace's usage.                                  *)

StartRead(a) ==
  /\ pc[a] = "idle"
  /\ \E w \in Workspaces : key' = [key EXCEPT ![a] = <<w, now>>]
  /\ pc' = [pc EXCEPT ![a] = "select"]
  /\ UNCHANGED <<dbVars, readLimit, stale, todo, runMonth>>

ReadStep(a) == SelectUsage(a) \/ InsertUsage(a) \/ InsertConflict(a) \/ ReselectUsage(a)

-----------------------------------------------------------------------------
(* QuotaResetScheduler.run_once, over and over.                             *)

\* The month and the cutoff are computed, the active workspaces listed.  Between
\* two workspaces the run waits at "fetched", as it does before the first.
StartRun ==
  /\ pc[Scheduler] = "idle"
  /\ runMonth' = now
  /\ todo' = Workspaces
  /\ pc' = [pc EXCEPT ![Scheduler] = "fetched"]
  /\ UNCHANGED <<dbVars, key, readLimit, stale>>

\* ensure_period_rows goes on to the next workspace.
EnsureNext ==
  /\ pc[Scheduler] = "fetched"
  /\ \E w \in todo :
       /\ key' = [key EXCEPT ![Scheduler] = <<w, runMonth>>]
       /\ todo' = todo \ {w}
  /\ pc' = [pc EXCEPT ![Scheduler] = "select"]
  /\ UNCHANGED <<dbVars, readLimit, stale, runMonth>>

EnsureDone ==
  /\ pc[Scheduler] = "fetched"
  /\ todo = {}
  /\ pc' = [pc EXCEPT ![Scheduler] = "cleanup"]
  /\ UNCHANGED <<dbVars, key, readLimit, stale, todo, runMonth>>

\* months_ago_start(usage_retention_months)
Cutoff == runMonth - Retention

\* A plausible bug: the oldest retained month is purged too.
ExpiredOffByOne == {k \in rows : k[2] <= Cutoff}

Expired == {k \in rows : k[2] < Cutoff}

\* cleanup_before: one DELETE, which waits for rows held by a reservation.
\* A request that fetched a deleted row keeps an id that names nothing.
Cleanup ==
  /\ pc[Scheduler] = "cleanup"
  /\ \A k \in Expired : rowHolder[k] = Nobody
  /\ rows' = rows \ Expired
  /\ jobsCount' = [k \in Keys |-> IF k \in Expired THEN 0 ELSE jobsCount[k]]
  /\ stale' = stale \union {r \in Submitters : pc[r] = "fetched" /\ key[r] \in Expired}
  /\ pc' = [pc EXCEPT ![Scheduler] = "idle"]
  /\ UNCHANGED <<now, limit, allowed, rowHolder, jobs, key, readLimit, todo, runMonth>>

\* A statement of the run fails; _run_loop swallows the exception.
RunFails ==
  /\ pc[Scheduler] # "idle"
  /\ pc' = [pc EXCEPT ![Scheduler] = "idle"]
  /\ UNCHANGED <<dbVars, key, readLimit, stale, todo, runMonth>>

RunStep ==
  \/ SelectUsage(Scheduler) \/ InsertUsage(Scheduler)
  \/ InsertConflict(Scheduler) \/ ReselectUsage(Scheduler)
  \/ EnsureNext \/ EnsureDone \/ Cleanup

-----------------------------------------------------------------------------
Next ==
  \/ Tick
  \/ \E w \in Workspaces : UpdatePlan(w)
  \/ \E r \in Submitters : StartSubmit(r) \/ SubmitStep(r) \/ SubmitFails(r)
  \/ \E a \in Readers : StartRead(a) \/ ReadStep(a)
  \/ StartRun \/ RunStep \/ RunFails

Spec == Init /\ [][Next]_vars

\* Handler threads and the scheduler's run keep going; nothing forces a request
\* to arrive, a month to end, a plan to change or a statement to fail.
Fairness ==
  /\ \A r \in Submitters : WF_vars(SubmitStep(r))
  /\ WF_vars(RunStep)

FairSpec == Spec /\ Fairness
-----------------------------------------------------------------------------
(* Properties.                                                              *)

TypeOK ==
  /\ now \in Periods
  /\ limit \in [Workspaces -> Limits]
  /\ allowed \in [Workspaces -> BOOLEAN]
  /\ rows \subseteq Keys
  /\ jobsCount \in [Keys -> Nat]
  /\ rowHolder \in [Keys -> Submitters \union {Nobody}]
  /\ jobs \subseteq Submitters
  /\ pc \in [Actors -> Labels]
  /\ key \in [Actors -> Keys \union {Unread}]
  /\ readLimit \in [Submitters -> Limits \union {Unread}]
  /\ stale \subseteq Submitters
  /\ todo \subseteq Workspaces
  /\ runMonth \in Periods

\* The usage row of a retained month counts exactly the jobs created against it:
\* no reservation is lost or doubled by interleaved requests, failed commits,
\* racing row inserts, or the purge of old months.
CountMatchesJobs ==
  \A k \in Keys : Retained(k) => jobsCount[k] = Cardinality(ChargedTo(k))

\* However many requests race, a job is created only if with it the jobs of its
\* month are within the limit this very job was admitted with (the README's
\* "atomic quota reservation to prevent race-condition overages"): the limit
\* may be stale by then, or differ from that of the jobs created before.
NoOverage ==
  [][\A r \in jobs' \ jobs :
       Retained(key[r]) => Cardinality(ChargedTo(key[r])') <= readLimit[r]]_vars

\* A request that has started is answered: no row stays held by a transaction
\* that ended, and nobody waits for a row forever.
EveryRequestAnswered ==
  \A r \in Submitters : pc[r] # "idle" ~> pc[r] \in Answered

\* The database implements the ledger: a request is judged at the commit of its
\* job, or at the UPDATE that found no room, by the limit it read.
Ledger == INSTANCE QuotaLedger WITH
  admitted <- [r \in Submitters |->
                 IF readLimit[r] = Unread THEN [key |-> Unread, limit |-> Unread]
                 ELSE [key |-> key[r], limit |-> readLimit[r]]],
  refused <- {r \in Submitters : pc[r] = "quota"}

ImplementsLedger == Ledger!LedgerSpec
=============================================================================
