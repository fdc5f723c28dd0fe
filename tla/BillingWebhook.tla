--------------------------- MODULE BillingWebhook ---------------------------
(***************************************************************************)
(* Plan changes of backend/app: the stripe_billing_webhook handler, with   *)
(* the repositories it calls and the rules of services/plans.py and        *)
(* services/stripe_webhook.py, beside an administrator's                   *)
(* update_workspace_plan and the starts of processes, which write the plan *)
(* of the default workspace (bootstrap.py), on the same row.               *)
(*                                                                         *)
(* The webhook handler is a coroutine that never awaits after it has the   *)
(* body: a process handles one event at a time.  Events interleave across  *)
(* API processes, and with administrators' requests, which run in threads. *)
(* A step is one statement or one commit of a session.  A session writes   *)
(* the columns that differ from what it loaded, and keeps what it loaded   *)
(* over its commits (expire_on_commit=False) but not over a rollback.      *)
(*                                                                         *)
(* Stripe, outside the program, sends an event again until it is answered  *)
(* with success, and at times again after that.  Requests with a wrong     *)
(* signature or body change nothing and are left out.                      *)
(***************************************************************************)
EXTENDS Integers

CONSTANTS
  Processes,      \* API processes
  Admins,         \* threads that serve administrators
  Starters,       \* processes that start
  Workspaces,
  Events,         \* events, by provider_event_id
  Payload,        \* Payload[e]: what event e says
  AdminUpdates,   \* the bodies of PATCH /workspaces/{id}/plan
  InitialRow,     \* InitialRow[w]: the plan columns of w at the beginning
  DefaultWorkspace, DefaultPlan, DefaultLimit,   \* settings default_workspace_*
  Plans,          \* plan names that occur
  Limits,         \* monthly job limits that occur
  Ids,            \* Stripe customer and subscription ids
  None,           \* an absent field
  Unknown,        \* a workspace_id that names no workspace
  MaxFaults       \* bound on failures and superfluous deliveries

BillingStatuses == {"trialing", "active", "past_due", "canceled", "inactive"}

PLAN_LIMITS == [starter |-> 200, pro |-> 5000, business |-> 25000, enterprise |-> 100000]

\* resolve_monthly_limit without an explicit limit: an unknown plan is a starter's.
PlanLimit(plan) == PLAN_LIMITS[IF plan \in DOMAIN PLAN_LIMITS THEN plan ELSE "starter"]

Rows == [plan : Plans, limit : Limits, billing : BillingStatuses,
         customer : Ids \union {None}, subscription : Ids \union {None}]

ASSUME ActorsAssumption ==
  /\ Processes \intersect Admins = {}
  /\ Starters \intersect (Processes \union Admins) = {}
ASSUME DefaultAssumption ==
  DefaultWorkspace \in Workspaces /\ DefaultPlan \in Plans /\ DefaultLimit \in Limits
ASSUME NoneAssumption ==
  /\ None \notin Workspaces
  /\ None \notin Events
  /\ None \notin Plans
  /\ None \notin Limits
  /\ None \notin Ids
ASSUME PlanLimitsAssumption == \A p \in Plans : PlanLimit(p) \in Limits
ASSUME UnknownAssumption == Unknown \notin Workspaces \union {None}
ASSUME PayloadAssumption ==
  \A e \in Events :
    /\ Payload[e].workspace \in Workspaces \union {None, Unknown}
    /\ Payload[e].plan \in Plans \union {None}
    /\ Payload[e].limit \in Limits \union {None}
    /\ Payload[e].customer \in Ids \union {None}
    /\ Payload[e].subscription \in Ids \union {None}
ASSUME AdminUpdatesAssumption ==
  \A u \in AdminUpdates :
    /\ u.plan \in Plans
    /\ u.limit \in Limits \union {None}
    /\ u.billing \in BillingStatuses
    /\ u.customer \in Ids \union {None}
    /\ u.subscription \in Ids \union {None}
ASSUME InitialRowAssumption == InitialRow \in [Workspaces -> Rows]
ASSUME MaxFaultsAssumption == MaxFaults \in Nat

VARIABLES
  row,          \* row[w]: the plan columns of the Workspace row
  eventStatus,  \* eventStatus[e]: BillingEvent.status, "none" without a row
  at,           \* at[a]: where in its handler an actor is
  request,      \* request[a]: the event or the plan update it handles
  workspace,    \* workspace[a]: the workspace its session found, or None
  loaded,       \* loaded[a]: the columns of that workspace as the session has them
  seen,         \* seen[a]: the event's status as the session has it
  acked,        \* events answered with success
  applied,      \* history: events whose plan change was committed
  faults

db == <<row, eventStatus>>
session == <<request, workspace, loaded, seen>>
vars == <<row, eventStatus, at, request, workspace, loaded, seen, acked, applied, faults>>

Actors == Processes \union Admins \union Starters
EventStatuses == {"received", "processed", "failed"}
Labels == {"idle", "resolve", "byCustomer", "check", "insert", "reload", "created",
           "applied", "answer", "update", "start"}

-----------------------------------------------------------------------------
(* The rules of services/stripe_webhook.py and services/plans.py.           *)

\* parse_billing_status: absent and unknown words mean active.
ParseBillingStatus(word) == IF word \in BillingStatuses THEN word ELSE "active"

\* infer_billing_status, with the default that normalize_billing_payload gives it.
InferBillingStatus(type, word) ==
  CASE type \in {"invoice.payment_failed", "invoice.payment_action_required"} -> "past_due"
    [] type = "customer.subscription.deleted" -> "canceled"
    [] type = "customer.subscription.paused" -> "inactive"
    [] type \in {"invoice.paid", "invoice.payment_succeeded", "customer.subscription.resumed"}
         -> "active"
    [] OTHER -> ParseBillingStatus(word)

Or(x, y) == IF x # None THEN x ELSE y

\* A plausible bug: the limit stays with a plan that changed.
ResolveLimitIgnoringPlan(old, plan, limit) == Or(limit, old.limit)

\* A plausible bug: an absent limit is written as it is.
ResolveLimitAbsent(old, plan, limit) ==
  IF plan \notin {None, old.plan} THEN limit ELSE old.limit

\* resolve_limit_for_update: an explicit limit, else the new plan's, else as it was.
ResolveLimit(old, plan, limit) ==
  IF limit # None THEN limit
  ELSE IF plan \notin {None, old.plan} THEN PlanLimit(plan) ELSE old.limit

\* A plausible bug: ids that the event lacks are written too.
EventUpdateReplacingIds(e, old) ==
  LET said == Payload[e] IN
  [plan |-> Or(said.plan, old.plan),
   limit |-> ResolveLimit(old, said.plan, said.limit),
   billing |-> InferBillingStatus(said.type, said.status),
   customer |-> said.customer,
   subscription |-> said.subscription]

\* What the handler makes of event e for a workspace it loaded as old.
EventUpdate(e, old) ==
  LET said == Payload[e] IN
  [plan |-> Or(said.plan, old.plan),
   limit |-> ResolveLimit(old, said.plan, said.limit),
   billing |-> InferBillingStatus(said.type, said.status),
   customer |-> Or(said.customer, old.customer),
   subscription |-> Or(said.subscription, old.subscription)]

\* What an administrator's request makes of it: absent ids are written too.
AdminUpdate(u, old) ==
  [plan |-> u.plan,
   limit |-> ResolveLimit(old, u.plan, u.limit),
   billing |-> u.billing,
   customer |-> u.customer,
   subscription |-> u.subscription]

\* What a start makes of the default workspace: the configured plan, and its links.
Configured(old) ==
  [old EXCEPT !.plan = DefaultPlan, !.limit = DefaultLimit, !.billing = "active"]

\* update_plan's UPDATE sets the columns that changed in the session.
Written(current, old, new) ==
  [c \in DOMAIN current |-> IF new[c] # old[c] THEN new[c] ELSE current[c]]

-----------------------------------------------------------------------------
Init ==
  /\ row = InitialRow
  /\ eventStatus = [e \in Events |-> "none"]
  /\ at = [a \in Actors |-> "idle"]
  /\ request = [a \in Actors |-> None]
  /\ workspace = [a \in Actors |-> None]
  /\ loaded = [a \in Actors |-> None]
  /\ seen = [a \in Actors |-> "none"]
  /\ acked = {}
  /\ applied = {}
  /\ faults = 0

Goto(a, from, to) ==
  /\ at[a] = from
  /\ at' = [at EXCEPT ![a] = to]

\* The handler's session ends, and with it what it has read.
EndSession(a) ==
  /\ at' = [at EXCEPT ![a] = "idle"]
  /\ request' = [request EXCEPT ![a] = None]
  /\ workspace' = [workspace EXCEPT ![a] = None]
  /\ loaded' = [loaded EXCEPT ![a] = None]
  /\ seen' = [seen EXCEPT ![a] = "none"]

\* The handler has found workspace w, or none.
Found(a, w) ==
  /\ workspace' = [workspace EXCEPT ![a] = w]
  /\ loaded' = [loaded EXCEPT ![a] = IF w = None THEN None ELSE row[w]]
  /\ UNCHANGED seen

Fault ==
  /\ faults < MaxFaults
  /\ faults' = faults + 1

-----------------------------------------------------------------------------
\* Stripe sends e: it waits for an answer, or a superfluous delivery happens.
Deliver(p, e) ==
  /\ Goto(p, "idle", "resolve")
  /\ \/ e \notin acked /\ UNCHANGED faults
     \/ e \in acked /\ Fault
  /\ request' = [request EXCEPT ![p] = e]
  /\ UNCHANGED <<db, workspace, loaded, seen, acked, applied>>

Linked(column, id) == {w \in Workspaces : id # None /\ row[w][column] = id}

\* _resolve_workspace_for_billing_payload: by workspace id, and by that alone if
\* the payload has one, else by subscription ...
Resolve(p) ==
  /\ \/ /\ Goto(p, "resolve", "check")
        /\ LET named == Payload[request[p]].workspace IN
             /\ named # None
             /\ Found(p, IF named = Unknown THEN None ELSE named)
     \/ /\ Goto(p, "resolve", "check")
        /\ Payload[request[p]].workspace = None
        /\ \E w \in Linked("subscription", Payload[request[p]].subscription) : Found(p, w)
     \/ /\ Goto(p, "resolve", "byCustomer")
        /\ Payload[request[p]].workspace = None
        /\ Linked("subscription", Payload[request[p]].subscription) = {}
        /\ Found(p, None)
  /\ UNCHANGED <<db, request, acked, applied, faults>>

\* ... else by customer.
ResolveByCustomer(p) ==
  /\ Goto(p, "byCustomer", "check")
  /\ LET candidates == Linked("customer", Payload[request[p]].customer) IN
       \/ \E w \in candidates : Found(p, w)
       \/ candidates = {} /\ Found(p, None)
  /\ UNCHANGED <<db, request, acked, applied, faults>>

\* A plausible bug: any event that has a row is a duplicate.
CheckExisting(p) ==
  /\ Goto(p, "check", IF eventStatus[request[p]] # "none" THEN "answer" ELSE "insert")
  /\ UNCHANGED <<db, session, acked, applied, faults>>

\* A plausible bug: the check for a duplicate is gone.
CheckNothing(p) ==
  /\ Goto(p, "check", "insert")
  /\ UNCHANGED <<db, session, acked, applied, faults>>

\* An event that was processed is answered at once.
Check(p) ==
  /\ Goto(p, "check", IF eventStatus[request[p]] = "processed" THEN "answer" ELSE "insert")
  /\ UNCHANGED <<db, session, acked, applied, faults>>

\* create_event commits a new row ...
InsertEvent(p) ==
  /\ Goto(p, "insert", "created")
  /\ eventStatus[request[p]] = "none"
  /\ eventStatus' = [eventStatus EXCEPT ![request[p]] = "received"]
  /\ seen' = [seen EXCEPT ![p] = "received"]
  /\ UNCHANGED <<row, request, workspace, loaded, acked, applied, faults>>

\* ... or, if the payload's workspace does not exist, violates its foreign key
\* where the database enforces it (PostgreSQL does, SQLite does not): 500 ...
InsertRaises(p) ==
  /\ at[p] = "insert"
  /\ eventStatus[request[p]] = "none"
  /\ Payload[request[p]].workspace = Unknown
  /\ EndSession(p)
  /\ UNCHANGED <<db, acked, applied, faults>>

\* A plausible bug: the conflict is not handled and ends in an error.
InsertConflictRaises(p) ==
  /\ at[p] = "insert"
  /\ eventStatus[request[p]] # "none"
  /\ EndSession(p)
  /\ UNCHANGED <<db, acked, applied, faults>>

\* ... or finds the row another delivery inserted: it is used, whatever its
\* status, and the rollback makes the session forget the workspace it loaded.
InsertConflict(p) ==
  /\ Goto(p, "insert", IF workspace[p] = None THEN "created" ELSE "reload")
  /\ eventStatus[request[p]] # "none"
  /\ seen' = [seen EXCEPT ![p] = eventStatus[request[p]]]
  /\ UNCHANGED <<db, request, workspace, loaded, acked, applied, faults>>

Reload(p) ==
  /\ Goto(p, "reload", "created")
  /\ loaded' = [loaded EXCEPT ![p] = row[workspace[p]]]
  /\ UNCHANGED <<db, request, workspace, seen, acked, applied, faults>>

\* mark_processed writes the status if it is not what the session has.
Mark(p, status) ==
  eventStatus' = IF seen[p] = status THEN eventStatus
                 ELSE [eventStatus EXCEPT ![request[p]] = status]

\* No workspace: the event is marked failed and answered with 404.
MarkFailed(p) ==
  /\ at[p] = "created"
  /\ workspace[p] = None
  /\ Mark(p, "failed")
  /\ EndSession(p)
  /\ UNCHANGED <<row, acked, applied, faults>>

\* update_plan commits.
Apply(p) ==
  /\ Goto(p, "created", "applied")
  /\ workspace[p] # None
  /\ row' = [row EXCEPT ![workspace[p]] =
               Written(@, loaded[p], EventUpdate(request[p], loaded[p]))]
  /\ applied' = applied \union {request[p]}
  /\ UNCHANGED <<eventStatus, session, acked, faults>>

MarkProcessed(p) ==
  /\ Goto(p, "applied", "answer")
  /\ Mark(p, "processed")
  /\ UNCHANGED <<row, session, acked, applied, faults>>

\* The audit entry, and a success that reaches Stripe.
Answer(p) ==
  /\ at[p] = "answer"
  /\ acked' = acked \union {request[p]}
  /\ EndSession(p)
  /\ UNCHANGED <<db, applied, faults>>

HandlerStep(p) ==
  \/ Resolve(p) \/ ResolveByCustomer(p) \/ Check(p) \/ InsertEvent(p) \/ InsertRaises(p)
  \/ InsertConflict(p) \/ Reload(p) \/ MarkFailed(p) \/ Apply(p) \/ MarkProcessed(p)
  \/ Answer(p)

-----------------------------------------------------------------------------
\* update_workspace_plan reads the workspace ...
BeginUpdate(d) ==
  /\ Goto(d, "idle", "update")
  /\ \E w \in Workspaces : Found(d, w)
  /\ \E u \in AdminUpdates : request' = [request EXCEPT ![d] = u]
  /\ UNCHANGED <<db, acked, applied, faults>>

\* ... and commits its update_plan.
CommitUpdate(d) ==
  /\ at[d] = "update"
  /\ row' = [row EXCEPT ![workspace[d]] =
               Written(@, loaded[d], AdminUpdate(request[d], loaded[d]))]
  /\ EndSession(d)
  /\ UNCHANGED <<eventStatus, acked, applied, faults>>

\* ensure_default_workspace finds the workspace, which an earlier start has inserted ...
BeginStart(s) ==
  /\ Goto(s, "idle", "start")
  /\ Found(s, DefaultWorkspace)
  /\ UNCHANGED <<db, request, acked, applied, faults>>

\* ... and commits what is configured.
CommitStart(s) ==
  /\ at[s] = "start"
  /\ row' = [row EXCEPT ![workspace[s]] = Written(@, loaded[s], Configured(loaded[s]))]
  /\ EndSession(s)
  /\ UNCHANGED <<eventStatus, acked, applied, faults>>

\* An exception or the death of the process ends a request between two commits,
\* or its answer is lost.
Fails(a) ==
  /\ at[a] # "idle"
  /\ Fault
  /\ EndSession(a)
  /\ UNCHANGED <<db, acked, applied>>

\* Nothing is left to do; administrators and starts need not come back.
Finished ==
  /\ acked = Events
  /\ \A a \in Actors : at[a] = "idle"
  /\ UNCHANGED vars

Next ==
  \/ \E p \in Processes, e \in Events : Deliver(p, e)
  \/ \E p \in Processes : HandlerStep(p)
  \/ \E d \in Admins : BeginUpdate(d) \/ CommitUpdate(d)
  \/ \E s \in Starters : BeginStart(s) \/ CommitStart(s)
  \/ \E a \in Actors : Fails(a)
  \/ Finished

Spec == Init /\ [][Next]_vars

\* Handlers keep going, and Stripe keeps retrying each event that waits for an
\* answer whenever some process is free to take it.
Fairness ==
  /\ \A p \in Processes : WF_vars(HandlerStep(p))
  /\ \A e \in Events : SF_vars(e \notin acked /\ \E p \in Processes : Deliver(p, e))

FairSpec == Spec /\ Fairness

-----------------------------------------------------------------------------
(* Properties.                                                              *)

TypeOK ==
  /\ row \in [Workspaces -> Rows]
  /\ eventStatus \in [Events -> EventStatuses \union {"none"}]
  /\ at \in [Actors -> Labels]
  /\ request \in [Actors -> Events \union AdminUpdates \union {None}]
  /\ \A p \in Processes : request[p] \in Events \union {None}
  /\ \A d \in Admins : request[d] \in AdminUpdates \union {None}
  /\ \A s \in Starters : request[s] = None
  /\ workspace \in [Actors -> Workspaces \union {None}]
  /\ loaded \in [Actors -> Rows \union {None}]
  /\ seen \in [Actors -> EventStatuses \union {"none"}]
  /\ acked \subseteq Events
  /\ applied \subseteq Events
  /\ faults \in 0 .. MaxFaults

\* An event that Stripe need not send again, because it was answered with
\* success or because its row says processed, had its plan change committed,
\* whatever failed between the commits of its handlers.
AckedIsApplied == \A e \in Events : e \in acked \/ eventStatus[e] = "processed" => e \in applied

\* As long as plans are changed by name, without explicit limits, and the configured
\* plan has its own limit, a workspace has the limit of its plan, although concurrent
\* updates and starts write single columns of the row they loaded earlier.
PlanAndLimitAgree == \A w \in Workspaces : row[w].limit = PlanLimit(row[w].plan)

\* Every event that names its workspace is applied and answered in the end.
EveryEventApplied ==
  \A e \in Events : Payload[e].workspace \in Workspaces => <>(e \in acked)

\* In one process, an event that was processed is never applied again: the
\* check and the update cannot be separated by another delivery.
DuplicatesIgnored ==
  [][\A p \in Processes :
       at[p] = "created" /\ at'[p] = "applied" => eventStatus[request[p]] # "processed"]_vars

\* Some processed event has linked the subscription of e to a workspace.
LinkKnown(e) ==
  \E d \in Events :
    /\ eventStatus[d] = "processed"
    /\ Payload[d].workspace \in Workspaces
    /\ Payload[d].subscription = Payload[e].subscription
    /\ Payload[e].subscription # None

\* test_billing_quota_audit.py:107, "deleted subscription without workspace_id ->
\* resolve workspace by subscription/customer": an event of a subscription that
\* was linked to a workspace does not end with 404.
LinkedEventsResolve ==
  \A p \in Processes : at[p] = "created" /\ workspace[p] = None => ~LinkKnown(request[p])
=============================================================================
