---------------------------- MODULE QuotaLedger ----------------------------
(***************************************************************************)
(* What the monthly quota promises, without the database.                  *)
(*                                                                         *)
(* A request is admitted against the plan limit of its workspace at some   *)
(* moment, and is decided later, once and in one step: it is accepted if   *)
(* fewer jobs than that limit are charged to its workspace and month, and  *)
(* refused for quota only if that many are.  A request may also be dropped *)
(* before the decision; then nothing is charged.  The promise covers the   *)
(* months whose usage is retained: older months may be decided either way. *)
(***************************************************************************)
EXTENDS Integers, FiniteSets

CONSTANTS
  Submitters,   \* requests to create a job; a request is also the job it creates
  Workspaces,
  Limits,       \* the monthly limits a plan can set
  Retention,    \* months of usage that are kept
  MaxPeriod,    \* bound on the clock: months 0 .. MaxPeriod
  Unread        \* a limit not read yet

VARIABLES
  now,        \* the current month
  limit,      \* limit[w]: the monthly limit in force
  admitted,   \* admitted[r]: the month and workspace of r, and the limit it is judged by
  jobs,       \* the jobs that exist; each is charged once
  refused     \* the requests refused for quota

ledgerVars == <<now, limit, admitted, jobs, refused>>

Periods == 0 .. MaxPeriod
Keys == Workspaces \X Periods

NotAdmitted == [key |-> Unread, limit |-> Unread]

Retained(k) == k[2] >= now - Retention

Charged(k) == {j \in jobs : admitted[j].key = k}

LedgerInit ==
  /\ now = 0
  /\ limit \in [Workspaces -> Limits]
  /\ admitted = [r \in Submitters |-> NotAdmitted]
  /\ jobs = {}
  /\ refused = {}

NextMonth ==
  /\ now < MaxPeriod
  /\ now' = now + 1
  /\ UNCHANGED <<limit, admitted, jobs, refused>>

SetLimit(w) ==
  /\ \E l \in Limits : limit' = [limit EXCEPT ![w] = l]
  /\ UNCHANGED <<now, admitted, jobs, refused>>

\* The month is the one r started in, which may have ended since.
Admit(r) ==
  /\ admitted[r] = NotAdmitted
  /\ \E k \in Keys :
       /\ k[2] <= now
       /\ admitted' = [admitted EXCEPT ![r] = [key |-> k, limit |-> limit[k[1]]]]
  /\ UNCHANGED <<now, limit, jobs, refused>>

Pending(r) == admitted[r] # NotAdmitted /\ r \notin jobs \union refused

Accept(r) ==
  /\ Pending(r)
  /\ Retained(admitted[r].key)
       => Cardinality(Charged(admitted[r].key)) < admitted[r].limit
  /\ jobs' = jobs \union {r}
  /\ UNCHANGED <<now, limit, admitted, refused>>

Refuse(r) ==
  /\ Pending(r)
  /\ Retained(admitted[r].key)
       => Cardinality(Charged(admitted[r].key)) >= admitted[r].limit
  /\ refused' = refused \union {r}
  /\ UNCHANGED <<now, limit, admitted, jobs>>

LedgerNext ==
  \/ NextMonth
  \/ \E w \in Workspaces : SetLimit(w)
  \/ \E r \in Submitters : Admit(r) \/ Accept(r) \/ Refuse(r)

LedgerSpec == LedgerInit /\ [][LedgerNext]_ledgerVars
-----------------------------------------------------------------------------
(* What follows for a workspace.                                            *)

\* Plans change between admissions and decisions, and still the jobs of a
\* retained month never exceed the limit that one of them was admitted with.
LimitsKept ==
  \A k \in Keys :
    Retained(k) /\ Charged(k) # {} =>
      \E j \in Charged(k) : Cardinality(Charged(k)) <= admitted[j].limit

\* A decision is final: a job stays, in the month and by the limit it was
\* accepted with, and a request that was refused becomes none.
Stand ==
  /\ jobs \subseteq jobs' /\ refused \subseteq refused'
  /\ jobs' \intersect refused' = {}
  /\ \A r \in jobs \union refused : admitted'[r] = admitted[r]

DecisionsStand == [][Stand]_ledgerVars
=============================================================================
