---------------------------- MODULE QuotaProofs ----------------------------
(***************************************************************************)
(* Proofs about Quota: its type invariant, CountMatchesJobs and NoOverage, *)
(* for every number of submitters, readers, workspaces and months, every   *)
(* set of limits and every retention.                                      *)
(***************************************************************************)
EXTENDS Quota, FiniteSetTheorems, TLAPS

\* Labels at which a submitter has read its limit.
Judged == {"select", "insert", "reselect", "fetched", "reserved", "committed",
           "accepted", "quota"}

\* A started actor works on a key of a month that has begun.
KeysKnown ==
  /\ \A r \in Submitters : pc[r] # "idle" => key[r] \in Keys /\ key[r][2] <= now
  /\ \A a \in Actors : pc[a] \in {"select", "insert", "reselect"} => key[a] \in Keys
  /\ runMonth <= now

LimitsKnown ==
  /\ \A r \in Submitters : pc[r] \in {"idle", "admit"} => readLimit[r] = Unread
  /\ \A r \in Submitters : pc[r] \in Judged => readLimit[r] \in Limits
  /\ \A r \in jobs : readLimit[r] \in Limits

\* A row is held by the one transaction that has updated it and not ended, and
\* the count still is below the limit that transaction compared it with.
RowsHeld ==
  /\ \A k \in Keys : rowHolder[k] # Nobody =>
       pc[rowHolder[k]] = "reserved" /\ key[rowHolder[k]] = k
  /\ \A r \in Submitters : pc[r] = "reserved" =>
       rowHolder[key[r]] = r /\ jobsCount[key[r]] < readLimit[r]

\* Only a submitter that got past its commit has a job.
JobsCommitted == \A r \in jobs : pc[r] \in {"committed", "accepted", "error"}

\* A row object goes stale only when its month is no longer retained.
StaleIsOld == \A r \in stale : pc[r] # "idle" /\ ~Retained(key[r])

Inv ==
  /\ TypeOK
  /\ KeysKnown
  /\ LimitsKnown
  /\ RowsHeld
  /\ JobsCommitted
  /\ StaleIsOld
  /\ CountMatchesJobs

-----------------------------------------------------------------------------
USE DEF Periods, Keys, Actors

\* The type invariant is inductive together with what is known of keys.
TypeInv == TypeOK /\ KeysKnown

LEMMA InitType == Init => TypeInv
  BY MaxPeriodAssumption, ActorsAssumption
     DEF Init, TypeInv, TypeOK, KeysKnown, Labels, Answered

\* The four steps of get_or_create keep the types, for every actor.
LEMMA GetOrCreateType ==
  ASSUME TypeInv, NEW a \in Actors,
         SelectUsage(a) \/ InsertUsage(a) \/ InsertConflict(a) \/ ReselectUsage(a)
  PROVE  TypeInv'
  <1> USE DEF TypeInv, TypeOK, KeysKnown, Labels, Answered
  <1>1. CASE SelectUsage(a)
    BY <1>1 DEF SelectUsage, dbVars
  <1>2. CASE InsertUsage(a)
    BY <1>2 DEF InsertUsage
  <1>3. CASE InsertConflict(a)
    BY <1>3 DEF InsertConflict, dbVars
  <1>4. CASE ReselectUsage(a)
    BY <1>4 DEF ReselectUsage, FailedLabel, dbVars
  <1>5. QED
    BY <1>1, <1>2, <1>3, <1>4

\* So do the other steps of a submitter.
LEMMA SubmitType ==
  ASSUME TypeInv, NEW r \in Submitters,
         \/ StartSubmit(r) \/ ReadWorkspace(r) \/ Reserve(r) \/ RejectQuota(r)
         \/ CommitJob(r) \/ AnswerAccepted(r) \/ SubmitFails(r)
  PROVE  TypeInv'
  <1> USE ActorsAssumption DEF TypeInv, TypeOK, KeysKnown, Labels, Answered
  <1>1. CASE StartSubmit(r)
    BY <1>1 DEF StartSubmit, dbVars
  <1>2. CASE ReadWorkspace(r)
    BY <1>2 DEF ReadWorkspace, dbVars
  <1>3. CASE Reserve(r)
    BY <1>3 DEF Reserve
  <1>4. CASE RejectQuota(r)
    BY <1>4 DEF RejectQuota, dbVars
  <1>5. CASE CommitJob(r)
    <2>1. jobsCount' \in [Keys -> Nat]
      BY <1>5 DEF CommitJob
    <2>2. QED
      BY <1>5, <2>1 DEF CommitJob
  <1>6. CASE AnswerAccepted(r)
    BY <1>6 DEF AnswerAccepted, dbVars
  <1>7. CASE SubmitFails(r)
    <2>1. rowHolder' \in [Keys -> Submitters \union {Nobody}]
      BY <1>7 DEF SubmitFails
    <2>2. QED
      BY <1>7, <2>1 DEF SubmitFails
  <1>8. QED
    BY <1>1, <1>2, <1>3, <1>4, <1>5, <1>6, <1>7

\* And the other steps of the scheduler.
LEMMA RunType ==
  ASSUME TypeInv, StartRun \/ EnsureNext \/ EnsureDone \/ Cleanup \/ RunFails
  PROVE  TypeInv'
  <1> USE ActorsAssumption DEF TypeInv, TypeOK, KeysKnown, Labels
  <1>1. CASE StartRun
    BY <1>1 DEF StartRun, dbVars
  <1>2. CASE EnsureNext
    BY <1>2 DEF EnsureNext, dbVars
  <1>3. CASE EnsureDone
    BY <1>3 DEF EnsureDone, dbVars
  <1>4. CASE Cleanup
    <2>1. jobsCount' \in [Keys -> Nat] /\ rows' \subseteq Keys /\ stale' \subseteq Submitters
      BY <1>4 DEF Cleanup
    <2>2. QED
      BY <1>4, <2>1 DEF Cleanup
  <1>5. CASE RunFails
    BY <1>5 DEF RunFails, dbVars
  <1>6. QED
    BY <1>1, <1>2, <1>3, <1>4, <1>5

LEMMA NextType == TypeInv /\ [Next]_vars => TypeInv'
  <1> SUFFICES ASSUME TypeInv, [Next]_vars PROVE TypeInv'
    OBVIOUS
  <1>1. CASE Tick
    BY <1>1, MaxPeriodAssumption DEF Tick, localVars, TypeInv, TypeOK, KeysKnown
  <1>2. ASSUME NEW w \in Workspaces, UpdatePlan(w) PROVE TypeInv'
    BY <1>2 DEF UpdatePlan, localVars, TypeInv, TypeOK, KeysKnown
  <1>3. ASSUME NEW r \in Submitters, StartSubmit(r) \/ SubmitStep(r) \/ SubmitFails(r)
        PROVE  TypeInv'
    BY <1>3, GetOrCreateType, SubmitType DEF SubmitStep
  <1>4. ASSUME NEW a \in Readers, StartRead(a) PROVE TypeInv'
    BY <1>4, ActorsAssumption
       DEF StartRead, dbVars, TypeInv, TypeOK, KeysKnown, Labels
  <1>5. ASSUME NEW a \in Readers, ReadStep(a) PROVE TypeInv'
    BY <1>5, GetOrCreateType DEF ReadStep
  <1>6. CASE StartRun \/ RunStep \/ RunFails
    BY <1>6, GetOrCreateType, RunType DEF RunStep
  <1>7. CASE UNCHANGED vars
    BY <1>7 DEF vars, TypeInv, TypeOK, KeysKnown
  <1>8. QED
    BY <1>1, <1>2, <1>3, <1>4, <1>5, <1>6, <1>7 DEF Next

\* The database and every session keep to their types: no count below zero, no
\* row of an unknown workspace or month, no step outside the handlers' labels.
THEOREM TypeCorrect == Spec => []TypeOK
  <1>1. TypeInv => TypeOK
    BY DEF TypeInv
  <1>2. QED
    BY <1>1, InitType, NextType, PTL DEF Spec

-----------------------------------------------------------------------------
(* The inductive invariant.                                                 *)

\* The conjuncts of Inv about who does what, without the two it is there for.
Control == LimitsKnown /\ RowsHeld /\ JobsCommitted /\ StaleIsOld

LEMMA InitInv == Init => Inv
  <1> SUFFICES ASSUME Init PROVE Inv
    OBVIOUS
  <1>1. TypeInv
    BY InitType
  <1>2. Control
    BY DEF Init, Control, LimitsKnown, RowsHeld, JobsCommitted, StaleIsOld, Judged
  <1>3. \A k \in Keys : ChargedTo(k) = {}
    BY DEF Init, ChargedTo
  <1>4. CountMatchesJobs
    BY <1>3, FS_EmptySet DEF Init, CountMatchesJobs
  <1>5. QED
    BY <1>1, <1>2, <1>4 DEF Inv, TypeInv, Control

\* A step that creates no job, keeps the counts of retained months and touches
\* no key or limit of an existing job keeps the two properties.
LEMMA ChargesFrame ==
  ASSUME Inv, jobs' = jobs, now' \in Nat, now' >= now,
         \A j \in jobs : key'[j] = key[j] /\ readLimit'[j] = readLimit[j],
         \A k \in Keys : Retained(k)' => jobsCount'[k] = jobsCount[k]
  PROVE  CountMatchesJobs'
  <1>1. \A k \in Keys : ChargedTo(k)' = ChargedTo(k)
    BY DEF ChargedTo
  <1>2. \A k \in Keys : Retained(k)' => Retained(k)
    BY RetentionAssumption, MaxPeriodAssumption DEF Retained, Inv, TypeOK
  <1>3. CountMatchesJobs'
    BY <1>1, <1>2 DEF CountMatchesJobs, Inv
  <1>4. QED
    BY <1>3

\* get_or_create charges nothing.
LEMMA GetOrCreateInv ==
  ASSUME Inv, NEW a \in Actors,
         SelectUsage(a) \/ InsertUsage(a) \/ InsertConflict(a) \/ ReselectUsage(a)
  PROVE  Inv'
  <1>1. TypeInv'
    BY GetOrCreateType DEF Inv, TypeInv
  <1>2. /\ UNCHANGED <<now, jobsCount, rowHolder, jobs, key, readLimit, stale>>
        /\ pc[a] \in {"select", "insert", "reselect"}
        /\ \E l \in {"fetched", "insert", "reselect", FailedLabel(a)} :
             pc' = [pc EXCEPT ![a] = l]
    BY DEF SelectUsage, InsertUsage, InsertConflict, ReselectUsage, dbVars
  <1>3. FailedLabel(a) \in {"idle", "error"} /\ (a \in Submitters => FailedLabel(a) = "error")
    BY ActorsAssumption DEF FailedLabel
  <1>4. Control'
    BY <1>2, <1>3 DEF Control, LimitsKnown, RowsHeld, JobsCommitted, StaleIsOld, Judged,
                      Retained, Inv, TypeOK
  <1>5. CountMatchesJobs'
    BY <1>2, ChargesFrame, MaxPeriodAssumption DEF Inv, TypeOK
  <1>6. QED
    BY <1>1, <1>4, <1>5 DEF Inv, TypeInv, Control

\* The commit of a job adds one to the count it is the one more charge of, and
\* its limit bounds the new number.
LEMMA CommitInv ==
  ASSUME Inv, NEW r \in Submitters, CommitJob(r)
  PROVE  Inv'
  <1>0. PICK k0 \in Keys : k0 = key[r]
    BY DEF CommitJob, Inv, KeysKnown
  <1>1. TypeInv'
    BY SubmitType DEF Inv, TypeInv
  <1>2. key[r] = k0 /\ pc[r] = "reserved" /\ r \notin jobs /\ rowHolder[k0] = r
    BY <1>0 DEF CommitJob, Inv, JobsCommitted, RowsHeld
  <1>3. /\ readLimit[r] \in Int /\ readLimit[r] \in Limits
        /\ jobsCount[k0] \in Nat /\ jobsCount[k0] < readLimit[r]
    BY <1>2, LimitsAssumption DEF Inv, LimitsKnown, RowsHeld, Judged, TypeOK
  <1>4. Control'
    <2>1. LimitsKnown'
      BY <1>2, <1>3 DEF CommitJob, Inv, LimitsKnown, TypeOK, Judged
    <2>2. RowsHeld'
      BY <1>2, ActorsAssumption DEF CommitJob, Inv, RowsHeld, TypeOK
    <2>3. JobsCommitted' /\ StaleIsOld'
      BY DEF CommitJob, Inv, JobsCommitted, StaleIsOld, TypeOK, Retained
    <2>4. QED
      BY <2>1, <2>2, <2>3 DEF Control
  <1>5. /\ ChargedTo(k0)' = ChargedTo(k0) \union {r}
        /\ \A k \in Keys : k # k0 => ChargedTo(k)' = ChargedTo(k)
    BY <1>2 DEF CommitJob, ChargedTo
  <1>6. /\ jobsCount'[k0] = jobsCount[k0] + 1
        /\ \A k \in Keys : k # k0 => jobsCount'[k] = jobsCount[k]
    BY <1>2 DEF CommitJob, Inv, TypeOK
  <1>7. Cardinality(ChargedTo(k0)') = Cardinality(ChargedTo(k0)) + 1
    <2>1. IsFiniteSet(ChargedTo(k0))
      BY SubmittersAssumption, FS_Subset DEF ChargedTo, Inv, TypeOK
    <2>2. r \notin ChargedTo(k0)
      BY <1>2 DEF ChargedTo
    <2>3. QED
      BY <1>5, <2>1, <2>2, FS_AddElement
  <1>8. \A k \in Keys : Retained(k)' = Retained(k)
    BY DEF CommitJob, Retained
  <1>9. CountMatchesJobs'
    BY <1>5, <1>6, <1>7, <1>8 DEF CountMatchesJobs, Inv
  <1>10. QED
    BY <1>1, <1>4, <1>9 DEF Inv, TypeInv, Control

\* The other steps of a submitter charge nothing; a failure gives the row back.
LEMMA SubmitInv ==
  ASSUME Inv, NEW r \in Submitters,
         \/ StartSubmit(r) \/ ReadWorkspace(r) \/ Reserve(r) \/ RejectQuota(r)
         \/ AnswerAccepted(r) \/ SubmitFails(r)
  PROVE  Inv'
  <1>1. TypeInv'
    BY SubmitType DEF Inv, TypeInv
  <1>2. UNCHANGED <<now, jobsCount, jobs, stale>>
    BY DEF StartSubmit, ReadWorkspace, Reserve, RejectQuota, AnswerAccepted, SubmitFails, dbVars
  <1>3. \A j \in jobs : key'[j] = key[j] /\ readLimit'[j] = readLimit[j]
    BY DEF StartSubmit, ReadWorkspace, Reserve, RejectQuota, AnswerAccepted, SubmitFails,
           Inv, JobsCommitted, TypeOK
  <1>4. CountMatchesJobs'
    BY <1>2, <1>3, ChargesFrame, MaxPeriodAssumption DEF Inv, TypeOK
  <1>5. Control'
    <2> USE ActorsAssumption, LimitsAssumption
        DEF Control, Inv, TypeOK, LimitsKnown, RowsHeld, JobsCommitted, StaleIsOld, Judged, Retained
    <2>1. CASE StartSubmit(r)
      BY <2>1 DEF StartSubmit, dbVars
    <2>2. CASE ReadWorkspace(r)
      BY <2>2 DEF ReadWorkspace, dbVars, KeysKnown
    <2>3. CASE Reserve(r)
      BY <2>3 DEF Reserve, HasRoom, KeysKnown
    <2>4. CASE RejectQuota(r)
      BY <2>4 DEF RejectQuota, dbVars
    <2>5. CASE AnswerAccepted(r)
      BY <2>5 DEF AnswerAccepted, dbVars
    <2>6. CASE SubmitFails(r)
      BY <2>6 DEF SubmitFails, Answered, KeysKnown
    <2>7. QED
      BY <2>1, <2>2, <2>3, <2>4, <2>5, <2>6
  <1>6. QED
    BY <1>1, <1>4, <1>5 DEF Inv, TypeInv, Control

\* The purge deletes only rows of months that are not retained any more.
LEMMA CleanupInv ==
  ASSUME Inv, Cleanup
  PROVE  Inv'
  <1>1. TypeInv'
    BY RunType DEF Inv, TypeInv
  <1>2. \A k \in Expired : ~Retained(k)
    BY RetentionAssumption, MaxPeriodAssumption
       DEF Expired, Cutoff, Retained, Inv, KeysKnown, TypeOK
  <1>3. UNCHANGED <<now, rowHolder, jobs, key, readLimit>>
        /\ \A k \in Keys : Retained(k)' => jobsCount'[k] = jobsCount[k]
    BY <1>2 DEF Cleanup, Retained
  <1>4. CountMatchesJobs'
    BY <1>3, ChargesFrame, MaxPeriodAssumption DEF Inv, TypeOK
  <1>5. Control'
    <2>1. \A r \in Submitters : pc'[r] = pc[r]
      BY ActorsAssumption DEF Cleanup, Inv, TypeOK
    <2>2. StaleIsOld'
      BY <1>2, <2>1 DEF Cleanup, StaleIsOld, Retained, Inv, TypeOK
    <2>3. RowsHeld'
      <3>1. \A k \in Keys : rowHolder[k] # Nobody => k \notin Expired
        BY DEF Cleanup
      <3>2. \A k \in Keys : rowHolder[k] # Nobody => jobsCount'[k] = jobsCount[k]
        BY <3>1 DEF Cleanup
      <3>3. QED
        BY <2>1, <3>2, ActorsAssumption DEF Cleanup, RowsHeld, Inv, TypeOK, KeysKnown
    <2>4. LimitsKnown' /\ JobsCommitted'
      BY <2>1 DEF Cleanup, LimitsKnown, JobsCommitted, Inv, TypeOK
    <2>5. QED
      BY <2>2, <2>3, <2>4 DEF Control
  <1>6. QED
    BY <1>1, <1>4, <1>5 DEF Inv, TypeInv, Control

LEMMA NextInv == Inv /\ [Next]_vars => Inv'
  <1> SUFFICES ASSUME Inv, [Next]_vars PROVE Inv'
    OBVIOUS
  <1>1. TypeInv'
    BY NextType DEF Inv, TypeInv
  <1>2. CASE Tick
    <2>1. CountMatchesJobs'
      BY <1>2, ChargesFrame, MaxPeriodAssumption DEF Tick, localVars, Inv, TypeOK
    <2>2. Control'
      BY <1>2, RetentionAssumption, MaxPeriodAssumption
         DEF Tick, localVars, Inv, TypeOK, KeysKnown, Control, LimitsKnown, RowsHeld,
             JobsCommitted, StaleIsOld, Retained
    <2>3. QED
      BY <1>1, <2>1, <2>2 DEF Inv, TypeInv, Control
  <1>3. ASSUME \/ UNCHANGED vars
               \/ \E w \in Workspaces : UpdatePlan(w)
               \/ \E a \in Readers : StartRead(a)
               \/ StartRun \/ EnsureNext \/ EnsureDone \/ RunFails
        PROVE  Inv'
    <2>1. /\ UNCHANGED <<now, jobsCount, rowHolder, jobs, readLimit, stale>>
          /\ \A r \in Submitters : pc'[r] = pc[r] /\ key'[r] = key[r]
      BY <1>3, ActorsAssumption
         DEF vars, UpdatePlan, localVars, StartRead, StartRun, EnsureNext, EnsureDone,
             RunFails, dbVars, Inv, TypeOK
    <2>2. CountMatchesJobs'
      BY <2>1, ChargesFrame, MaxPeriodAssumption DEF Inv, TypeOK
    <2>3. Control'
      BY <2>1, ActorsAssumption
         DEF Inv, TypeOK, Control, LimitsKnown, RowsHeld, JobsCommitted, StaleIsOld, Retained
    <2>4. QED
      BY <1>1, <2>2, <2>3 DEF Inv, TypeInv, Control
  <1>4. ASSUME NEW r \in Submitters, StartSubmit(r) \/ SubmitStep(r) \/ SubmitFails(r)
        PROVE  Inv'
    BY <1>4, GetOrCreateInv, CommitInv, SubmitInv DEF SubmitStep
  <1>5. ASSUME NEW a \in Readers, ReadStep(a) PROVE Inv'
    BY <1>5, GetOrCreateInv DEF ReadStep
  <1>6. CASE RunStep
    BY <1>3, <1>6, GetOrCreateInv, CleanupInv DEF RunStep
  <1>7. QED
    BY <1>2, <1>3, <1>4, <1>5, <1>6 DEF Next

LEMMA Invariance == Spec => []Inv
  BY InitInv, NextInv, PTL DEF Spec

\* Whatever the interleaving, the usage row of a retained month counts exactly
\* the jobs created against it.
THEOREM CountCorrect == Spec => []CountMatchesJobs
  <1>1. Inv => CountMatchesJobs
    BY DEF Inv
  <1>2. QED
    BY <1>1, Invariance, PTL

\* The commit of a job finds room for it under the job's own limit: the count
\* the UPDATE compared is the number of jobs, and the row was held ever since.
LEMMA CommitWithinLimit ==
  ASSUME Inv, NEW r \in Submitters, CommitJob(r), Retained(key[r])
  PROVE  Cardinality(ChargedTo(key[r])') <= readLimit[r]
  <1>1. PICK k \in Keys : k = key[r]
    BY DEF CommitJob, Inv, KeysKnown
  <1>2. /\ pc[r] = "reserved" /\ r \notin jobs /\ key' = key
        /\ jobsCount[k] \in Nat /\ jobsCount[k] < readLimit[r]
    BY <1>1 DEF CommitJob, Inv, JobsCommitted, RowsHeld, TypeOK
  <1>3. readLimit[r] \in Int
    BY <1>2, LimitsAssumption DEF Inv, LimitsKnown, Judged
  <1>4. Cardinality(ChargedTo(k)) = jobsCount[k]
    BY <1>1 DEF CountMatchesJobs, Inv
  <1>5. ChargedTo(key[r])' = ChargedTo(k) \union {r}
    BY <1>1, <1>2 DEF CommitJob, ChargedTo
  <1>6. IsFiniteSet(ChargedTo(k)) /\ r \notin ChargedTo(k)
    BY <1>2, SubmittersAssumption, FS_Subset DEF ChargedTo, Inv, TypeOK
  <1>7. Cardinality(ChargedTo(key[r])') = Cardinality(ChargedTo(k)) + 1
    BY <1>5, <1>6, FS_AddElement
  <1>8. QED
    BY <1>2, <1>3, <1>4, <1>7

\* Whatever the interleaving, each job of a retained month is created within the
\* limit that it was itself admitted with.
THEOREM QuotaSafe == Spec => NoOverage
  <1>1. ASSUME Inv, [Next]_vars, NEW r \in jobs' \ jobs, Retained(key[r])
        PROVE  Cardinality(ChargedTo(key[r])') <= readLimit[r]
    <2>1. r \in Submitters /\ CommitJob(r)
      <3>1. CASE Tick \/ \E w \in Workspaces : UpdatePlan(w)
        BY <1>1, <3>1 DEF Tick, UpdatePlan
      <3>2. ASSUME NEW s \in Submitters, StartSubmit(s) \/ SubmitStep(s) \/ SubmitFails(s)
            PROVE  r \in Submitters /\ CommitJob(r)
        BY <1>1, <3>2
           DEF StartSubmit, SubmitStep, SubmitFails, ReadWorkspace, SelectUsage, InsertUsage,
               InsertConflict, ReselectUsage, Reserve, RejectQuota, CommitJob, AnswerAccepted,
               dbVars
      <3>3. CASE \E a \in Readers : StartRead(a) \/ ReadStep(a)
        BY <1>1, <3>3 DEF StartRead, ReadStep, SelectUsage, InsertUsage, InsertConflict,
                          ReselectUsage, dbVars
      <3>4. CASE StartRun \/ RunStep \/ RunFails
        BY <1>1, <3>4 DEF StartRun, RunStep, RunFails, EnsureNext, EnsureDone, Cleanup,
                          SelectUsage, InsertUsage, InsertConflict, ReselectUsage, dbVars
      <3>5. CASE UNCHANGED vars
        BY <1>1, <3>5 DEF vars
      <3>6. QED
        BY <1>1, <3>1, <3>2, <3>3, <3>4, <3>5 DEF Next
    <2>2. QED
      BY <1>1, <2>1, CommitWithinLimit
  <1>2. Inv /\ [Next]_vars
          => [\A r \in jobs' \ jobs :
                Retained(key[r]) => Cardinality(ChargedTo(key[r])') <= readLimit[r]]_vars
    BY <1>1
  <1>3. QED
    BY <1>2, Invariance, PTL DEF Spec, NoOverage

-----------------------------------------------------------------------------
(* The database implements the ledger.                                      *)

\* The refinement mapping of Quota's instance Ledger.
Admitted == [r \in Submitters |->
               IF readLimit[r] = Unread THEN [key |-> Unread, limit |-> Unread]
               ELSE [key |-> key[r], limit |-> readLimit[r]]]
Refused == {r \in Submitters : pc[r] = "quota"}

LEMMA InitRefines == Init => Ledger!LedgerInit
  BY ActorsAssumption
     DEF Init, Ledger!LedgerInit, Ledger!NotAdmitted

\* A step that leaves what the mapping looks at alone is a stutter of the ledger.
LEMMA StutterRefines ==
  ASSUME UNCHANGED <<now, limit, jobs>>, Admitted' = Admitted, Refused' = Refused
  PROVE  UNCHANGED Ledger!ledgerVars
  BY DEF Ledger!ledgerVars, Admitted, Refused

\* The jobs the ledger counts for a key are those charged to its row.
LEMMA ChargedRefines ==
  ASSUME Inv, NEW k \in Keys
  PROVE  Ledger!Charged(k) = ChargedTo(k)
  <1>1. \A j \in jobs : j \in Submitters /\ readLimit[j] # Unread
    BY LimitsAssumption DEF Inv, LimitsKnown, TypeOK
  <1>2. QED
    BY <1>1 DEF Ledger!Charged, ChargedTo

\* Reading the workspace admits the request, or leaves the ledger alone.
LEMMA ReadRefines ==
  ASSUME Inv, NEW r \in Submitters, ReadWorkspace(r)
  PROVE  [Ledger!LedgerNext]_(Ledger!ledgerVars)
  <1>1. key[r] \in Keys /\ key[r][2] <= now /\ readLimit[r] = Unread
    BY DEF ReadWorkspace, Inv, KeysKnown, LimitsKnown
  <1>2. Refused' = Refused /\ UNCHANGED <<now, limit, jobs, key>>
    BY DEF ReadWorkspace, dbVars, Refused, Inv, TypeOK
  <1>3. CASE UNCHANGED readLimit
    BY <1>2, <1>3, StutterRefines DEF Admitted
  <1>4. CASE readLimit' = [readLimit EXCEPT ![r] = limit[key[r][1]]]
    <2>1. limit[key[r][1]] # Unread
      BY <1>1, LimitsAssumption DEF Inv, TypeOK
    <2>2. Admitted' = [Admitted EXCEPT ![r] = [key |-> key[r], limit |-> limit[key[r][1]]]]
      BY <1>2, <1>4, <2>1 DEF Admitted, Inv, TypeOK
    <2>3. Admitted[r] = Ledger!NotAdmitted
      BY <1>1 DEF Admitted, Ledger!NotAdmitted
    <2>4. Ledger!Admit(r)
      BY <1>1, <1>2, <2>2, <2>3
         DEF Ledger!Admit, Ledger!Keys, Ledger!Periods, Admitted, Refused
    <2>5. QED
      BY <2>4 DEF Ledger!LedgerNext
  <1>5. QED
    BY <1>3, <1>4 DEF ReadWorkspace

\* The ledger's module counts as this one does.
LEMMA SameCardinality ==
  ASSUME NEW S
  PROVE  Ledger!Cardinality(S) = Cardinality(S)
  BY DEF Ledger!Cardinality, Cardinality

\* The commit of a job accepts the request.
LEMMA CommitRefines ==
  ASSUME Inv, NEW r \in Submitters, CommitJob(r)
  PROVE  Ledger!Accept(r)
  <1>1. /\ key[r] \in Keys /\ readLimit[r] \in Limits /\ r \notin jobs /\ pc[r] = "reserved"
        /\ jobsCount[key[r]] < readLimit[r]
    BY DEF CommitJob, Inv, KeysKnown, LimitsKnown, JobsCommitted, RowsHeld, Judged
  <1>2. Admitted[r] = [key |-> key[r], limit |-> readLimit[r]]
    BY <1>1, LimitsAssumption DEF Admitted
  <1>3. Ledger!Pending(r)
    BY <1>1, <1>2, LimitsAssumption DEF Ledger!Pending, Ledger!NotAdmitted, Admitted
  <1>4. Ledger!Retained(key[r]) => Cardinality(Ledger!Charged(key[r])) < readLimit[r]
    BY <1>1, ChargedRefines DEF Ledger!Retained, Retained, Inv, CountMatchesJobs
  <1>5. Refused' = Refused /\ Admitted' = Admitted
    BY DEF CommitJob, Refused, Admitted, Inv, TypeOK
  <1>6. QED
    BY <1>2, <1>3, <1>4, <1>5, SameCardinality
       DEF Ledger!Accept, CommitJob, Admitted, Refused

\* An UPDATE that finds no room refuses the request.
LEMMA RejectRefines ==
  ASSUME Inv, NEW r \in Submitters, RejectQuota(r)
  PROVE  Ledger!Refuse(r)
  <1>1. /\ key[r] \in Keys /\ readLimit[r] \in Limits /\ r \notin jobs /\ pc[r] = "fetched"
        /\ r \in stale \/ jobsCount[key[r]] >= readLimit[r]
    <2>1. key[r] \in Keys /\ readLimit[r] \in Limits /\ r \notin jobs /\ pc[r] = "fetched"
      BY DEF RejectQuota, Inv, KeysKnown, LimitsKnown, JobsCommitted, Judged
    <2>2. jobsCount[key[r]] \in Nat /\ readLimit[r] \in Int
      BY <2>1, LimitsAssumption DEF Inv, TypeOK
    <2>3. QED
      BY <2>1, <2>2 DEF RejectQuota, HasRoom
  <1>2. Admitted[r] = [key |-> key[r], limit |-> readLimit[r]]
    BY <1>1, LimitsAssumption DEF Admitted
  <1>3. Ledger!Pending(r)
    BY <1>1, <1>2, LimitsAssumption DEF Ledger!Pending, Ledger!NotAdmitted, Admitted
  <1>4. Ledger!Retained(key[r]) => Cardinality(Ledger!Charged(key[r])) >= readLimit[r]
    BY <1>1, ChargedRefines DEF Ledger!Retained, Retained, Inv, CountMatchesJobs, StaleIsOld
  <1>5. Refused' = Refused \union {r} /\ Admitted' = Admitted
    BY DEF RejectQuota, Refused, Admitted, Inv, TypeOK
  <1>6. QED
    BY <1>2, <1>3, <1>4, <1>5, SameCardinality
       DEF Ledger!Refuse, RejectQuota, dbVars, Admitted, Refused

\* Everything else a session does is invisible to the ledger.
LEMMA QuietRefines ==
  ASSUME Inv,
         \/ \E a \in Actors : SelectUsage(a) \/ InsertUsage(a) \/ InsertConflict(a)
                              \/ ReselectUsage(a)
         \/ \E r \in Submitters : StartSubmit(r) \/ Reserve(r) \/ AnswerAccepted(r)
                                  \/ SubmitFails(r)
         \/ \E a \in Readers : StartRead(a)
         \/ StartRun \/ EnsureNext \/ EnsureDone \/ Cleanup \/ RunFails
         \/ UNCHANGED vars
  PROVE  UNCHANGED Ledger!ledgerVars
  <1>1. UNCHANGED <<now, limit, jobs, readLimit>>
    BY DEF SelectUsage, InsertUsage, InsertConflict, ReselectUsage, StartSubmit, Reserve,
           AnswerAccepted, SubmitFails, StartRead, StartRun, EnsureNext, EnsureDone, Cleanup,
           RunFails, vars, dbVars
  <1>2. \A r \in Submitters : readLimit[r] = Unread \/ key'[r] = key[r]
    BY ActorsAssumption
       DEF SelectUsage, InsertUsage, InsertConflict, ReselectUsage, StartSubmit, Reserve,
           AnswerAccepted, SubmitFails, StartRead, StartRun, EnsureNext, EnsureDone, Cleanup,
           RunFails, vars, dbVars, Inv, TypeOK, LimitsKnown
  <1>3. \A r \in Submitters : pc'[r] = "quota" <=> pc[r] = "quota"
    BY ActorsAssumption
       DEF SelectUsage, InsertUsage, InsertConflict, ReselectUsage, FailedLabel, StartSubmit,
           Reserve, AnswerAccepted, SubmitFails, StartRead, StartRun, EnsureNext, EnsureDone,
           Cleanup, RunFails, vars, dbVars, Inv, TypeOK, Answered
  <1>4. Admitted' = Admitted /\ Refused' = Refused
    BY <1>1, <1>2, <1>3 DEF Admitted, Refused
  <1>5. QED
    BY <1>1, <1>4, StutterRefines

LEMMA NextRefines == Inv /\ [Next]_vars => [Ledger!LedgerNext]_(Ledger!ledgerVars)
  <1> SUFFICES ASSUME Inv, [Next]_vars
               PROVE  [Ledger!LedgerNext]_(Ledger!ledgerVars)
    OBVIOUS
  <1>1. CASE Tick
    <2>1. Ledger!NextMonth
      BY <1>1 DEF Tick, localVars, Ledger!NextMonth
    <2>2. QED
      BY <2>1 DEF Ledger!LedgerNext
  <1>2. ASSUME NEW w \in Workspaces, UpdatePlan(w)
        PROVE  [Ledger!LedgerNext]_(Ledger!ledgerVars)
    <2>1. Ledger!SetLimit(w)
      BY <1>2 DEF UpdatePlan, localVars, Ledger!SetLimit
    <2>2. QED
      BY <2>1 DEF Ledger!LedgerNext
  <1>3. ASSUME NEW r \in Submitters, StartSubmit(r) \/ SubmitStep(r) \/ SubmitFails(r)
        PROVE  [Ledger!LedgerNext]_(Ledger!ledgerVars)
    <2>1. CASE ReadWorkspace(r)
      BY <2>1, ReadRefines
    <2>2. CASE CommitJob(r)
      BY <2>2, CommitRefines DEF Ledger!LedgerNext
    <2>3. CASE RejectQuota(r)
      BY <2>3, RejectRefines DEF Ledger!LedgerNext
    <2>4. QED
      BY <1>3, <2>1, <2>2, <2>3, QuietRefines DEF SubmitStep
  <1>4. ASSUME \/ \E a \in Readers : StartRead(a) \/ ReadStep(a)
               \/ StartRun \/ RunStep \/ RunFails \/ UNCHANGED vars
        PROVE  [Ledger!LedgerNext]_(Ledger!ledgerVars)
    BY <1>4, QuietRefines DEF ReadStep, RunStep
  <1>5. QED
    BY <1>1, <1>2, <1>3, <1>4 DEF Next

\* Row locks, racing inserts, rollbacks and the purge do not show: requests are
\* judged as if each took one atomic step of the ledger.
THEOREM Refinement == Spec => ImplementsLedger
  BY InitRefines, NextRefines, Invariance, PTL DEF Spec, ImplementsLedger, Ledger!LedgerSpec

\* A decision that was answered is final, whatever fails, is purged or changes later: a job
\* stays charged to its month, and a request refused for quota creates none.
THEOREM DecisionsFinal == Spec => Ledger!DecisionsStand
  <1>1. Inv /\ Inv' /\ [Next]_vars => [Ledger!Stand]_(Ledger!ledgerVars)
    <2> SUFFICES ASSUME Inv, Inv', [Next]_vars, ~ UNCHANGED Ledger!ledgerVars
                 PROVE  Ledger!Stand
      OBVIOUS
    <2>1. Ledger!LedgerNext
      BY NextRefines
    <2>2. ASSUME NEW r \in jobs \union Refused
          PROVE  r \in Submitters /\ Admitted[r].key # Unread
      <3>1. r \in Submitters /\ readLimit[r] \in Limits /\ key[r] \in Keys
        BY DEF Inv, TypeOK, JobsCommitted, LimitsKnown, KeysKnown, Judged, Refused
      <3>2. readLimit[r] # Unread /\ key[r] # Unread
        BY <3>1, LimitsAssumption, UnreadAssumption
      <3>3. QED
        BY <3>1, <3>2 DEF Admitted
    <2>3. jobs' \intersect Refused' = {}
      BY DEF Inv, JobsCommitted, Refused
    <2>4. QED
      BY <2>1, <2>2, <2>3
         DEF Ledger!LedgerNext, Ledger!NextMonth, Ledger!SetLimit, Ledger!Admit, Ledger!Accept,
             Ledger!Refuse, Ledger!NotAdmitted, Ledger!Stand, Admitted, Refused
  <1>2. QED
    BY <1>1, Invariance, PTL DEF Spec, Ledger!DecisionsStand

-----------------------------------------------------------------------------
(* Waiting for a row.                                                       *)

\* A request waits only for a row that another one holds, and a row is held only by a
\* request whose next step is its commit: chains of waiting requests have length one.
WaitsEnd ==
  \A k \in Keys :
    rowHolder[k] # Nobody =>
      /\ pc[rowHolder[k]] = "reserved"
      /\ \A i \in Keys : rowHolder[i] = rowHolder[k] => i = k

\* Nobody waits for somebody who waits: the safety that EveryRequestAnswered rests on.
THEOREM NoWaitCycle == Spec => []WaitsEnd
  <1>1. Inv => WaitsEnd
    BY DEF Inv, RowsHeld, WaitsEnd
  <1>2. QED
    BY <1>1, Invariance, PTL
=============================================================================
