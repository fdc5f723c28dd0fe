------------------------ MODULE BillingWebhookProofs ------------------------
(***************************************************************************)
(* Proofs about BillingWebhook, for every number of processes,             *)
(* administrators, workspaces, events and failures.                        *)
(***************************************************************************)
EXTENDS BillingWebhook, TLAPS

\* A session that is open handles a request, and has the row it has found.
Sessions ==
  /\ \A p \in Processes : at[p] \notin {"update", "start"} /\ (at[p] # "idle" => request[p] \in Events)
  /\ \A d \in Admins :
       /\ at[d] \in {"idle", "update"}
       /\ at[d] = "update" => workspace[d] # None /\ request[d] \in AdminUpdates
  /\ \A s \in Starters :
       /\ at[s] \in {"idle", "start"}
       /\ at[s] = "start" => workspace[s] # None
  /\ \A a \in Actors :
       /\ workspace[a] # None => loaded[a] \in Rows
       /\ at[a] = "reload" => workspace[a] # None

\* An event that is answered, or about to be, was applied.
Applications ==
  /\ AckedIsApplied
  /\ \A p \in Processes : at[p] \in {"applied", "answer"} => request[p] \in applied

Inv == TypeOK /\ Sessions /\ Applications

-----------------------------------------------------------------------------
(* The rules.                                                               *)

LEMMA BillingType ==
  ASSUME NEW type, NEW word PROVE InferBillingStatus(type, word) \in BillingStatuses
  BY DEF InferBillingStatus, ParseBillingStatus, BillingStatuses

LEMMA LimitType ==
  ASSUME NEW old \in Rows, NEW plan \in Plans \union {None}, NEW limit \in Limits \union {None}
  PROVE  ResolveLimit(old, plan, limit) \in Limits
  BY PlanLimitsAssumption DEF ResolveLimit, Rows

LEMMA EventUpdateType ==
  ASSUME NEW e \in Events, NEW old \in Rows PROVE EventUpdate(e, old) \in Rows
  <1> DEFINE said == Payload[e]
  <1>1. /\ said.plan \in Plans \union {None}
        /\ said.limit \in Limits \union {None}
        /\ said.customer \in Ids \union {None}
        /\ said.subscription \in Ids \union {None}
    BY PayloadAssumption
  <1>2. InferBillingStatus(said.type, said.status) \in BillingStatuses
    BY BillingType
  <1>3. ResolveLimit(old, said.plan, said.limit) \in Limits
    BY <1>1, LimitType
  <1>4. QED
    BY <1>1, <1>2, <1>3 DEF EventUpdate, Or, Rows

LEMMA AdminUpdateType ==
  ASSUME NEW u \in AdminUpdates, NEW old \in Rows PROVE AdminUpdate(u, old) \in Rows
  <1>1. ResolveLimit(old, u.plan, u.limit) \in Limits
    BY AdminUpdatesAssumption, LimitType
  <1>2. QED
    BY <1>1, AdminUpdatesAssumption DEF AdminUpdate, Rows

LEMMA ConfiguredType ==
  ASSUME NEW old \in Rows PROVE Configured(old) \in Rows
  BY DefaultAssumption DEF Configured, Rows, BillingStatuses

\* Writing the changed columns, spelt out column by column.
LEMMA WrittenColumns ==
  ASSUME NEW current \in Rows, NEW old \in Rows, NEW new \in Rows
  PROVE  /\ Written(current, old, new) \in Rows
         /\ Written(current, old, new).plan
              = IF new.plan # old.plan THEN new.plan ELSE current.plan
         /\ Written(current, old, new).limit
              = IF new.limit # old.limit THEN new.limit ELSE current.limit
  BY DEF Written, Rows

-----------------------------------------------------------------------------
(* Types and applications.                                                  *)

LEMMA InitInv == Init => Inv
  BY InitialRowAssumption, MaxFaultsAssumption, ActorsAssumption
     DEF Init, Inv, TypeOK, Sessions, Applications, AckedIsApplied, Actors, Labels

LEMMA DeliverInv ==
  ASSUME Inv, NEW p \in Processes, NEW e \in Events, Deliver(p, e)
  PROVE  Inv'
  BY MaxFaultsAssumption, ActorsAssumption
     DEF Deliver, Inv, TypeOK, Sessions, Applications, AckedIsApplied, Goto, Fault, db, Actors,
         Labels

LEMMA HandlerInv ==
  ASSUME Inv, NEW p \in Processes, HandlerStep(p)
  PROVE  Inv'
  <1> USE ActorsAssumption
      DEF Inv, TypeOK, Sessions, Applications, AckedIsApplied, Goto, EndSession, db, session,
          Actors, Labels, EventStatuses
  <1>1. CASE Resolve(p)
    <2>1. PICK w \in Workspaces \union {None} : Found(p, w)
      BY <1>1, PayloadAssumption DEF Resolve, Linked
    <2>2. QED
      BY <1>1, <2>1 DEF Resolve, Found
  <1>2. CASE ResolveByCustomer(p)
    <2>1. PICK w \in Workspaces \union {None} : Found(p, w)
      BY <1>2 DEF ResolveByCustomer, Linked
    <2>2. QED
      BY <1>2, <2>1 DEF ResolveByCustomer, Found
  <1>3. CASE Check(p)
    BY <1>3 DEF Check
  <1>4. CASE InsertEvent(p)
    BY <1>4 DEF InsertEvent
  <1>5. CASE InsertRaises(p)
    BY <1>5 DEF InsertRaises
  <1>6. CASE InsertConflict(p)
    BY <1>6 DEF InsertConflict
  <1>7. CASE Reload(p)
    BY <1>7 DEF Reload
  <1>8. CASE MarkFailed(p)
    BY <1>8 DEF MarkFailed, Mark
  <1>9. CASE Apply(p)
    <2>1. /\ workspace[p] \in Workspaces /\ loaded[p] \in Rows /\ request[p] \in Events
          /\ row[workspace[p]] \in Rows
      BY <1>9 DEF Apply
    <2>2. Written(row[workspace[p]], loaded[p], EventUpdate(request[p], loaded[p])) \in Rows
      BY <2>1, EventUpdateType, WrittenColumns
    <2>3. row' \in [Workspaces -> Rows]
      BY <1>9, <2>1, <2>2 DEF Apply
    <2>4. QED
      BY <1>9, <2>1, <2>3 DEF Apply
  <1>10. CASE MarkProcessed(p)
    BY <1>10 DEF MarkProcessed, Mark
  <1>11. CASE Answer(p)
    BY <1>11 DEF Answer
  <1>12. QED
    BY <1>1, <1>2, <1>3, <1>4, <1>5, <1>6, <1>7, <1>8, <1>9, <1>10, <1>11 DEF HandlerStep

LEMMA AdminInv ==
  ASSUME Inv, NEW d \in Admins, BeginUpdate(d) \/ CommitUpdate(d)
  PROVE  Inv'
  <1> USE ActorsAssumption
      DEF Inv, TypeOK, Sessions, Applications, AckedIsApplied, Goto, EndSession, db, Actors,
          Labels
  <1>1. CASE BeginUpdate(d)
    <2>1. PICK w \in Workspaces : Found(d, w)
      BY <1>1 DEF BeginUpdate
    <2>2. PICK u \in AdminUpdates : request' = [request EXCEPT ![d] = u]
      BY <1>1 DEF BeginUpdate
    <2>3. w # None
      BY NoneAssumption
    <2>4. QED
      BY <1>1, <2>1, <2>2, <2>3 DEF BeginUpdate, Found
  <1>2. CASE CommitUpdate(d)
    <2>1. /\ workspace[d] \in Workspaces /\ loaded[d] \in Rows /\ request[d] \in AdminUpdates
          /\ row[workspace[d]] \in Rows
      BY <1>2 DEF CommitUpdate
    <2>2. Written(row[workspace[d]], loaded[d], AdminUpdate(request[d], loaded[d])) \in Rows
      BY <2>1, AdminUpdateType, WrittenColumns
    <2>3. row' \in [Workspaces -> Rows]
      BY <1>2, <2>1, <2>2 DEF CommitUpdate
    <2>4. QED
      BY <1>2, <2>3 DEF CommitUpdate
  <1>3. QED
    BY <1>1, <1>2

LEMMA StartInv ==
  ASSUME Inv, NEW s \in Starters, BeginStart(s) \/ CommitStart(s)
  PROVE  Inv'
  <1> USE ActorsAssumption
      DEF Inv, TypeOK, Sessions, Applications, AckedIsApplied, Goto, EndSession, db, Actors,
          Labels
  <1>1. CASE BeginStart(s)
    BY <1>1, DefaultAssumption, NoneAssumption DEF BeginStart, Found
  <1>2. CASE CommitStart(s)
    <2>1. /\ workspace[s] \in Workspaces /\ loaded[s] \in Rows
          /\ row[workspace[s]] \in Rows
      BY <1>2 DEF CommitStart
    <2>2. Written(row[workspace[s]], loaded[s], Configured(loaded[s])) \in Rows
      BY <2>1, ConfiguredType, WrittenColumns
    <2>3. row' \in [Workspaces -> Rows]
      BY <1>2, <2>1, <2>2 DEF CommitStart
    <2>4. QED
      BY <1>2, <2>3 DEF CommitStart
  <1>3. QED
    BY <1>1, <1>2

LEMMA NextInv == Inv /\ [Next]_vars => Inv'
  <1> SUFFICES ASSUME Inv, [Next]_vars PROVE Inv'
    OBVIOUS
  <1>1. ASSUME NEW a \in Actors, Fails(a) PROVE Inv'
    BY <1>1, MaxFaultsAssumption, ActorsAssumption
       DEF Fails, Inv, TypeOK, Sessions, Applications, AckedIsApplied, EndSession, Fault, db,
           Actors, Labels
  <1>2. CASE Finished \/ UNCHANGED vars
    BY <1>2 DEF Finished, vars, Inv, TypeOK, Sessions, Applications, AckedIsApplied
  <1>3. QED
    BY <1>1, <1>2, DeliverInv, HandlerInv, AdminInv, StartInv DEF Next

LEMMA Invariance == Spec => []Inv
  BY InitInv, NextInv, PTL DEF Spec

\* The state of the webhook keeps its type.
THEOREM TypeCorrect == Spec => []TypeOK
  <1>1. Inv => TypeOK
    BY DEF Inv
  <1>2. QED
    BY <1>1, Invariance, PTL

\* An event that is answered with success, or marked processed, was applied,
\* however many processes handle it at once and wherever they fail.
THEOREM AckedSafe == Spec => []AckedIsApplied
  <1>1. Inv => AckedIsApplied
    BY DEF Inv, Applications
  <1>2. QED
    BY <1>1, Invariance, PTL

-----------------------------------------------------------------------------
(* Plans and limits.                                                        *)

\* Every update changes the plan by name, from plans whose limits tell them
\* apart, the configured plan has its own limit, and every workspace begins with
\* the limit of its plan.
PlansByName ==
  /\ \A e \in Events : Payload[e].limit = None
  /\ \A u \in AdminUpdates : u.limit = None
  /\ DefaultLimit = PlanLimit(DefaultPlan)
  /\ \A p, q \in Plans : PlanLimit(p) = PlanLimit(q) => p = q
  /\ \A w \in Workspaces : InitialRow[w].limit = PlanLimit(InitialRow[w].plan)

Agrees(r) == r.limit = PlanLimit(r.plan)

\* What a session has loaded agrees too, however old it is.
LoadedAgree == \A a \in Actors : workspace[a] # None => Agrees(loaded[a])

PlanInv == Inv /\ PlanAndLimitAgree /\ LoadedAgree

\* Two versions of a row that agree differ in the plan and the limit or in neither,
\* so a session writes both or none.
LEMMA WrittenAgrees ==
  ASSUME PlansByName, NEW current \in Rows, NEW old \in Rows, NEW new \in Rows,
         Agrees(current), Agrees(old), Agrees(new)
  PROVE  Agrees(Written(current, old, new))
  <1>1. new.plan = old.plan <=> new.limit = old.limit
    BY DEF Agrees, Rows, PlansByName
  <1>2. QED
    BY <1>1, WrittenColumns DEF Agrees

LEMMA UpdatesAgree ==
  ASSUME PlansByName, NEW old \in Rows, Agrees(old)
  PROVE  /\ \A e \in Events : Agrees(EventUpdate(e, old))
         /\ \A u \in AdminUpdates : Agrees(AdminUpdate(u, old))
         /\ Agrees(Configured(old))
  <1>1. ASSUME NEW e \in Events PROVE Agrees(EventUpdate(e, old))
    <2>1. Payload[e].limit = None /\ Payload[e].plan \in Plans \union {None}
      BY PayloadAssumption DEF PlansByName
    <2>2. QED
      BY <2>1 DEF Agrees, EventUpdate, ResolveLimit, Or
  <1>2. ASSUME NEW u \in AdminUpdates PROVE Agrees(AdminUpdate(u, old))
    <2>1. u.limit = None /\ u.plan \in Plans /\ u.plan # None
      BY AdminUpdatesAssumption, NoneAssumption DEF PlansByName
    <2>2. QED
      BY <2>1 DEF Agrees, AdminUpdate, ResolveLimit
  <1>3. Agrees(Configured(old))
    BY DEF Agrees, Configured, Rows, PlansByName
  <1>4. QED
    BY <1>1, <1>2, <1>3

\* A step that leaves the rows alone, and loads nothing but rows, keeps agreement.
LEMMA NextPlan == PlansByName /\ PlanInv /\ [Next]_vars => PlanInv'
  <1> SUFFICES ASSUME PlansByName, PlanInv, [Next]_vars PROVE PlanInv'
    OBVIOUS
  <1>1. Inv'
    BY NextInv DEF PlanInv
  <1> USE ActorsAssumption DEF PlanInv, PlanAndLimitAgree, LoadedAgree, Agrees, Inv, TypeOK
  <1>2. ASSUME NEW a \in Actors, NEW w \in Workspaces \union {None}, Found(a, w), UNCHANGED row
        PROVE  PlanInv'
    BY <1>1, <1>2 DEF Found
  <1>3. ASSUME NEW a \in Actors, EndSession(a), UNCHANGED row PROVE PlanInv'
    BY <1>1, <1>3 DEF EndSession
  <1>4. CASE UNCHANGED <<row, workspace, loaded>>
    BY <1>1, <1>4
  <1>5. ASSUME NEW p \in Processes, HandlerStep(p) PROVE PlanInv'
    <2>1. CASE Resolve(p) \/ ResolveByCustomer(p)
      <3>1. \E w \in Workspaces \union {None} : Found(p, w)
        BY <2>1, PayloadAssumption DEF Resolve, ResolveByCustomer, Linked, Goto, Sessions
      <3>2. QED
        BY <2>1, <3>1, <1>2 DEF Resolve, ResolveByCustomer, db, Actors
    <2>2. CASE Reload(p)
      BY <1>1, <2>2 DEF Reload, db, Actors, Goto, Sessions
    <2>3. CASE InsertRaises(p) \/ MarkFailed(p) \/ Answer(p)
      BY <2>3, <1>3 DEF InsertRaises, MarkFailed, Answer, db, Actors
    <2>4. CASE Apply(p)
      <3>1. /\ workspace[p] \in Workspaces /\ loaded[p] \in Rows /\ request[p] \in Events
            /\ row[workspace[p]] \in Rows /\ workspace[p] # None
        BY <2>4 DEF Apply, Goto, Sessions, Actors
      <3>2. Agrees(row[workspace[p]]) /\ Agrees(loaded[p])
        BY <3>1 DEF Actors
      <3>3. Agrees(Written(row[workspace[p]], loaded[p], EventUpdate(request[p], loaded[p])))
        <4>1. EventUpdate(request[p], loaded[p]) \in Rows
          BY <3>1, EventUpdateType
        <4>2. Agrees(EventUpdate(request[p], loaded[p]))
          BY <3>1, <3>2, UpdatesAgree
        <4> HIDE DEF PlanInv, PlanAndLimitAgree, LoadedAgree, Agrees, Inv, TypeOK
        <4>3. QED
          BY <3>1, <3>2, <4>1, <4>2, WrittenAgrees
      <3>4. QED
        BY <1>1, <2>4, <3>1, <3>3 DEF Apply, session
    <2>5. CASE Check(p) \/ InsertEvent(p) \/ InsertConflict(p) \/ MarkProcessed(p)
      BY <2>5, <1>4 DEF Check, InsertEvent, InsertConflict, MarkProcessed, db, session
    <2>6. QED
      BY <1>5, <2>1, <2>2, <2>3, <2>4, <2>5 DEF HandlerStep
  <1>6. ASSUME NEW d \in Admins, CommitUpdate(d) PROVE PlanInv'
    <2>1. /\ workspace[d] \in Workspaces /\ loaded[d] \in Rows /\ request[d] \in AdminUpdates
          /\ row[workspace[d]] \in Rows /\ workspace[d] # None
      BY <1>6 DEF CommitUpdate, Sessions, Actors
    <2>2. Agrees(row[workspace[d]]) /\ Agrees(loaded[d])
      BY <2>1 DEF Actors
    <2>3. Agrees(AdminUpdate(request[d], loaded[d])) /\ AdminUpdate(request[d], loaded[d]) \in Rows
      BY <2>1, <2>2, UpdatesAgree, AdminUpdateType
    <2>4. Agrees(Written(row[workspace[d]], loaded[d], AdminUpdate(request[d], loaded[d])))
      BY <2>1, <2>2, <2>3, WrittenAgrees
    <2>5. QED
      BY <1>1, <1>6, <2>1, <2>4 DEF CommitUpdate, EndSession
  <1>7. ASSUME NEW d \in Admins, BeginUpdate(d) PROVE PlanInv'
    BY <1>7, <1>2 DEF BeginUpdate, db, Actors
  <1>8. ASSUME NEW p \in Processes, NEW e \in Events, Deliver(p, e) PROVE PlanInv'
    BY <1>8, <1>4 DEF Deliver, db
  <1>9. ASSUME NEW a \in Actors, Fails(a) PROVE PlanInv'
    BY <1>9, <1>3 DEF Fails, db
  <1>10. CASE Finished \/ UNCHANGED vars
    BY <1>10, <1>4 DEF Finished, vars
  <1>11. ASSUME NEW s \in Starters, BeginStart(s) PROVE PlanInv'
    BY <1>11, <1>2, DefaultAssumption DEF BeginStart, db, Actors
  <1>12. ASSUME NEW s \in Starters, CommitStart(s) PROVE PlanInv'
    <2>1. /\ workspace[s] \in Workspaces /\ loaded[s] \in Rows
          /\ row[workspace[s]] \in Rows /\ workspace[s] # None
      BY <1>12 DEF CommitStart, Sessions, Actors
    <2>2. Agrees(row[workspace[s]]) /\ Agrees(loaded[s])
      BY <2>1 DEF Actors
    <2>3. Agrees(Written(row[workspace[s]], loaded[s], Configured(loaded[s])))
      BY <2>1, <2>2, WrittenAgrees, UpdatesAgree, ConfiguredType
    <2>4. QED
      BY <1>1, <1>12, <2>1, <2>3 DEF CommitStart, EndSession
  <1>13. QED
    BY <1>5, <1>6, <1>7, <1>8, <1>9, <1>10, <1>11, <1>12 DEF Next

\* While plans are changed by name, a workspace always has the limit of its plan:
\* no interleaving of events, administrators and starts mixes two updates.
THEOREM PlanLimitSafe == ASSUME PlansByName PROVE Spec => []PlanAndLimitAgree
  <1>1. Init => PlanInv
    BY InitInv DEF Init, PlanInv, PlanAndLimitAgree, LoadedAgree, PlansByName
  <1>2. PlanInv /\ [Next]_vars => PlanInv'
    BY NextPlan
  <1>3. PlanInv => PlanAndLimitAgree
    BY DEF PlanInv
  <1>4. QED
    BY <1>1, <1>2, <1>3, PTL DEF Spec

-----------------------------------------------------------------------------
(* One process.                                                             *)

OneProcess == \A p, q \in Processes : p = q

\* Between its check and its update, the only process finds the event unprocessed.
Unprocessed ==
  \A p \in Processes :
    at[p] \in {"insert", "reload", "created"} => eventStatus[request[p]] # "processed"

LEMMA NextUnprocessed ==
  OneProcess /\ Inv /\ Unprocessed /\ [Next]_vars => Unprocessed'
  <1> SUFFICES ASSUME OneProcess, Inv, Unprocessed, [Next]_vars,
                      NEW p \in Processes, at'[p] \in {"insert", "reload", "created"}
               PROVE  eventStatus'[request'[p]] # "processed"
    BY DEF Unprocessed
  <1> USE ActorsAssumption
      DEF OneProcess, Inv, TypeOK, Sessions, Unprocessed, Goto, EndSession, db, session, Actors
  <1>1. CASE \E q \in Processes, e \in Events : Deliver(q, e)
    BY <1>1 DEF Deliver
  <1>2. CASE HandlerStep(p)
    BY <1>2
       DEF HandlerStep, Resolve, ResolveByCustomer, Found, Check, InsertEvent, InsertRaises,
           InsertConflict, Reload, MarkFailed, Apply, MarkProcessed, Answer
  <1>3. CASE \E d \in Admins : BeginUpdate(d) \/ CommitUpdate(d)
    BY <1>3 DEF BeginUpdate, CommitUpdate
  <1>4. CASE \E a \in Actors : Fails(a)
    BY <1>4 DEF Fails
  <1>5. CASE Finished \/ UNCHANGED vars
    BY <1>5 DEF Finished, vars
  <1>6. CASE \E s \in Starters : BeginStart(s) \/ CommitStart(s)
    BY <1>6 DEF BeginStart, CommitStart
  <1>7. QED
    BY <1>1, <1>2, <1>3, <1>4, <1>5, <1>6 DEF Next

\* With one API process, an event that was processed is never applied again.
THEOREM OnceProcessed == ASSUME OneProcess PROVE Spec => DuplicatesIgnored
  <1> DEFINE Quiet == \A p \in Processes :
                        at[p] = "created" /\ at'[p] = "applied"
                          => eventStatus[request[p]] # "processed"
  <1>1. Init => Unprocessed
    BY DEF Init, Unprocessed, Actors
  <1>2. Inv /\ Unprocessed /\ [Next]_vars => Unprocessed'
    BY NextUnprocessed
  <1>3. Unprocessed /\ [Next]_vars => [Quiet]_vars
    BY DEF Unprocessed
  <1>4. QED
    BY <1>1, <1>2, <1>3, Invariance, PTL DEF Spec, DuplicatesIgnored

\* What routes.py:1051 relies on: an event that says processed goes on saying so.
ProcessedStays ==
  [][\A e \in Events : eventStatus[e] = "processed" => eventStatus'[e] = "processed"]_vars

\* With one API process, a late failure of an earlier delivery never takes the status of
\* a processed event back, which would let it through again.
THEOREM ProcessedIsFinal == ASSUME OneProcess PROVE Spec => ProcessedStays
  <1> DEFINE Stays == \A e \in Events :
                        eventStatus[e] = "processed" => eventStatus'[e] = "processed"
  <1>1. Init => Unprocessed
    BY DEF Init, Unprocessed, Actors
  <1>2. Inv /\ Unprocessed /\ [Next]_vars => Unprocessed'
    BY NextUnprocessed
  <1>3. Inv /\ Unprocessed /\ [Next]_vars => [Stays]_vars
    <2> SUFFICES ASSUME Inv, Unprocessed, [Next]_vars, eventStatus' # eventStatus
                 PROVE  Stays
      BY DEF vars, db
    <2>1. PICK p \in Processes : InsertEvent(p) \/ MarkFailed(p) \/ MarkProcessed(p)
      BY DEF Next, Deliver, HandlerStep, Resolve, ResolveByCustomer, Check, InsertRaises,
             InsertConflict, Reload, Apply, Answer, BeginUpdate, CommitUpdate, BeginStart,
             CommitStart, Fails, Finished, vars, db
    <2>2. eventStatus \in [Events -> EventStatuses \union {"none"}]
      BY DEF Inv, TypeOK
    <2>3. QED
      BY <2>1, <2>2 DEF InsertEvent, MarkFailed, MarkProcessed, Mark, Unprocessed
  <1>4. QED
    BY <1>1, <1>2, <1>3, Invariance, PTL DEF Spec, ProcessedStays

-----------------------------------------------------------------------------
(* Links between Stripe ids and workspaces.                                 *)

Accounts == [customer : Ids \union {None}, subscription : Ids \union {None}]

\* Event e is about workspace w, whose account at Stripe is acct[w]: it names w, or
\* names no workspace and carries an id of the account.
Concerns(acct, e, w) ==
  \/ Payload[e].workspace = w
  \/ /\ Payload[e].workspace = None
     /\ \/ acct[w].subscription # None /\ Payload[e].subscription = acct[w].subscription
        \/ acct[w].customer # None /\ Payload[e].customer = acct[w].customer

\* Every workspace has one account: nobody gives it other ids, an event that names
\* a workspace that does not exist has no workspace's subscription, and
\* administrators send the ids back.
OneAccountEach(acct) ==
  /\ acct \in [Workspaces -> Accounts]
  /\ \A w \in Workspaces :
       /\ InitialRow[w].customer \in {None, acct[w].customer}
       /\ InitialRow[w].subscription \in {None, acct[w].subscription}
       /\ \A e \in Events : Concerns(acct, e, w) =>
            /\ Payload[e].customer \in {None, acct[w].customer}
            /\ Payload[e].subscription \in {None, acct[w].subscription}
       /\ \A e \in Events : Payload[e].workspace = Unknown =>
            Payload[e].subscription = None \/ Payload[e].subscription # acct[w].subscription
       /\ \A u \in AdminUpdates :
            u.customer = acct[w].customer /\ u.subscription = acct[w].subscription

Unlinked(old, new) ==
  /\ new.customer \in {None, old.customer}
  /\ new.subscription \in {None, old.subscription}

\* A row has the ids of the account or none.
RowsLinked(acct) == \A w \in Workspaces : Unlinked(acct[w], row[w])

\* Ids stay once they are there: a session has loaded those of the row, or none yet.
SessionsLinked ==
  \A a \in Actors : workspace[a] # None => Unlinked(row[workspace[a]], loaded[a])

\* The workspace a handler has found is one its event is about; what it applied is there.
HandlersLinked(acct) ==
  \A p \in Processes :
    /\ at[p] \in {"idle", "resolve", "byCustomer"} => workspace[p] = None
    /\ workspace[p] # None => Concerns(acct, request[p], workspace[p])
    /\ at[p] \in {"reload", "applied"} => workspace[p] # None
    /\ at[p] = "applied" =>
         Payload[request[p]].subscription \in {None, row[workspace[p]].subscription}
    /\ at[p] = "byCustomer" => Payload[request[p]].workspace = None
    /\ at[p] \in {"byCustomer", "check", "insert", "created"} /\ workspace[p] = None
         => ~LinkKnown(request[p])

\* What a processed event said of a workspace's subscription is in its row.
ProcessedLinked ==
  \A d \in Events :
    eventStatus[d] = "processed" /\ Payload[d].workspace \in Workspaces
      => Payload[d].subscription \in {None, row[Payload[d].workspace].subscription}

LinkInv(acct) ==
  Inv /\ RowsLinked(acct) /\ SessionsLinked /\ HandlersLinked(acct) /\ ProcessedLinked

LEMMA WrittenIds ==
  ASSUME NEW current \in Rows, NEW old \in Rows, NEW new \in Rows
  PROVE  /\ Written(current, old, new).customer
              = IF new.customer # old.customer THEN new.customer ELSE current.customer
         /\ Written(current, old, new).subscription
              = IF new.subscription # old.subscription THEN new.subscription
                ELSE current.subscription
  BY DEF Written, Rows

Grown == \A w \in Workspaces : Unlinked(row'[w], row[w])

\* A session that commits what it may say of the workspace it loaded takes no id away,
\* however old its version of the row is.
LEMMA CommitLinked ==
  ASSUME NEW acct, RowsLinked(acct), SessionsLinked, TypeOK, NEW a \in Actors,
         workspace[a] \in Workspaces, workspace[a] # None, loaded[a] \in Rows, NEW new \in Rows,
         Unlinked(acct[workspace[a]], new), Unlinked(new, loaded[a]),
         row' = [row EXCEPT ![workspace[a]] = Written(@, loaded[a], new)]
  PROVE  RowsLinked(acct)' /\ Grown /\ Unlinked(row'[workspace[a]], new)
  <1> DEFINE w == workspace[a]
  <1>1. row[w] \in Rows /\ Unlinked(acct[w], row[w]) /\ Unlinked(row[w], loaded[a])
    BY DEF TypeOK, RowsLinked, SessionsLinked
  <1>2. row'[w] = Written(row[w], loaded[a], new)
        /\ \A v \in Workspaces \ {w} : row'[v] = row[v]
    BY DEF TypeOK
  <1>3. /\ row'[w].customer = IF new.customer # loaded[a].customer THEN new.customer
                              ELSE row[w].customer
        /\ row'[w].subscription = IF new.subscription # loaded[a].subscription
                                  THEN new.subscription ELSE row[w].subscription
    BY <1>1, <1>2, WrittenIds
  <1>4. Unlinked(acct[w], row'[w]) /\ Unlinked(row'[w], row[w]) /\ Unlinked(row'[w], new)
    BY <1>1, <1>3 DEF Unlinked
  <1>5. RowsLinked(acct)'
    BY <1>2, <1>4 DEF RowsLinked
  <1>6. Grown
    BY <1>2, <1>4 DEF Grown, Unlinked
  <1>7. QED
    BY <1>4, <1>5, <1>6

\* Who only sees rows gain ids keeps what he knows.
LEMMA GrownKeeps ==
  ASSUME NEW acct, TypeOK, Grown,
         UNCHANGED eventStatus, ProcessedLinked, SessionsLinked
  PROVE  /\ ProcessedLinked'
         /\ \A a \in Actors : workspace[a] # None => Unlinked(row'[workspace[a]], loaded[a])
         /\ \A w \in Workspaces : \A id : id \in {None, row[w].subscription}
                                          => id \in {None, row'[w].subscription}
         /\ \A e : LinkKnown(e)' = LinkKnown(e)
  <1>1. \A w \in Workspaces : \A id : id \in {None, row[w].subscription}
                                      => id \in {None, row'[w].subscription}
    BY DEF Grown, Unlinked
  <1>2. ProcessedLinked'
    BY <1>1 DEF ProcessedLinked
  <1>3. ASSUME NEW a \in Actors, workspace[a] # None
        PROVE  Unlinked(row'[workspace[a]], loaded[a])
    <2>1. workspace[a] \in Workspaces
      BY <1>3 DEF TypeOK
    <2>2. Unlinked(row[workspace[a]], loaded[a]) /\ Unlinked(row'[workspace[a]], row[workspace[a]])
      BY <1>3, <2>1 DEF SessionsLinked, Grown
    <2>3. QED
      BY <2>2 DEF Unlinked
  <1>4. \A e : LinkKnown(e)' = LinkKnown(e)
    BY DEF LinkKnown
  <1>5. QED
    BY <1>1, <1>2, <1>3, <1>4

\* A session that loads a row of a workspace loads its ids, and one that ends has none.
LEMMA LoadLinked ==
  ASSUME TypeOK, SessionsLinked, UNCHANGED row, NEW a \in Actors,
         \/ EndSession(a)
         \/ \E w \in Workspaces \union {None} : Found(a, w)
         \/ UNCHANGED <<workspace, loaded>>
         \/ loaded' = [loaded EXCEPT ![a] = row[workspace[a]]] /\ UNCHANGED workspace
  PROVE  SessionsLinked'
  <1> SUFFICES ASSUME NEW b \in Actors, workspace'[b] # None
               PROVE  Unlinked(row[workspace'[b]], loaded'[b])
    BY DEF SessionsLinked, Unlinked
  <1>1. CASE workspace'[b] = workspace[b] /\ loaded'[b] = loaded[b]
    BY <1>1 DEF SessionsLinked
  <1>2. CASE loaded'[b] = row[workspace'[b]]
    BY <1>2 DEF Unlinked
  <1>3. QED
    BY <1>1, <1>2 DEF EndSession, Found, TypeOK

\* Administrators and starts.
LEMMA AdminLinked ==
  ASSUME NEW acct, OneAccountEach(acct), LinkInv(acct), NEW d,
         \/ d \in Admins /\ (BeginUpdate(d) \/ CommitUpdate(d))
         \/ d \in Starters /\ (BeginStart(d) \/ CommitStart(d))
  PROVE  RowsLinked(acct)' /\ SessionsLinked' /\ HandlersLinked(acct)' /\ ProcessedLinked'
  <1>1. /\ d \in Actors /\ d \notin Processes /\ TypeOK /\ Sessions /\ UNCHANGED eventStatus
        /\ RowsLinked(acct) /\ SessionsLinked /\ HandlersLinked(acct) /\ ProcessedLinked
    BY ActorsAssumption
       DEF Actors, LinkInv, Inv, BeginUpdate, CommitUpdate, BeginStart, CommitStart, db
  <1>2. \A p \in Processes :
          at'[p] = at[p] /\ workspace'[p] = workspace[p] /\ request'[p] = request[p]
    BY <1>1 DEF BeginUpdate, CommitUpdate, BeginStart, CommitStart, Goto, Found, EndSession, TypeOK, Actors
  <1>3. RowsLinked(acct)' /\ Grown /\ SessionsLinked'
    <2>1. CASE BeginUpdate(d) \/ BeginStart(d)
      <3>1. UNCHANGED row /\ \E w \in Workspaces \union {None} : Found(d, w)
        BY <2>1, DefaultAssumption DEF BeginUpdate, BeginStart, db
      <3>2. QED
        BY <1>1, <3>1, LoadLinked DEF RowsLinked, Grown, Unlinked
    <2>2. CASE (CommitUpdate(d) /\ d \in Admins) \/ (CommitStart(d) /\ d \in Starters)
      <3>1. /\ workspace[d] \in Workspaces /\ loaded[d] \in Rows /\ workspace[d] # None
            /\ d \in Admins => request[d] \in AdminUpdates
        BY <1>1, <2>2, NoneAssumption
           DEF CommitUpdate, CommitStart, Sessions, TypeOK, Actors
      <3>2. Unlinked(acct[workspace[d]], loaded[d])
        BY <1>1, <3>1 DEF RowsLinked, SessionsLinked, Unlinked
      <3>3. PICK new \in Rows :
              /\ Unlinked(acct[workspace[d]], new) /\ Unlinked(new, loaded[d])
              /\ row' = [row EXCEPT ![workspace[d]] = Written(@, loaded[d], new)]
        <4>1. CASE CommitUpdate(d) /\ d \in Admins
          <5>1. Unlinked(acct[workspace[d]], AdminUpdate(request[d], loaded[d]))
                /\ Unlinked(AdminUpdate(request[d], loaded[d]), loaded[d])
            BY <3>1, <3>2, <4>1 DEF OneAccountEach, AdminUpdate, Unlinked
          <5>2. QED
            BY <3>1, <4>1, <5>1, AdminUpdateType DEF CommitUpdate
        <4>2. CASE CommitStart(d)
          <5>1. Unlinked(acct[workspace[d]], Configured(loaded[d]))
                /\ Unlinked(Configured(loaded[d]), loaded[d])
            BY <3>1, <3>2 DEF Configured, Unlinked, Rows
          <5>2. QED
            BY <3>1, <4>2, <5>1, ConfiguredType DEF CommitStart
        <4>3. QED
          BY <2>2, <4>1, <4>2
      <3>4. RowsLinked(acct)' /\ Grown
        BY <1>1, <3>1, <3>3, CommitLinked
      <3>5. EndSession(d)
        BY <2>2 DEF CommitUpdate, CommitStart
      <3>6. SessionsLinked'
        <4>1. \A a \in Actors : workspace[a] # None => Unlinked(row'[workspace[a]], loaded[a])
          BY <1>1, <3>4, GrownKeeps
        <4>2. QED
          BY <1>1, <3>5, <4>1 DEF EndSession, SessionsLinked, TypeOK
      <3>7. QED
        BY <3>4, <3>6
    <2>3. QED
      BY <2>1, <2>2
  <1>4. /\ ProcessedLinked'
        /\ \A w \in Workspaces : \A id : id \in {None, row[w].subscription}
                                         => id \in {None, row'[w].subscription}
        /\ \A e : LinkKnown(e)' = LinkKnown(e)
    BY <1>1, <1>3, GrownKeeps
  <1>5. HandlersLinked(acct)'
    <2> SUFFICES ASSUME NEW p \in Processes
                 PROVE  /\ at[p] \in {"idle", "resolve", "byCustomer"} => workspace[p] = None
                        /\ workspace[p] # None => Concerns(acct, request[p], workspace[p])
                        /\ at[p] \in {"reload", "applied"} => workspace[p] # None
                        /\ at[p] = "applied" =>
                             Payload[request[p]].subscription \in {None, row'[workspace[p]].subscription}
                        /\ at[p] = "byCustomer" => Payload[request[p]].workspace = None
                        /\ at[p] \in {"byCustomer", "check", "insert", "created"} /\ workspace[p] = None
                             => ~LinkKnown(request[p])
      BY <1>1, <1>2 DEF HandlersLinked, Concerns, LinkKnown
    <2>1. workspace[p] \in Workspaces \union {None}
      BY <1>1 DEF TypeOK, Actors
    <2>2. at[p] = "applied" =>
            Payload[request[p]].subscription \in {None, row'[workspace[p]].subscription}
      BY <1>1, <1>4, <2>1 DEF HandlersLinked
    <2>3. QED
      BY <1>1, <1>4, <2>2 DEF HandlersLinked
  <1>6. QED
    BY <1>3, <1>4, <1>5

\* The event of a handler that found no workspace has no link among the processed.
LEMMA ResolveLinked ==
  ASSUME NEW acct, OneAccountEach(acct), LinkInv(acct), NEW p \in Processes,
         Resolve(p) \/ ResolveByCustomer(p)
  PROVE  /\ workspace'[p] # None => Concerns(acct, request[p], workspace'[p])
         /\ at'[p] = "byCustomer" => workspace'[p] = None /\ Payload[request[p]].workspace = None
         /\ at'[p] \in {"byCustomer", "check"}
         /\ workspace'[p] = None => ~LinkKnown(request[p])
  <1> DEFINE e == request[p]
             said == Payload[e]
  <1>1. /\ p \in Actors /\ e \in Events /\ said.workspace \in Workspaces \union {None, Unknown}
        /\ RowsLinked(acct) /\ HandlersLinked(acct) /\ ProcessedLinked
        /\ workspace \in [Actors -> Workspaces \union {None}]
        /\ at \in [Actors -> Labels]
    BY PayloadAssumption
       DEF LinkInv, Inv, Sessions, TypeOK, Actors, Resolve, ResolveByCustomer, Goto
  <1>2. ASSUME NEW w, Found(p, w) PROVE workspace'[p] = w
    BY <1>1, <1>2 DEF Found
  <1>3. ASSUME NEW from, NEW to, Goto(p, from, to) PROVE at[p] = from /\ at'[p] = to
    BY <1>1, <1>3 DEF Goto
  <1>4. ASSUME LinkKnown(e)
        PROVE  /\ Linked("subscription", said.subscription) # {}
               /\ said.workspace # Unknown
    <2>1. PICK d \in Events :
            /\ eventStatus[d] = "processed" /\ Payload[d].workspace \in Workspaces
            /\ Payload[d].subscription = said.subscription /\ said.subscription # None
      BY <1>4 DEF LinkKnown
    <2> DEFINE w == Payload[d].workspace
    <2>2. row[w].subscription = said.subscription
      BY <1>1, <2>1 DEF ProcessedLinked
    <2>3. acct[w].subscription = said.subscription
      BY <1>1, <2>1, <2>2 DEF RowsLinked, Unlinked
    <2>4. said.workspace # Unknown
      BY <1>1, <2>1, <2>3 DEF OneAccountEach
    <2>5. w \in Linked("subscription", said.subscription)
      BY <2>1, <2>2 DEF Linked
    <2>6. QED
      BY <2>4, <2>5
  <1>5. CASE /\ Goto(p, "resolve", "check")
             /\ said.workspace # None
             /\ Found(p, IF said.workspace = Unknown THEN None ELSE said.workspace)
    <2>1. /\ at'[p] = "check"
          /\ workspace'[p] = IF said.workspace = Unknown THEN None ELSE said.workspace
      BY <1>2, <1>3, <1>5
    <2>2. QED
      BY <1>4, <1>5, <2>1 DEF Concerns
  <1>6. CASE /\ Goto(p, "resolve", "check")
             /\ said.workspace = None
             /\ \E w \in Linked("subscription", said.subscription) : Found(p, w)
    <2>1. PICK w \in Linked("subscription", said.subscription) : Found(p, w)
      BY <1>6
    <2>2. w \in Workspaces /\ said.subscription # None /\ row[w].subscription = said.subscription
      BY <2>1 DEF Linked
    <2>3. workspace'[p] = w /\ at'[p] = "check" /\ w # None
      BY <1>2, <1>3, <1>6, <2>1, <2>2, NoneAssumption
    <2>4. acct[w].subscription = said.subscription
      BY <1>1, <2>2 DEF RowsLinked, Unlinked
    <2>5. QED
      BY <1>6, <2>2, <2>3, <2>4 DEF Concerns
  <1>7. CASE /\ Goto(p, "resolve", "byCustomer")
             /\ said.workspace = None
             /\ Linked("subscription", said.subscription) = {}
             /\ Found(p, None)
    BY <1>2, <1>3, <1>4, <1>7
  <1>8. CASE /\ Goto(p, "byCustomer", "check")
             /\ \E w \in Linked("customer", said.customer) : Found(p, w)
    <2>1. PICK w \in Linked("customer", said.customer) : Found(p, w)
      BY <1>8
    <2>2. w \in Workspaces /\ said.customer # None /\ row[w].customer = said.customer
      BY <2>1 DEF Linked
    <2>3. workspace'[p] = w /\ at[p] = "byCustomer" /\ at'[p] = "check" /\ w # None
      BY <1>2, <1>3, <1>8, <2>1, <2>2, NoneAssumption
    <2>4. acct[w].customer = said.customer /\ said.workspace = None
      BY <1>1, <2>2, <2>3 DEF RowsLinked, Unlinked, HandlersLinked
    <2>5. QED
      BY <2>2, <2>3, <2>4 DEF Concerns
  <1>9. CASE Goto(p, "byCustomer", "check") /\ Found(p, None)
    <2>1. workspace'[p] = None /\ at'[p] = "check" /\ at[p] = "byCustomer" /\ workspace[p] = None
      BY <1>1, <1>2, <1>3, <1>9 DEF HandlersLinked
    <2>2. QED
      BY <1>1, <2>1 DEF HandlersLinked
  <1>10. QED
    BY <1>5, <1>6, <1>7, <1>8, <1>9 DEF Resolve, ResolveByCustomer

\* A step of the only handler that leaves the rows and the processed events alone.
LEMMA HandlerQuiet ==
  ASSUME OneProcess, NEW acct, LinkInv(acct), NEW p \in Processes, UNCHANGED row, SessionsLinked',
         \A d \in Events : eventStatus'[d] = "processed" => eventStatus[d] = "processed",
         /\ at'[p] \in {"idle", "resolve", "byCustomer"} => workspace'[p] = None
         /\ workspace'[p] # None => Concerns(acct, request'[p], workspace'[p])
         /\ at'[p] \in {"reload", "applied"} => workspace'[p] # None
         /\ at'[p] # "applied"
         /\ at'[p] = "byCustomer" => Payload[request'[p]].workspace = None
         /\ at'[p] \in {"byCustomer", "check", "insert", "created"} /\ workspace'[p] = None
              => \A d \in Events : eventStatus[d] # "processed"
                                   \/ Payload[d].workspace \notin Workspaces
                                   \/ Payload[d].subscription # Payload[request'[p]].subscription
                                   \/ Payload[request'[p]].subscription = None
  PROVE  RowsLinked(acct)' /\ SessionsLinked' /\ HandlersLinked(acct)' /\ ProcessedLinked'
  <1>1. RowsLinked(acct)' /\ ProcessedLinked'
    BY DEF LinkInv, RowsLinked, ProcessedLinked, Unlinked
  <1>2. HandlersLinked(acct)'
    <2> SUFFICES ASSUME NEW q \in Processes PROVE q = p
      BY DEF HandlersLinked, Concerns, LinkKnown
    <2>1. QED
      BY DEF OneProcess
  <1>3. QED
    BY <1>1, <1>2

\* The update of the only handler links the workspace to what its event said.
LEMMA ApplyLinked ==
  ASSUME OneProcess, NEW acct, OneAccountEach(acct), LinkInv(acct), NEW p \in Processes, Apply(p)
  PROVE  RowsLinked(acct)' /\ SessionsLinked' /\ HandlersLinked(acct)' /\ ProcessedLinked'
  <1> DEFINE w == workspace[p]
             e == request[p]
             new == EventUpdate(e, loaded[p])
  <1>1. /\ p \in Actors /\ TypeOK /\ w \in Workspaces /\ w # None /\ loaded[p] \in Rows
        /\ e \in Events /\ UNCHANGED <<eventStatus, request, workspace, loaded>>
        /\ at[p] = "created" /\ at'[p] = "applied"
        /\ RowsLinked(acct) /\ SessionsLinked /\ HandlersLinked(acct) /\ ProcessedLinked
    BY DEF LinkInv, Inv, Sessions, TypeOK, Actors, Apply, Goto, session
  <1>2. /\ Payload[e].customer \in {None, acct[w].customer}
        /\ Payload[e].subscription \in {None, acct[w].subscription}
        /\ Unlinked(acct[w], loaded[p])
    <2>1. Concerns(acct, e, w) /\ Unlinked(acct[w], row[w]) /\ Unlinked(row[w], loaded[p])
      BY <1>1 DEF HandlersLinked, RowsLinked, SessionsLinked
    <2>2. QED
      BY <1>1, <2>1 DEF OneAccountEach, Unlinked
  <1>3. /\ Unlinked(acct[w], new) /\ Unlinked(new, loaded[p]) /\ new \in Rows
        /\ Payload[e].subscription \in {None, new.subscription}
    <2>1. new \in Rows
      BY <1>1, EventUpdateType
    <2>2. /\ new.customer = Or(Payload[e].customer, loaded[p].customer)
          /\ new.subscription = Or(Payload[e].subscription, loaded[p].subscription)
      BY DEF EventUpdate
    <2>3. QED
      BY <1>2, <2>1, <2>2 DEF Unlinked, Or
  <1>4. RowsLinked(acct)' /\ Grown /\ Unlinked(row'[w], new)
    BY <1>1, <1>3, CommitLinked DEF Apply
  <1>5. Payload[e].subscription \in {None, row'[w].subscription}
    BY <1>3, <1>4 DEF Unlinked
  <1>6. ProcessedLinked' /\ SessionsLinked'
    BY <1>1, <1>4, GrownKeeps DEF SessionsLinked
  <1>7. HandlersLinked(acct)'
    <2> SUFFICES ASSUME NEW q \in Processes
                 PROVE  /\ q = p /\ at'[p] = "applied" /\ workspace'[p] # None
                        /\ Concerns(acct, request'[p], workspace'[p])
                        /\ Payload[request'[p]].subscription
                             \in {None, row'[workspace'[p]].subscription}
      BY DEF HandlersLinked, Concerns
    <2>1. QED
      BY <1>1, <1>5 DEF OneProcess, HandlersLinked, Concerns
  <1>8. QED
    BY <1>4, <1>6, <1>7

LEMMA MarkLinked ==
  ASSUME OneProcess, NEW acct, OneAccountEach(acct), LinkInv(acct), NEW p \in Processes,
         MarkProcessed(p)
  PROVE  RowsLinked(acct)' /\ SessionsLinked' /\ HandlersLinked(acct)' /\ ProcessedLinked'
  <1>1. /\ p \in Actors /\ TypeOK /\ request[p] \in Events
        /\ UNCHANGED <<row, request, workspace, loaded>>
        /\ at[p] = "applied" /\ at'[p] = "answer"
        /\ RowsLinked(acct) /\ SessionsLinked /\ HandlersLinked(acct) /\ ProcessedLinked
    BY DEF LinkInv, Inv, Sessions, TypeOK, Actors, MarkProcessed, Goto, session
  <1>2. \A d \in Events \ {request[p]} : eventStatus'[d] = eventStatus[d]
    BY <1>1 DEF MarkProcessed, Mark, TypeOK
  <1>3. Payload[request[p]].workspace \in Workspaces
          => Payload[request[p]].subscription
               \in {None, row[Payload[request[p]].workspace].subscription}
    <2> SUFFICES ASSUME Payload[request[p]].workspace \in Workspaces
                 PROVE  Payload[request[p]].workspace = workspace[p]
      BY <1>1 DEF HandlersLinked
    <2>1. QED
      BY <1>1, NoneAssumption DEF HandlersLinked, Concerns
  <1>4. RowsLinked(acct)' /\ SessionsLinked' /\ ProcessedLinked'
    BY <1>1, <1>2, <1>3 DEF RowsLinked, SessionsLinked, ProcessedLinked, Unlinked
  <1>5. HandlersLinked(acct)'
    BY <1>1 DEF HandlersLinked, OneProcess, Concerns
  <1>6. QED
    BY <1>4, <1>5

LEMMA HandlerLinked ==
  ASSUME OneProcess, NEW acct, OneAccountEach(acct), LinkInv(acct), NEW p \in Processes,
         HandlerStep(p) \/ Fails(p) \/ \E e \in Events : Deliver(p, e)
  PROVE  RowsLinked(acct)' /\ SessionsLinked' /\ HandlersLinked(acct)' /\ ProcessedLinked'
  <1>1. /\ p \in Actors /\ TypeOK /\ SessionsLinked /\ HandlersLinked(acct)
        /\ at[p] # "idle" => request[p] \in Events
    BY DEF LinkInv, Inv, Sessions, Actors
  <1>2. CASE /\ EndSession(p) /\ UNCHANGED row
             /\ \A d \in Events : eventStatus'[d] = "processed" => eventStatus[d] = "processed"
    <2>1. SessionsLinked'
      BY <1>1, <1>2, LoadLinked
    <2>2. at'[p] = "idle" /\ workspace'[p] = None
      BY <1>1, <1>2 DEF EndSession, TypeOK
    <2>3. QED
      BY <1>2, <2>1, <2>2, HandlerQuiet
  <1>3. CASE Resolve(p) \/ ResolveByCustomer(p)
    <2>1. /\ UNCHANGED <<row, eventStatus, request>>
          /\ \E w \in Workspaces \union {None} : Found(p, w)
      BY <1>1, <1>3, PayloadAssumption
         DEF Resolve, ResolveByCustomer, Linked, Goto, db
    <2>2. SessionsLinked'
      BY <1>1, <2>1, LoadLinked
    <2>3. QED
      BY <1>3, <2>1, <2>2, ResolveLinked, HandlerQuiet DEF LinkKnown
  <1>4. CASE Reload(p)
    <2>1. SessionsLinked'
      BY <1>1, <1>4, LoadLinked DEF Reload, db
    <2>2. at'[p] = "created" /\ workspace'[p] # None /\ UNCHANGED <<row, eventStatus, request, workspace>>
      BY <1>1, <1>4 DEF Reload, Goto, db, TypeOK, HandlersLinked
    <2>3. QED
      BY <1>1, <2>1, <2>2, HandlerQuiet DEF HandlersLinked
  <1>5. CASE \/ Check(p) \/ InsertEvent(p) \/ InsertConflict(p)
             \/ \E e \in Events : Deliver(p, e)
    <2>1. /\ UNCHANGED <<row, workspace, loaded>>
          /\ \A d \in Events : eventStatus'[d] = "processed" => eventStatus[d] = "processed"
      BY <1>1, <1>5 DEF Check, InsertEvent, InsertConflict, Deliver, db, session, TypeOK
    <2>2. SessionsLinked'
      BY <1>1, <2>1, LoadLinked
    <2>3. CASE \E e \in Events : Deliver(p, e)
      <3>1. at'[p] = "resolve" /\ workspace'[p] = None
        BY <1>1, <2>1, <2>3 DEF Deliver, Goto, TypeOK, HandlersLinked
      <3>2. QED
        BY <2>1, <2>2, <3>1, HandlerQuiet
    <2>4. CASE Check(p) \/ InsertEvent(p) \/ InsertConflict(p)
      <3>1. /\ at[p] \in {"check", "insert"} /\ at'[p] \in {"insert", "created", "reload", "answer"}
            /\ at'[p] = "reload" => workspace[p] # None
            /\ UNCHANGED request
        BY <1>1, <2>4 DEF Check, InsertEvent, InsertConflict, Goto, session, TypeOK
      <3>2. QED
        BY <1>1, <2>1, <2>2, <3>1, HandlerQuiet DEF HandlersLinked, LinkKnown
    <2>5. QED
      BY <1>5, <2>3, <2>4
  <1>6. CASE InsertRaises(p) \/ MarkFailed(p) \/ Answer(p) \/ Fails(p)
    <2>1. /\ EndSession(p) /\ UNCHANGED row
          /\ \A d \in Events : eventStatus'[d] = "processed" => eventStatus[d] = "processed"
      BY <1>1, <1>6 DEF InsertRaises, MarkFailed, Mark, Answer, Fails, db, TypeOK
    <2>2. QED
      BY <1>2, <2>1
  <1>7. QED
    BY <1>3, <1>4, <1>5, <1>6, ApplyLinked, MarkLinked DEF HandlerStep

\* With one API process, one account for each workspace, and administrators who do
\* not erase the ids, an event of a subscription that a processed event linked to a
\* workspace finds it, whatever fails and in whatever order events arrive.
THEOREM LinksResolve ==
  ASSUME OneProcess, NEW acct, OneAccountEach(acct)
  PROVE  Spec => []LinkedEventsResolve
  <1>1. Init => LinkInv(acct)
    BY InitInv, InitialRowAssumption
       DEF Init, LinkInv, RowsLinked, SessionsLinked, HandlersLinked, ProcessedLinked, Unlinked,
           OneAccountEach, Actors
  <1>2. LinkInv(acct) /\ [Next]_vars => LinkInv(acct)'
    <2> SUFFICES ASSUME LinkInv(acct), [Next]_vars
                 PROVE  RowsLinked(acct)' /\ SessionsLinked' /\ HandlersLinked(acct)' /\ ProcessedLinked'
      BY NextInv DEF LinkInv
    <2>1. ASSUME NEW d \in Admins \union Starters, Fails(d)
          PROVE  RowsLinked(acct)' /\ SessionsLinked' /\ HandlersLinked(acct)' /\ ProcessedLinked'
      <3>1. /\ d \in Actors /\ d \notin Processes /\ UNCHANGED <<row, eventStatus>>
            /\ SessionsLinked /\ EndSession(d) /\ TypeOK
        BY <2>1, ActorsAssumption DEF Actors, Fails, db, LinkInv, Inv
      <3>2. SessionsLinked'
        BY <3>1, LoadLinked
      <3>3. \A p \in Processes :
              at'[p] = at[p] /\ workspace'[p] = workspace[p] /\ request'[p] = request[p]
        BY <3>1 DEF EndSession, TypeOK, Actors
      <3>4. QED
        BY <3>1, <3>2, <3>3
           DEF LinkInv, RowsLinked, HandlersLinked, ProcessedLinked, Concerns, LinkKnown, Unlinked
    <2>2. CASE Finished \/ UNCHANGED vars
      <3>1. UNCHANGED vars
        BY <2>2 DEF Finished
      <3>2. QED
        BY <3>1
           DEF vars, LinkInv, RowsLinked, SessionsLinked, HandlersLinked, ProcessedLinked, Concerns,
               LinkKnown, Unlinked
    <2>3. QED
      BY <2>1, <2>2, HandlerLinked, AdminLinked DEF Next, Actors
  <1>3. LinkInv(acct) => LinkedEventsResolve
    BY DEF LinkInv, HandlersLinked, LinkedEventsResolve
  <1>4. QED
    BY <1>1, <1>2, <1>3, PTL DEF Spec
=============================================================================
