--------------------------- MODULE AccountsProofs ---------------------------
(***************************************************************************)
(* Proofs about Accounts, for every number of threads, users, workspaces   *)
(* and loads.                                                              *)
(***************************************************************************)
EXTENDS Accounts, FiniteSetTheorems, TLAPS

Busy(c) == at[c] \in {"count", "save", "confirm", "start"}

SameAttributes(r, s) == r.role = s.role /\ r.workspace = s.workspace /\ r.active = s.active

\* What the object that a thread has loaded may be.
Sessions ==
  \A c \in Callers :
    /\ Busy(c) => who[c] \in Users /\ object[c] \in Rows /\ object[c].password <= loads
    /\ Busy(c) /\ loaded[c] # None => row[who[c]] # None
    /\ at[c] = "count" => loaded[c] # None /\ object[c].password = loaded[c].password
    /\ at[c] = "confirm" => /\ loaded[c] # None /\ SetsPassword(c)
                            /\ token[c] \in sent /\ token[c].user = who[c]
    /\ at[c] # "confirm" => token[c] = None
    /\ at[c] = "start" => object[c].active
    /\ at[c] \in {"save", "confirm"} /\ ~SetsAttributes(c) => SameAttributes(object[c], loaded[c])

\* A hash in the table or in a token was made for an earlier load.
HashesOld ==
  /\ \A u \in Users : row[u] # None => row[u].password <= loads
  /\ \A t \in sent : t.password <= loads

Inv == TypeOK /\ Sessions /\ HashesOld

\* What the handlers and starts load: t, label, u and r are as in LoadWith.
Loadable(t, label, u, r) ==
  /\ u \in Users /\ r \in Rows
  /\ label \in {"count", "save", "confirm", "start"}
  /\ IF label = "count" THEN row[u] # None /\ r.password = row[u].password
     ELSE r.password = NewHash
  /\ IF label = "confirm" THEN row[u] # None /\ t \in sent /\ t.user = u /\ Accepts(t)
     ELSE t = None
  /\ label = "start" => r.active
  /\ IF label \in {"save", "confirm"} /\ row[u] # None THEN SameAttributes(r, row[u])
     ELSE r.role = "client" <=> r.workspace # None

Loads(c) ==
  CreateLoads(c) \/ UpdateLoads(c) \/ ResetLoads(c) \/ ConfirmLoads(c) \/ StartLoads(c)

-----------------------------------------------------------------------------
(* Sessions.                                                                *)

LEMMA UserType ==
  ASSUME NEW role \in Roles, NEW w \in Workspaces \union {None}, NEW active \in BOOLEAN,
         NEW hash \in Passwords, role = "client" => w \in Workspaces
  PROVE  /\ User(role, w, active, hash) \in Rows
         /\ User(role, w, active, hash).role = "client"
              <=> User(role, w, active, hash).workspace # None
         /\ User(role, w, active, hash).password = hash
         /\ User(role, w, active, hash).active = active
  BY NoneAssumption DEF User, Rows

LEMMA RowType ==
  ASSUME TypeOK, NEW u \in Users, row[u] # None
  PROVE  row[u] \in Rows /\ row[u].password \in Passwords
  BY DEF TypeOK, Rows

LEMMA LoadsLoadable ==
  ASSUME Inv, NEW c \in Callers, Loads(c)
  PROVE  \E t, label, u, r : LoadWith(t, c, label, u, r) /\ Loadable(t, label, u, r)
  <1> SUFFICES ASSUME loads < MaxLoads, NewHash \in Passwords
               PROVE  \E t, label, u, r : LoadWith(t, c, label, u, r) /\ Loadable(t, label, u, r)
    <2>1. loads < MaxLoads
      BY DEF Loads, CreateLoads, UpdateLoads, ResetLoads, ConfirmLoads, StartLoads, Load, LoadWith
    <2>2. NewHash \in Passwords
      BY <2>1, BoundAssumption DEF Inv, TypeOK, NewHash, Passwords
    <2>3. QED
      BY <2>1, <2>2
  <1>1. CASE CreateLoads(c)
    <2>1. PICK u \in Users, role \in Roles, w \in Workspaces, active \in BOOLEAN :
            row[u] = None /\ Load(c, "save", u, User(role, w, active, NewHash))
      BY <1>1 DEF CreateLoads
    <2>2. Loadable(None, "save", u, User(role, w, active, NewHash))
      BY <2>1, UserType DEF Loadable
    <2>3. QED
      BY <2>1, <2>2 DEF Load
  <1>2. CASE UpdateLoads(c)
    <2>1. PICK u \in Users, role \in Roles, w \in Workspaces, active \in BOOLEAN :
            row[u] # None /\ Load(c, "count", u, User(role, w, active, row[u].password))
      BY <1>2 DEF UpdateLoads
    <2>2. Loadable(None, "count", u, User(role, w, active, row[u].password))
      BY <2>1, UserType, RowType DEF Loadable, Inv
    <2>3. QED
      BY <2>1, <2>2 DEF Load
  <1>3. CASE ResetLoads(c)
    <2>1. PICK u \in Users :
            row[u] # None /\ Load(c, "save", u, [row[u] EXCEPT !.password = NewHash])
      BY <1>3 DEF ResetLoads
    <2>2. Loadable(None, "save", u, [row[u] EXCEPT !.password = NewHash])
      BY <2>1, RowType DEF Loadable, Inv, SameAttributes, Rows
    <2>3. QED
      BY <2>1, <2>2 DEF Load
  <1>4. CASE ConfirmLoads(c)
    <2>1. PICK t \in sent :
            /\ Accepts(t)
            /\ LoadWith(t, c, "confirm", t.user, [row[t.user] EXCEPT !.password = NewHash])
      BY <1>4 DEF ConfirmLoads
    <2>2. t.user \in Users /\ t.password \in Passwords
      BY DEF Inv, TypeOK, Tokens
    <2>3. row[t.user] # None
      BY <2>1, <2>2 DEF Accepts
    <2>4. Loadable(t, "confirm", t.user, [row[t.user] EXCEPT !.password = NewHash])
      BY <2>1, <2>2, <2>3, RowType DEF Loadable, Inv, SameAttributes, Rows
    <2>5. QED
      BY <2>1, <2>4
  <1>5. CASE StartLoads(c)
    <2>1. /\ DefaultAdmin \in Users /\ DefaultClient \in Users
          /\ DefaultWorkspace \in Workspaces
      BY DefaultsAssumption
    <2>2. Loadable(None, "start", DefaultAdmin, User("admin", None, TRUE, NewHash))
      BY <2>1, NoneAssumption DEF Loadable, User, Rows, Roles
    <2>3. Loadable(None, "start", DefaultClient, User("client", DefaultWorkspace, TRUE, NewHash))
      BY <2>1, NoneAssumption DEF Loadable, User, Rows, Roles
    <2>4. QED
      BY <1>5, <2>2, <2>3 DEF StartLoads, Load
  <1>6. QED
    BY <1>1, <1>2, <1>3, <1>4, <1>5 DEF Loads

LEMMA ResultType ==
  ASSUME Inv, NEW c \in Callers, Busy(c)
  PROVE  /\ Result(c) \in Rows
         /\ Result(c).password
              = IF SetsPassword(c) THEN object[c].password ELSE row[who[c]].password
         /\ Inserts(c) => Result(c) = object[c]
  <1>1. object[c] \in Rows /\ (~Inserts(c) => row[who[c]] \in Rows)
    BY RowType DEF Inv, Sessions, Inserts
  <1>2. QED
    BY <1>1 DEF Result, SetsPassword, Inserts, Rows

LEMMA LoadInv ==
  ASSUME Inv, NEW c \in Callers, NEW t, NEW label, NEW u, NEW r,
         LoadWith(t, c, label, u, r), Loadable(t, label, u, r)
  PROVE  Inv'
  <1>1. loads \in Nat /\ loads' = loads + 1 /\ loads' \in 0 .. MaxLoads
    BY BoundAssumption DEF LoadWith, Inv, TypeOK
  <1>2. row[u] # None => row[u].password <= MaxLoads
    BY RowType, BoundAssumption DEF Loadable, Inv, Passwords
  <1>3. TypeOK'
    BY <1>1 DEF Inv, TypeOK, LoadWith, Loadable, Labels, history
  <1>4. Sessions'
    <2>1. row' = row /\ sent' = sent
      BY DEF LoadWith
    <2>2. /\ at'[c] = label /\ who'[c] = u /\ loaded'[c] = row[u] /\ token'[c] = t
          /\ object'[c] = r
      BY DEF Inv, TypeOK, LoadWith
    <2>3. r.password <= loads'
      BY <1>1, RowType DEF Loadable, NewHash, Inv, HashesOld, Passwords
    <2>4. row[u] # None /\ label # "count" => r.password # row[u].password
      BY <1>1, RowType DEF Loadable, NewHash, Inv, HashesOld, Passwords
    <2>5. ASSUME NEW d \in Callers, d # c
          PROVE  /\ at'[d] = at[d] /\ who'[d] = who[d] /\ loaded'[d] = loaded[d]
                 /\ token'[d] = token[d] /\ object'[d] = object[d]
      BY <2>5 DEF Inv, TypeOK, LoadWith
    <2>6. ASSUME NEW d \in Callers, d # c, Busy(d) PROVE object[d].password <= loads'
      BY <1>1, <2>6 DEF Inv, Sessions, Rows, Passwords
    <2>7. QED
      BY <2>1, <2>2, <2>3, <2>4, <2>5, <2>6
         DEF Inv, Sessions, Loadable, Busy, SetsPassword, SetsAttributes, Inserts, SameAttributes
  <1>5. HashesOld'
    BY <1>1, RowType DEF Inv, HashesOld, LoadWith, TypeOK, Tokens, Passwords
  <1>6. QED
    BY <1>3, <1>4, <1>5 DEF Inv

LEMMA CommitInv ==
  ASSUME Inv, NEW c \in Callers, Commit(c)
  PROVE  Inv'
  <1> DEFINE u == who[c]
  <1>1. Busy(c) /\ u \in Users /\ object[c].password \in 0 .. MaxLoads /\ Result(c) \in Rows
    BY ResultType, BoundAssumption DEF Commit, Busy, Inv, Sessions, Rows, Passwords
  <1>2. at[c] = "confirm" => token[c] \in Tokens
    BY DEF Inv, TypeOK, Sessions
  <1>3. latest' \in [Users -> 0 .. MaxLoads] /\ used' \subseteq Tokens
    BY <1>1, <1>2 DEF Commit, Record, Inv, TypeOK
  <1>4. mixed' \subseteq Users /\ unguarded' \in BOOLEAN
    BY <1>1 DEF Commit, Record, Inv, TypeOK
  <1>5. TypeOK'
    BY <1>1, <1>3, <1>4 DEF Commit, Leave, Inv, TypeOK, Labels
  <1>6. row'[u] # None /\ \A v \in Users : row[v] # None => row'[v] # None
    BY <1>1, NoneAssumption DEF Commit, Inv, TypeOK
  <1>7. Sessions'
    BY <1>6 DEF Commit, Leave, Inv, TypeOK, Sessions, Busy, SetsPassword, SetsAttributes,
                Inserts, SameAttributes
  <1>8. HashesOld'
    BY <1>1, ResultType DEF Commit, Inv, TypeOK, HashesOld, Sessions, SetsPassword, Inserts
  <1>9. QED
    BY <1>5, <1>7, <1>8 DEF Inv

LEMMA CountInv ==
  ASSUME Inv, NEW c \in Callers, UpdateCounts(c)
  PROVE  Inv'
  <1>1. unguarded' \in BOOLEAN
    BY DEF UpdateCounts, Inv, TypeOK, Leave
  <1>2. at[c] = "count" /\ loaded[c] # None /\ ~SetsPassword(c)
    BY DEF UpdateCounts, Inv, Sessions, SetsPassword, Inserts
  <1>3. QED
    BY <1>1, <1>2 DEF UpdateCounts, Leave, Inv, TypeOK, HashesOld, Sessions, Busy, SetsPassword, SetsAttributes,
         Inserts, SameAttributes, Labels

LEMMA OtherInv ==
  ASSUME Inv,
         (\E c \in Callers : Abandon(c)) \/ (\E u \in Users : Request(u)) \/ UNCHANGED vars
  PROVE  Inv'
  <1>1. ASSUME NEW c \in Callers, Abandon(c) PROVE Inv'
    BY <1>1 DEF Abandon, Leave, history, Inv, TypeOK, HashesOld, Sessions, Busy, SetsPassword,
                SetsAttributes, Inserts, SameAttributes, Labels
  <1>2. ASSUME NEW u \in Users, Request(u) PROVE Inv'
    <2>1. [user |-> u, password |-> row[u].password] \in Tokens
      BY <1>2, RowType DEF Request, Inv, Tokens
    <2>2. QED
      BY <1>2, <2>1 DEF Request, session, history, Inv, TypeOK, HashesOld, Sessions, Busy, SetsPassword,
                        SetsAttributes, Inserts
  <1>3. CASE UNCHANGED vars
    BY <1>3 DEF vars, session, history, Inv, TypeOK, HashesOld, Sessions, Busy, SetsPassword,
                SetsAttributes, Inserts
  <1>4. QED
    BY <1>1, <1>2, <1>3

LEMMA InitInv == Init => Inv
  <1> SUFFICES ASSUME Init PROVE Inv
    OBVIOUS
  <1>1. TypeOK
    <2>1. row \in [Users -> Rows \union {None}] /\ sent \subseteq Tokens /\ loads \in 0 .. MaxLoads
      BY BoundAssumption DEF Init
    <2>2. at \in [Callers -> Labels] /\ mixed \subseteq Users /\ unguarded \in BOOLEAN
      BY DEF Init, Labels
    <2>3. latest \in [Users -> 0 .. MaxLoads] /\ used \subseteq Tokens
      BY BoundAssumption DEF Init
    <2>4. QED
      BY <2>1, <2>2, <2>3 DEF Init, TypeOK
  <1>2. Sessions
    BY DEF Init, Sessions, Busy
  <1>3. HashesOld
    BY DEF Init, HashesOld
  <1>4. QED
    BY <1>1, <1>2, <1>3 DEF Inv

LEMMA NextCases ==
  ASSUME [Next]_vars
  PROVE  \/ \E c \in Callers : Loads(c) \/ UpdateCounts(c) \/ Commit(c)
         \/ (\E c \in Callers : Abandon(c)) \/ (\E u \in Users : Request(u)) \/ UNCHANGED vars
  BY DEF Next, CallerStep, Loads

LEMMA NextInv == Inv /\ [Next]_vars => Inv'
  <1> SUFFICES ASSUME Inv, [Next]_vars PROVE Inv'
    OBVIOUS
  <1>1. ASSUME NEW c \in Callers, Loads(c) PROVE Inv'
    BY <1>1, LoadsLoadable, LoadInv
  <1>2. QED
    BY <1>1, NextCases, CountInv, CommitInv, OtherInv

\* The users table, the reset tokens and the sessions keep their types.
THEOREM TypeSafe == Spec => []TypeOK
  BY InitInv, NextInv, PTL DEF Spec, Inv

-----------------------------------------------------------------------------
(* Passwords and membership.                                                *)

StandInv == Inv /\ PasswordStands

\* What was set last stands, whatever a concurrent update had loaded before.
THEOREM PasswordsStand == Spec => []PasswordStands
  <1>1. Init => StandInv
    BY InitInv DEF Init, StandInv, PasswordStands
  <1>2. StandInv /\ [Next]_vars => StandInv'
    <2> SUFFICES ASSUME StandInv, [Next]_vars PROVE PasswordStands'
      BY NextInv DEF StandInv
    <2>1. ASSUME NEW c \in Callers, Commit(c) PROVE PasswordStands'
      <3>1. Busy(c) /\ who[c] \in Users /\ (~SetsPassword(c) => row[who[c]] # None)
        BY <2>1 DEF Commit, Busy, StandInv, Inv, Sessions, SetsPassword, Inserts
      <3>2. row' = [row EXCEPT ![who[c]] = Result(c)]
        BY <2>1 DEF Commit
      <3>3. latest' = IF SetsPassword(c) THEN [latest EXCEPT ![who[c]] = object[c].password]
                      ELSE latest
        BY <2>1 DEF Commit, Record
      <3>4. QED
        BY <3>1, <3>2, <3>3, ResultType DEF StandInv, Inv, TypeOK, PasswordStands
    <2>2. CASE UNCHANGED <<row, latest>>
      BY <2>2 DEF StandInv, PasswordStands
    <2>3. ASSUME NEW c \in Callers, Loads(c) PROVE UNCHANGED <<row, latest>>
      BY <2>3, LoadsLoadable DEF StandInv, LoadWith, history
    <2>4. QED
      BY <2>1, <2>2, <2>3, NextCases DEF UpdateCounts, Abandon, Request, vars, history
  <1>3. QED
    BY <1>1, <1>2, PTL DEF Spec, StandInv

Member(r) == r.role = "client" <=> r.workspace # None

MemberInv ==
  /\ Inv
  /\ MembershipValid
  /\ \A c \in Callers : Busy(c) /\ SetsAttributes(c) => Member(object[c])

LEMMA ResultMember ==
  ASSUME MemberInv, NEW c \in Callers, Busy(c), who[c] \notin mixed',
         Record(c, who[c])
  PROVE  Member(Result(c))
  <1>1. who[c] \in Users /\ object[c] \in Rows /\ (~Inserts(c) => row[who[c]] \in Rows)
    BY RowType DEF MemberInv, Inv, Sessions, Inserts
  <1>2. CASE ~SetsAttributes(c)
    <2>1. SameAttributes(object[c], loaded[c]) /\ ~Inserts(c)
      BY <1>2 DEF MemberInv, Inv, Sessions, SetsAttributes, SetsPassword, Busy
    <2>2. who[c] \notin mixed /\ Member(row[who[c]])
      BY <1>1, <1>2, <2>1, NoneAssumption
         DEF Record, MemberInv, MembershipValid, Member, Inv, Sessions, Inserts
    <2>3. QED
      BY <2>1, <2>2 DEF Result, SameAttributes, Member
  <1>3. CASE SetsAttributes(c)
    <2>1. Inserts(c) \/ ~Overwrites(c)
      BY <1>1, <1>3 DEF Record, MemberInv, Inv, TypeOK
    <2>2. Result(c).role = object[c].role /\ Result(c).workspace = object[c].workspace
      BY <1>1, <2>1 DEF Result, Overwrites
    <2>3. QED
      BY <1>3, <2>2 DEF MemberInv, Member
  <1>4. QED
    BY <1>2, <1>3

\* Only an update that overlaps another can leave a client without a workspace.
THEOREM MembershipSafe == Spec => []MembershipValid
  <1>1. Init => MemberInv
    BY InitInv DEF Init, MemberInv, MembershipValid, Busy
  <1>2. MemberInv /\ [Next]_vars => MemberInv'
    <2> SUFFICES ASSUME MemberInv, [Next]_vars PROVE MemberInv'
      OBVIOUS
    <2>1. Inv'
      BY NextInv DEF MemberInv
    <2>2. ASSUME NEW c \in Callers, Loads(c) PROVE MemberInv'
      <3>1. PICK t, label, u, r : LoadWith(t, c, label, u, r) /\ Loadable(t, label, u, r)
        BY <2>2, LoadsLoadable DEF MemberInv
      <3>2. /\ at' = [at EXCEPT ![c] = label] /\ loaded' = [loaded EXCEPT ![c] = row[u]]
            /\ object' = [object EXCEPT ![c] = r] /\ UNCHANGED <<row, mixed>>
        BY <3>1 DEF LoadWith, history
      <3>3. row[u] # None /\ label # "count" => r.password # row[u].password
        BY <3>1, RowType DEF Loadable, NewHash, MemberInv, Inv, HashesOld, Passwords, TypeOK
      <3>4. SetsAttributes(c)' => Member(r)
        BY <3>1, <3>2, <3>3
           DEF Loadable, Member, SetsAttributes, SetsPassword, Inserts, MemberInv, Inv, TypeOK
      <3>5. QED
        BY <2>1, <3>2, <3>4 DEF MemberInv, MembershipValid, Inv, TypeOK, Busy, SetsAttributes,
                                SetsPassword, Inserts
    <2>3. ASSUME NEW c \in Callers, Commit(c) PROVE MemberInv'
      <3>1. /\ Busy(c) /\ who[c] \in Users /\ row' = [row EXCEPT ![who[c]] = Result(c)]
            /\ Record(c, who[c])
        BY <2>3 DEF Commit, Busy, MemberInv, Inv, Sessions
      <3>2. mixed \ {who[c]} \subseteq mixed'
        BY <3>1 DEF Record
      <3>3. MembershipValid'
        BY <3>1, <3>2, ResultMember DEF MemberInv, MembershipValid, Member, Inv, TypeOK
      <3>4. QED
        BY <2>1, <2>3, <3>3 DEF Commit, Leave, MemberInv, Inv, TypeOK, Busy, SetsAttributes,
                                SetsPassword, Inserts
    <2>4. ASSUME NEW c \in Callers, UpdateCounts(c) PROVE MemberInv'
      <3>1. at[c] = "count" /\ SetsAttributes(c)
        BY <2>4 DEF UpdateCounts, MemberInv, Inv, Sessions, SetsAttributes, SetsPassword, Inserts
      <3>2. QED
        BY <2>1, <2>4, <3>1 DEF UpdateCounts, Leave, MemberInv, MembershipValid, Inv, TypeOK,
                                Busy, SetsAttributes, SetsPassword, Inserts
    <2>5. ASSUME NEW c \in Callers, Abandon(c) PROVE MemberInv'
      BY <2>1, <2>5 DEF Abandon, Leave, history, MemberInv, MembershipValid, Inv, TypeOK,
                        Busy, SetsAttributes, SetsPassword, Inserts
    <2>6. CASE (\E u \in Users : Request(u)) \/ UNCHANGED vars
      <3>1. UNCHANGED <<row, mixed, at, loaded, object>>
        BY <2>6 DEF Request, vars, session, history
      <3>2. QED
        BY <2>1, <3>1 DEF MemberInv, MembershipValid, Busy, SetsAttributes, SetsPassword, Inserts
    <2>7. QED
      BY <2>2, <2>3, <2>4, <2>5, <2>6, NextCases
  <1>3. QED
    BY <1>1, <1>2, PTL DEF Spec, MemberInv

-----------------------------------------------------------------------------
(* Reset tokens.                                                            *)

New(c) == Busy(c) /\ SetsPassword(c)

\* A hash that has not been committed is in no row, in no token and in no other session.
HashesFresh ==
  \A c \in Callers : New(c) =>
    /\ \A t \in sent : t.password # object[c].password
    /\ \A u \in Users : row[u] # None => row[u].password # object[c].password
    /\ \A d \in Callers \ {c} : New(d) => object[d].password # object[c].password

\* The hash of a token that was used is gone.
UsedAreDead ==
  \A t \in used :
    t \in sent /\ row[t.user] # None /\ row[t.user].password # t.password

UseInv == Inv /\ HashesFresh /\ UsedAreDead

LEMMA LoadUses ==
  ASSUME UseInv, NEW c \in Callers, Loads(c), Inv'
  PROVE  UseInv'
  <1>1. PICK t, label, u, r : LoadWith(t, c, label, u, r) /\ Loadable(t, label, u, r)
    BY LoadsLoadable DEF UseInv
  <1>2. /\ at' = [at EXCEPT ![c] = label] /\ loaded' = [loaded EXCEPT ![c] = row[u]]
        /\ object' = [object EXCEPT ![c] = r] /\ token' = [token EXCEPT ![c] = t]
        /\ UNCHANGED <<row, sent, used>> /\ u \in Users
    BY <1>1 DEF LoadWith, Loadable, history
  <1>3. New(c)' => r.password = loads + 1
    BY <1>1, <1>2 DEF Loadable, New, NewHash, SetsPassword, Inserts, UseInv, Inv, TypeOK
  <1>4. \A d \in Callers \ {c} : (New(d)' <=> New(d)) /\ object'[d] = object[d]
    BY <1>2 DEF New, Busy, SetsPassword, Inserts, UseInv, Inv, TypeOK
  <1>5. HashesFresh'
    <2>1. loads \in Nat /\ r = object'[c]
      BY <1>2 DEF UseInv, Inv, TypeOK
    <2>2. \A x \in sent : x.password <= loads /\ x.password \in Nat
      BY DEF UseInv, Inv, HashesOld, TypeOK, Tokens, Passwords
    <2>3. \A v \in Users : row[v] # None => row[v].password <= loads /\ row[v].password \in Nat
      BY RowType DEF UseInv, Inv, HashesOld, Passwords
    <2>4. \A d \in Callers : New(d) => object[d].password <= loads /\ object[d].password \in Nat
      BY DEF UseInv, Inv, Sessions, New, Rows, Passwords
    <2>5. QED
      BY <1>2, <1>3, <1>4, <2>1, <2>2, <2>3, <2>4 DEF HashesFresh, UseInv
  <1>6. UsedAreDead'
    BY <1>2 DEF UseInv, UsedAreDead
  <1>7. QED
    BY <1>5, <1>6 DEF UseInv

LEMMA CommitUses ==
  ASSUME UseInv, NEW c \in Callers, Commit(c), Inv'
  PROVE  UseInv'
  <1>1. /\ Busy(c) /\ who[c] \in Users /\ row' = [row EXCEPT ![who[c]] = Result(c)]
        /\ at'[c] \in {"idle", "next"} /\ token' = [token EXCEPT ![c] = None]
        /\ UNCHANGED sent
        /\ used' = IF at[c] = "confirm" THEN used \union {token[c]} ELSE used
    BY DEF Commit, Leave, Record, Busy, UseInv, Inv, TypeOK, Sessions
  <1>2. \A d \in Callers \ {c} : (New(d)' <=> New(d)) /\ object'[d] = object[d]
    BY DEF Commit, Leave, New, Busy, SetsPassword, Inserts, UseInv, Inv, TypeOK
  <1>3. ~New(c)'
    BY <1>1 DEF New, Busy
  <1>4. ~SetsPassword(c) => row[who[c]] # None
    BY <1>1 DEF SetsPassword, Inserts, UseInv, Inv, Sessions
  <1>5. \A v \in Users : row'[v] # None =>
          \/ row[v] # None /\ row'[v].password = row[v].password
          \/ v = who[c] /\ New(c) /\ row'[v].password = object[c].password
    BY <1>1, <1>4, ResultType DEF New, UseInv, Inv, TypeOK
  <1>6. HashesFresh'
    BY <1>1, <1>2, <1>3, <1>5 DEF UseInv, HashesFresh
  <1>7. \A v \in Users : row[v] # None \/ v = who[c] => row'[v] # None
    BY <1>1, ResultType, NoneAssumption DEF UseInv, Inv, TypeOK
  <1>8. at[c] = "confirm" => /\ token[c] \in sent /\ token[c] \in Tokens
                             /\ token[c].user = who[c] /\ New(c)
    BY <1>1 DEF UseInv, Inv, Sessions, TypeOK, New
  <1>9. UsedAreDead'
    <2> SUFFICES ASSUME NEW t \in used'
                 PROVE  t \in sent /\ row'[t.user] # None /\ row'[t.user].password # t.password
      BY <1>1 DEF UsedAreDead
    <2>1. CASE at[c] = "confirm" /\ t = token[c]
      <3>1. row'[t.user] = Result(c) /\ Result(c).password = object[c].password
        BY <1>1, <1>8, <2>1, ResultType DEF New, UseInv, Inv, TypeOK
      <3>2. QED
        BY <1>1, <1>7, <1>8, <2>1, <3>1 DEF UseInv, HashesFresh
    <2>2. CASE ~(at[c] = "confirm" /\ t = token[c])
      <3>1. t \in used
        BY <1>1, <2>2
      <3>2. t.user \in Users /\ t \in sent /\ row[t.user].password # t.password
            /\ row[t.user] # None
        BY <3>1 DEF UseInv, Inv, TypeOK, UsedAreDead, Tokens
      <3>3. QED
        BY <1>5, <1>7, <3>2 DEF UseInv, HashesFresh
    <2>3. QED
      BY <2>1, <2>2
  <1>10. QED
    BY <1>6, <1>9 DEF UseInv

LEMMA OtherUses ==
  ASSUME UseInv, Inv',
         \/ \E c \in Callers : UpdateCounts(c) \/ Abandon(c)
         \/ (\E u \in Users : Request(u)) \/ UNCHANGED vars
  PROVE  UseInv'
  <1>1. CASE \E c \in Callers : UpdateCounts(c) \/ Abandon(c)
    <2>1. PICK c \in Callers : UpdateCounts(c) \/ Abandon(c)
      BY <1>1
    <2>2. UNCHANGED <<row, sent, used>>
      BY <2>1 DEF UpdateCounts, Abandon, history
    <2>3. \A d \in Callers : New(d)' => New(d) /\ object'[d] = object[d]
      BY <2>1 DEF UpdateCounts, Abandon, Leave, New, Busy, SetsPassword, Inserts, UseInv, Inv,
                  TypeOK
    <2>4. QED
      BY <2>2, <2>3 DEF UseInv, HashesFresh, UsedAreDead
  <1>2. CASE (\E u \in Users : Request(u)) \/ UNCHANGED vars
    <2>1. UNCHANGED <<row, used, at, loaded, object, token>>
      BY <1>2 DEF Request, vars, session, history
    <2>2. \A t \in sent' : \/ t \in sent
                           \/ \E u \in Users : row[u] # None /\ t.password = row[u].password
      BY <1>2 DEF Request, vars
    <2>3. sent \subseteq sent'
      BY <1>2 DEF Request, vars
    <2>4. HashesFresh'
      BY <2>1, <2>2 DEF UseInv, HashesFresh, New, Busy, SetsPassword, Inserts
    <2>5. QED
      BY <2>1, <2>3, <2>4 DEF UseInv, UsedAreDead
  <1>3. QED
    BY <1>1, <1>2

\* A reset token that was used is refused from then on, for every number of threads,
\* users, resets, updates and starts in between.
THEOREM UsesSafe == Spec => UsedIsRefused
  <1>1. Init => UseInv
    BY InitInv DEF Init, UseInv, HashesFresh, UsedAreDead, New, Busy
  <1>2. UseInv /\ [Next]_vars => UseInv'
    <2> SUFFICES ASSUME UseInv, [Next]_vars PROVE UseInv'
      OBVIOUS
    <2>1. Inv'
      BY NextInv DEF UseInv
    <2>2. QED
      BY <2>1, NextCases, LoadUses, CommitUses, OtherUses
  <1>3. UseInv /\ [Next]_vars =>
          [\A c \in Callers : at[c] # "confirm" /\ at'[c] = "confirm" => token'[c] \notin used]_vars
    <2> SUFFICES ASSUME UseInv, [Next]_vars, NEW c \in Callers,
                        at[c] # "confirm", at'[c] = "confirm"
                 PROVE  token'[c] \notin used
      OBVIOUS
    <2>1. ASSUME NEW d \in Callers, Loads(d) PROVE token'[c] \notin used
      <3>1. PICK t, label, u, r : LoadWith(t, d, label, u, r) /\ Loadable(t, label, u, r)
        BY <2>1, LoadsLoadable DEF UseInv
      <3>2. at' = [at EXCEPT ![d] = label] /\ token' = [token EXCEPT ![d] = t]
        BY <3>1 DEF LoadWith
      <3>3. c = d /\ label = "confirm" /\ token'[c] = t
        BY <3>2 DEF UseInv, Inv, TypeOK
      <3>4. Accepts(t)
        BY <3>1, <3>3 DEF Loadable
      <3>5. QED
        BY <3>3, <3>4 DEF Accepts, UseInv, UsedAreDead
    <2>2. ASSUME NEW d \in Callers, Commit(d) \/ UpdateCounts(d) \/ Abandon(d) PROVE FALSE
      BY <2>2 DEF Commit, UpdateCounts, Abandon, Leave, UseInv, Inv, TypeOK
    <2>3. CASE (\E u \in Users : Request(u)) \/ UNCHANGED vars
      BY <2>3 DEF Request, vars, session
    <2>4. QED
      BY <2>1, <2>2, <2>3, NextCases DEF UseInv
  <1>4. QED
    BY <1>1, <1>2, <1>3, PTL DEF Spec, UsedIsRefused

-----------------------------------------------------------------------------
(* Administrators.                                                          *)

Deactivating(c) == at[c] = "save" /\ Deactivates(c)

\* Who has passed the guard leaves another administrator, and is alone past it.
AdminInv ==
  /\ Inv
  /\ ~unguarded => \A c \in Callers : Deactivating(c) =>
       /\ \E u \in Users \ {who[c]} : IsActiveAdmin(row[u])
       /\ \A d \in Callers \ {c} : ~Deactivating(d)

\* A commit that takes an active administrator away without being recorded has passed
\* the guard.
LEMMA RemovalIsGuarded ==
  ASSUME Inv, NEW c \in Callers, Commit(c), ~unguarded',
         IsActiveAdmin(row[who[c]]), ~IsActiveAdmin(Result(c))
  PROVE  Deactivating(c)
  <1>1. /\ who[c] \in Users /\ object[c] \in Rows /\ row[who[c]] \in Rows
        /\ loaded[c] # None /\ loaded[c] \in Rows /\ at[c] \in {"save", "confirm", "start"}
    BY RowType DEF Commit, Inv, TypeOK, Sessions, Busy, IsActiveAdmin, Inserts
  <1>2. object[c].role = "admin" /\ ~Overwrites(c)
    BY DEF Commit, Record
  <1>3. /\ loaded[c].role = row[who[c]].role
        /\ loaded[c].active = row[who[c]].active
    BY <1>2 DEF Overwrites
  <1>4. IsActiveAdmin(loaded[c])
    BY <1>1, <1>3 DEF IsActiveAdmin
  <1>5. Result(c) \in Rows /\ Result(c) # None
    BY <1>1, ResultType, NoneAssumption DEF Busy
  <1>6. Result(c).role = "admin"
    BY <1>1, <1>2, <1>3 DEF Result, IsActiveAdmin
  <1>7. ~Result(c).active
    BY <1>5, <1>6 DEF IsActiveAdmin
  <1>8. Result(c).active = object[c].active
    BY <1>1, <1>3 DEF Result, Inserts
  <1>9. ~object[c].active
    BY <1>7, <1>8
  <1>10. at[c] # "start"
    BY <1>9 DEF Inv, Sessions
  <1>11. at[c] # "confirm"
    BY <1>4, <1>9 DEF Inv, Sessions, SetsAttributes, Inserts, SameAttributes, IsActiveAdmin
  <1>12. QED
    BY <1>1, <1>4, <1>9, <1>10, <1>11 DEF Deactivating, Deactivates

LEMMA LoadAdmins ==
  ASSUME AdminInv, NEW c \in Callers, Loads(c), Inv'
  PROVE  AdminInv'
  <1>1. PICK t, label, u, r : LoadWith(t, c, label, u, r) /\ Loadable(t, label, u, r)
    BY LoadsLoadable DEF AdminInv
  <1>2. /\ at' = [at EXCEPT ![c] = label] /\ loaded' = [loaded EXCEPT ![c] = row[u]]
        /\ object' = [object EXCEPT ![c] = r] /\ who' = [who EXCEPT ![c] = u]
        /\ UNCHANGED <<row, unguarded>>
    BY <1>1 DEF LoadWith, history
  <1>3. ~Deactivating(c)'
    BY <1>1, <1>2 DEF Loadable, SameAttributes, Deactivating, Deactivates, IsActiveAdmin,
                      AdminInv, Inv, TypeOK
  <1>4. \A d \in Callers \ {c} : (Deactivating(d)' <=> Deactivating(d)) /\ who'[d] = who[d]
    BY <1>2 DEF Deactivating, Deactivates, AdminInv, Inv, TypeOK
  <1>5. QED
    BY <1>2, <1>3, <1>4 DEF AdminInv

LEMMA GuardLeavesOne ==
  ASSUME NEW u, Cardinality(ActiveAdmins) > 1
  PROVE  \E v \in Users \ {u} : IsActiveAdmin(row[v])
  <1> SUFFICES ASSUME ActiveAdmins \subseteq {u} PROVE FALSE
    BY DEF ActiveAdmins
  <1>1. IsFiniteSet({u}) /\ Cardinality({u}) = 1
    BY FS_Singleton
  <1>2. Cardinality(ActiveAdmins) <= 1 /\ Cardinality(ActiveAdmins) \in Nat
    BY <1>1, FS_Subset, FS_CardinalityType
  <1>3. QED
    BY <1>2

LEMMA CountAdmins ==
  ASSUME AdminInv, NEW c \in Callers, UpdateCounts(c), Inv'
  PROVE  AdminInv'
  <1>1. row' = row /\ (unguarded => unguarded')
    BY DEF UpdateCounts
  <1>2. \A d \in Callers \ {c} : (Deactivating(d)' <=> Deactivating(d)) /\ who'[d] = who[d]
    BY DEF UpdateCounts, Leave, Deactivating, Deactivates, AdminInv, Inv, TypeOK
  <1>3. CASE Guard(c)
    <2>1. (Deactivating(c)' <=> Deactivates(c)) /\ who'[c] = who[c]
      BY <1>3 DEF UpdateCounts, Deactivating, Deactivates, AdminInv, Inv, TypeOK
    <2>2. Deactivates(c) => \E u \in Users \ {who[c]} : IsActiveAdmin(row[u])
      BY <1>3, GuardLeavesOne DEF Guard
    <2>3. ~unguarded' /\ Deactivates(c) => \A d \in Callers : ~Deactivating(d)
      BY <1>3 DEF UpdateCounts, Deactivating
    <2>4. QED
      BY <1>1, <1>2, <2>1, <2>2, <2>3 DEF AdminInv
  <1>4. CASE ~Guard(c)
    <2>1. ~Deactivating(c)'
      BY <1>4 DEF UpdateCounts, Leave, Deactivating, AdminInv, Inv, TypeOK
    <2>2. QED
      BY <1>1, <1>2, <2>1 DEF AdminInv
  <1>5. QED
    BY <1>3, <1>4

LEMMA CommitAdmins ==
  ASSUME AdminInv, NEW c \in Callers, Commit(c), Inv'
  PROVE  AdminInv'
  <1>1. /\ row' = [row EXCEPT ![who[c]] = Result(c)] /\ who[c] \in Users
        /\ at'[c] # "save" /\ (unguarded => unguarded')
    BY DEF Commit, Record, Leave, Busy, AdminInv, Inv, TypeOK, Sessions
  <1>2. \A d \in Callers \ {c} : (Deactivating(d)' <=> Deactivating(d)) /\ who'[d] = who[d]
    BY DEF Commit, Leave, Deactivating, Deactivates, AdminInv, Inv, TypeOK
  <1>3. ~Deactivating(c)'
    BY <1>1 DEF Deactivating
  <1>4. ASSUME NEW d \in Callers \ {c}, Deactivating(d), ~unguarded',
               NEW u \in Users, IsActiveAdmin(row[u])
        PROVE  IsActiveAdmin(row'[u])
    <2>1. ~Deactivating(c)
      BY <1>1, <1>4 DEF AdminInv
    <2>2. row'[u] = IF u = who[c] THEN Result(c) ELSE row[u]
      BY <1>1 DEF AdminInv, Inv, TypeOK
    <2>3. QED
      BY <1>4, <2>1, <2>2, RemovalIsGuarded DEF AdminInv
  <1>5. QED
    BY <1>1, <1>2, <1>3, <1>4 DEF AdminInv

LEMMA NextAdmins == AdminInv /\ [Next]_vars => AdminInv'
  <1> SUFFICES ASSUME AdminInv, [Next]_vars PROVE AdminInv'
    OBVIOUS
  <1>1. Inv'
    BY NextInv DEF AdminInv
  <1>2. ASSUME NEW c \in Callers, Abandon(c) PROVE AdminInv'
    <2>1. UNCHANGED <<row, unguarded>> /\ ~Deactivating(c)'
      BY <1>2 DEF Abandon, Leave, history, Deactivating, AdminInv, Inv, TypeOK
    <2>2. \A d \in Callers \ {c} : (Deactivating(d)' <=> Deactivating(d)) /\ who'[d] = who[d]
      BY <1>2 DEF Abandon, Leave, Deactivating, Deactivates, AdminInv, Inv, TypeOK
    <2>3. QED
      BY <1>1, <2>1, <2>2 DEF AdminInv
  <1>3. CASE (\E u \in Users : Request(u)) \/ UNCHANGED vars
    <2>1. UNCHANGED <<row, unguarded, at, who, loaded, object>>
      BY <1>3 DEF Request, vars, session, history
    <2>2. QED
      BY <1>1, <2>1 DEF AdminInv, Deactivating, Deactivates
  <1>4. QED
    BY <1>1, <1>2, <1>3, NextCases, LoadAdmins, CountAdmins, CommitAdmins

\* The last active administrator stays, unless one is made a client or updates overlap.
THEOREM AdministratorSafe == Spec => AdministratorRemains
  <1>1. Init => AdminInv
    BY InitInv DEF Init, AdminInv, Deactivating
  <1>2. AdminInv /\ [Next]_vars => [ActiveAdmins # {} /\ ~unguarded' => ActiveAdmins' # {}]_vars
    <2> SUFFICES ASSUME AdminInv, [Next]_vars, ~unguarded',
                        NEW u \in Users, IsActiveAdmin(row[u])
                 PROVE  \E v \in Users : IsActiveAdmin(row'[v])
      BY DEF ActiveAdmins
    <2>1. ASSUME NEW c \in Callers, Commit(c) PROVE \E v \in Users : IsActiveAdmin(row'[v])
      <3>1. row' = [row EXCEPT ![who[c]] = Result(c)] /\ (unguarded => unguarded')
        BY <2>1 DEF Commit, Record
      <3>2. \A v \in Users : row'[v] = IF v = who[c] THEN Result(c) ELSE row[v]
        BY <3>1 DEF AdminInv, Inv, TypeOK
      <3>3. CASE u = who[c] /\ ~IsActiveAdmin(Result(c))
        <4>1. Deactivating(c)
          BY <2>1, <3>3, RemovalIsGuarded DEF AdminInv
        <4>2. QED
          BY <3>1, <3>2, <4>1 DEF AdminInv
      <3>4. QED
        BY <3>2, <3>3
    <2>2. CASE row' = row
      BY <2>2
    <2>3. ASSUME NEW c \in Callers, Loads(c) PROVE row' = row
      BY <2>3, LoadsLoadable DEF AdminInv, LoadWith
    <2>4. QED
      BY <2>1, <2>2, <2>3, NextCases DEF UpdateCounts, Abandon, Request, vars
  <1>3. QED
    BY <1>1, <1>2, NextAdmins, PTL DEF Spec, AdministratorRemains
=============================================================================
