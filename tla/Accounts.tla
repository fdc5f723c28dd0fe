------------------------------ MODULE Accounts ------------------------------
(***************************************************************************)
(* The users table of backend/app: the handlers of api/routes.py that      *)
(* create, update and reset users, password reset by mail, and the default *)
(* users that every start of a process writes (bootstrap.py).              *)
(*                                                                         *)
(* Each of them loads a row into its database session, checks it, assigns  *)
(* to the loaded object and commits, without a lock: other threads and     *)
(* processes commit in between.  The commit writes the columns in which    *)
(* the object differs from what was loaded, and no others.                 *)
(*                                                                         *)
(* A password hash has a fresh salt, so every hash made is a new one: a    *)
(* number that grows.  What the limits of AuthSecurity refuse, and what a  *)
(* token's expiry does, is a request that is not made.                     *)
(***************************************************************************)
EXTENDS Integers, FiniteSets

CONSTANTS
  Callers,         \* threads of all API processes
  Users,           \* e-mail addresses; the column is unique
  Workspaces,
  DefaultAdmin, DefaultClient, DefaultWorkspace,   \* settings default_*
  None,
  MaxLoads         \* bound: rows that are read to be changed

Roles == {"admin", "client"}
Passwords == 1 .. MaxLoads   \* the load that a hash was made for
Rows == [role : Roles, workspace : Workspaces \union {None}, active : BOOLEAN,
         password : Passwords]
Tokens == [user : Users, password : Passwords]

ASSUME DefaultsAssumption ==
  /\ {DefaultAdmin, DefaultClient} \subseteq Users
  /\ DefaultAdmin # DefaultClient
  /\ DefaultWorkspace \in Workspaces
ASSUME NoneAssumption == None \notin Rows \union Users \union Workspaces \union Tokens
ASSUME BoundAssumption == MaxLoads \in Nat /\ IsFiniteSet(Callers) /\ IsFiniteSet(Users)

VARIABLES
  row,        \* row[u]: the committed row of the user with address u, or None
  sent,       \* reset tokens that were issued; each names the hash it replaces
  loads,      \* number of rows read to be changed
  at,         \* at[c]: the next step of a caller
  who,        \* who[c]: the user its session works on
  loaded,     \* loaded[c]: the row as it was read, None for a row to insert
  token,      \* token[c]: the reset token that c presents, or None
  object,     \* object[c]: the session's object, to be committed
  latest,     \* history: latest[u]: the hash that was set last
  used,       \* history: tokens with which a reset was completed
  mixed,      \* history: users whose last change was committed over another one
  unguarded   \* history: an administrator went in a way the guard does not see

session == <<at, who, loaded, token, object>>
history == <<latest, used, mixed, unguarded>>
vars == <<row, sent, loads, session, history>>

Labels == {"idle", "count", "save", "confirm", "start", "next"}

Init ==
  /\ row = [u \in Users |-> None]
  /\ sent = {}
  /\ loads = 0
  /\ at = [c \in Callers |-> "idle"]
  /\ who = [c \in Callers |-> None]
  /\ loaded = [c \in Callers |-> None]
  /\ token = [c \in Callers |-> None]
  /\ object = [c \in Callers |-> None]
  /\ latest = [u \in Users |-> 0]
  /\ used = {}
  /\ mixed = {}
  /\ unguarded = FALSE

-----------------------------------------------------------------------------
(* Rows.                                                                    *)

\* A plausible bug: an administrator keeps the workspace of the request.
UserKeepsWorkspace(role, w, active, hash) ==
  [role |-> role, workspace |-> w, active |-> active, password |-> hash]

\* A plausible bug: an administrator gets an empty workspace instead of none.
UserEmptyWorkspace(role, w, active, hash) ==
  [role |-> role, workspace |-> IF role = "client" THEN w ELSE "",
   active |-> active, password |-> hash]

\* A client belongs to a workspace, an administrator to none.
User(role, w, active, hash) ==
  [role |-> role, workspace |-> IF role = "client" THEN w ELSE None,
   active |-> active, password |-> hash]

IsActiveAdmin(r) == r # None /\ r.role = "admin" /\ r.active
ActiveAdmins == {u \in Users : IsActiveAdmin(row[u])}

Inserts(c) == loaded[c] = None

\* The columns of update that c found are no longer what the row has.
Overwrites(c) ==
  \E k \in {"role", "workspace", "active"} : loaded[c][k] # row[who[c]][k]

\* A plausible bug: the session writes its whole object.
ResultWhole(c) == object[c]

\* The row once c's session has written what differs from what it loaded.
Result(c) ==
  LET Column(k) == IF Inserts(c) \/ object[c][k] # loaded[c][k]
                   THEN object[c][k] ELSE row[who[c]][k]
  IN [role |-> Column("role"), workspace |-> Column("workspace"),
      active |-> Column("active"), password |-> Column("password")]

-----------------------------------------------------------------------------
(* Requests and starts.                                                     *)

NewHash == loads + 1

\* With token t, c has read u's row, None for none, and means to commit r.
LoadWith(t, c, label, u, r) ==
  /\ loads < MaxLoads
  /\ loads' = loads + 1
  /\ at' = [at EXCEPT ![c] = label]
  /\ who' = [who EXCEPT ![c] = u]
  /\ loaded' = [loaded EXCEPT ![c] = row[u]]
  /\ token' = [token EXCEPT ![c] = t]
  /\ object' = [object EXCEPT ![c] = r]
  /\ UNCHANGED <<row, sent, history>>

Load(c, label, u, r) == LoadWith(None, c, label, u, r)

Leave(c, label) ==
  /\ at' = [at EXCEPT ![c] = label]
  /\ who' = [who EXCEPT ![c] = None]
  /\ loaded' = [loaded EXCEPT ![c] = None]
  /\ token' = [token EXCEPT ![c] = None]
  /\ object' = [object EXCEPT ![c] = None]

\* request_password_reset of an active user: a token that names the current hash.
Request(u) ==
  /\ row[u] # None
  /\ row[u].active
  /\ sent' = sent \union {[user |-> u, password |-> row[u].password]}
  /\ UNCHANGED <<row, loads, session, history>>

\* create_user of an address that is not taken.
CreateLoads(c) ==
  /\ at[c] = "idle"
  /\ \E u \in Users, role \in Roles, w \in Workspaces, active \in BOOLEAN :
       row[u] = None /\ Load(c, "save", u, User(role, w, active, NewHash))

\* update_user.
UpdateLoads(c) ==
  /\ at[c] = "idle"
  /\ \E u \in Users, role \in Roles, w \in Workspaces, active \in BOOLEAN :
       row[u] # None /\ Load(c, "count", u, User(role, w, active, row[u].password))

\* c's request takes an active administrator out of office.
Deactivates(c) == IsActiveAdmin(loaded[c]) /\ ~object[c].active

\* A plausible bug: the administrator to be deactivated is not counted.
GuardOffByOne(c) == Deactivates(c) => Cardinality(ActiveAdmins) > 0

Guard(c) == Deactivates(c) => Cardinality(ActiveAdmins) > 1

\* update_user's guard, which reads the table again.  History: another thread has
\* passed it and not committed yet.
UpdateCounts(c) ==
  /\ at[c] = "count"
  /\ IF Guard(c)
     THEN /\ at' = [at EXCEPT ![c] = "save"]
          /\ unguarded' = (unguarded \/ (Deactivates(c) /\ \E d \in Callers :
                                            at[d] = "save" /\ Deactivates(d)))
          /\ UNCHANGED <<who, loaded, token, object>>
     ELSE Leave(c, "idle") /\ UNCHANGED unguarded
  /\ UNCHANGED <<row, sent, loads, latest, used, mixed>>

\* reset_user_password.
ResetLoads(c) ==
  /\ at[c] = "idle"
  /\ \E u \in Users :
       row[u] # None /\ Load(c, "save", u, [row[u] EXCEPT !.password = NewHash])

\* A plausible bug: the token's hash is not compared with the row's.
AcceptsAny(t) == row[t.user] # None /\ row[t.user].active

Accepts(t) ==
  row[t.user] # None /\ row[t.user].active /\ row[t.user].password = t.password

\* confirm_password_reset.
ConfirmLoads(c) ==
  /\ at[c] = "idle"
  /\ \E t \in sent :
       /\ Accepts(t)
       /\ LoadWith(t, c, "confirm", t.user, [row[t.user] EXCEPT !.password = NewHash])

\* upsert_default_user for the administrator and, next, the client.
StartLoads(c) ==
  \/ /\ at[c] = "idle"
     /\ Load(c, "start", DefaultAdmin, User("admin", None, TRUE, NewHash))
  \/ /\ at[c] = "next"
     /\ Load(c, "start", DefaultClient, User("client", DefaultWorkspace, TRUE, NewHash))

SetsPassword(c) == Inserts(c) \/ object[c].password # loaded[c].password
SetsAttributes(c) == at[c] = "start" \/ ~SetsPassword(c) \/ Inserts(c)

\* What the commit of c's object for user u means for the histories.
Record(c, u) ==
  /\ latest' = IF SetsPassword(c) THEN [latest EXCEPT ![u] = object[c].password] ELSE latest
  /\ used' = IF at[c] = "confirm" THEN used \union {token[c]} ELSE used
  /\ mixed' = IF ~SetsAttributes(c) THEN mixed
              ELSE IF Inserts(c) \/ ~Overwrites(c) THEN mixed \ {u} ELSE mixed \union {u}
  /\ unguarded' = (unguarded \/ (IsActiveAdmin(row[u]) /\ ~IsActiveAdmin(Result(c))
                                 /\ (object[c].role # "admin" \/ Overwrites(c))))

\* An insert whose address is taken by now fails.
Commit(c) ==
  LET u == who[c] IN
  /\ at[c] \in {"save", "confirm", "start"}
  /\ Inserts(c) => row[u] = None
  /\ row' = [row EXCEPT ![u] = Result(c)]
  /\ Record(c, u)
  /\ Leave(c, IF at[c] = "start" /\ u = DefaultAdmin THEN "next" ELSE "idle")
  /\ UNCHANGED <<sent, loads>>

\* The request fails, the process ends, or, on an insert, the address is taken.
Abandon(c) ==
  /\ at[c] # "idle"
  /\ Leave(c, "idle")
  /\ UNCHANGED <<row, sent, loads, history>>

CallerStep(c) ==
  \/ CreateLoads(c) \/ UpdateLoads(c) \/ UpdateCounts(c) \/ ResetLoads(c)
  \/ ConfirmLoads(c) \/ StartLoads(c) \/ Commit(c) \/ Abandon(c)

Next == (\E u \in Users : Request(u)) \/ (\E c \in Callers : CallerStep(c))

Spec == Init /\ [][Next]_vars

-----------------------------------------------------------------------------
(* Properties.                                                              *)

TypeOK ==
  /\ row \in [Users -> Rows \union {None}]
  /\ sent \subseteq Tokens
  /\ loads \in 0 .. MaxLoads
  /\ at \in [Callers -> Labels]
  /\ who \in [Callers -> Users \union {None}]
  /\ loaded \in [Callers -> Rows \union {None}]
  /\ token \in [Callers -> Tokens \union {None}]
  /\ object \in [Callers -> Rows \union {None}]
  /\ latest \in [Users -> 0 .. MaxLoads]
  /\ used \subseteq Tokens
  /\ mixed \subseteq Users
  /\ unguarded \in BOOLEAN

\* A password that was set stands until another one is set: no update of a user, and
\* no start, brings back the one it had loaded.
PasswordStands == \A u \in Users : row[u] # None => row[u].password = latest[u]

\* A token with which a reset was completed never passes the check again, although
\* threads that had loaded the row before commit after the reset: none of them brings
\* back the hash that the token names.  Two confirmations that have both passed the
\* check before either commits are not prevented.
UsedIsRefused ==
  [][\A c \in Callers : at[c] # "confirm" /\ at'[c] = "confirm" => token'[c] \notin used]_vars

\* A client has a workspace and an administrator has none, unless two updates of the
\* user overlapped and the row has columns of both.
MembershipValid ==
  \A u \in Users \ mixed :
    row[u] # None => (row[u].role = "client" <=> row[u].workspace # None)

\* There remains an active administrator, as long as none is made a client, no two
\* updates of one user overlap and no two deactivations have both been counted for.
AdministratorRemains ==
  [][ActiveAdmins # {} /\ ~unguarded' => ActiveAdmins' # {}]_vars
=============================================================================
