---------------------------- MODULE AuthSecurity ----------------------------
(***************************************************************************)
(* Login and password reset limits of backend/app: the backends of         *)
(* services/auth_security.py and the handlers that ask them, user_login,   *)
(* request_password_reset and confirm_password_reset.                      *)
(*                                                                         *)
(* A store keeps sliding windows of admitted requests, failed logins and   *)
(* lockouts.  Every API process has one in its memory, behind a lock, so a *)
(* call is one step, and reads the clock in it.  Redis is one store for    *)
(* all processes; a command or script is one step, a call may need two,    *)
(* and a script is given the time that the process read before.  With the  *)
(* "auto" backend a call that Redis fails is repeated on the process's     *)
(* memory.  A handler asks, checks the password, and reports in separate   *)
(* steps.                                                                  *)
(*                                                                         *)
(* Times and lengths are counted in one unit, as short as one likes; the   *)
(* clocks of all processes and of Redis agree.                             *)
(***************************************************************************)
EXTENDS Integers, FiniteSets

CONSTANTS
  Callers,          \* threads that serve requests
  Processes,        \* API processes
  ProcessOf,        \* ProcessOf[c]: the process of a thread
  Redis,            \* the store that all processes share
  Backends,         \* values of auth_security_backend to start with
  Ips, Emails,
  Limit,            \* Limit[rule]: requests a window admits
  Window,           \* auth_rate_limit_window_seconds
  Threshold,        \* auth_login_lockout_threshold
  LockoutSeconds,   \* auth_login_lockout_seconds
  RoundedOff,       \* the end of a lockout for which Redis answers that 0 seconds remain
  FailureWindow,    \* auth_login_failure_window_seconds
  Kinds,            \* the requests that are made
  None,
  MaxTime, MaxRequests, MaxFaults   \* bounds

Rules == {"login_ip", "request_ip", "request_email", "confirm_ip"}
Stores == Processes \union {Redis}
Keys == ((Rules \ {"request_email"}) \X Ips) \union ({"request_email"} \X Emails)
Pairs == Ips \X Emails
\* What a window holds of a call: the time it was made with, and a member of its own.
\* When the call reached the store (ran) is for the properties only.
Entries == [at : 0 .. MaxTime, ran : 0 .. MaxTime, member : Nat]
Requests == [kind : Kinds, ip : Ips, email : Emails]

ASSUME CallersAssumption == IsFiniteSet(Callers) /\ Callers # {}
ASSUME StoresAssumption == Redis \notin Processes /\ ProcessOf \in [Callers -> Processes]
ASSUME BackendsAssumption ==
  /\ Backends \subseteq {"memory", "redis", "auto"}
  /\ Kinds \subseteq {"login", "request", "confirm"}
ASSUME LimitsAssumption ==
  /\ Limit \in [Rules -> Nat \ {0}]
  /\ {Window, Threshold, LockoutSeconds, FailureWindow} \subseteq Nat \ {0}
  /\ RoundedOff \in Nat /\ RoundedOff < LockoutSeconds
ASSUME BoundsAssumption == {MaxTime, MaxRequests, MaxFaults} \subseteq Nat
ASSUME NoneAssumption == None \notin Requests \union Stores \union (0 .. MaxTime)

VARIABLES
  now,
  backend,    \* which backend build_auth_security has built
  bucket,     \* bucket[<<s, k>>]: the window of key k in store s
  failures,   \* failures[<<s, p>>]: failed logins of a pair since its last lockout
  lockout,    \* lockout[<<s, p>>]: when the pair's lockout ends, or has ended
  at,         \* at[c]: the next step of a thread
  via,        \* via[c]: the store its current call is made to
  request,    \* request[c]: the request it serves
  stamp,      \* stamp[c]: now_ms, the time that c gives to its next script on Redis
  requests,   \* number of requests so far
  counted,    \* history: counted[c]: the stores and keys that admitted c's request
  admitted,   \* history: admitted[<<s, k>>]: admissions during the last window
  began,      \* history: began[<<s, p>>]: when the pair's last lockout began
  misses,     \* history: misses[<<s, p>>]: failures reported since the pair became locked
              \* out, or since its last success
  faults

stores == <<bucket, failures, lockout>>
history == <<counted, admitted, began, misses>>
vars == <<now, backend, stores, at, via, request, stamp, requests, history, faults>>

Labels == {"idle", "allow", "email", "ttl", "allowed", "register", "clear"}

Init ==
  /\ now = 0
  /\ backend \in Backends
  /\ bucket = [x \in Stores \X Keys |-> {}]
  /\ failures = [x \in Stores \X Pairs |-> {}]
  /\ lockout = [x \in Stores \X Pairs |-> 0]
  /\ at = [c \in Callers |-> "idle"]
  /\ via = [c \in Callers |-> None]
  /\ request = [c \in Callers |-> None]
  /\ stamp = [c \in Callers |-> None]
  /\ requests = 0
  /\ counted = [c \in Callers |-> {}]
  /\ admitted = [x \in Stores \X Keys |-> {}]
  /\ began = [x \in Stores \X Pairs |-> -LockoutSeconds]
  /\ misses = [x \in Stores \X Pairs |-> {}]
  /\ faults = 0

-----------------------------------------------------------------------------
(* Stores.                                                                  *)

\* What a window keeps: an entry leaves it when its age reaches the length.
Since(entries, time, length) == {e \in entries : e.at > time - length}

IpKey(r) == <<CASE r.kind = "login" -> "login_ip"
                [] r.kind = "request" -> "request_ip"
                [] r.kind = "confirm" -> "confirm_ip", r.ip>>
EmailKey(r) == <<"request_email", r.email>>
KeysOf(r) == {IpKey(r)} \union (IF r.kind = "request" THEN {EmailKey(r)} ELSE {})
Pair(r) == <<r.ip, r.email>>

\* The time a call of c is made with: memory reads the clock itself.
Moment(c) == IF via[c] = Redis THEN stamp[c] ELSE now

\* The entry of a call of c beside those of the last calls.
Entry(c, last) ==
  [at |-> Moment(c), ran |-> now,
   member |-> Cardinality({e \in last : e.at = Moment(c) /\ e.ran = now})]

\* A plausible bug: one request too many.
HasRoomOffByOne(c, k) ==
  Cardinality(Since(bucket[<<via[c], k>>], Moment(c), Window)) <= Limit[k[1]]

HasRoom(c, k) == Cardinality(Since(bucket[<<via[c], k>>], Moment(c), Window)) < Limit[k[1]]

\* A plausible bug: whether the pair is locked out is not looked at.
LockedNever(s, r) == FALSE

\* Memory compares times; Redis rounds what remains to seconds, and 0 is no lockout.
Rounded(s) == IF s = Redis THEN RoundedOff ELSE 0

\* How long the pair's lockout lasts, in the store's own clock.
Remains(s, r) == lockout[<<s, Pair(r)>>] - now

Locked(s, r) == Remains(s, r) > Rounded(s)

\* _consume_rate_limit of the keys looked at: their windows move on, and those with
\* room admit the request of c.
Consume(c, looked, admitting) ==
  LET Taken(x) == IF x[2] \in admitting THEN {Entry(c, admitted[x])} ELSE {} IN
  /\ bucket' = [x \in DOMAIN bucket |->
                  IF x[1] = via[c] /\ x[2] \in looked
                  THEN Since(bucket[x], Moment(c), Window) \union Taken(x)
                  ELSE bucket[x]]
  /\ admitted' = [x \in DOMAIN admitted |->
                    IF x[1] = via[c] THEN admitted[x] \union Taken(x) ELSE admitted[x]]

\* A plausible bug: milliseconds are given where seconds are expected.
LockUntilScaled == now + 1000 * LockoutSeconds

LockUntil == now + LockoutSeconds

\* A lockout that began in the history still lasts.
InForce(x) == now - began[x] < LockoutSeconds - Rounded(x[1])

\* register_login_failure.  Redis leaves a lockout as it is; memory counts on.
Register(c) ==
  LET s == via[c]
      x == <<s, Pair(request[c])>>
      ignored == s = Redis /\ Locked(s, request[c])
      missed == Since(failures[x], Moment(c), FailureWindow) \union {Entry(c, misses[x])}
      more == misses[x] \union {Entry(c, misses[x])}
  IN
  /\ \/ /\ ignored
        /\ UNCHANGED <<failures, lockout, began>>
        /\ misses' = [misses EXCEPT ![x] = more]
     \/ /\ ~ignored /\ Cardinality(missed) < Threshold
        /\ failures' = [failures EXCEPT ![x] = missed]
        /\ UNCHANGED <<lockout, began>>
        /\ misses' = [misses EXCEPT ![x] = more]
     \/ /\ ~ignored /\ Cardinality(missed) >= Threshold
        /\ failures' = [failures EXCEPT ![x] = {}]
        /\ lockout' = [lockout EXCEPT ![x] = LockUntil]
        /\ began' = [began EXCEPT ![x] = now]
        /\ misses' = [misses EXCEPT ![x] = IF InForce(x) THEN more ELSE {}]
  /\ UNCHANGED <<bucket, admitted>>

\* clear_login_state.
Clear(c) ==
  LET x == <<via[c], Pair(request[c])>> IN
  /\ failures' = [failures EXCEPT ![x] = {}]
  /\ lockout' = [lockout EXCEPT ![x] = 0]
  /\ began' = [began EXCEPT ![x] = -LockoutSeconds]
  /\ misses' = [misses EXCEPT ![x] = {}]
  /\ UNCHANGED <<bucket, admitted>>

-----------------------------------------------------------------------------
(* Handlers.                                                                *)

\* c has been admitted under the keys by the store it asked, and goes on.
Goto(c, label, keys) ==
  /\ at' = [at EXCEPT ![c] = label]
  /\ counted' = [counted EXCEPT ![c] = @ \union ({via[c]} \X keys)]
  /\ stamp' = [stamp EXCEPT ![c] = None]
  /\ UNCHANGED <<via, request>>

End(c) ==
  /\ at' = [at EXCEPT ![c] = "idle"]
  /\ via' = [via EXCEPT ![c] = None]
  /\ request' = [request EXCEPT ![c] = None]
  /\ stamp' = [stamp EXCEPT ![c] = None]
  /\ counted' = [counted EXCEPT ![c] = {}]

Primary(c) == IF backend = "memory" THEN ProcessOf[c] ELSE Redis

\* What a call that runs a script on Redis reads before it sends it.
Reading(c) == IF Primary(c) = Redis THEN now ELSE None

\* A request arrives, and its first call, if it goes to Redis, reads the clock.
Begin(c) ==
  /\ at[c] = "idle"
  /\ requests < MaxRequests
  /\ requests' = requests + 1
  /\ \E kind \in Kinds, ip \in Ips, email \in Emails :
       request' = [request EXCEPT ![c] = [kind |-> kind, ip |-> ip, email |-> email]]
  /\ at' = [at EXCEPT ![c] = "allow"]
  /\ via' = [via EXCEPT ![c] = Primary(c)]
  /\ stamp' = [stamp EXCEPT ![c] = Reading(c)]
  /\ UNCHANGED <<now, backend, stores, history, faults>>

\* The memory backend decides under its lock.
MemoryAllow(c) ==
  LET r == request[c] IN
  /\ at[c] = "allow"
  /\ via[c] \in Processes
  /\ \/ /\ ~HasRoom(c, IpKey(r))
        /\ Consume(c, {IpKey(r)}, {})
        /\ End(c)
     \/ /\ r.kind = "request" /\ HasRoom(c, IpKey(r)) /\ ~HasRoom(c, EmailKey(r))
        /\ Consume(c, KeysOf(r), {IpKey(r)})
        /\ End(c)
     \/ /\ r.kind = "login" /\ HasRoom(c, IpKey(r)) /\ Locked(via[c], r)
        /\ Consume(c, KeysOf(r), KeysOf(r))
        /\ End(c)
     \/ /\ \A k \in KeysOf(r) : HasRoom(c, k)
        /\ r.kind = "login" => ~Locked(via[c], r)
        /\ Consume(c, KeysOf(r), KeysOf(r))
        /\ Goto(c, "allowed", KeysOf(r))
  /\ UNCHANGED <<now, backend, failures, lockout, requests, began, misses, faults>>

\* So does the second call of a reset request, some time after the first.
ReadClock(c) ==
  /\ at[c] = "email"
  /\ stamp[c] = None
  /\ stamp' = [stamp EXCEPT ![c] = now]
  /\ UNCHANGED <<now, backend, stores, at, via, request, requests, history, faults>>

\* The key of the rate limit script that c runs on Redis next.
ScriptKey(c) == IF at[c] = "allow" THEN IpKey(request[c]) ELSE EmailKey(request[c])

RunScript(c) ==
  /\ at[c] \in {"allow", "email"}
  /\ stamp[c] # None
  /\ Consume(c, {ScriptKey(c)}, {k \in {ScriptKey(c)} : HasRoom(c, k)})
  /\ UNCHANGED <<failures, lockout, began, misses>>

\* After a script: the second window, the lockout, or the answer.
RedisAllow(c) ==
  /\ via[c] = Redis
  /\ RunScript(c)
  /\ IF ~HasRoom(c, ScriptKey(c)) THEN End(c)
     ELSE Goto(c, CASE request[c].kind = "login" -> "ttl"
                    [] request[c].kind = "request" /\ at[c] = "allow" -> "email"
                    [] OTHER -> "allowed", {ScriptKey(c)})
  /\ UNCHANGED <<now, backend, requests, faults>>

RedisTtl(c) ==
  /\ via[c] = Redis
  /\ at[c] = "ttl"
  /\ IF Locked(Redis, request[c]) THEN End(c) ELSE Goto(c, "allowed", {})
  /\ UNCHANGED <<now, backend, stores, requests, admitted, began, misses, faults>>

\* The handler goes on.  A login finds the password wrong, or right, and makes the call
\* that goes with it, or, without another call, the user inactive; the others need the
\* limits no more.
Proceed(c) ==
  /\ at[c] = "allowed"
  /\ \/ /\ request[c].kind = "login"
        /\ \E label \in {"register", "clear"} :
             /\ at' = [at EXCEPT ![c] = label]
             /\ stamp' = [stamp EXCEPT ![c] = IF label = "register" THEN Reading(c) ELSE None]
        /\ via' = [via EXCEPT ![c] = Primary(c)]
        /\ UNCHANGED <<request, counted>>
     \/ End(c)
  /\ UNCHANGED <<now, backend, stores, requests, admitted, began, misses, faults>>

Report(c) ==
  /\ \/ at[c] = "register" /\ Register(c)
     \/ at[c] = "clear" /\ Clear(c)
  /\ End(c)
  /\ UNCHANGED <<now, backend, requests, faults>>

\* A plausible bug: when Redis fails, the limits are skipped.
RedisFailsOpen(c) ==
  /\ via[c] = Redis
  /\ faults < MaxFaults
  /\ faults' = faults + 1
  /\ IF at[c] \in {"allow", "email", "ttl"} THEN Goto(c, "allowed", {}) ELSE End(c)
  /\ UNCHANGED <<now, backend, stores, requests, admitted, began, misses>>

\* Redis fails a command before or after running it.  FallbackAuthSecurity makes the
\* whole call again on the memory backend; with the "redis" backend the request ends.
RedisFails(c) ==
  /\ via[c] = Redis
  /\ at[c] # "allowed"
  /\ at[c] = "email" => stamp[c] # None
  /\ faults < MaxFaults
  /\ faults' = faults + 1
  /\ \/ UNCHANGED <<stores, admitted, began, misses>>
     \/ RunScript(c)
     \/ at[c] = "register" /\ Register(c)
     \/ at[c] = "clear" /\ Clear(c)
  /\ IF backend = "redis" THEN End(c)
     ELSE /\ via' = [via EXCEPT ![c] = ProcessOf[c]]
          /\ at' = [at EXCEPT ![c] = IF @ \in {"register", "clear"} THEN @ ELSE "allow"]
          /\ stamp' = [stamp EXCEPT ![c] = None]
          /\ UNCHANGED <<request, counted>>
  /\ UNCHANGED <<now, backend, requests>>

\* Time passes, and the histories forget what is older than the windows and lockouts.
Tick ==
  /\ now < MaxTime
  /\ now' = now + 1
  /\ admitted' = [x \in DOMAIN admitted |-> {e \in admitted[x] : now' - e.ran < Window}]
  /\ UNCHANGED <<backend, stores, at, via, request, stamp, requests, counted, began, faults>>
  /\ misses' = [x \in DOMAIN misses |->
                  {e \in misses[x] : InForce(x)' \/ now' - e.at < FailureWindow}]

CallerStep(c) ==
  \/ Begin(c) \/ MemoryAllow(c) \/ ReadClock(c) \/ RedisAllow(c) \/ RedisTtl(c) \/ Proceed(c)
  \/ Report(c) \/ RedisFails(c)

\* The bounds are reached and every request has ended.
Finished ==
  /\ now = MaxTime /\ requests = MaxRequests
  /\ \A c \in Callers : at[c] = "idle"
  /\ UNCHANGED vars

Next == Tick \/ (\E c \in Callers : CallerStep(c)) \/ Finished

Spec == Init /\ [][Next]_vars

-----------------------------------------------------------------------------
(* Properties.                                                              *)

TypeOK ==
  /\ now \in 0 .. MaxTime
  /\ backend \in Backends
  /\ bucket \in [Stores \X Keys -> SUBSET Entries]
  /\ failures \in [Stores \X Pairs -> SUBSET Entries]
  /\ lockout \in [Stores \X Pairs -> 0 .. MaxTime + LockoutSeconds]
  /\ at \in [Callers -> Labels]
  /\ via \in [Callers -> Stores \union {None}]
  /\ request \in [Callers -> Requests \union {None}]
  /\ stamp \in [Callers -> 0 .. now \union {None}]
  /\ requests \in 0 .. MaxRequests
  /\ counted \in [Callers -> SUBSET (Stores \X Keys)]
  /\ admitted \in [Stores \X Keys -> SUBSET Entries]
  /\ began \in [Stores \X Pairs -> -LockoutSeconds .. now]
  /\ misses \in [Stores \X Pairs -> SUBSET Entries]
  /\ faults \in 0 .. MaxFaults

\* Of the requests whose clock was read during the last window, a store never admits
\* more than their rule's limit, however the threads of all processes interleave, calls
\* are repeated on memory, and replies of Redis get lost.  On Redis, one more request of
\* each thread can be admitted in that time: one that had read the clock before.
WindowBound ==
  \A s \in Stores, k \in Keys :
    LET recent == admitted[<<s, k>>] IN
    /\ Cardinality({e \in recent : now - e.at < Window}) <= Limit[k[1]]
    /\ Cardinality(recent) <= Limit[k[1]] + (IF s = Redis THEN Cardinality(Callers) ELSE 0)

\* Whoever is allowed to go on was admitted under every rule of its request by one
\* store, also when Redis failed halfway through the call.
AllowedIsCounted ==
  \A c \in Callers :
    at[c] = "allowed" => \E s \in Stores : {s} \X KeysOf(request[c]) \subseteq counted[c]

\* From the moment a pair is locked out until the lockout ends, no more passwords are
\* found wrong than there are other threads: those that had passed the check before.
\* Without a lockout in force, fewer than the threshold were in the last failure window,
\* beside those others.  What came before the pair's last lockout, or before its last
\* success, which forgets everything, does not count.  When Redis fails some calls only,
\* its failures and lockouts miss what the memory of a process saw.
MissesBounded ==
  backend # "auto" \/ faults = 0 =>
    \A x \in Stores \X Pairs :
      IF InForce(x)
      THEN Cardinality(misses[x]) < Cardinality(Callers)
      ELSE Cardinality({e \in misses[x] : now - e.at < FailureWindow})
             < Threshold + Cardinality(Callers) - 1
=============================================================================
