------------------------- MODULE AuthSecurityProofs -------------------------
(***************************************************************************)
(* Proofs about AuthSecurity, for every number of threads, processes,      *)
(* addresses, requests and failures, and every configuration of limits.    *)
(***************************************************************************)
EXTENDS AuthSecurity, FiniteSetTheorems, TLAPS

\* A thread at work serves a request and knows the store it asks; a call that runs a
\* script on Redis has read the clock.
Sessions ==
  \A c \in Callers :
    /\ at[c] # "idle" => request[c] \in Requests /\ via[c] \in Stores
    /\ at[c] = "idle" => via[c] = None
    /\ at[c] \in {"email", "ttl"} => via[c] = Redis
    /\ stamp[c] # None => via[c] = Redis
    /\ via[c] = Redis /\ at[c] \in {"allow", "register"} => stamp[c] # None

\* The window of a key never holds more than its limit, and holds all that the last
\* window admitted and stamped, although it is cleaned only when it is looked at.
Windows ==
  \A x \in Stores \X Keys :
    /\ IsFiniteSet(bucket[x]) /\ Cardinality(bucket[x]) <= Limit[x[2][1]]
    /\ IsFiniteSet(admitted[x])
    /\ \A e \in admitted[x] : e.ran <= now /\ now - e.ran < Window
    /\ \A e \in admitted[x] : now - e.at < Window => e \in bucket[x]
    /\ x[1] # Redis => \A e \in admitted[x] : e.at = e.ran

\* The requests that were between their clock and their script at a moment that has
\* passed: some have been admitted since, some still wait.
Delayed(x, time) == {e \in admitted[x] : e.at <= time /\ time < e.ran}
Waiting(time) == {c \in Callers : stamp[c] # None /\ stamp[c] <= time}

\* A thread delays one request at a time.
Budget ==
  \A x \in Stores \X Keys : \A time \in Int :
    time < now =>
      Cardinality(Delayed(x, time)) + Cardinality(Waiting(time)) <= Cardinality(Callers)

Recorded == \A x \in Stores \X Pairs : IsFiniteSet(misses[x])

Inv == TypeOK /\ Sessions /\ Windows /\ Budget /\ Recorded

\* Where a call stands: what has been counted so far.
Progress ==
  \A c \in Callers :
    /\ at[c] = "email" => request[c].kind = "request"
    /\ at[c] = "ttl" => request[c].kind = "login"
    /\ at[c] \in {"email", "ttl"} => <<Redis, IpKey(request[c])>> \in counted[c]

-----------------------------------------------------------------------------
(* Operators.                                                               *)

LEMMA KeyTypes ==
  ASSUME NEW r \in Requests
  PROVE  /\ IpKey(r) \in Keys /\ EmailKey(r) \in Keys /\ KeysOf(r) \subseteq Keys
         /\ Pair(r) \in Pairs
  <1>1. r.kind \in {"login", "request", "confirm"} /\ r.ip \in Ips /\ r.email \in Emails
    BY BackendsAssumption DEF Requests
  <1>2. IpKey(r) \in Keys
    BY <1>1 DEF IpKey, Keys, Rules
  <1>3. EmailKey(r) \in Keys
    BY <1>1 DEF EmailKey, Keys, Rules
  <1>4. QED
    BY <1>1, <1>2, <1>3 DEF KeysOf, Pair, Pairs

LEMMA LimitType == ASSUME NEW k \in Keys PROVE Limit[k[1]] \in Nat \ {0}
  BY LimitsAssumption DEF Keys, Rules

LEMMA SpanType ==
  /\ {Window, Threshold, LockoutSeconds, FailureWindow} \subseteq Nat \ {0}
  /\ RoundedOff \in Nat /\ RoundedOff < LockoutSeconds
  BY LimitsAssumption

LEMMA Times ==
  ASSUME TypeOK
  PROVE  /\ now \in Nat /\ now \in 0 .. MaxTime /\ MaxTime \in Nat
         /\ \A c \in Callers : stamp[c] # None => stamp[c] \in 0 .. now
         /\ 0 .. now \subseteq 0 .. MaxTime /\ None \notin 0 .. now
  <1>1. MaxTime \in Nat /\ now \in 0 .. MaxTime
    BY BoundsAssumption DEF TypeOK
  <1>2. 0 .. now \subseteq 0 .. MaxTime
    BY <1>1
  <1>3. None \notin 0 .. now
    BY <1>2, NoneAssumption
  <1>4. \A c \in Callers : stamp[c] # None => stamp[c] \in 0 .. now
    BY DEF TypeOK
  <1>5. QED
    BY <1>1, <1>2, <1>3, <1>4

\* The time of a call that has one is not in the future.
LEMMA MomentType ==
  ASSUME TypeOK, NEW c \in Callers, via[c] = Redis => stamp[c] # None
  PROVE  Moment(c) \in 0 .. now /\ Moment(c) \in 0 .. MaxTime /\ Moment(c) <= now
  BY Times DEF Moment

\* An entry of a call that has a time, beside finitely many others.
LEMMA EntryType ==
  ASSUME TypeOK, NEW c \in Callers, via[c] = Redis => stamp[c] # None,
         NEW last, IsFiniteSet(last)
  PROVE  /\ Entry(c, last) \in Entries
         /\ Entry(c, last).at = Moment(c) /\ Entry(c, last).ran = now
  <1>1. Moment(c) \in 0 .. MaxTime /\ now \in 0 .. MaxTime
    BY MomentType, Times
  <1>2. {e \in last : e.at = Moment(c) /\ e.ran = now} \in SUBSET last
    OBVIOUS
  <1>3. Cardinality({e \in last : e.at = Moment(c) /\ e.ran = now}) \in Nat
    BY <1>2, FS_Subset, FS_CardinalityType
  <1>4. QED
    BY <1>1, <1>3 DEF Entry, Entries

\* A finite set has no fewer elements than its subsets.
LEMMA Smaller ==
  ASSUME NEW S, IsFiniteSet(S), NEW T, T \subseteq S
  PROVE  /\ IsFiniteSet(T) /\ Cardinality(T) <= Cardinality(S)
         /\ Cardinality(T) \in Nat /\ Cardinality(S) \in Nat
  BY FS_Subset, FS_CardinalityType

LEMMA OneMore ==
  ASSUME NEW S, IsFiniteSet(S), NEW e
  PROVE  /\ IsFiniteSet(S \union {e}) /\ Cardinality(S \union {e}) <= Cardinality(S) + 1
         /\ Cardinality(S \union {e}) \in Nat /\ Cardinality(S) \in Nat
  BY FS_AddElement, FS_CardinalityType

\* A window that moves on stays finite and within its size.
LEMMA SinceSmaller ==
  ASSUME NEW S, IsFiniteSet(S), NEW time, NEW length
  PROVE  /\ Since(S, time, length) \subseteq S
         /\ IsFiniteSet(Since(S, time, length))
         /\ Cardinality(Since(S, time, length)) <= Cardinality(S)
         /\ Cardinality(Since(S, time, length)) \in Nat
         /\ Cardinality(S) \in Nat
  <1>1. Since(S, time, length) \in SUBSET S
    BY DEF Since
  <1>2. QED
    BY <1>1, FS_Subset, FS_CardinalityType

\* The sets of the budget are finite.
LEMMA Delays ==
  ASSUME Windows, NEW x \in Stores \X Keys, NEW time
  PROVE  /\ IsFiniteSet(Delayed(x, time)) /\ Cardinality(Delayed(x, time)) \in Nat
         /\ IsFiniteSet(Waiting(time)) /\ Cardinality(Waiting(time)) \in Nat
         /\ Cardinality(Waiting(time)) <= Cardinality(Callers)
         /\ Cardinality(Callers) \in Nat
  <1>1. IsFiniteSet(Delayed(x, time)) /\ Cardinality(Delayed(x, time)) \in Nat
    BY Smaller DEF Windows, Delayed
  <1>2. Waiting(time) \subseteq Callers
    BY DEF Waiting
  <1>3. QED
    BY <1>1, <1>2, CallersAssumption, Smaller

-----------------------------------------------------------------------------
(* Types and windows.                                                       *)

LEMMA InitInv == Init => Inv
  <1> SUFFICES ASSUME Init PROVE Inv
    OBVIOUS
  <1>1. TypeOK
    <2>1. began \in [Stores \X Pairs -> -LockoutSeconds .. now]
      BY SpanType DEF Init
    <2>2. lockout \in [Stores \X Pairs -> 0 .. MaxTime + LockoutSeconds]
      BY SpanType, BoundsAssumption DEF Init
    <2>3. QED
      BY <2>1, <2>2, BoundsAssumption DEF Init, TypeOK, Labels
  <1>2. Sessions
    BY NoneAssumption DEF Init, Sessions, Stores
  <1>3. Windows
    <2> SUFFICES ASSUME NEW x \in Stores \X Keys
                 PROVE  /\ IsFiniteSet({}) /\ Cardinality({}) <= Limit[x[2][1]]
      BY DEF Init, Windows
    <2>1. Limit[x[2][1]] \in Nat
      BY LimitType
    <2>2. QED
      BY <2>1, FS_EmptySet
  <1>4. Budget
    <2> SUFFICES ASSUME NEW x \in Stores \X Keys, NEW time \in Int, time < now
                 PROVE  Cardinality(Delayed(x, time)) + Cardinality(Waiting(time))
                          <= Cardinality(Callers)
      BY DEF Budget
    <2>1. Delayed(x, time) = {}
      BY DEF Init, Delayed
    <2>2. Cardinality(Delayed(x, time)) = 0
      BY <2>1, FS_EmptySet
    <2>3. QED
      BY <1>3, <2>2, Delays
  <1>5. Recorded
    BY FS_EmptySet DEF Init, Recorded
  <1>6. QED
    BY <1>1, <1>2, <1>3, <1>4, <1>5 DEF Inv

\* A step that admits nothing leaves the budget: clocks are read now, or given up.
LEMMA BudgetKept ==
  ASSUME TypeOK, Windows, Budget, UNCHANGED <<now, admitted>>,
         \A c \in Callers : stamp'[c] \in {stamp[c], now, None}
  PROVE  Budget'
  <1> SUFFICES ASSUME NEW x \in Stores \X Keys, NEW time \in Int, time < now
               PROVE  Cardinality(Delayed(x, time)) + Cardinality(Waiting(time)')
                        <= Cardinality(Callers)
    BY DEF Budget, Delayed
  <1>1. Waiting(time)' \subseteq Waiting(time)
    BY Times DEF Waiting
  <1>2. Cardinality(Waiting(time)') <= Cardinality(Waiting(time))
        /\ Cardinality(Waiting(time)') \in Nat
    BY <1>1, Delays, Smaller
  <1>3. QED
    BY <1>2, Delays DEF Budget

\* Admitting requests under keys that have room.
LEMMA ConsumeInv ==
  ASSUME Inv, NEW c \in Callers, via[c] \in Stores, via[c] = Redis => stamp[c] # None,
         NEW looked \in SUBSET Keys, NEW admitting \in SUBSET looked,
         \A k \in admitting : HasRoom(c, k),
         Consume(c, looked, admitting), UNCHANGED now,
         stamp' = [stamp EXCEPT ![c] = None]
  PROVE  /\ bucket' \in [Stores \X Keys -> SUBSET Entries]
         /\ admitted' \in [Stores \X Keys -> SUBSET Entries]
         /\ Windows' /\ Budget'
  <1> DEFINE entry(x) == Entry(c, admitted[x])
             Taken(x) == IF x[2] \in admitting THEN {entry(x)} ELSE {}
             kept(x) == Since(bucket[x], Moment(c), Window)
  <1>1. /\ now \in Nat /\ Window \in Nat \ {0} /\ Moment(c) \in Nat /\ Moment(c) <= now
        /\ via[c] # Redis => Moment(c) = now
        /\ via[c] = Redis => Moment(c) = stamp[c]
    BY Times, MomentType, SpanType DEF Inv, Moment
  <1>2. ASSUME NEW x \in Stores \X Keys
        PROVE  entry(x) \in Entries /\ entry(x).at = Moment(c) /\ entry(x).ran = now
    BY EntryType DEF Inv, Windows
  <1>3. ASSUME NEW x \in Stores \X Keys
        PROVE  /\ bucket'[x] = IF x[1] = via[c] /\ x[2] \in looked
                               THEN kept(x) \union Taken(x) ELSE bucket[x]
               /\ admitted'[x] = IF x[1] = via[c] THEN admitted[x] \union Taken(x)
                                 ELSE admitted[x]
    BY DEF Consume, Inv, TypeOK
  <1>4. bucket' \in [Stores \X Keys -> SUBSET Entries]
    BY <1>2 DEF Consume, Inv, TypeOK, Since
  <1>5. admitted' \in [Stores \X Keys -> SUBSET Entries]
    BY <1>2 DEF Consume, Inv, TypeOK
  <1>6. ASSUME NEW x \in Stores \X Keys
        PROVE  /\ IsFiniteSet(bucket'[x]) /\ Cardinality(bucket'[x]) <= Limit[x[2][1]]
               /\ IsFiniteSet(admitted'[x])
               /\ \A e \in admitted'[x] : e.ran <= now /\ now - e.ran < Window
               /\ \A e \in admitted'[x] : now - e.at < Window => e \in bucket'[x]
               /\ x[1] # Redis => \A e \in admitted'[x] : e.at = e.ran
    <2>1. /\ IsFiniteSet(bucket[x]) /\ Cardinality(bucket[x]) <= Limit[x[2][1]]
          /\ IsFiniteSet(admitted[x])
          /\ \A e \in admitted[x] : e.ran <= now /\ now - e.ran < Window
          /\ \A e \in admitted[x] : now - e.at < Window => e \in bucket[x]
          /\ x[1] # Redis => \A e \in admitted[x] : e.at = e.ran
          /\ \A e \in admitted[x] : e.at \in Int
      BY DEF Inv, Windows, TypeOK, Entries
    <2>2. /\ IsFiniteSet(kept(x)) /\ Cardinality(kept(x)) \in Nat /\ Cardinality(bucket[x]) \in Nat
          /\ Cardinality(kept(x)) <= Cardinality(bucket[x])
      BY <2>1, SinceSmaller
    <2>3. \A e \in admitted[x] : now - e.at < Window => e \in kept(x)
      BY <1>1, <2>1 DEF Since
    <2>4. Limit[x[2][1]] \in Nat \ {0}
      BY LimitType
    <2>5. CASE x[1] = via[c] /\ x[2] \in admitting
      <3>1. x = <<via[c], x[2]>>
        BY <2>5
      <3>2. Cardinality(kept(x)) < Limit[x[2][1]]
        BY <2>5, <3>1 DEF HasRoom
      <3>3. bucket'[x] = kept(x) \union {entry(x)} /\ admitted'[x] = admitted[x] \union {entry(x)}
        BY <1>3, <2>5
      <3>4. x[1] # Redis => entry(x).at = entry(x).ran
        BY <1>1, <1>2, <2>5
      <3>5. entry(x).ran = now
        BY <1>2
      <3> HIDE DEF kept, entry
      <3>6. /\ IsFiniteSet(kept(x) \union {entry(x)})
            /\ Cardinality(kept(x) \union {entry(x)}) <= Cardinality(kept(x)) + 1
            /\ Cardinality(kept(x) \union {entry(x)}) \in Nat
            /\ IsFiniteSet(admitted[x] \union {entry(x)})
        BY <2>1, <2>2, OneMore
      <3>7. Cardinality(bucket'[x]) <= Limit[x[2][1]]
        BY <2>2, <2>4, <3>2, <3>3, <3>6
      <3>8. \A e \in admitted'[x] : e.ran <= now /\ now - e.ran < Window
        BY <1>1, <2>1, <3>3, <3>5
      <3>9. QED
        BY <2>1, <2>3, <3>3, <3>4, <3>6, <3>7, <3>8
    <2>6. CASE x[1] = via[c] /\ x[2] \in looked \ admitting
      <3>1. bucket'[x] = kept(x) /\ admitted'[x] = admitted[x]
        BY <1>3, <2>6
      <3> HIDE DEF kept
      <3>2. QED
        BY <2>1, <2>2, <2>3, <2>4, <3>1
    <2>7. CASE ~(x[1] = via[c] /\ x[2] \in looked)
      BY <1>3, <2>1, <2>7
    <2>8. QED
      BY <2>5, <2>6, <2>7
  <1>7. Windows'
    BY <1>6 DEF Windows
  <1>8. Budget'
    <2> SUFFICES ASSUME NEW x \in Stores \X Keys, NEW time \in Int, time < now
                 PROVE  Cardinality(Delayed(x, time)') + Cardinality(Waiting(time)')
                          <= Cardinality(Callers)
      BY DEF Budget
    <2>1. Waiting(time)' = Waiting(time) \ {c}
      BY DEF Waiting, Inv, TypeOK
    <2>2. Delayed(x, time)' \subseteq Delayed(x, time) \union {entry(x)}
      BY <1>3 DEF Delayed
    <2>3. /\ IsFiniteSet(Delayed(x, time)) /\ Cardinality(Delayed(x, time)) \in Nat
          /\ IsFiniteSet(Waiting(time)) /\ Cardinality(Waiting(time)) \in Nat
          /\ Cardinality(Callers) \in Nat
          /\ Cardinality(Delayed(x, time)) + Cardinality(Waiting(time)) <= Cardinality(Callers)
      BY Delays DEF Inv, Budget
    <2>4. CASE via[c] = Redis /\ stamp[c] <= time
      <3>1. c \in Waiting(time)
        BY <2>4 DEF Waiting
      <3>2. Cardinality(Waiting(time)') = Cardinality(Waiting(time)) - 1
        BY <2>1, <2>3, <3>1, FS_RemoveElement
      <3> HIDE DEF entry
      <3>3. /\ IsFiniteSet(Delayed(x, time) \union {entry(x)})
            /\ Cardinality(Delayed(x, time) \union {entry(x)}) <= Cardinality(Delayed(x, time)) + 1
            /\ Cardinality(Delayed(x, time) \union {entry(x)}) \in Nat
        BY <2>3, OneMore
      <3>4. /\ Cardinality(Delayed(x, time)') <= Cardinality(Delayed(x, time) \union {entry(x)})
            /\ Cardinality(Delayed(x, time)') \in Nat
        BY <2>2, <3>3, Smaller
      <3>5. QED
        BY <2>3, <3>2, <3>3, <3>4
    <2>5. CASE ~(via[c] = Redis /\ stamp[c] <= time)
      <3>1. ~(entry(x).at <= time)
        BY <1>1, <1>2, <2>5, Times DEF Inv
      <3>2. Delayed(x, time)' \subseteq Delayed(x, time)
        BY <2>2, <3>1 DEF Delayed
      <3>3. /\ Cardinality(Delayed(x, time)') <= Cardinality(Delayed(x, time))
            /\ Cardinality(Delayed(x, time)') \in Nat
            /\ Cardinality(Waiting(time)') <= Cardinality(Waiting(time))
            /\ Cardinality(Waiting(time)') \in Nat
        BY <2>1, <2>3, <3>2, Smaller
      <3>4. QED
        BY <2>3, <3>3
    <2>6. QED
      BY <2>4, <2>5
  <1>9. QED
    BY <1>4, <1>5, <1>7, <1>8

\* What a report does to the failures of its pair.
LEMMA ReportInv ==
  ASSUME TypeOK, Recorded, NEW c \in Callers, via[c] \in Stores, request[c] \in Requests,
         \/ Register(c) /\ (via[c] = Redis => stamp[c] # None)
         \/ Clear(c)
  PROVE  /\ failures' \in [Stores \X Pairs -> SUBSET Entries]
         /\ lockout' \in [Stores \X Pairs -> 0 .. MaxTime + LockoutSeconds]
         /\ began' \in [Stores \X Pairs -> -LockoutSeconds .. now]
         /\ misses' \in [Stores \X Pairs -> SUBSET Entries]
         /\ Recorded'
         /\ UNCHANGED <<bucket, admitted>>
  <1> DEFINE x == <<via[c], Pair(request[c])>>
             missed == Since(failures[x], Moment(c), FailureWindow) \union {Entry(c, misses[x])}
             more == misses[x] \union {Entry(c, misses[x])}
  <1>1. x \in Stores \X Pairs
    BY KeyTypes
  <1>2. /\ LockUntil \in 0 .. MaxTime + LockoutSeconds /\ 0 \in 0 .. MaxTime + LockoutSeconds
        /\ now \in -LockoutSeconds .. now /\ -LockoutSeconds \in -LockoutSeconds .. now
    BY SpanType, Times DEF LockUntil
  <1>3. CASE Register(c) /\ (via[c] = Redis => stamp[c] # None)
    <2>1. Entry(c, misses[x]) \in Entries /\ IsFiniteSet(more)
      BY <1>1, <1>3, EntryType, OneMore DEF Recorded
    <2>2. missed \in SUBSET Entries /\ more \in SUBSET Entries
      BY <1>1, <2>1 DEF TypeOK, Since
    <2>3. /\ \/ UNCHANGED <<failures, lockout, began>>
             \/ failures' = [failures EXCEPT ![x] = missed] /\ UNCHANGED <<lockout, began>>
             \/ /\ failures' = [failures EXCEPT ![x] = {}]
                /\ lockout' = [lockout EXCEPT ![x] = LockUntil]
                /\ began' = [began EXCEPT ![x] = now]
          /\ \E S \in {more, {}} : misses' = [misses EXCEPT ![x] = S]
          /\ UNCHANGED <<bucket, admitted>>
      BY <1>3 DEF Register
    <2> HIDE DEF missed, more, x
    <2>4. Recorded'
      BY <1>1, <2>1, <2>3, FS_EmptySet DEF TypeOK, Recorded
    <2>5. misses' \in [Stores \X Pairs -> SUBSET Entries]
      <3>1. PICK S \in {more, {}} : misses' = [misses EXCEPT ![x] = S]
        BY <2>3
      <3>2. S \in SUBSET Entries
        BY <2>2, <3>1
      <3>3. QED
        BY <3>1, <3>2 DEF TypeOK
    <2>6. /\ failures' \in [Stores \X Pairs -> SUBSET Entries]
          /\ lockout' \in [Stores \X Pairs -> 0 .. MaxTime + LockoutSeconds]
          /\ began' \in [Stores \X Pairs -> -LockoutSeconds .. now]
      <3>1. CASE UNCHANGED <<failures, lockout, began>>
        BY <3>1 DEF TypeOK
      <3>2. CASE failures' = [failures EXCEPT ![x] = missed] /\ UNCHANGED <<lockout, began>>
        BY <2>2, <3>2 DEF TypeOK
      <3>3. CASE /\ failures' = [failures EXCEPT ![x] = {}]
                 /\ lockout' = [lockout EXCEPT ![x] = LockUntil]
                 /\ began' = [began EXCEPT ![x] = now]
        BY <1>2, <3>3 DEF TypeOK
      <3>4. QED
        BY <2>3, <3>1, <3>2, <3>3
    <2>7. QED
      BY <2>3, <2>4, <2>5, <2>6
  <1>4. CASE Clear(c)
    <2>1. /\ failures' = [failures EXCEPT ![x] = {}]
          /\ lockout' = [lockout EXCEPT ![x] = 0]
          /\ began' = [began EXCEPT ![x] = -LockoutSeconds]
          /\ misses' = [misses EXCEPT ![x] = {}]
          /\ UNCHANGED <<bucket, admitted>>
      BY <1>4 DEF Clear
    <2> HIDE DEF x
    <2>2. Recorded'
      BY <1>1, <2>1, FS_EmptySet DEF TypeOK, Recorded
    <2>3. QED
      BY <1>1, <1>2, <2>1, <2>2 DEF TypeOK
  <1>5. QED
    BY <1>3, <1>4

\* What a thread does to its own session.
LEMMA EndSessions ==
  ASSUME TypeOK, Sessions, NEW c \in Callers, End(c), UNCHANGED now
  PROVE  /\ at' \in [Callers -> Labels]
         /\ via' \in [Callers -> Stores \union {None}]
         /\ request' \in [Callers -> Requests \union {None}]
         /\ stamp' \in [Callers -> 0 .. now \union {None}]
         /\ stamp' = [stamp EXCEPT ![c] = None]
         /\ counted' \in [Callers -> SUBSET (Stores \X Keys)]
         /\ Sessions'
  <1>1. None # Redis
    BY NoneAssumption DEF Stores
  <1>2. QED
    BY <1>1 DEF End, TypeOK, Sessions, Labels

LEMMA GotoSessions ==
  ASSUME TypeOK, Sessions, NEW c \in Callers, at[c] # "idle", UNCHANGED now,
         NEW label \in {"email", "ttl", "allowed"}, label \in {"email", "ttl"} => via[c] = Redis,
         NEW keys \in SUBSET Keys, Goto(c, label, keys)
  PROVE  /\ at' \in [Callers -> Labels]
         /\ via' \in [Callers -> Stores \union {None}]
         /\ request' \in [Callers -> Requests \union {None}]
         /\ stamp' \in [Callers -> 0 .. now \union {None}]
         /\ stamp' = [stamp EXCEPT ![c] = None]
         /\ counted' \in [Callers -> SUBSET (Stores \X Keys)]
         /\ Sessions'
  <1>1. via[c] \in Stores
    BY DEF Sessions
  <1>2. {via[c]} \X keys \in SUBSET (Stores \X Keys)
    BY <1>1
  <1>3. counted' \in [Callers -> SUBSET (Stores \X Keys)]
    BY <1>2 DEF Goto, TypeOK
  <1>4. /\ at' = [at EXCEPT ![c] = label] /\ stamp' = [stamp EXCEPT ![c] = None]
        /\ UNCHANGED <<via, request>>
    BY DEF Goto
  <1>5. Sessions'
    BY <1>4 DEF TypeOK, Sessions
  <1>6. QED
    BY <1>3, <1>4, <1>5 DEF TypeOK, Labels

\* A script on Redis is a consumption of its key.
LEMMA ScriptInv ==
  ASSUME Inv, NEW c \in Callers, via[c] = Redis, RunScript(c), UNCHANGED now,
         stamp' = [stamp EXCEPT ![c] = None]
  PROVE  /\ bucket' \in [Stores \X Keys -> SUBSET Entries]
         /\ admitted' \in [Stores \X Keys -> SUBSET Entries]
         /\ Windows' /\ Budget'
         /\ UNCHANGED <<failures, lockout, began, misses>>
  <1>1. request[c] \in Requests /\ via[c] \in Stores /\ stamp[c] # None
    BY DEF RunScript, Inv, Sessions, Stores
  <1>2. ScriptKey(c) \in Keys
    BY <1>1, KeyTypes DEF ScriptKey
  <1>3. {k \in {ScriptKey(c)} : HasRoom(c, k)} \in SUBSET {ScriptKey(c)}
    OBVIOUS
  <1>4. QED
    BY <1>1, <1>2, <1>3, ConsumeInv DEF RunScript

LEMMA AllowInv == ASSUME Inv, NEW c \in Callers, MemoryAllow(c) PROVE Inv'
  <1> DEFINE r == request[c]
  <1>1. /\ via[c] \in Stores /\ via[c] # Redis /\ r \in Requests
        /\ KeysOf(r) \in SUBSET Keys /\ IpKey(r) \in KeysOf(r)
    BY StoresAssumption, KeyTypes DEF MemoryAllow, Inv, Sessions, KeysOf
  <1>2. PICK looked \in SUBSET Keys, admitting \in SUBSET Keys :
          /\ admitting \subseteq looked
          /\ Consume(c, looked, admitting)
          /\ \A k \in admitting : HasRoom(c, k)
          /\ End(c) \/ Goto(c, "allowed", KeysOf(r))
    <2>1. CASE /\ ~HasRoom(c, IpKey(r))
               /\ Consume(c, {IpKey(r)}, {})
               /\ End(c)
      BY <1>1, <2>1
    <2>2. CASE /\ r.kind = "request" /\ HasRoom(c, IpKey(r)) /\ ~HasRoom(c, EmailKey(r))
               /\ Consume(c, KeysOf(r), {IpKey(r)})
               /\ End(c)
      BY <1>1, <2>2
    <2>3. CASE /\ r.kind = "login" /\ HasRoom(c, IpKey(r)) /\ Locked(via[c], r)
               /\ Consume(c, KeysOf(r), KeysOf(r))
               /\ End(c)
      <3>1. KeysOf(r) = {IpKey(r)}
        BY <2>3 DEF KeysOf
      <3>2. QED
        BY <1>1, <2>3, <3>1
    <2>4. CASE /\ \A k \in KeysOf(r) : HasRoom(c, k)
               /\ Consume(c, KeysOf(r), KeysOf(r))
               /\ Goto(c, "allowed", KeysOf(r))
      BY <1>1, <2>4
    <2>5. QED
      BY <2>1, <2>2, <2>3, <2>4 DEF MemoryAllow
  <1>3. /\ at' \in [Callers -> Labels]
        /\ via' \in [Callers -> Stores \union {None}]
        /\ request' \in [Callers -> Requests \union {None}]
        /\ stamp' \in [Callers -> 0 .. now \union {None}]
        /\ stamp' = [stamp EXCEPT ![c] = None]
        /\ counted' \in [Callers -> SUBSET (Stores \X Keys)]
        /\ Sessions'
    BY <1>1, <1>2, EndSessions, GotoSessions DEF MemoryAllow, Inv
  <1>4. /\ bucket' \in [Stores \X Keys -> SUBSET Entries]
        /\ admitted' \in [Stores \X Keys -> SUBSET Entries]
        /\ Windows' /\ Budget'
    BY <1>1, <1>2, <1>3, ConsumeInv DEF MemoryAllow
  <1>5. QED
    BY <1>3, <1>4 DEF MemoryAllow, Inv, TypeOK, Recorded

LEMMA ClockInv == ASSUME Inv, NEW c \in Callers, ReadClock(c) PROVE Inv'
  <1>1. now \in 0 .. now /\ now # None /\ via[c] = Redis
    BY Times DEF ReadClock, Inv, Sessions
  <1>2. stamp' \in [Callers -> 0 .. now \union {None}]
    BY <1>1 DEF ReadClock, Inv, TypeOK
  <1>3. Sessions'
    BY <1>1 DEF ReadClock, Inv, TypeOK, Sessions
  <1>4. Budget'
    BY BudgetKept DEF ReadClock, history, Inv, TypeOK
  <1>5. QED
    BY <1>2, <1>3, <1>4 DEF ReadClock, stores, history, Inv, TypeOK, Windows, Recorded

LEMMA RedisInv ==
  ASSUME Inv, NEW c \in Callers, RedisAllow(c) \/ RedisTtl(c)
  PROVE  Inv'
  <1>1. request[c] \in Requests /\ at[c] # "idle" /\ via[c] = Redis /\ UNCHANGED now
    BY DEF RedisAllow, RedisTtl, RunScript, Inv, Sessions
  <1>2. /\ at' \in [Callers -> Labels]
        /\ via' \in [Callers -> Stores \union {None}]
        /\ request' \in [Callers -> Requests \union {None}]
        /\ stamp' \in [Callers -> 0 .. now \union {None}]
        /\ stamp' = [stamp EXCEPT ![c] = None]
        /\ counted' \in [Callers -> SUBSET (Stores \X Keys)]
        /\ Sessions'
    <2>1. CASE End(c)
      BY <1>1, <2>1, EndSessions DEF Inv
    <2>2. PICK label \in {"ttl", "email", "allowed"}, keys \in SUBSET Keys :
            End(c) \/ Goto(c, label, keys)
      <3>1. ScriptKey(c) \in Keys
        BY <1>1, KeyTypes DEF ScriptKey
      <3>2. {ScriptKey(c)} \in SUBSET Keys /\ {} \in SUBSET Keys
        BY <3>1
      <3>3. CASE RedisTtl(c)
        BY <3>2, <3>3 DEF RedisTtl
      <3>4. CASE RedisAllow(c)
        BY <3>2, <3>4 DEF RedisAllow
      <3>5. QED
        BY <3>3, <3>4
    <2>3. QED
      BY <1>1, <2>1, <2>2, GotoSessions DEF Inv
  <1>3. CASE RedisAllow(c)
    BY <1>1, <1>2, <1>3, ScriptInv DEF RedisAllow, Inv, TypeOK, Recorded
  <1>4. CASE RedisTtl(c)
    <2>1. Budget'
      BY <1>2, <1>4, BudgetKept DEF RedisTtl, Inv, TypeOK
    <2>2. QED
      BY <1>2, <1>4, <2>1 DEF RedisTtl, stores, Inv, TypeOK, Windows, Recorded
  <1>5. QED
    BY <1>3, <1>4

\* A thread that reports a failure has the time of its call.
LEMMA Reports ==
  ASSUME Inv, NEW c \in Callers,
         \/ at[c] = "register" /\ Register(c)
         \/ at[c] = "clear" /\ Clear(c)
  PROVE  /\ via[c] \in Stores /\ request[c] \in Requests
         /\ \/ Register(c) /\ (via[c] = Redis => stamp[c] # None)
            \/ Clear(c)
  BY DEF Inv, Sessions

LEMMA FailureInv == ASSUME Inv, NEW c \in Callers, RedisFails(c) PROVE Inv'
  <1>1. /\ at' \in [Callers -> Labels]
        /\ via' \in [Callers -> Stores \union {None}]
        /\ request' \in [Callers -> Requests \union {None}]
        /\ stamp' \in [Callers -> 0 .. now \union {None}]
        /\ stamp' = [stamp EXCEPT ![c] = None]
        /\ counted' \in [Callers -> SUBSET (Stores \X Keys)]
        /\ Sessions'
    <2>1. CASE End(c)
      BY <2>1, EndSessions DEF RedisFails, Inv
    <2>2. CASE /\ via' = [via EXCEPT ![c] = ProcessOf[c]]
               /\ at' = [at EXCEPT ![c] = IF @ \in {"register", "clear"} THEN @ ELSE "allow"]
               /\ stamp' = [stamp EXCEPT ![c] = None]
               /\ UNCHANGED <<request, counted>>
      <3>1. ProcessOf[c] \in Stores /\ ProcessOf[c] # Redis
        BY StoresAssumption DEF Stores
      <3>2. at[c] # "idle" /\ UNCHANGED now
        BY NoneAssumption DEF RedisFails, Inv, Sessions, Stores
      <3>3. Sessions'
        BY <2>2, <3>1, <3>2 DEF Inv, TypeOK, Sessions
      <3>4. QED
        BY <2>2, <3>1, <3>2, <3>3 DEF Inv, TypeOK, Labels
    <2>3. QED
      BY <2>1, <2>2 DEF RedisFails
  <1>2. /\ bucket' \in [Stores \X Keys -> SUBSET Entries]
        /\ admitted' \in [Stores \X Keys -> SUBSET Entries]
        /\ failures' \in [Stores \X Pairs -> SUBSET Entries]
        /\ lockout' \in [Stores \X Pairs -> 0 .. MaxTime + LockoutSeconds]
        /\ began' \in [Stores \X Pairs -> -LockoutSeconds .. now]
        /\ misses' \in [Stores \X Pairs -> SUBSET Entries]
        /\ Windows' /\ Budget' /\ Recorded'
    <2>1. ASSUME UNCHANGED <<bucket, admitted>> PROVE Windows' /\ Budget'
      <3>1. UNCHANGED now
        BY DEF RedisFails
      <3>2. Windows'
        BY <2>1, <3>1 DEF Inv, Windows
      <3>3. Budget'
        BY <1>1, <2>1, <3>1, BudgetKept DEF Inv, TypeOK
      <3>4. QED
        BY <3>2, <3>3
    <2>2. CASE UNCHANGED <<stores, admitted, began, misses>>
      BY <2>1, <2>2 DEF stores, Inv, TypeOK, Recorded
    <2>3. CASE RunScript(c)
      BY <1>1, <2>3, ScriptInv DEF RedisFails, Inv, TypeOK, Recorded
    <2>4. CASE \/ at[c] = "register" /\ Register(c)
               \/ at[c] = "clear" /\ Clear(c)
      <3>1. /\ via[c] \in Stores /\ request[c] \in Requests
            /\ \/ Register(c) /\ (via[c] = Redis => stamp[c] # None)
               \/ Clear(c)
        BY <2>4, Reports
      <3>2. /\ failures' \in [Stores \X Pairs -> SUBSET Entries]
            /\ lockout' \in [Stores \X Pairs -> 0 .. MaxTime + LockoutSeconds]
            /\ began' \in [Stores \X Pairs -> -LockoutSeconds .. now]
            /\ misses' \in [Stores \X Pairs -> SUBSET Entries]
            /\ Recorded'
            /\ UNCHANGED <<bucket, admitted>>
        BY <3>1, ReportInv DEF Inv
      <3>3. QED
        BY <2>1, <3>2 DEF Inv, TypeOK
    <2>5. QED
      BY <2>2, <2>3, <2>4 DEF RedisFails
  <1>3. faults' \in 0 .. MaxFaults
    BY BoundsAssumption DEF RedisFails, Inv, TypeOK
  <1>4. QED
    BY <1>1, <1>2, <1>3 DEF RedisFails, Inv, TypeOK

LEMMA HandlerInv ==
  ASSUME Inv, NEW c \in Callers, Begin(c) \/ Proceed(c) \/ Report(c)
  PROVE  Inv'
  <1>1. Primary(c) \in Stores /\ (Primary(c) # Redis => Reading(c) = None)
        /\ (Primary(c) = Redis => Reading(c) = now /\ Reading(c) # None)
        /\ Reading(c) \in {None, now} /\ now \in 0 .. now
    BY StoresAssumption, Times DEF Primary, Reading, Stores, Inv
  <1>2. CASE Begin(c)
    <2>1. PICK kind \in Kinds, ip \in Ips, email \in Emails :
            request' = [request EXCEPT ![c] = [kind |-> kind, ip |-> ip, email |-> email]]
      BY <1>2 DEF Begin
    <2>2. requests' \in 0 .. MaxRequests
      BY <1>2, BoundsAssumption DEF Begin, Inv, TypeOK
    <2>3. [kind |-> kind, ip |-> ip, email |-> email] \in Requests
      BY DEF Requests
    <2>4. stamp' \in [Callers -> 0 .. now \union {None}]
      BY <1>1, <1>2 DEF Begin, Inv, TypeOK
    <2>5. Sessions'
      BY <1>1, <1>2, <2>1, <2>3 DEF Begin, Inv, TypeOK, Sessions
    <2>6. Budget'
      BY <1>1, <1>2, BudgetKept DEF Begin, history, Inv, TypeOK
    <2>7. QED
      BY <1>1, <1>2, <2>1, <2>2, <2>3, <2>4, <2>5, <2>6
         DEF Begin, stores, history, Inv, TypeOK, Windows, Recorded, Labels
  <1>3. CASE Proceed(c)
    <2>1. CASE End(c)
      <3>1. Budget'
        BY <1>3, <2>1, BudgetKept DEF Proceed, End, Inv, TypeOK
      <3>2. QED
        BY <1>3, <2>1, <3>1, EndSessions DEF Proceed, stores, Inv, TypeOK, Windows, Recorded
    <2>2. CASE ~End(c)
      <3>1. PICK label \in {"register", "clear"} :
              /\ at' = [at EXCEPT ![c] = label]
              /\ stamp' = [stamp EXCEPT ![c] = IF label = "register" THEN Reading(c) ELSE None]
        BY <1>3, <2>2 DEF Proceed
      <3>2. stamp' \in [Callers -> 0 .. now \union {None}]
        BY <1>1, <3>1 DEF Inv, TypeOK
      <3>3. Sessions'
        BY <1>1, <1>3, <2>2, <3>1 DEF Proceed, Inv, TypeOK, Sessions
      <3>4. Budget'
        BY <1>1, <1>3, <3>1, BudgetKept DEF Proceed, Inv, TypeOK
      <3>5. QED
        BY <1>1, <1>3, <2>2, <3>1, <3>2, <3>3, <3>4
           DEF Proceed, stores, Inv, TypeOK, Windows, Recorded, Labels
    <2>3. QED
      BY <2>1, <2>2
  <1>4. CASE Report(c)
    <2>1. /\ via[c] \in Stores /\ request[c] \in Requests
          /\ \/ Register(c) /\ (via[c] = Redis => stamp[c] # None)
             \/ Clear(c)
      BY <1>4, Reports DEF Report
    <2>2. Budget'
      BY <1>4, <2>1, BudgetKept, ReportInv DEF Report, End, Inv, TypeOK
    <2>3. QED
      BY <1>4, <2>1, <2>2, EndSessions, ReportInv DEF Report, Inv, TypeOK, Windows
  <1>5. QED
    BY <1>2, <1>3, <1>4

LEMMA TickInv == Inv /\ Tick => Inv'
  <1> SUFFICES ASSUME Inv, Tick PROVE Inv'
    OBVIOUS
  <1>1. now' \in 0 .. MaxTime /\ now \in Nat /\ now' = now + 1 /\ now' \in Nat
    BY Times DEF Tick, Inv
  <1>2. /\ admitted' \in [Stores \X Keys -> SUBSET Entries]
        /\ misses' \in [Stores \X Pairs -> SUBSET Entries]
    BY DEF Tick, Inv, TypeOK
  <1>3. /\ stamp' \in [Callers -> 0 .. now' \union {None}]
        /\ began' \in [Stores \X Pairs -> -LockoutSeconds .. now']
    BY <1>1, SpanType DEF Tick, Inv, TypeOK
  <1>4. \A x \in Stores \X Keys : admitted'[x] = {e \in admitted[x] : now' - e.ran < Window}
    BY DEF Tick, Inv, TypeOK
  <1>5. Windows'
    <2> SUFFICES ASSUME NEW x \in Stores \X Keys
                 PROVE  /\ IsFiniteSet(admitted'[x])
                        /\ \A e \in admitted'[x] : e.ran <= now' /\ now' - e.ran < Window
                        /\ \A e \in admitted'[x] : now' - e.at < Window => e \in bucket[x]
                        /\ x[1] # Redis => \A e \in admitted'[x] : e.at = e.ran
      BY DEF Tick, stores, Inv, Windows
    <2>1. admitted'[x] \subseteq admitted[x] /\ \A e \in admitted[x] : e.at \in Int /\ e.ran \in Int
      BY <1>4 DEF Inv, TypeOK, Entries
    <2>2. IsFiniteSet(admitted'[x])
      BY <2>1, Smaller DEF Inv, Windows
    <2>3. QED
      BY <1>1, <1>4, <2>1, <2>2, SpanType DEF Inv, Windows
  <1>6. Budget'
    <2> SUFFICES ASSUME NEW x \in Stores \X Keys, NEW time \in Int, time < now'
                 PROVE  Cardinality(Delayed(x, time)') + Cardinality(Waiting(time))
                          <= Cardinality(Callers)
      BY DEF Budget, Waiting, Tick
    <2>1. /\ Cardinality(Delayed(x, time)) \in Nat /\ IsFiniteSet(Delayed(x, time))
          /\ Cardinality(Waiting(time)) \in Nat
          /\ Cardinality(Waiting(time)) <= Cardinality(Callers)
          /\ Cardinality(Callers) \in Nat
      BY Delays DEF Inv
    <2>2. Delayed(x, time)' \subseteq Delayed(x, time)
      BY <1>4 DEF Delayed
    <2>3. CASE time < now
      BY <2>1, <2>2, <2>3, Smaller DEF Inv, Budget
    <2>4. CASE ~(time < now)
      <3>1. ASSUME NEW e \in Delayed(x, time)' PROVE FALSE
        <4>1. e \in admitted[x] /\ time < e.ran
          BY <2>2 DEF Delayed
        <4>2. e.ran <= now /\ e.ran \in Int
          BY <4>1 DEF Inv, TypeOK, Windows, Entries
        <4>3. QED
          BY <1>1, <2>4, <4>1, <4>2
      <3>2. Cardinality(Delayed(x, time)') = 0
        BY <3>1, FS_EmptySet
      <3>3. QED
        BY <2>1, <3>2
    <2>5. QED
      BY <2>3, <2>4
  <1>7. Recorded'
    <2> SUFFICES ASSUME NEW x \in Stores \X Pairs PROVE IsFiniteSet(misses'[x])
      BY DEF Recorded
    <2>1. misses'[x] \subseteq misses[x]
      BY DEF Tick, Inv, TypeOK
    <2>2. QED
      BY <2>1, Smaller DEF Inv, Recorded
  <1>8. Sessions'
    BY DEF Tick, Inv, Sessions
  <1>9. QED
    BY <1>1, <1>2, <1>3, <1>5, <1>6, <1>7, <1>8 DEF Tick, stores, Inv, TypeOK

LEMMA NextInv == Inv /\ [Next]_vars => Inv'
  <1>1. Inv /\ Tick => Inv'
    BY TickInv
  <1>2. ASSUME Inv, NEW c \in Callers, CallerStep(c) PROVE Inv'
    BY <1>2, HandlerInv, AllowInv, ClockInv, RedisInv, FailureInv DEF CallerStep
  <1>3. ASSUME Inv, Finished \/ UNCHANGED vars PROVE Inv'
    <2>1. UNCHANGED vars
      BY <1>3 DEF Finished
    <2>2. Windows' /\ Sessions' /\ Recorded'
      BY <1>3, <2>1 DEF vars, stores, history, Inv, Windows, Sessions, Recorded
    <2>3. Budget'
      BY <1>3, <2>1 DEF vars, stores, history, Inv, Budget, Delayed, Waiting
    <2>4. QED
      BY <1>3, <2>1, <2>2, <2>3 DEF vars, stores, history, Inv, TypeOK
  <1>4. QED
    BY <1>1, <1>2, <1>3 DEF Next

LEMMA Invariance == Spec => []Inv
  BY InitInv, NextInv, PTL DEF Spec

\* Every variable keeps its type, whatever the limits, threads and failures.
THEOREM TypeCorrect == Spec => []TypeOK
  <1>1. Inv => TypeOK
    BY DEF Inv
  <1>2. QED
    BY <1>1, Invariance, PTL

\* Of the requests whose clock was read in a window, no store admits more than the
\* rule's limit, and on Redis at most one more of each thread reaches the same window
\* late: the window holds the former, and the budget counts the latter.
THEOREM WindowSafe == Spec => []WindowBound
  <1>1. Inv => WindowBound
    <2> SUFFICES ASSUME Inv, NEW s \in Stores, NEW k \in Keys
                 PROVE  LET recent == admitted[<<s, k>>] IN
                        /\ Cardinality({e \in recent : now - e.at < Window}) <= Limit[k[1]]
                        /\ Cardinality(recent) <=
                             Limit[k[1]] + (IF s = Redis THEN Cardinality(Callers) ELSE 0)
      BY DEF WindowBound
    <2> DEFINE x == <<s, k>>
               fresh == {e \in admitted[x] : now - e.at < Window}
               stale == admitted[x] \ fresh
    <2>1. /\ IsFiniteSet(bucket[x]) /\ Cardinality(bucket[x]) <= Limit[k[1]]
          /\ fresh \subseteq bucket[x] /\ IsFiniteSet(admitted[x])
      BY DEF Inv, Windows
    <2>2. /\ IsFiniteSet(fresh) /\ Cardinality(fresh) \in Nat
          /\ Cardinality(fresh) <= Limit[k[1]] /\ Limit[k[1]] \in Nat
      <3>1. /\ Cardinality(fresh) <= Cardinality(bucket[x]) /\ IsFiniteSet(fresh)
            /\ Cardinality(fresh) \in Nat /\ Cardinality(bucket[x]) \in Nat
        BY <2>1, Smaller
      <3> HIDE DEF fresh
      <3>2. QED
        BY <2>1, <3>1, LimitType
    <2>3. IsFiniteSet(stale) /\ Cardinality(stale) \in Nat
      BY <2>1, Smaller
    <2>4. Cardinality(stale) <= (IF s = Redis THEN Cardinality(Callers) ELSE 0)
      <3>1. /\ now \in Nat /\ Window \in Nat \ {0}
            /\ \A e \in admitted[x] : e.at \in Int /\ e.ran \in Int /\ now - e.ran < Window
        BY Times, SpanType DEF Inv, TypeOK, Windows, Entries
      <3>2. CASE s # Redis
        <4>1. \A e \in admitted[x] : e.at = e.ran
          BY <3>2 DEF Inv, Windows
        <4>2. stale = {}
          BY <3>1, <4>1
        <4>3. Cardinality(stale) = 0
          BY <4>2, FS_EmptySet
        <4> HIDE DEF stale
        <4>4. QED
          BY <3>2, <4>3
      <3>3. CASE s = Redis
        <4> DEFINE start == now - Window
        <4>1. start \in Int /\ start < now
          BY <3>1
        <4>2. stale \subseteq Delayed(x, start)
          BY <3>1 DEF Delayed
        <4>3. /\ Cardinality(Delayed(x, start)) + Cardinality(Waiting(start)) <= Cardinality(Callers)
              /\ IsFiniteSet(Delayed(x, start)) /\ Cardinality(Delayed(x, start)) \in Nat
              /\ Cardinality(Waiting(start)) \in Nat /\ Cardinality(Callers) \in Nat
          BY <4>1, Delays DEF Inv, Budget
        <4>4. Cardinality(stale) <= Cardinality(Delayed(x, start))
          BY <4>2, <4>3, Smaller
        <4> HIDE DEF stale, start
        <4>5. QED
          BY <2>3, <3>3, <4>3, <4>4
      <3>4. QED
        BY <3>2, <3>3
    <2>5. Cardinality(admitted[x]) = Cardinality(fresh) + Cardinality(stale)
      <3>1. admitted[x] = fresh \union stale /\ fresh \intersect stale = {}
        OBVIOUS
      <3> HIDE DEF fresh, stale
      <3>2. QED
        BY <2>2, <2>3, <3>1, FS_Union, FS_EmptySet
    <2>6. Cardinality(Callers) \in Nat
      BY CallersAssumption, FS_CardinalityType
    <2> HIDE DEF stale
    <2>7. Cardinality(admitted[x]) <=
            Limit[k[1]] + (IF s = Redis THEN Cardinality(Callers) ELSE 0)
      <3> HIDE DEF fresh
      <3>1. QED
        BY <2>2, <2>3, <2>4, <2>5, <2>6
    <2>8. QED
      BY <2>2, <2>7
  <1>2. QED
    BY <1>1, Invariance, PTL

-----------------------------------------------------------------------------
(* Requests that are allowed were counted.                                  *)

CountInv == Inv /\ Progress /\ AllowedIsCounted

LEMMA EndCounts ==
  ASSUME CountInv, NEW c \in Callers, End(c) PROVE Progress' /\ AllowedIsCounted'
  BY DEF End, CountInv, Inv, TypeOK, Progress, AllowedIsCounted

\* A thread that goes on and is not yet allowed: its next label has its keys.
LEMMA GotoCounts ==
  ASSUME CountInv, NEW c \in Callers, NEW label \in Labels, NEW keys,
         Goto(c, label, keys),
         label = "email" => request[c].kind = "request",
         label = "ttl" => request[c].kind = "login",
         label \in {"email", "ttl"} =>
           <<Redis, IpKey(request[c])>> \in counted[c] \union ({via[c]} \X keys),
         label = "allowed" => via[c] \in Stores
           /\ {via[c]} \X KeysOf(request[c]) \subseteq counted[c] \union ({via[c]} \X keys)
  PROVE  Progress' /\ AllowedIsCounted'
  <1> USE DEF CountInv, Inv, TypeOK
  <1>1. /\ at' = [at EXCEPT ![c] = label]
        /\ counted' = [counted EXCEPT ![c] = @ \union ({via[c]} \X keys)]
        /\ UNCHANGED <<via, request>>
    BY DEF Goto
  <1>2. counted'[c] = counted[c] \union ({via[c]} \X keys) /\ at'[c] = label
    BY <1>1
  <1>3. \A d \in Callers \ {c} : at'[d] = at[d] /\ counted'[d] = counted[d]
    BY <1>1
  <1>4. Progress'
    BY <1>1, <1>2, <1>3 DEF Progress, IpKey
  <1>5. AllowedIsCounted'
    <2> SUFFICES ASSUME NEW d \in Callers, at'[d] = "allowed"
                 PROVE  \E s \in Stores : {s} \X KeysOf(request[d]) \subseteq counted'[d]
      BY <1>1 DEF AllowedIsCounted, KeysOf, IpKey, EmailKey
    <2>1. CASE d = c
      BY <1>2, <2>1
    <2>2. CASE d # c
      BY <1>3, <2>2 DEF AllowedIsCounted
    <2>3. QED
      BY <2>1, <2>2
  <1>6. QED
    BY <1>4, <1>5

LEMMA MemoryCounts ==
  ASSUME CountInv, NEW c \in Callers, MemoryAllow(c) PROVE Progress' /\ AllowedIsCounted'
  <1>1. CASE End(c)
    BY <1>1, EndCounts
  <1>2. CASE Goto(c, "allowed", KeysOf(request[c]))
    <2>1. via[c] \in Stores
      BY DEF MemoryAllow, CountInv, Inv, Sessions
    <2>2. QED
      BY <1>2, <2>1, GotoCounts DEF Labels
  <1>3. QED
    BY <1>1, <1>2 DEF MemoryAllow

LEMMA RedisCounts ==
  ASSUME CountInv, NEW c \in Callers, RedisAllow(c) \/ RedisTtl(c)
  PROVE  Progress' /\ AllowedIsCounted'
  <1> DEFINE r == request[c]
  <1>1. /\ r \in Requests /\ r.kind \in {"login", "request", "confirm"}
        /\ via[c] = Redis /\ Redis \in Stores
    BY BackendsAssumption DEF RedisAllow, RedisTtl, RunScript, CountInv, Inv, Sessions, Stores, Requests
  <1>2. CASE End(c)
    BY <1>2, EndCounts
  <1>3. CASE RedisTtl(c) /\ ~End(c)
    <2>1. Goto(c, "allowed", {})
      BY <1>3 DEF RedisTtl
    <2>2. KeysOf(r) = {IpKey(r)} /\ <<Redis, IpKey(r)>> \in counted[c]
      BY <1>3 DEF RedisTtl, CountInv, Progress, KeysOf
    <2>3. {Redis} \X KeysOf(r) \subseteq counted[c]
      BY <2>2
    <2>4. QED
      BY <1>1, <2>1, <2>3, GotoCounts DEF Labels
  <1>4. CASE RedisAllow(c) /\ ~End(c)
    <2>1. at[c] \in {"allow", "email"}
      BY <1>4 DEF RedisAllow, RunScript
    <2>2. CASE r.kind = "login"
      <3>1. Goto(c, "ttl", {IpKey(r)})
        BY <1>4, <2>1, <2>2 DEF RedisAllow, ScriptKey, CountInv, Progress
      <3>2. QED
        BY <1>1, <2>2, <3>1, GotoCounts DEF Labels
    <2>3. CASE r.kind = "request" /\ at[c] = "allow"
      <3>1. Goto(c, "email", {IpKey(r)})
        BY <1>4, <2>3 DEF RedisAllow, ScriptKey
      <3>2. QED
        BY <1>1, <2>3, <3>1, GotoCounts DEF Labels
    <2>4. CASE r.kind = "request" /\ at[c] = "email"
      <3>1. Goto(c, "allowed", {EmailKey(r)})
        BY <1>4, <2>4 DEF RedisAllow, ScriptKey
      <3>2. KeysOf(r) = {IpKey(r), EmailKey(r)} /\ <<Redis, IpKey(r)>> \in counted[c]
        BY <2>4 DEF KeysOf, CountInv, Progress
      <3>3. {Redis} \X KeysOf(r) \subseteq counted[c] \union ({Redis} \X {EmailKey(r)})
        BY <3>2
      <3>4. QED
        BY <1>1, <3>1, <3>3, GotoCounts DEF Labels
    <2>5. CASE r.kind = "confirm"
      <3>1. at[c] = "allow"
        BY <2>1, <2>5 DEF CountInv, Progress
      <3>2. Goto(c, "allowed", {IpKey(r)})
        BY <1>4, <2>5, <3>1 DEF RedisAllow, ScriptKey
      <3>3. KeysOf(r) = {IpKey(r)}
        BY <2>5 DEF KeysOf
      <3>4. QED
        BY <1>1, <3>2, <3>3, GotoCounts DEF Labels
    <2>6. QED
      BY <1>1, <2>1, <2>2, <2>3, <2>4, <2>5
  <1>5. QED
    BY <1>2, <1>3, <1>4

LEMMA OtherCounts ==
  ASSUME CountInv, NEW c \in Callers,
         Begin(c) \/ ReadClock(c) \/ Proceed(c) \/ Report(c) \/ RedisFails(c)
  PROVE  Progress' /\ AllowedIsCounted'
  <1>1. CASE End(c)
    BY <1>1, EndCounts
  <1>2. CASE Begin(c)
    BY <1>2 DEF Begin, history, CountInv, Inv, TypeOK, Progress, AllowedIsCounted
  <1>3. CASE ReadClock(c)
    <2>1. UNCHANGED <<at, request, counted>>
      BY <1>3 DEF ReadClock, history
    <2>2. QED
      BY <2>1 DEF CountInv, Progress, AllowedIsCounted
  <1>4. CASE (Proceed(c) \/ RedisFails(c)) /\ ~End(c)
    <2>1. /\ \E label \in {"allow", "register", "clear"} : at' = [at EXCEPT ![c] = label]
          /\ UNCHANGED <<request, counted>>
      BY <1>4 DEF Proceed, RedisFails
    <2>2. QED
      BY <2>1 DEF CountInv, Inv, TypeOK, Progress, AllowedIsCounted
  <1>5. QED
    BY <1>1, <1>2, <1>3, <1>4 DEF Report

LEMMA NextCountInv == CountInv /\ [Next]_vars => CountInv'
  <1> SUFFICES ASSUME CountInv, [Next]_vars PROVE CountInv'
    OBVIOUS
  <1>1. Inv'
    BY NextInv DEF CountInv
  <1>2. ASSUME NEW c \in Callers, CallerStep(c) PROVE Progress' /\ AllowedIsCounted'
    BY <1>2, MemoryCounts, RedisCounts, OtherCounts DEF CallerStep
  <1>3. CASE Tick \/ Finished \/ UNCHANGED vars
    <2>1. UNCHANGED <<at, request, counted>>
      BY <1>3 DEF Tick, Finished, vars, history
    <2>2. Progress'
      BY <2>1 DEF CountInv, Progress
    <2>3. AllowedIsCounted'
      BY <2>1 DEF CountInv, AllowedIsCounted
    <2>4. QED
      BY <1>1, <2>2, <2>3 DEF CountInv
  <1>4. QED
    BY <1>1, <1>2, <1>3 DEF Next, CountInv

\* Whoever is allowed to go on was admitted under every rule of the request.
THEOREM CountedSafe == Spec => []AllowedIsCounted
  <1>1. Init => CountInv
    BY InitInv DEF Init, CountInv, Progress, AllowedIsCounted
  <1>2. CountInv /\ [Next]_vars => CountInv'
    BY NextCountInv
  <1>3. CountInv => AllowedIsCounted
    BY DEF CountInv
  <1>4. QED
    BY <1>1, <1>2, <1>3, PTL DEF Spec

-----------------------------------------------------------------------------
(* How often a pair can fail.                                               *)

\* Every call is made to the store of the backend: no call went elsewhere.
Undiverted == backend # "auto" \/ faults = 0

\* The threads that a lockout beginning now would not stop any more.
Attempts(x) ==
  {c \in Callers : /\ at[c] \in {"allowed", "register", "clear"}
                   /\ request[c].kind = "login"
                   /\ via[c] = x[1]
                   /\ Pair(request[c]) = x[2]}

\* Recent failures that the store does not count: they came during the last lockout.
Late(x) == {e \in misses[x] : now - e.at < FailureWindow} \ failures[x]

Others == Cardinality(Callers) - 1

Calls ==
  \A c \in Callers :
    /\ via[c] \in {None, Primary(c)}
    /\ at[c] \in {"register", "clear"} => request[c].kind = "login"

\* What a store remembers and forgets of a pair's failures.  During a lockout each
\* further failure uses up one of the attempts that were under way when it began.
Counts(x) ==
  /\ lockout[x] = began[x] + LockoutSeconds
  /\ IsFiniteSet(failures[x]) /\ Cardinality(failures[x]) < Threshold
  /\ Cardinality(Late(x)) <= Others
  /\ InForce(x) => Cardinality(misses[x]) + Cardinality(Attempts(x)) <= Others

MissInv == Inv /\ Progress /\ (Undiverted => Calls /\ \A x \in Stores \X Pairs : Counts(x))

LEMMA Sizes ==
  ASSUME NEW x
  PROVE  /\ Others \in Nat
         /\ IsFiniteSet(Attempts(x)) /\ Cardinality(Attempts(x)) \in 0 .. Others + 1
         /\ \A c \in Attempts(x) : Cardinality(Attempts(x) \ {c}) = Cardinality(Attempts(x)) - 1
  <1>1. IsFiniteSet(Callers) /\ Cardinality(Callers) \in Nat /\ Cardinality(Callers) # 0
    BY CallersAssumption, FS_CardinalityType, FS_EmptySet
  <1>2. Attempts(x) \in SUBSET Callers
    BY DEF Attempts
  <1>3. /\ IsFiniteSet(Attempts(x)) /\ Cardinality(Attempts(x)) <= Cardinality(Callers)
        /\ Cardinality(Attempts(x)) \in Nat
    BY <1>1, <1>2, FS_Subset, FS_CardinalityType
  <1>4. \A c \in Attempts(x) : Cardinality(Attempts(x) \ {c}) = Cardinality(Attempts(x)) - 1
    BY <1>3, FS_RemoveElement
  <1>5. QED
    BY <1>1, <1>3, <1>4 DEF Others

\* The misses of a pair, all of them and the late ones.
LEMMA LateSizes ==
  ASSUME Recorded, NEW x \in Stores \X Pairs
  PROVE  /\ IsFiniteSet(misses[x]) /\ Cardinality(misses[x]) \in Nat
         /\ IsFiniteSet(Late(x)) /\ Cardinality(Late(x)) \in Nat
         /\ Cardinality(Late(x)) <= Cardinality(misses[x])
  <1>1. Late(x) \subseteq misses[x] /\ IsFiniteSet(misses[x])
    BY DEF Late, Recorded
  <1>2. QED
    BY <1>1, Smaller

\* What the check of a store sees is whether the pair's lockout is in force.
LEMMA Seen ==
  ASSUME TypeOK, NEW s \in Stores, NEW r \in Requests, Counts(<<s, Pair(r)>>)
  PROVE  Locked(s, r) <=> InForce(<<s, Pair(r)>>)
  <1> DEFINE x == <<s, Pair(r)>>
  <1>1. x \in Stores \X Pairs /\ x[1] = s
    BY KeyTypes
  <1>2. /\ now \in Int /\ began[x] \in Int /\ lockout[x] = began[x] + LockoutSeconds
        /\ LockoutSeconds \in Int /\ Rounded(s) \in Int
    BY <1>1, SpanType DEF TypeOK, Counts, Rounded
  <1> HIDE DEF x
  <1>3. Locked(s, r) <=> lockout[x] - now > Rounded(s)
    BY DEF Locked, Remains, x
  <1>4. InForce(x) <=> now - began[x] < LockoutSeconds - Rounded(s)
    BY <1>1 DEF InForce
  <1>5. Locked(s, r) <=> InForce(x)
    BY <1>2, <1>3, <1>4
  <1>6. QED
    BY <1>5 DEF x

\* While the limits of the pair stay as they are, a step that brings no new attempt
\* to a pair that is locked out keeps the counts.
LEMMA QuietCounts ==
  ASSUME Recorded, NEW x \in Stores \X Pairs, Counts(x),
         UNCHANGED <<now, failures[x], lockout[x], began[x], misses[x]>>,
         InForce(x) => Attempts(x)' \subseteq Attempts(x)
  PROVE  Counts(x)'
  <1>1. Late(x)' = Late(x) /\ (InForce(x)' <=> InForce(x))
    BY DEF Late, InForce, Rounded
  <1>2. CASE InForce(x)
    <2>1. Cardinality(Attempts(x)') <= Cardinality(Attempts(x)) /\ Cardinality(Attempts(x)') \in Nat
          /\ Cardinality(Attempts(x)) \in Nat
      BY <1>2, Sizes, Smaller
    <2>2. Cardinality(misses[x]) \in Nat /\ Others \in Nat
      BY LateSizes, Sizes
    <2>3. Cardinality(misses[x]) + Cardinality(Attempts(x)') <= Others
      BY <1>2, <2>1, <2>2 DEF Counts
    <2>4. QED
      BY <1>1, <2>3 DEF Counts, Others
  <1>3. CASE ~InForce(x)
    BY <1>1, <1>3 DEF Counts, Others
  <1>4. QED
    BY <1>2, <1>3

LEMMA EndAttempts ==
  ASSUME TypeOK, NEW c \in Callers, End(c), NEW x
  PROVE  Attempts(x)' = Attempts(x) \ {c}
  BY DEF End, TypeOK, Attempts, Labels, Pair

\* A failure that is reported: a miss more, and an attempt less.
LEMMA RegisterCounts ==
  ASSUME Inv, NEW c \in Callers, at[c] = "register", request[c].kind = "login",
         Register(c), End(c), UNCHANGED now,
         NEW x \in Stores \X Pairs, Counts(x)
  PROVE  Counts(x)'
  <1> DEFINE s == via[c]
             own == <<s, Pair(request[c])>>
             entry == Entry(c, misses[own])
             kept == Since(failures[own], Moment(c), FailureWindow)
             missed == kept \union {entry}
             more == misses[own] \union {entry}
  <1>1. /\ s \in Stores /\ request[c] \in Requests /\ own \in Stores \X Pairs
        /\ Moment(c) \in Int /\ Moment(c) <= now
    BY KeyTypes, MomentType DEF Inv, Sessions
  <1>2. Attempts(x)' = Attempts(x) \ {c}
    BY EndAttempts DEF Inv
  <1>3. CASE x # own
    <2>1. UNCHANGED <<failures[x], lockout[x], began[x], misses[x]>>
      BY <1>1, <1>3 DEF Register, Inv, TypeOK
    <2>2. QED
      BY <1>2, <2>1, QuietCounts DEF Inv
  <1>4. CASE x = own
    <2>1. c \in Attempts(x)
      BY <1>4 DEF Attempts
    <2>2. /\ Others \in Nat /\ Cardinality(Attempts(x)) \in 0 .. Others + 1
          /\ Cardinality(Attempts(x)') = Cardinality(Attempts(x)) - 1
          /\ Cardinality(Attempts(x)') \in Nat
      BY <1>2, <2>1, Sizes, Smaller
    <2>3. /\ now \in Int /\ began[x] \in Int /\ x[1] = s
          /\ \A e \in misses[x] \union failures[x] : e.at \in Int
          /\ Locked(s, request[c]) <=> InForce(x)
      BY <1>1, <1>4, Seen DEF Inv, TypeOK, Entries
    <2>4. IsFiniteSet(misses[x]) /\ Cardinality(misses[x]) \in Nat
      BY LateSizes DEF Inv
    <2>5. /\ IsFiniteSet(more) /\ Cardinality(more) \in Nat
          /\ Cardinality(more) <= Cardinality(misses[x]) + 1
      <3> HIDE DEF entry
      <3>1. QED
        BY <1>4, <2>4, OneMore
    <2>6. ASSUME InForce(x)
          PROVE  Cardinality(more) + Cardinality(Attempts(x)') <= Others
      <3> HIDE DEF more
      <3>1. QED
        BY <2>2, <2>4, <2>5, <2>6 DEF Counts
    <2>7. ASSUME InForce(x), misses'[x] = more
          PROVE  Cardinality(Late(x)') <= Others
      <3>1. Late(x)' \subseteq more
        BY <2>7 DEF Late
      <3> HIDE DEF more
      <3>2. Cardinality(Late(x)') <= Cardinality(more) /\ Cardinality(Late(x)') \in Nat
        BY <2>5, <3>1, Smaller
      <3>3. QED
        BY <2>2, <2>5, <2>6, <2>7, <3>2
    <2>8. CASE /\ s = Redis /\ Locked(s, request[c])
               /\ UNCHANGED <<failures, lockout, began>>
               /\ misses' = [misses EXCEPT ![own] = more]
      <3>1. misses'[x] = more /\ InForce(x)
        BY <1>4, <2>3, <2>8 DEF Inv, TypeOK
      <3>2. QED
        BY <2>6, <2>7, <2>8, <3>1 DEF Counts, Others
    <2>9. CASE /\ Cardinality(missed) < Threshold
               /\ failures' = [failures EXCEPT ![own] = missed]
               /\ UNCHANGED <<lockout, began>>
               /\ misses' = [misses EXCEPT ![own] = more]
      <3>1. failures'[x] = missed /\ misses'[x] = more /\ UNCHANGED <<lockout[x], began[x]>>
        BY <1>1, <1>4, <2>9 DEF Inv, TypeOK
      <3>2. IsFiniteSet(missed)
        <4>1. IsFiniteSet(kept)
          BY <1>4, SinceSmaller DEF Counts
        <4> HIDE DEF kept, entry
        <4>2. QED
          BY <4>1, OneMore
      <3>3. Late(x)' \subseteq Late(x)
        <4> SUFFICES ASSUME NEW e \in Late(x)' PROVE e \in Late(x)
          OBVIOUS
        <4>1. e \in misses[x] /\ e \notin kept /\ now - e.at < FailureWindow
          BY <1>4, <3>1 DEF Late
        <4>2. e.at \in Int /\ FailureWindow \in Int
          BY <2>3, <4>1, SpanType
        <4>3. e.at > Moment(c) - FailureWindow
          BY <1>1, <2>3, <4>1, <4>2
        <4>4. QED
          BY <1>4, <4>1, <4>3 DEF Late, Since
      <3>4. Cardinality(Late(x)') <= Others
        <4>1. Cardinality(Late(x)') <= Cardinality(Late(x)) /\ Cardinality(Late(x)') \in Nat
              /\ Cardinality(Late(x)) \in Nat
          BY <3>3, LateSizes, Smaller DEF Inv
        <4>2. QED
          BY <2>2, <4>1 DEF Counts
      <3>5. InForce(x)' <=> InForce(x)
        BY <3>1 DEF InForce, Rounded
      <3> HIDE DEF missed, more
      <3>6. QED
        BY <2>6, <2>9, <3>1, <3>2, <3>4, <3>5 DEF Counts, Others
    <2>10. CASE /\ failures' = [failures EXCEPT ![own] = {}]
                /\ lockout' = [lockout EXCEPT ![own] = LockUntil]
                /\ began' = [began EXCEPT ![own] = now]
                /\ misses' = [misses EXCEPT ![own] = IF InForce(own) THEN more ELSE {}]
      <3>1. /\ failures'[x] = {} /\ began'[x] = now /\ lockout'[x] = now + LockoutSeconds
            /\ misses'[x] = IF InForce(x) THEN more ELSE {}
        BY <1>1, <1>4, <2>10 DEF Inv, TypeOK, LockUntil
      <3>2. IsFiniteSet({}) /\ Cardinality({}) = 0
        BY FS_EmptySet
      <3>3. CASE InForce(x)
        <4> HIDE DEF more
        <4>1. QED
          BY <2>6, <2>7, <3>1, <3>2, <3>3, SpanType DEF Counts, Others
      <3>4. CASE ~InForce(x)
        <4>1. misses'[x] = {} /\ Late(x)' = {}
          BY <3>1, <3>4 DEF Late
        <4>2. QED
          BY <2>2, <3>1, <3>2, <4>1, SpanType DEF Counts, Others
      <3>5. QED
        BY <3>3, <3>4
    <2>11. QED
      BY <2>8, <2>9, <2>10 DEF Register
  <1>5. QED
    BY <1>3, <1>4

\* A correct password forgets everything.
LEMMA ClearCounts ==
  ASSUME Inv, NEW c \in Callers, at[c] = "clear", Clear(c), End(c), UNCHANGED now,
         NEW x \in Stores \X Pairs, Counts(x)
  PROVE  Counts(x)'
  <1> DEFINE own == <<via[c], Pair(request[c])>>
  <1>1. own \in Stores \X Pairs
    BY KeyTypes DEF Inv, Sessions
  <1>2. CASE x # own
    <2>1. UNCHANGED <<failures[x], lockout[x], began[x], misses[x]>>
      BY <1>1, <1>2 DEF Clear, Inv, TypeOK
    <2>2. QED
      BY <2>1, EndAttempts, QuietCounts DEF Inv
  <1>3. CASE x = own
    <2>1. /\ failures'[x] = {} /\ lockout'[x] = 0 /\ misses'[x] = {}
          /\ began'[x] = -LockoutSeconds
      BY <1>1, <1>3 DEF Clear, Inv, TypeOK
    <2>2. Late(x)' = {} /\ IsFiniteSet({}) /\ Cardinality({}) = 0
      BY <2>1, FS_EmptySet DEF Late
    <2>3. now \in Nat /\ Others \in Nat /\ Rounded(x[1]) \in Nat /\ Threshold \in Nat \ {0}
          /\ LockoutSeconds \in Nat
      BY Sizes, Times, SpanType DEF Inv, Rounded
    <2>4. ~InForce(x)'
      BY <2>1, <2>3 DEF InForce, Rounded
    <2>5. QED
      BY <2>1, <2>2, <2>3, <2>4 DEF Counts, Others
  <1>4. QED
    BY <1>2, <1>3

\* Time only takes misses away and ends lockouts.
LEMMA TickCounts ==
  ASSUME Inv, Tick, NEW x \in Stores \X Pairs, Counts(x) PROVE Counts(x)'
  <1>1. /\ now \in Int /\ began[x] \in Int /\ now' = now + 1 /\ Rounded(x[1]) \in Int
        /\ \A e \in misses[x] : e.at \in Int
    BY SpanType DEF Inv, TypeOK, Entries, Tick, Rounded
  <1>2. misses'[x] \subseteq misses[x]
    BY DEF Tick, Inv, TypeOK
  <1>3. UNCHANGED <<failures[x], lockout[x], began[x]>> /\ Attempts(x)' = Attempts(x)
    BY DEF Tick, stores, Attempts
  <1>4. InForce(x)' => InForce(x)
    BY <1>1, <1>3, SpanType DEF InForce, Rounded
  <1>5. Late(x)' \subseteq Late(x)
    BY <1>1, <1>2, <1>3, SpanType DEF Late
  <1>6. /\ Cardinality(Late(x)') <= Cardinality(Late(x))
        /\ Cardinality(Late(x)') \in Nat /\ Cardinality(Late(x)) \in Nat
        /\ Cardinality(misses'[x]) <= Cardinality(misses[x])
        /\ Cardinality(misses'[x]) \in Nat /\ Cardinality(misses[x]) \in Nat
    BY <1>2, <1>5, LateSizes, Smaller DEF Inv
  <1>7. Others \in Nat /\ Cardinality(Attempts(x)) \in Nat
    BY Sizes
  <1>8. Cardinality(Late(x)') <= Others
    BY <1>6, <1>7 DEF Counts
  <1>9. ASSUME InForce(x)' PROVE Cardinality(misses'[x]) + Cardinality(Attempts(x)) <= Others
    BY <1>4, <1>6, <1>7, <1>9 DEF Counts
  <1>10. QED
    BY <1>3, <1>8, <1>9 DEF Counts, Others

\* As long as no call is diverted to memory, a failure of Redis ends the request.
LEMMA DivertedNever ==
  ASSUME Inv, Calls, Undiverted', NEW c \in Callers, RedisFails(c) PROVE End(c)
  <1>1. backend' # "auto" /\ backend' = backend
    BY BoundsAssumption DEF RedisFails, Undiverted, Inv, TypeOK
  <1>2. via[c] = Redis /\ Redis \notin Processes \union {None} /\ ProcessOf[c] \in Processes
    BY StoresAssumption, NoneAssumption DEF RedisFails, Stores
  <1>3. backend # "memory"
    BY <1>2 DEF Calls, Primary
  <1>4. backend = "redis"
    BY <1>1, <1>3, BackendsAssumption DEF Inv, TypeOK
  <1>5. QED
    BY <1>4 DEF RedisFails

\* Nobody gets past the check of a pair that is locked out, in the store it asks.
LEMMA QuietStep ==
  ASSUME Inv, Progress, Calls, Undiverted', NEW c \in Callers,
         \/ Begin(c) \/ MemoryAllow(c) \/ ReadClock(c) \/ RedisAllow(c) \/ RedisTtl(c)
         \/ Proceed(c)
         \/ RedisFails(c) /\ UNCHANGED <<failures, lockout, began, misses>>,
         NEW x \in Stores \X Pairs, Counts(x)
  PROVE  Counts(x)'
  <1>1. UNCHANGED <<now, failures[x], lockout[x], began[x], misses[x]>>
    BY DEF Begin, MemoryAllow, ReadClock, RedisAllow, RedisTtl, Proceed, RedisFails, Consume,
           RunScript, stores, history
  <1>2. ASSUME InForce(x) PROVE Attempts(x)' \subseteq Attempts(x)
    <2>1. CASE End(c)
      BY <2>1, EndAttempts DEF Inv
    <2>2. CASE Begin(c)
      BY <2>2 DEF Begin, Attempts, Inv, TypeOK, Pair
    <2>3. CASE MemoryAllow(c) /\ ~End(c)
      <3>1. request[c].kind = "login" => ~(x = <<via[c], Pair(request[c])>>)
        BY <1>2, <2>3, Seen DEF MemoryAllow, Inv, Sessions
      <3>2. QED
        BY <2>3, <3>1 DEF MemoryAllow, Goto, Attempts, Inv, TypeOK, Pair
    <2>4. CASE RedisAllow(c) /\ ~End(c)
      <3>1. PICK label \in {"ttl", "email", "allowed"} :
              /\ Goto(c, label, {ScriptKey(c)})
              /\ label = "allowed" => request[c].kind # "login"
        BY <2>4 DEF RedisAllow
      <3>2. at' = [at EXCEPT ![c] = label] /\ UNCHANGED <<via, request>>
        BY <3>1 DEF Goto
      <3>3. QED
        BY <3>1, <3>2 DEF Attempts, Inv, TypeOK, Pair
    <2>5. CASE RedisTtl(c) /\ ~End(c)
      <3>1. Goto(c, "allowed", {}) /\ ~(x = <<via[c], Pair(request[c])>>)
        BY <1>2, <2>5, Seen DEF RedisTtl, Inv, Sessions
      <3>2. QED
        BY <3>1 DEF Goto, Attempts, Inv, TypeOK, Pair
    <2>6. CASE Proceed(c) /\ ~End(c)
      <3>1. via' = [via EXCEPT ![c] = Primary(c)] /\ via[c] = Primary(c)
        BY <2>6, NoneAssumption DEF Proceed, Calls, Inv, Sessions
      <3>2. QED
        BY <2>6, <3>1 DEF Proceed, Attempts, Inv, TypeOK, Pair
    <2>7. CASE RedisFails(c) /\ ~End(c)
      BY <2>7, DivertedNever
    <2>8. CASE ReadClock(c)
      BY <2>8 DEF ReadClock, Attempts
    <2>9. QED
      BY <2>1, <2>2, <2>3, <2>4, <2>5, <2>6, <2>7, <2>8
  <1>3. QED
    BY <1>1, <1>2, QuietCounts DEF Inv

\* A diversion is never undone.
LEMMA NextUndiverted == ASSUME Inv, [Next]_vars, Undiverted' PROVE Undiverted
  <1>1. ASSUME NEW c \in Callers, RedisFails(c) PROVE Undiverted
    <2>1. backend' = backend /\ faults' = faults + 1 /\ faults \in Nat
      BY <1>1, BoundsAssumption DEF RedisFails, Inv, TypeOK
    <2>2. faults' # 0
      BY <2>1
    <2>3. QED
      BY <2>1, <2>2 DEF Undiverted
  <1>2. CASE UNCHANGED <<backend, faults>>
    BY <1>2 DEF Undiverted
  <1>3. ASSUME NEW c \in Callers, CallerStep(c) PROVE Undiverted
    BY <1>1, <1>2, <1>3
       DEF CallerStep, Begin, MemoryAllow, ReadClock, RedisAllow, RedisTtl, Proceed, Report
  <1>4. QED
    BY <1>2, <1>3 DEF Next, Tick, Finished, vars

LEMMA NextCalls ==
  ASSUME Inv, Progress, Calls, Undiverted', [Next]_vars PROVE Calls'
  <1>1. UNCHANGED backend
    BY DEF Next, CallerStep, Tick, Begin, MemoryAllow, ReadClock, RedisAllow, RedisTtl, Proceed,
           Report, RedisFails, Finished, vars
  <1>2. ASSUME NEW c \in Callers, CallerStep(c) PROVE Calls'
    <2>1. ASSUME End(c) PROVE Calls'
      BY <1>1, <2>1 DEF End, Calls, Primary, Inv, TypeOK
    <2>2. ASSUME NEW label \in {"ttl", "email", "allowed"}, NEW keys, Goto(c, label, keys)
          PROVE  Calls'
      <3>1. at' = [at EXCEPT ![c] = label] /\ UNCHANGED <<via, request>>
        BY <2>2 DEF Goto
      <3>2. QED
        BY <1>1, <3>1 DEF Calls, Primary, Inv, TypeOK
    <2>3. CASE Begin(c)
      BY <1>1, <2>3 DEF Begin, Calls, Primary, Inv, TypeOK
    <2>4. CASE MemoryAllow(c)
      BY <2>1, <2>2, <2>4 DEF MemoryAllow
    <2>5. CASE RedisAllow(c)
      <3>1. End(c) \/ \E label \in {"ttl", "email", "allowed"} : Goto(c, label, {ScriptKey(c)})
        BY <2>5 DEF RedisAllow
      <3>2. QED
        BY <2>1, <2>2, <3>1
    <2>6. CASE RedisTtl(c)
      BY <2>1, <2>2, <2>6 DEF RedisTtl
    <2>7. CASE Proceed(c) /\ ~End(c)
      BY <1>1, <2>7 DEF Proceed, Calls, Primary, Inv, TypeOK
    <2>8. CASE Report(c)
      BY <2>1, <2>8 DEF Report
    <2>9. CASE RedisFails(c) /\ ~End(c)
      BY <2>9, DivertedNever
    <2>10. CASE ReadClock(c)
      BY <1>1, <2>10 DEF ReadClock, Calls, Primary
    <2>11. QED
      BY <1>2, <2>1, <2>3, <2>4, <2>5, <2>6, <2>7, <2>8, <2>9, <2>10 DEF CallerStep
  <1>3. CASE Tick \/ Finished \/ UNCHANGED vars
    BY <1>1, <1>3 DEF Tick, Finished, vars, Calls, Primary
  <1>4. QED
    BY <1>2, <1>3 DEF Next

LEMMA NextCounts ==
  ASSUME Inv, Progress, Calls, Undiverted', [Next]_vars,
         NEW x \in Stores \X Pairs, Counts(x)
  PROVE  Counts(x)'
  <1>1. ASSUME NEW c \in Callers, CallerStep(c) PROVE Counts(x)'
    <2>1. CASE Report(c)
      BY <2>1, RegisterCounts, ClearCounts DEF Report, Calls
    <2>2. CASE RedisFails(c)
      <3>1. CASE UNCHANGED <<failures, lockout, began, misses>>
        BY <2>2, <3>1, QuietStep
      <3>2. CASE ~UNCHANGED <<failures, lockout, began, misses>>
        <4>1. /\ via[c] = Redis /\ UNCHANGED now
              /\ \/ at[c] = "register" /\ Register(c)
                 \/ at[c] = "clear" /\ Clear(c)
          BY <2>2, <3>2 DEF RedisFails, RunScript, stores
        <4>2. End(c)
          BY <2>2, DivertedNever
        <4>3. QED
          BY <4>1, <4>2, RegisterCounts, ClearCounts DEF Calls
      <3>3. QED
        BY <3>1, <3>2
    <2>3. QED
      BY <1>1, <2>1, <2>2, QuietStep DEF CallerStep
  <1>2. CASE Tick
    BY <1>2, TickCounts
  <1>3. CASE Finished \/ UNCHANGED vars
    <2>1. UNCHANGED <<now, failures, lockout, began, misses, at, via, request>>
      BY <1>3 DEF Finished, vars, stores, history
    <2>2. Attempts(x)' = Attempts(x)
      BY <2>1 DEF Attempts
    <2>3. QED
      BY <2>1, <2>2, QuietCounts DEF Inv
  <1>4. QED
    BY <1>1, <1>2, <1>3 DEF Next

\* While a lockout is in force no more passwords of the pair are found wrong than other
\* threads were past the check, and without one fewer than the threshold in a failure
\* window beside those, in memory and on Redis, for every number of threads and however
\* long the windows are; with the "auto" backend as long as Redis has not failed.
THEOREM MissesSafe == Spec => []MissesBounded
  <1>1. Init => CountInv /\ MissInv
    <2> SUFFICES ASSUME Init PROVE CountInv /\ MissInv
      OBVIOUS
    <2>1. CountInv
      BY InitInv DEF Init, CountInv, Progress, AllowedIsCounted
    <2>2. Calls
      BY DEF Init, Calls
    <2>3. ASSUME NEW x \in Stores \X Pairs PROVE Counts(x)
      <3>1. /\ failures[x] = {} /\ misses[x] = {} /\ lockout[x] = 0 /\ now = 0
            /\ began[x] = -LockoutSeconds
        BY DEF Init
      <3>2. Late(x) = {} /\ IsFiniteSet({}) /\ Cardinality({}) = 0
        BY <3>1, FS_EmptySet DEF Late
      <3>3. Others \in Nat /\ Threshold \in Nat \ {0} /\ LockoutSeconds \in Nat
            /\ Rounded(x[1]) \in Nat
        BY Sizes, SpanType DEF Rounded
      <3>4. ~InForce(x)
        BY <3>1, <3>3 DEF InForce
      <3>5. QED
        BY <3>1, <3>2, <3>3, <3>4 DEF Counts
    <2>4. QED
      BY <2>1, <2>2, <2>3 DEF CountInv, MissInv
  <1>2. CountInv /\ MissInv /\ [Next]_vars => CountInv' /\ MissInv'
    <2> SUFFICES ASSUME CountInv, MissInv, [Next]_vars PROVE CountInv' /\ MissInv'
      OBVIOUS
    <2>1. CountInv'
      BY NextCountInv
    <2>2. Undiverted' => Undiverted
      BY NextUndiverted DEF MissInv
    <2>3. Undiverted' => Calls' /\ \A x \in Stores \X Pairs : Counts(x)'
      BY <2>2, NextCalls, NextCounts DEF CountInv, MissInv
    <2>4. QED
      BY <2>1, <2>3 DEF CountInv, MissInv
  <1>3. MissInv => MissesBounded
    <2> SUFFICES ASSUME MissInv, Undiverted, NEW x \in Stores \X Pairs
                 PROVE  IF InForce(x)
                        THEN Cardinality(misses[x]) < Cardinality(Callers)
                        ELSE Cardinality({e \in misses[x] : now - e.at < FailureWindow})
                               < Threshold + Cardinality(Callers) - 1
      BY DEF MissesBounded, Undiverted
    <2> DEFINE recent == {e \in misses[x] : now - e.at < FailureWindow}
    <2>1. Counts(x) /\ Recorded
      BY DEF MissInv, Inv
    <2>2. /\ Others \in Nat /\ Cardinality(Attempts(x)) \in Nat /\ Cardinality(Callers) \in Int
          /\ Others = Cardinality(Callers) - 1
      BY Sizes, CallersAssumption, FS_CardinalityType DEF Others
    <2>3. /\ IsFiniteSet(Late(x)) /\ Cardinality(Late(x)) \in Nat
          /\ IsFiniteSet(misses[x]) /\ Cardinality(misses[x]) \in Nat
          /\ IsFiniteSet(failures[x]) /\ Cardinality(failures[x]) \in Nat
      BY <2>1, LateSizes, FS_CardinalityType DEF Counts
    <2>4. CASE InForce(x)
      <3>1. Cardinality(misses[x]) < Cardinality(Callers)
        BY <2>1, <2>2, <2>3, <2>4 DEF Counts
      <3>2. QED
        BY <2>4, <3>1
    <2>5. CASE ~InForce(x)
      <3>1. recent \subseteq failures[x] \union Late(x)
        BY DEF Late
      <3>2. /\ IsFiniteSet(failures[x] \union Late(x))
            /\ Cardinality(failures[x] \union Late(x)) =
                 Cardinality(failures[x]) + Cardinality(Late(x))
                   - Cardinality(failures[x] \intersect Late(x))
            /\ Cardinality(failures[x] \intersect Late(x)) \in Nat
        BY <2>3, FS_Union, FS_Intersection, FS_CardinalityType
      <3> HIDE DEF recent
      <3>3. /\ Cardinality(recent) <= Cardinality(failures[x] \union Late(x))
            /\ Cardinality(recent) \in Nat
        BY <3>1, <3>2, Smaller
      <3>4. Cardinality(failures[x]) < Threshold /\ Cardinality(Late(x)) <= Others
            /\ Threshold \in Nat
        BY <2>1, SpanType DEF Counts
      <3>5. Cardinality(recent) < Threshold + Cardinality(Callers) - 1
        BY <2>2, <2>3, <3>2, <3>3, <3>4
      <3>6. QED
        BY <2>5, <3>5 DEF recent
    <2>6. QED
      BY <2>4, <2>5
  <1>4. QED
    BY <1>1, <1>2, <1>3, PTL DEF Spec
=============================================================================
