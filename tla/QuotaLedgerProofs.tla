------------------------- MODULE QuotaLedgerProofs -------------------------
(***************************************************************************)
(* Proofs about QuotaLedger: what the promise of the quota comes to, for   *)
(* every number of requests, workspaces and months and every set of        *)
(* limits.  They say that the promise is worth implementing.               *)
(***************************************************************************)
EXTENDS QuotaLedger, FiniteSetTheorems, TLAPS

\* The assumptions that Quota makes of the same constants.
Constants ==
  /\ IsFiniteSet(Submitters)
  /\ Limits \subseteq Int
  /\ Retention \in Nat
  /\ MaxPeriod \in Nat
  /\ Unread \notin Limits \union Keys

\* Whoever is decided was admitted, and nobody is decided both ways.
LedgerInv ==
  /\ now \in Periods
  /\ limit \in [Workspaces -> Limits]
  /\ admitted \in [Submitters -> [key : Keys, limit : Limits] \union {NotAdmitted}]
  /\ jobs \subseteq Submitters
  /\ \A r \in jobs \union refused : admitted[r] # NotAdmitted
  /\ jobs \intersect refused = {}
  /\ LimitsKept

\* A step that creates no job and lets those that exist keep their terms keeps the limits.
LEMMA ChargesFrame ==
  ASSUME Constants, LedgerInv, jobs' = jobs, now' \in Periods, now' >= now,
         \A j \in jobs : admitted'[j] = admitted[j]
  PROVE  LimitsKept'
  <1>1. \A k \in Keys : Charged(k)' = Charged(k)
    BY DEF Charged
  <1>2. \A k \in Keys : Retained(k)' => Retained(k)
    BY DEF Constants, LedgerInv, Retained, Keys, Periods
  <1>3. \A k \in Keys : \A j \in Charged(k) : admitted'[j] = admitted[j]
    BY DEF Charged
  <1>4. QED
    BY <1>1, <1>2, <1>3 DEF LedgerInv, LimitsKept

\* The limit of the job that is accepted last bounds the new number of its month.
LEMMA AcceptKeepsLimits ==
  ASSUME Constants, LedgerInv, NEW r \in Submitters, Accept(r)
  PROVE  LimitsKept'
  <1> SUFFICES ASSUME NEW k \in Keys, Retained(k)', Charged(k)' # {}
               PROVE  \E j \in Charged(k)' : Cardinality(Charged(k)') <= admitted'[j].limit
    BY DEF LimitsKept
  <1>1. /\ r \notin jobs /\ jobs' = jobs \union {r} /\ admitted' = admitted
        /\ admitted[r].limit \in Int
        /\ Retained(k)
    BY DEF Accept, Pending, LedgerInv, Constants, Retained
  <1>2. CASE admitted[r].key = k
    <2>1. Charged(k)' = Charged(k) \union {r} /\ r \notin Charged(k)
      BY <1>1, <1>2 DEF Charged
    <2>2. IsFiniteSet(Charged(k))
      BY FS_Subset DEF Charged, LedgerInv, Constants
    <2>3. Cardinality(Charged(k)') = Cardinality(Charged(k)) + 1
      BY <2>1, <2>2, FS_AddElement
    <2>4. Cardinality(Charged(k)) \in Nat /\ Cardinality(Charged(k)) < admitted[r].limit
      BY <1>1, <1>2, <2>2, FS_CardinalityType DEF Accept
    <2>5. QED
      BY <1>1, <2>1, <2>3, <2>4
  <1>3. CASE admitted[r].key # k
    <2>1. Charged(k)' = Charged(k)
      BY <1>1, <1>3 DEF Charged
    <2>2. QED
      BY <1>1, <2>1 DEF LedgerInv, LimitsKept
  <1>4. QED
    BY <1>2, <1>3

LEMMA NextLedgerInv ==
  ASSUME Constants, LedgerInv, [LedgerNext]_ledgerVars
  PROVE  LedgerInv'
  <1>1. CASE UNCHANGED ledgerVars
    BY <1>1 DEF ledgerVars, LedgerInv, LimitsKept, Charged, Retained
  <1>2. CASE NextMonth
    <2>1. now' \in Periods /\ now' >= now
      BY <1>2 DEF NextMonth, LedgerInv, Periods, Constants
    <2>2. QED
      BY <1>2, <2>1, ChargesFrame DEF NextMonth, LedgerInv
  <1>3. ASSUME NEW w \in Workspaces, SetLimit(w) PROVE LedgerInv'
    <2>1. LimitsKept'
      BY <1>3, ChargesFrame DEF SetLimit, LedgerInv, Periods, Constants
    <2>2. QED
      BY <1>3, <2>1 DEF SetLimit, LedgerInv
  <1>4. ASSUME NEW r \in Submitters, Admit(r) PROVE LedgerInv'
    <2>1. /\ r \notin jobs \union refused
          /\ admitted' \in [Submitters -> [key : Keys, limit : Limits] \union {NotAdmitted}]
          /\ \A q \in jobs \union refused : admitted'[q] = admitted[q]
      BY <1>4 DEF Admit, LedgerInv, Keys
    <2>2. LimitsKept'
      BY <1>4, <2>1, ChargesFrame DEF Admit, LedgerInv, Periods, Constants
    <2>3. QED
      BY <1>4, <2>1, <2>2 DEF Admit, LedgerInv, NotAdmitted
  <1>5. ASSUME NEW r \in Submitters, Accept(r) PROVE LedgerInv'
    BY <1>5, AcceptKeepsLimits DEF Accept, Pending, LedgerInv, NotAdmitted
  <1>6. ASSUME NEW r \in Submitters, Refuse(r) PROVE LedgerInv'
    <2>1. LimitsKept'
      BY <1>6, ChargesFrame DEF Refuse, LedgerInv, Periods, Constants
    <2>2. QED
      BY <1>6, <2>1 DEF Refuse, Pending, LedgerInv, NotAdmitted
  <1>7. QED
    BY <1>1, <1>2, <1>3, <1>4, <1>5, <1>6 DEF LedgerNext

LEMMA InitLedgerInv == Constants /\ LedgerInit => LedgerInv
  BY DEF Constants, LedgerInit, LedgerInv, LimitsKept, Charged, Periods

LEMMA LedgerInvariance == ASSUME Constants PROVE LedgerSpec => []LedgerInv
  <1>1. LedgerInv /\ [LedgerNext]_ledgerVars => LedgerInv'
    BY NextLedgerInv
  <1>2. QED
    BY <1>1, InitLedgerInv, PTL DEF LedgerSpec

\* However plans change and months end between an admission and its decision, no
\* retained month has more jobs than the limit one of them was admitted with.
THEOREM LedgerKeepsLimits == ASSUME Constants PROVE LedgerSpec => []LimitsKept
  <1>1. LedgerInv => LimitsKept
    BY DEF LedgerInv
  <1>2. QED
    BY <1>1, LedgerInvariance, PTL

\* No request is decided twice, and no decision is taken back.
THEOREM LedgerDecides == ASSUME Constants PROVE LedgerSpec => DecisionsStand
  <1>1. ASSUME LedgerInv, LedgerInv', [LedgerNext]_ledgerVars
        PROVE  [Stand]_ledgerVars
    <2>1. jobs' \intersect refused' = {}
      BY <1>1 DEF LedgerInv
    <2>2. \A r \in jobs \union refused : r \in Submitters => admitted[r] # NotAdmitted
      BY <1>1 DEF LedgerInv
    <2>3. ASSUME NEW r \in Submitters, Admit(r)
          PROVE  Stand
      BY <1>1, <2>1, <2>2, <2>3 DEF Admit, LedgerInv, Stand
    <2>4. ASSUME ~ \E r \in Submitters : Admit(r), ~ UNCHANGED ledgerVars
          PROVE  Stand
      BY <1>1, <2>1, <2>4 DEF LedgerNext, NextMonth, SetLimit, Accept, Refuse, Stand
    <2>5. QED
      BY <2>3, <2>4
  <1>2. QED
    BY <1>1, LedgerInvariance, PTL DEF LedgerSpec, DecisionsStand, Stand
=============================================================================
