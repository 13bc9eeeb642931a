----------------------------- MODULE GatewayProofs -----------------------------
(***************************************************************************)
(* Proofs about what the gateway keeps in Redis:                           *)
(* RateLimiter, for any finite set of concurrent requests, any counters    *)
(* and limits, its types, that no request is rejected before its counter   *)
(* has let the limit through, how much a window lets through when requests *)
(* race, and that the quota comes back; Sessions, for any number of        *)
(* requests, token pairs, roles and events, its types, that one request at *)
(* a time refreshes the tokens while the others wait in the queue, that    *)
(* new tokens carry the account's role, and that logged out ones are       *)
(* refused.                                                                *)
(***************************************************************************)
EXTENDS RateLimiter, Sessions, FiniteSetTheorems, TLAPS

-----------------------------------------------------------------------------
(* The rate limits.                                                        *)
(*                                                                         *)
(* A request that found no counter may set it to one long after others     *)
(* have counted, and what they counted is forgotten.  It does so once: as  *)
(* long as the counter is there, no request finds it missing.  So what a   *)
(* window lets through beyond the counter is paid by the requests that no  *)
(* longer wait to set it.                                                  *)

Sharers(k) == {r \in InFlight : \E i \in DOMAIN KeysOf[r] : KeysOf[r][i] = k}

\* The requests of a counter that are not about to set it.
Free(k) == {r \in Sharers(k) : ~(pc[r] = "setex" /\ Key(r) = k)}

\* What the counter remembers: INCR also counts the requests it turns away.
Remembered(k) == IF counter[k] <= Limit[k] THEN counter[k] ELSE Limit[k]

Accounted(k) ==
  /\ counter[k] = 0 => passed[k] = 0
  /\ Remembered(k) <= passed[k]
  /\ counter[k] > 0 => /\ Cardinality(Free(k)) >= 1
                       /\ passed[k] <= Remembered(k) + (Cardinality(Free(k)) - 1) * Limit[k]

RateIInv == RateTypeOK /\ \A k \in Keys : Accounted(k)

-----------------------------------------------------------------------------
(* Types and sizes. *)

\* A request is checked against a counter that it shares.
LEMMA KeyType ==
  ASSUME RateTypeOK, NEW r \in InFlight
  PROVE  Key(r) \in Keys /\ r \in Sharers(Key(r))
BY RateAssumption DEF RateTypeOK, Key, Sharers

\* The limits and what is counted are natural numbers.
LEMMA Numbers ==
  ASSUME RateTypeOK, NEW k \in Keys
  PROVE  /\ Limit[k] \in Nat /\ Limit[k] >= 1
         /\ counter[k] \in Nat /\ passed[k] \in Nat /\ Remembered(k) \in Nat
         /\ Remembered(k) <= Limit[k]
BY RateAssumption DEF RateTypeOK, Remembered

\* There are no more free requests than sharing ones.
LEMMA FreeSize ==
  ASSUME NEW k \in Keys
  PROVE  /\ IsFiniteSet(Sharers(k)) /\ IsFiniteSet(Free(k))
         /\ Cardinality(Free(k)) \in Nat /\ Sharing(k) \in Nat
         /\ Cardinality(Free(k)) <= Sharing(k)
<1>1. IsFiniteSet(Sharers(k))
  BY RateAssumption, FS_Subset DEF Sharers
<1>2. /\ IsFiniteSet(Free(k))
      /\ Cardinality(Free(k)) <= Cardinality(Sharers(k))
  BY <1>1, FS_Subset DEF Free
<1>3. Sharing(k) = Cardinality(Sharers(k))
  BY DEF Sharing, Sharers
<1>. QED
  BY <1>1, <1>2, <1>3, FS_CardinalityType

\* Products of sizes and limits.
LEMMA Products ==
  ASSUME NEW m \in Nat, NEW n \in Nat, NEW l \in Nat
  PROVE  /\ (m - 1) * l + l = m * l
         /\ m <= n => m * l <= n * l
         /\ m * l \in Nat
<1>1. m <= n => m * l <= n * l
  <2>. SUFFICES ASSUME m <= n PROVE m * l <= n * l
    OBVIOUS
  <2>1. PICK x \in Nat : n = m + x
    <3>. WITNESS n - m \in Nat
    <3>. QED
      OBVIOUS
  <2>2. (m + x) * l = m * l + x * l /\ x * l \in Nat /\ m * l \in Nat
    OBVIOUS
  <2>. QED
    BY <2>1, <2>2
<1>2. (m - 1) * l + l = m * l
  OBVIOUS
<1>. QED
  BY <1>1, <1>2

-----------------------------------------------------------------------------
(* Types. *)

RateStages == {"new", "get", "setex", "incr", "forwarded", "rejected"}

\* Passing a check moves to the next counter, if there is one.
LEMMA PassTyped ==
  ASSUME RateTypeOK, NEW r \in InFlight, Pass(r)
  PROVE  /\ passed' \in [Keys -> Nat]
         /\ pc' \in [InFlight -> RateStages]
         /\ level' \in [InFlight -> Nat] /\ \A q \in InFlight : level'[q] \in DOMAIN KeysOf[q]
<1>. DEFINE n == Len(KeysOf[r])
<1>1. n \in Nat /\ DOMAIN KeysOf[r] = 1 .. n
  <2>1. KeysOf[r] \in Seq(Keys)
    BY RateAssumption
  <2>. QED
    BY <2>1
<1>2. passed' \in [Keys -> Nat]
  BY KeyType DEF RateTypeOK, Pass
<1>3. CASE level[r] < n
  <2>1. level' = [level EXCEPT ![r] = level[r] + 1] /\ pc' = [pc EXCEPT ![r] = "get"]
    BY <1>3 DEF Pass
  <2>2. level[r] + 1 \in DOMAIN KeysOf[r] /\ level[r] + 1 \in Nat
    <3>1. level[r] \in 1 .. n
      BY <1>1 DEF RateTypeOK
    <3>. HIDE DEF n
    <3>2. level[r] + 1 \in 1 .. n
      BY <1>1, <1>3, <3>1
    <3>. QED
      BY <1>1, <3>2
  <2>. HIDE DEF n
  <2>3. level' \in [InFlight -> Nat] /\ \A q \in InFlight : level'[q] \in DOMAIN KeysOf[q]
    BY <2>1, <2>2 DEF RateTypeOK
  <2>. QED
    BY <1>2, <2>1, <2>3 DEF RateTypeOK, RateStages
<1>4. CASE ~(level[r] < n)
  BY <1>2, <1>4 DEF RateTypeOK, Pass, RateStages
<1>. QED
  BY <1>3, <1>4

\* Being turned away moves nothing else.
LEMMA RejectTyped ==
  ASSUME RateTypeOK, NEW r \in InFlight, Reject(r)
  PROVE  pc' \in [InFlight -> RateStages] /\ UNCHANGED <<level, passed>>
BY DEF RateTypeOK, Reject, RateStages

\* Every step keeps the types.
LEMMA TypesStep ==
  ASSUME RateTypeOK, [RateNext]_rateVars
  PROVE  RateTypeOK'
<1>. USE DEF RateStages
<1>1. CASE Tick
  <2>1. ttl' \in [Keys -> 0 .. NoTTL]
    BY <1>1, RateAssumption DEF Tick, RateTypeOK, NoTTL
  <2>2. counter' \in [Keys -> Nat] /\ passed' \in [Keys -> Nat]
    BY <1>1 DEF Tick, RateTypeOK
  <2>. QED
    BY <1>1, <2>1, <2>2 DEF Tick, RateTypeOK
<1>2. ASSUME NEW r \in InFlight, Arrive(r) \/ Respond(r)
      PROVE  RateTypeOK'
  <2>1. \A q \in InFlight : 1 \in DOMAIN KeysOf[q]
    BY RateAssumption
  <2>. QED
    BY <1>2, <2>1 DEF Arrive, Respond, RateTypeOK
<1>3. ASSUME NEW r \in InFlight, Get(r)
      PROVE  RateTypeOK'
  BY <1>3, RejectTyped DEF Get, RateTypeOK
<1>4. ASSUME NEW r \in InFlight, SetEx(r)
      PROVE  RateTypeOK'
  <2>1. ttl' \in [Keys -> 0 .. NoTTL] /\ counter' \in [Keys -> Nat]
    <3>1. Key(r) \in Keys /\ Window \in 0 .. NoTTL
      BY KeyType, RateAssumption DEF NoTTL
    <3>2. ttl' = [ttl EXCEPT ![Key(r)] = Window] /\ counter' = [counter EXCEPT ![Key(r)] = 1]
      BY <1>4 DEF SetEx
    <3>. QED
      BY <3>1, <3>2 DEF RateTypeOK
  <2>. QED
    BY <1>4, <2>1, PassTyped DEF SetEx, RateTypeOK
<1>5. ASSUME NEW r \in InFlight, Incr(r)
      PROVE  RateTypeOK'
  <2>1. ttl' \in [Keys -> 0 .. NoTTL] /\ counter' \in [Keys -> Nat]
    <3>1. Key(r) \in Keys
      BY KeyType
    <3>2. counter[Key(r)] + 1 \in Nat /\ NoTTL \in 0 .. NoTTL /\ ttl[Key(r)] \in 0 .. NoTTL
      <4>1. NoTTL \in Nat
        BY RateAssumption DEF NoTTL
      <4>. QED
        BY <3>1, <4>1 DEF RateTypeOK
    <3>3. PICK x \in 0 .. NoTTL : ttl' = [ttl EXCEPT ![Key(r)] = x]
      BY <1>5, <3>2 DEF Incr
    <3>4. counter' = [counter EXCEPT ![Key(r)] = counter[Key(r)] + 1]
      BY <1>5 DEF Incr
    <3>. QED
      BY <3>2, <3>3, <3>4 DEF RateTypeOK
  <2>2. /\ passed' \in [Keys -> Nat] /\ pc' \in [InFlight -> RateStages]
        /\ level' \in [InFlight -> Nat] /\ \A q \in InFlight : level'[q] \in DOMAIN KeysOf[q]
    BY <1>5, PassTyped, RejectTyped DEF Incr, RateTypeOK
  <2>. QED
    BY <2>1, <2>2 DEF RateTypeOK
<1>6. CASE UNCHANGED rateVars
  BY <1>6 DEF rateVars, RateTypeOK
<1>. QED
  BY <1>1, <1>2, <1>3, <1>4, <1>5, <1>6 DEF RateNext, Step

-----------------------------------------------------------------------------
(* Steps. *)

\* A request that moves disturbs the free requests of a counter only if it was
\* about to set it, or becomes so.
LEMMA FreeAfter ==
  ASSUME NEW r \in InFlight, NEW k \in Keys,
         \A q \in InFlight \ {r} : pc'[q] = pc[q] /\ level'[q] = level[q]
  PROVE  /\ /\ pc'[r] # "setex" \/ Key(r)' # k
            /\ pc[r] # "setex" \/ Key(r) # k
            => Free(k)' = Free(k)
         /\ pc'[r] # "setex" /\ pc[r] = "setex" /\ Key(r) = k /\ r \in Sharers(k)
            => r \notin Free(k) /\ Free(k)' = Free(k) \cup {r}
BY DEF Free, Sharers, Key

\* What happens to the others is no concern of a counter.
LEMMA Untouched ==
  ASSUME NEW k \in Keys, Accounted(k), counter'[k] = counter[k], passed'[k] = passed[k],
         Free(k)' = Free(k) \/ counter[k] = 0
  PROVE  Accounted(k)'
<1>1. Remembered(k)' = Remembered(k)
  BY DEF Remembered
<1>2. CASE Free(k)' = Free(k)
  BY <1>1, <1>2 DEF Accounted
<1>3. CASE counter[k] = 0
  BY <1>1, <1>3 DEF Accounted
<1>. QED
  BY <1>2, <1>3

\* One request more is let through: by a counter that is created, or counted,
\* or by one that is set to one again.
LEMMA Counts ==
  ASSUME RateTypeOK, NEW r \in InFlight, NEW k \in Keys, k = Key(r), Accounted(k),
         passed'[k] = passed[k] + 1,
         pc'[r] # "setex", \A q \in InFlight \ {r} : pc'[q] = pc[q] /\ level'[q] = level[q],
         \/ pc[r] = "setex" /\ counter'[k] = 1
         \/ pc[r] = "incr" /\ counter'[k] = counter[k] + 1 /\ counter[k] + 1 <= Limit[k]
  PROVE  Accounted(k)'
<1>. DEFINE f == Cardinality(Free(k))
            g == Cardinality(Free(k)')
            l == Limit[k]
<1>1. /\ l \in Nat /\ l >= 1 /\ counter[k] \in Nat /\ passed[k] \in Nat
      /\ Remembered(k) \in Nat /\ Remembered(k) <= l
  BY Numbers
<1>2. r \in Sharers(k) /\ f \in Nat /\ IsFiniteSet(Free(k))
  BY KeyType, FreeSize
<1>3. CASE pc[r] = "setex"
  <2>1. r \notin Free(k) /\ Free(k)' = Free(k) \cup {r}
    BY <1>2, <1>3, FreeAfter
  <2>2. g = f + 1
    BY <1>2, <2>1, FS_AddElement
  <2>3. counter'[k] = 1 /\ Remembered(k)' = 1
    BY <1>1, <1>3 DEF Remembered
  <2>4. passed[k] <= f * l
    <3>1. CASE counter[k] = 0
      BY <1>1, <1>2, <3>1, Products DEF Accounted
    <3>2. CASE counter[k] > 0
      <4>1. passed[k] <= Remembered(k) + (f - 1) * l
        BY <3>2 DEF Accounted
      <4>2. (f - 1) * l + l = f * l /\ f * l \in Nat
        BY <1>1, <1>2, Products
      <4>. HIDE DEF f, l
      <4>3. (f - 1) * l = f * l - l
        BY <1>1, <1>2, <4>2
      <4>. QED
        BY <1>1, <1>2, <4>1, <4>2, <4>3
    <3>. QED
      BY <1>1, <3>1, <3>2
  <2>. HIDE DEF f, g, l
  <2>5. g - 1 = f /\ g >= 1
    BY <1>2, <2>2
  <2>6. passed'[k] <= 1 + (g - 1) * l
    BY <1>1, <1>2, <2>4, <2>5, Products
  <2>. USE DEF g, l
  <2>. QED
    BY <1>1, <2>3, <2>5, <2>6 DEF Accounted
<1>4. CASE pc[r] = "incr"
  <2>1. Free(k)' = Free(k)
    BY <1>4, FreeAfter
  <2>2. r \in Free(k)
    BY <1>2, <1>4 DEF Free
  <2>3. f >= 1
    BY <1>2, <2>2, FS_EmptySet, FS_CardinalityType
  <2>4. Remembered(k) = counter[k] /\ Remembered(k)' = counter[k] + 1 /\ counter'[k] = counter[k] + 1
    BY <1>1, <1>4 DEF Remembered
  <2>5. (f - 1) * l \in Nat
    BY <1>1, <1>2, <2>3, Products
  <2>6. passed[k] <= Remembered(k) + (f - 1) * l
    BY <1>1, <2>4, <2>5 DEF Accounted
  <2>. HIDE DEF f, l
  <2>7. passed'[k] <= Remembered(k)' + (f - 1) * l
    BY <1>1, <2>4, <2>5, <2>6
  <2>8. Remembered(k)' <= passed'[k]
    BY <1>1, <2>4 DEF Accounted
  <2>. USE DEF f, l
  <2>. QED
    BY <1>1, <2>1, <2>3, <2>4, <2>7, <2>8 DEF Accounted
<1>. QED
  BY <1>3, <1>4

\* A step of a request moves no other, and is about its current counter.
LEMMA Moves ==
  ASSUME RateTypeOK, NEW r \in InFlight, Step(r)
  PROVE  /\ \A q \in InFlight \ {r} : pc'[q] = pc[q] /\ level'[q] = level[q]
         /\ \A k \in Keys \ {Key(r)} : counter'[k] = counter[k] /\ passed'[k] = passed[k]
BY KeyType DEF RateTypeOK, Step, Arrive, Get, SetEx, Incr, Respond, Pass, Reject

\* A step that neither counts nor waits to set a counter that is there.
LEMMA QuietStep ==
  ASSUME RateTypeOK, NEW r \in InFlight, Step(r), \A k \in Keys : Accounted(k),
         UNCHANGED <<counter, passed>>, pc[r] # "setex",
         pc'[r] = "setex" => counter[Key(r)] = 0 /\ Key(r)' = Key(r)
  PROVE  \A k \in Keys : Accounted(k)'
<1>. SUFFICES ASSUME NEW k \in Keys PROVE Accounted(k)'
  OBVIOUS
<1>1. Free(k)' = Free(k) \/ counter[k] = 0
  BY Moves, FreeAfter
<1>. QED
  BY <1>1, Untouched

\* A counter that is at its limit counts a request that it turns away.
LEMMA Overshoots ==
  ASSUME RateTypeOK, NEW k \in Keys, Accounted(k), Free(k)' = Free(k),
         counter'[k] = counter[k] + 1, passed'[k] = passed[k], counter[k] + 1 > Limit[k]
  PROVE  Accounted(k)'
<1>1. /\ Limit[k] \in Nat /\ Limit[k] >= 1 /\ counter[k] \in Nat
      /\ counter[k] >= Limit[k] /\ counter[k] > 0
  BY Numbers
<1>2. Remembered(k) = Limit[k] /\ Remembered(k)' = Limit[k]
  BY <1>1 DEF Remembered
<1>. QED
  BY <1>1, <1>2 DEF Accounted

\* The steps of a request keep the accounts.
LEMMA AccountsStep ==
  ASSUME RateIInv, NEW r \in InFlight, Step(r)
  PROVE  \A k \in Keys : Accounted(k)'
<1>. SUFFICES ASSUME NEW k \in Keys PROVE Accounted(k)'
  OBVIOUS
<1>1. RateTypeOK /\ Accounted(k)
  BY DEF RateIInv
<1>2. CASE Arrive(r) \/ Respond(r)
  <2>1. UNCHANGED <<counter, passed>> /\ pc[r] # "setex" /\ pc'[r] # "setex"
    BY <1>1, <1>2 DEF Arrive, Respond, RateTypeOK
  <2>. QED
    BY <2>1, QuietStep DEF RateIInv
<1>3. CASE Get(r)
  <2>1. UNCHANGED <<counter, passed, level>> /\ pc[r] = "get"
    BY <1>3 DEF Get, Reject
  <2>2. pc'[r] = "setex" => counter[Key(r)] = 0
    BY <1>1, <1>3 DEF Get, Reject, RateTypeOK
  <2>3. Key(r)' = Key(r)
    BY <2>1 DEF Key
  <2>. QED
    BY <2>1, <2>2, <2>3, QuietStep DEF RateIInv
<1>4. ASSUME pc'[r] # "setex", k # Key(r)
      PROVE  Accounted(k)'
  BY <1>1, <1>4, Moves, FreeAfter, Untouched
<1>5. ASSUME Pass(r)
      PROVE  pc'[r] # "setex" /\ (k = Key(r) => passed'[k] = passed[k] + 1)
  BY <1>1, <1>5 DEF Pass, RateTypeOK
<1>6. CASE SetEx(r)
  <2>1. pc[r] = "setex" /\ Pass(r) /\ (k = Key(r) => counter'[k] = 1)
    BY <1>1, <1>6 DEF SetEx, RateTypeOK
  <2>. QED
    BY <1>1, <1>4, <1>5, <2>1, Moves, Counts
<1>7. CASE Incr(r)
  <2>1. pc[r] = "incr" /\ (k = Key(r) => counter'[k] = counter[k] + 1)
    BY <1>1, <1>7 DEF Incr, RateTypeOK
  <2>2. CASE counter[Key(r)] + 1 <= Limit[Key(r)]
    <3>1. Pass(r)
      BY <1>7, <2>2 DEF Incr
    <3>. QED
      BY <1>1, <1>4, <1>5, <2>1, <2>2, <3>1, Moves, Counts
  <2>3. CASE ~(counter[Key(r)] + 1 <= Limit[Key(r)])
    <3>1. Reject(r)
      BY <1>7, <2>3 DEF Incr
    <3>2. pc'[r] # "setex" /\ passed' = passed
      BY <1>1, <3>1 DEF Reject, RateTypeOK
    <3>3. Free(k)' = Free(k)
      BY <2>1, <3>2, Moves, FreeAfter, <1>1
    <3>4. k = Key(r) => counter[k] + 1 > Limit[k]
      BY <1>1, <2>3, Numbers
    <3>. QED
      BY <1>1, <1>4, <2>1, <3>2, <3>3, <3>4, Overshoots
  <2>. QED
    BY <2>2, <2>3
<1>. QED
  BY <1>2, <1>3, <1>6, <1>7 DEF Step

\* Time: a counter that expires is forgotten, with what it let through.
LEMMA TickAccounts ==
  ASSUME RateIInv, Tick
  PROVE  \A k \in Keys : Accounted(k)'
<1>. SUFFICES ASSUME NEW k \in Keys PROVE Accounted(k)'
  OBVIOUS
<1>1. Accounted(k) /\ Limit[k] \in Nat
  BY Numbers DEF RateIInv
<1>2. Free(k)' = Free(k)
  BY DEF Tick, Free, Sharers, Key
<1>3. CASE ttl[k] = 1
  <2>1. counter'[k] = 0 /\ passed'[k] = 0
    BY <1>3 DEF Tick
  <2>2. Remembered(k)' = 0
    BY <1>1, <2>1 DEF Remembered
  <2>. QED
    BY <2>1, <2>2 DEF Accounted
<1>4. CASE ttl[k] # 1
  <2>1. counter'[k] = counter[k] /\ passed'[k] = passed[k]
    BY <1>4 DEF Tick
  <2>. QED
    BY <1>1, <1>2, <2>1, Untouched
<1>. QED
  BY <1>3, <1>4

\* The invariant holds initially, and every step keeps it.
LEMMA RateInitIInv == RateInit => RateIInv
<1>. SUFFICES ASSUME RateInit PROVE RateIInv
  OBVIOUS
<1>1. RateTypeOK
  BY RateAssumption DEF RateInit, RateTypeOK, NoTTL
<1>2. ASSUME NEW k \in Keys
      PROVE  Accounted(k)
  <2>1. counter[k] = 0 /\ passed[k] = 0
    BY DEF RateInit
  <2>2. Remembered(k) = 0
    BY <1>1, <2>1, Numbers DEF Remembered
  <2>. QED
    BY <2>1, <2>2 DEF Accounted
<1>. QED
  BY <1>1, <1>2 DEF RateIInv

\* Every step preserves the invariant.
LEMMA RateIInvStep == RateIInv /\ [RateNext]_rateVars => RateIInv'
<1>. SUFFICES ASSUME RateIInv, [RateNext]_rateVars PROVE RateIInv'
  OBVIOUS
<1>1. RateTypeOK'
  BY TypesStep DEF RateIInv
<1>2. CASE Tick
  BY <1>1, <1>2, TickAccounts DEF RateIInv
<1>3. ASSUME NEW r \in InFlight, Step(r)
      PROVE  RateIInv'
  BY <1>1, <1>3, AccountsStep DEF RateIInv
<1>4. CASE UNCHANGED rateVars
  BY <1>1, <1>4 DEF rateVars, RateIInv, Accounted, Remembered, Free, Sharers, Key
<1>. QED
  BY <1>2, <1>3, <1>4 DEF RateNext

-----------------------------------------------------------------------------
(* The theorems about the rate limits. *)

\* The inductive invariant holds in every reachable state.
THEOREM RateInvariance == RateSpec => []RateIInv
BY RateInitIInv, RateIInvStep, PTL DEF RateSpec

\* Every variable keeps its type.
THEOREM RateTypeCorrect == RateSpec => []RateTypeOK
<1>1. RateIInv => RateTypeOK
  BY DEF RateIInv
<1>. QED
  BY <1>1, RateInvariance, PTL

\* A window lets through at most its limit for every request that shares it.
THEOREM WindowsAreBounded == RateSpec => []WindowBound
<1>1. RateIInv => WindowBound
  <2>. SUFFICES ASSUME RateIInv, NEW k \in Keys PROVE passed[k] <= Sharing(k) * Limit[k]
    BY DEF WindowBound
  <2>. DEFINE f == Cardinality(Free(k))
  <2>1. /\ Limit[k] \in Nat /\ counter[k] \in Nat /\ passed[k] \in Nat
        /\ Remembered(k) \in Nat /\ Remembered(k) <= Limit[k]
    BY Numbers DEF RateIInv
  <2>2. f \in Nat /\ Sharing(k) \in Nat /\ f <= Sharing(k)
    BY FreeSize
  <2>3. /\ (f - 1) * Limit[k] + Limit[k] = f * Limit[k] /\ f * Limit[k] <= Sharing(k) * Limit[k]
        /\ f * Limit[k] \in Nat /\ Sharing(k) * Limit[k] \in Nat
    BY <2>1, <2>2, Products
  <2>4. /\ counter[k] = 0 => passed[k] = 0
        /\ counter[k] > 0 => passed[k] <= Remembered(k) + (f - 1) * Limit[k]
    BY DEF RateIInv, Accounted
  <2>. HIDE DEF f
  <2>. QED
    BY <2>1, <2>2, <2>3, <2>4
<1>. QED
  BY <1>1, RateInvariance, PTL

\* A request is turned away only at a counter that has let its limit through.
THEOREM NoRejectionIsEarly == RateSpec => NoEarlyRejection
<1>. DEFINE A == \A r \in InFlight : pc[r] # "rejected" /\ pc'[r] = "rejected" =>
                   passed[Key(r)] >= Limit[Key(r)]
<1>1. ASSUME RateIInv, [RateNext]_rateVars
      PROVE  [A]_rateVars
  <2>1. ASSUME NEW r \in InFlight, pc[r] # "rejected", pc'[r] = "rejected"
        PROVE  passed[Key(r)] >= Limit[Key(r)]
    <3>1. RateTypeOK /\ Key(r) \in Keys
      BY <1>1, KeyType DEF RateIInv
    <3>2. PICK k \in Keys : k = Key(r)
      BY <3>1
    <3>3. /\ Limit[k] \in Nat /\ counter[k] \in Nat /\ passed[k] \in Nat
          /\ Remembered(k) <= passed[k]
      BY <1>1, <3>1, Numbers DEF RateIInv, Accounted
    <3>4. Step(r)
      <4>1. ASSUME NEW q \in InFlight, Step(q), q # r
            PROVE  FALSE
        BY <2>1, <3>1, <4>1, Moves
      <4>2. ~(Tick \/ UNCHANGED rateVars)
        BY <2>1 DEF Tick, rateVars
      <4>. QED
        BY <1>1, <4>1, <4>2 DEF RateNext
    <3>5. counter[k] >= Limit[k]
      <4>1. CASE Get(r)
        BY <2>1, <3>1, <3>2, <3>3, <4>1 DEF Get, RateTypeOK
      <4>2. CASE Incr(r)
        <5>1. ~(counter[k] + 1 <= Limit[k])
          BY <2>1, <3>1, <3>2, <4>2 DEF Incr, Pass, RateTypeOK
        <5>. QED
          BY <3>3, <5>1
      <4>3. CASE Arrive(r) \/ Respond(r) \/ SetEx(r)
        BY <2>1, <3>1, <4>3 DEF Arrive, Respond, SetEx, Pass, RateTypeOK
      <4>. QED
        BY <3>4, <4>1, <4>2, <4>3 DEF Step
    <3>6. Remembered(k) = Limit[k]
      BY <3>3, <3>5 DEF Remembered
    <3>. QED
      BY <3>2, <3>3, <3>6
  <2>. QED
    BY <2>1
<1>. QED
  BY <1>1, RateInvariance, PTL DEF RateSpec, NoEarlyRejection

-----------------------------------------------------------------------------
(* How long a used up quota stays away.  Requests that found no counter    *)
(* before it was full may still set it, and give it a new lifetime; no     *)
(* further one does, as long as it is full.                                *)

\* The requests about to set a counter.
Setting(k) == {r \in InFlight : pc[r] = "setex" /\ Key(r) = k}

\* A counter that turns requests away, and will expire.
Full(k) == counter[k] >= Limit[k] /\ ttl[k] # NoTTL

\* At most so many ticks pass until a full counter is below its limit.
TicksLeft(k) == Cardinality(Setting(k)) * (Window + 1) + ttl[k]

\* A counter that counts has a lifetime, or none that ends.
Lives == \A k \in Keys : counter[k] # 0 => ttl[k] # 0

\* Whatever happens at a full counter it will expire, not later than before, and sooner
\* when time has passed.
Expires(k) ==
  Full(k) => \/ counter'[k] < Limit[k]
             \/ Full(k)' /\ TicksLeft(k)' <= TicksLeft(k) /\ (Tick => TicksLeft(k)' < TicksLeft(k))

\* Only SETEX and INCR give lifetimes, and they count.
LEMMA LivesStep ==
  ASSUME RateTypeOK, Lives, [RateNext]_rateVars
  PROVE  Lives'
<1>. SUFFICES ASSUME NEW k \in Keys, counter'[k] # 0 PROVE ttl'[k] # 0
  BY DEF Lives
<1>1. counter[k] # 0 => ttl[k] # 0
  BY DEF Lives
<1>2. Window \in Nat /\ Window # 0 /\ NoTTL # 0 /\ ttl[k] \in 0 .. NoTTL
  BY RateAssumption DEF NoTTL, RateTypeOK
<1>3. CASE Tick
  <2>1. ttl[k] # 1 /\ counter'[k] = counter[k]
    BY <1>3 DEF Tick
  <2>2. ttl'[k] = IF ttl[k] \in {0, NoTTL} THEN ttl[k] ELSE ttl[k] - 1
    BY <1>3 DEF Tick
  <2>. QED
    BY <1>1, <1>2, <2>1, <2>2
<1>4. ASSUME NEW r \in InFlight, Step(r)
      PROVE  ttl'[k] # 0
  <2>1. CASE counter'[k] = counter[k] /\ ttl'[k] = ttl[k]
    BY <1>1, <2>1
  <2>2. CASE SetEx(r) /\ k = Key(r)
    BY <1>2, <2>2 DEF SetEx, RateTypeOK
  <2>3. CASE Incr(r) /\ k = Key(r)
    BY <1>1, <1>2, <2>3 DEF Incr, RateTypeOK
  <2>4. CASE ~(SetEx(r) /\ k = Key(r)) /\ ~(Incr(r) /\ k = Key(r))
    <3>1. counter'[k] = counter[k] /\ ttl'[k] = ttl[k]
      BY <1>4, <2>4 DEF Step, Arrive, Get, SetEx, Incr, Respond, RateTypeOK
    <3>. QED
      BY <2>1, <3>1
  <2>. QED
    BY <2>2, <2>3, <2>4
<1>5. CASE UNCHANGED rateVars
  BY <1>1, <1>5 DEF rateVars
<1>. QED
  BY <1>3, <1>4, <1>5 DEF RateNext

\* No request begins to set a full counter.
LEMMA SettingStep ==
  ASSUME RateTypeOK, NEW k \in Keys, Full(k), NEW r \in InFlight, Step(r)
  PROVE  /\ Setting(k)' \subseteq Setting(k)
         /\ SetEx(r) /\ Key(r) = k => r \in Setting(k) /\ Setting(k)' \subseteq Setting(k) \ {r}
<1>1. \A q \in InFlight \ {r} : pc'[q] = pc[q] /\ Key(q)' = Key(q)
  BY Moves DEF Key
<1>2. CASE pc'[r] # "setex"
  BY <1>1, <1>2 DEF Setting, SetEx
<1>3. CASE pc'[r] = "setex"
  <2>1. Get(r)
    BY <1>3 DEF Step, Arrive, Get, SetEx, Incr, Respond, Pass, Reject, RateTypeOK
  <2>2. Key(r)' = Key(r)
    BY <2>1 DEF Get, Reject, Key
  <2>3. ~(counter[Key(r)] >= Limit[Key(r)])
    BY <1>3, <2>1 DEF Get, Reject, RateTypeOK
  <2>4. Key(r) # k
    BY <2>3 DEF Full
  <2>. QED
    BY <1>1, <2>2, <2>4, <2>1 DEF Setting, Get, SetEx
<1>. QED
  BY <1>2, <1>3

\* Fewer requests set the counter, so less time is left, with a lifetime that is no longer
\* than that of a new counter.
LEMMA Fewer ==
  ASSUME NEW k \in Keys, NEW S, S \subseteq Setting(k)
  PROVE  /\ Cardinality(Setting(k)) \in Nat /\ Cardinality(S) \in Nat
         /\ Cardinality(S) * (Window + 1) <= Cardinality(Setting(k)) * (Window + 1)
         /\ Cardinality(S) * (Window + 1) \in Nat /\ Cardinality(Setting(k)) * (Window + 1) \in Nat
         /\ \A r \in Setting(k) \ S :
              Cardinality(S) * (Window + 1) + Window + 1 <= Cardinality(Setting(k)) * (Window + 1)
<1>1. IsFiniteSet(Setting(k))
  BY RateAssumption, FS_Subset DEF Setting
<1>2. /\ Cardinality(Setting(k)) \in Nat /\ Cardinality(S) \in Nat /\ IsFiniteSet(S)
      /\ Cardinality(S) <= Cardinality(Setting(k))
  BY <1>1, FS_Subset, FS_CardinalityType
<1>3. Window \in Nat /\ Window + 1 \in Nat
  BY RateAssumption
<1>4. ASSUME NEW r \in Setting(k), r \notin S
      PROVE  Cardinality(S) + 1 <= Cardinality(Setting(k))
  <2>1. Cardinality(S \cup {r}) = Cardinality(S) + 1
    BY <1>2, <1>4, FS_AddElement
  <2>2. Cardinality(S \cup {r}) <= Cardinality(Setting(k))
    BY <1>1, <1>4, FS_Subset
  <2>. QED
    BY <2>1, <2>2
<1>5. ASSUME NEW m \in Nat, NEW n \in Nat, NEW l \in Nat
      PROVE  /\ m * l \in Nat /\ n * l \in Nat
             /\ m <= n => m * l <= n * l
             /\ m + 1 <= n => m * l + l <= n * l
  <2>1. (m + 1) * l = m * l + l /\ m + 1 \in Nat
    OBVIOUS
  <2>. QED
    BY <2>1, Products
<1>. HIDE DEF Setting
<1>. QED
  BY <1>2, <1>3, <1>4, <1>5

\* The counter expires, whatever step is taken.
LEMMA ExpiresStep ==
  ASSUME RateTypeOK, Lives, [RateNext]_rateVars, NEW k \in Keys
  PROVE  Expires(k)
<1>. SUFFICES ASSUME Full(k), counter'[k] >= Limit[k], ~(counter'[k] < Limit[k])
              PROVE  Full(k)' /\ TicksLeft(k)' <= TicksLeft(k) /\ (Tick => TicksLeft(k)' < TicksLeft(k))
  <2>1. counter'[k] \in Nat /\ Limit[k] \in Nat
    BY TypesStep, RateAssumption DEF RateTypeOK
  <2>. QED
    BY <2>1 DEF Expires
<1>. DEFINE n == Cardinality(Setting(k)) * (Window + 1)
            m == Cardinality(Setting(k)') * (Window + 1)
<1>1. TicksLeft(k) = n + ttl[k] /\ TicksLeft(k)' = m + ttl'[k]
  BY DEF TicksLeft
<1>2. Window \in Nat /\ Window > 0 /\ NoTTL = Window + 1
  BY RateAssumption DEF NoTTL
<1>3. ttl[k] \in 1 .. Window /\ counter[k] \in Nat /\ counter[k] > 0
  <2>1. counter[k] \in Nat /\ Limit[k] \in Nat \ {0} /\ ttl[k] \in 0 .. NoTTL
    BY RateAssumption DEF RateTypeOK
  <2>. QED
    BY <1>2, <2>1 DEF Lives, Full
<1>4. CASE Tick
  <2>1. Setting(k)' = Setting(k)
    BY <1>4 DEF Tick, Setting, Key
  <2>2. ttl[k] # 1
    BY <1>3, <1>4, Numbers DEF Tick
  <2>3. ttl'[k] = ttl[k] - 1
    BY <1>2, <1>3, <1>4 DEF Tick
  <2>4. m = n /\ n \in Nat
    BY <2>1, Fewer
  <2>. HIDE DEF m, n
  <2>5. TicksLeft(k)' < TicksLeft(k) /\ ttl'[k] # NoTTL
    BY <1>1, <1>2, <1>3, <2>3, <2>4
  <2>6. TicksLeft(k)' <= TicksLeft(k)
    BY <1>1, <1>3, <2>3, <2>4
  <2>. QED
    BY <2>5, <2>6 DEF Full
<1>5. ASSUME NEW r \in InFlight, Step(r)
      PROVE  Full(k)' /\ TicksLeft(k)' <= TicksLeft(k) /\ ~Tick
  <2>1. /\ m <= n /\ m \in Nat /\ n \in Nat
        /\ SetEx(r) /\ Key(r) = k => m + Window + 1 <= n
    BY <1>5, SettingStep, Fewer
  <2>. HIDE DEF m, n
  <2>0. ~Tick
    BY <1>5 DEF Step, Tick, Arrive, Get, SetEx, Incr, Respond, Pass, Reject, RateTypeOK
  <2>2. CASE SetEx(r) /\ Key(r) = k
    <3>1. ttl'[k] = Window
      BY <2>2 DEF SetEx, RateTypeOK
    <3>. QED
      BY <1>1, <1>2, <1>3, <2>0, <2>1, <2>2, <3>1 DEF Full
  <2>3. CASE ~(SetEx(r) /\ Key(r) = k)
    <3>1. ttl'[k] = ttl[k]
      BY <1>3, <1>5, <2>3 DEF Step, Arrive, Get, SetEx, Incr, Respond, RateTypeOK
    <3>. QED
      BY <1>1, <1>3, <2>0, <2>1, <3>1 DEF Full
  <2>. QED
    BY <2>2, <2>3
<1>6. CASE UNCHANGED rateVars
  <2>1. ttl' = ttl /\ counter' = counter /\ Setting(k)' = Setting(k)
    BY <1>6 DEF rateVars, Setting, Key
  <2>2. ~Tick
    BY <1>3, <1>2, <2>1 DEF Tick
  <2>3. m = n /\ n \in Nat
    BY <2>1, Fewer
  <2>. HIDE DEF m, n
  <2>. QED
    BY <1>1, <1>3, <2>1, <2>2, <2>3 DEF Full
<1>. QED
  BY <1>4, <1>5, <1>6 DEF RateNext

\* A counter that turns requests away keeps its lifetime, and no request prolongs the time until
\* it expires: each tick shortens it.  So the quota is back after as many ticks as TicksLeft says,
\* at most a window for each request that was about to set the counter, and one more.
THEOREM QuotaComesBack == RateSpec => [][\A k \in Keys : Expires(k)]_rateVars
<1>1. RateInit => Lives
  BY DEF RateInit, Lives
<1>2. RateTypeOK /\ Lives /\ [RateNext]_rateVars => Lives'
  BY LivesStep
<1>3. RateTypeOK /\ Lives /\ [RateNext]_rateVars => [\A k \in Keys : Expires(k)]_rateVars
  BY ExpiresStep
<1>. QED
  BY <1>1, <1>2, <1>3, RateTypeCorrect, PTL DEF RateSpec

-----------------------------------------------------------------------------
(* Sessions: types. *)

Pair == [age : {"fresh", "ending", "expired"}, role : Roles]
Request == [at : Stages, token : Pairs, _retry : BOOLEAN, role : Roles]
Login == [at : {"none", "sent", "signing", "granted"}, token : Pairs, role : Roles]
Store == [access : Pairs, refresh : Pairs, user : BOOLEAN]

\* The parts of the type invariant.
PageTyped ==
  /\ store \in Store
  /\ shown \in BOOLEAN /\ loading \in BOOLEAN /\ isRefreshing \in BOOLEAN /\ leaving \in BOOLEAN
  /\ req \in [Requests -> Request]
  /\ failedQueue \in Seq(Requests)
  /\ login \in Login
  /\ logout \in [at : {"none", "sent", "done", "error"}, token : Pairs]

ServersTyped ==
  /\ pairs \in Seq(Pair) /\ Len(pairs) <= MaxPairs
  /\ revoked \subseteq Pairs /\ loggedOut \subseteq Pairs /\ asked \subseteq Calls
  /\ redisUp \in BOOLEAN
  /\ account \in [role : Roles, is_active : BOOLEAN] /\ events \in 0 .. MaxEvents

\* TypeOK says no more than its parts.
LEMMA TypeParts == TypeOK <=> PageTyped /\ ServersTyped
BY DEF TypeOK, PageTyped, ServersTyped, Pair, Request, Login, Store

\* The same after a step.
LEMMA TypePartsNext == PageTyped' /\ ServersTyped' => TypeOK'
BY TypeParts, PTL

\* A request that has not been made; no token is a token number.
LEMMA NewRequestTyped == NewRequest \in Request /\ 0 \in Pairs
BY SessionAssumption DEF NewRequest, Request, Pairs, Stages

\* A request that is over.
LEMMA SettledTyped == Settled \in Request
BY NewRequestTyped DEF Settled, Request, Pairs, Stages

\* A request that is sent, with any token.
LEMMA SentTyped == \A rec \in Request, n \in Pairs : Sent(rec, n) \in Request
BY DEF Sent, Request, Stages

\* Local storage without a session.
LEMMA EmptyStoreTyped == EmptyStore \in Store
BY SessionAssumption DEF EmptyStore, Store, Pairs

\* Neither a login nor a logout is under way.
LEMMA NoCallTyped ==
  /\ NoLogin \in Login
  /\ {NoCall, LoggedOut, LogoutFailed} \subseteq [at : {"none", "sent", "done", "error"}, token : Pairs]
BY NewRequestTyped, SessionAssumption DEF NoCall, NoLogin, Login, LoggedOut, LogoutFailed

\* Every variable starts with its type.
LEMMA TypeInit == Init => TypeOK
<1> SUFFICES ASSUME Init PROVE PageTyped /\ ServersTyped
  BY TypeParts
<1>1. PageTyped
  <2>1. failedQueue \in Seq(Requests)
    BY DEF Init
  <2> QED
    BY <2>1, NewRequestTyped, EmptyStoreTyped, NoCallTyped DEF Init, PageTyped
<1>2. ServersTyped
  BY SessionAssumption DEF Init, ServersTyped, Pairs
<1> QED
  BY <1>1, <1>2

\* Forgetting the session keeps the types of what it writes.
LEMMA AfterFailureTyped ==
  ASSUME PageTyped, NEW failed, NEW kept \in Store, AfterFailure(failed, kept)
  PROVE  store' \in Store /\ shown' \in BOOLEAN /\ loading' \in BOOLEAN
BY EmptyStoreTyped DEF AfterFailure, PageTyped

\* Issuing a pair numbers it next.
LEMMA IssueTyped ==
  ASSUME ServersTyped, NEW call, NEW role \in Roles, Issue(call, role)
  PROVE  /\ ServersTyped' /\ Len(pairs) + 1 \in Pairs
         /\ Last(pairs').role = role
         /\ \A t \in DOMAIN pairs' :
              IF t \in DOMAIN pairs THEN pairs'[t] = pairs[t] ELSE pairs'[t].age = "fresh"
<1>1. [age |-> "fresh", role |-> role] \in Pair
  BY DEF Pair
<1>2. /\ pairs \in Seq(Pair) /\ Len(pairs) \in Nat /\ Len(pairs) < MaxPairs
      /\ pairs' = Append(pairs, [age |-> "fresh", role |-> role])
  BY DEF ServersTyped, Issue
<1>3. /\ pairs' \in Seq(Pair) /\ Len(pairs') = Len(pairs) + 1
      /\ pairs'[Len(pairs) + 1] = [age |-> "fresh", role |-> role]
      /\ \A t \in DOMAIN pairs' :
           IF t \in DOMAIN pairs THEN pairs'[t] = pairs[t] ELSE pairs'[t].age = "fresh"
  BY <1>1, <1>2
<1>4. Len(pairs') <= MaxPairs /\ Len(pairs) + 1 \in Pairs
  BY <1>2, <1>3, SessionAssumption DEF Pairs
<1>5. ServersTyped'
  BY <1>3, <1>4 DEF Issue, ServersTyped
<1> QED
  BY <1>3, <1>4, <1>5 DEF Last

\* The page's answers.
LEMMA AnswerTyped ==
  ASSUME TypeOK, NEW r \in Requests, Answer(r)
  PROVE  TypeOK'
<1>0. PageTyped /\ ServersTyped
  BY TypeParts
<1>1. CASE Authenticate(r)
  <2>1. ServersTyped'
    BY <1>0, <1>1 DEF Authenticate, ServersTyped, servers, history
  <2>2. req' \in [Requests -> Request]
    <3>1. CASE Accepts(req[r].token)
      BY <1>0, <1>1, <3>1, SettledTyped DEF Authenticate, PageTyped
    <3>2. CASE ~Accepts(req[r].token)
      <4>1. req' = [req EXCEPT ![r].at = "denied", ![r].token = 0]
        BY <1>1, <3>2 DEF Authenticate
      <4> QED
        BY <1>0, <4>1, NewRequestTyped DEF PageTyped, Request, Stages
    <3> QED
      BY <3>1, <3>2
  <2>3. store' \in Store /\ shown' \in BOOLEAN /\ loading' \in BOOLEAN
    BY <1>0, <1>1 DEF Authenticate, PageTyped, Store
  <2> QED
    BY <1>0, <1>1, <2>1, <2>2, <2>3, TypePartsNext DEF Authenticate, PageTyped
<1>2. CASE RequestFails(r)
  <2>1. ServersTyped'
    BY <1>0, <1>2 DEF RequestFails, ServersTyped, servers, history
  <2>2. store' \in Store /\ shown' \in BOOLEAN /\ loading' \in BOOLEAN
    BY <1>0, <1>2, AfterFailureTyped DEF RequestFails, PageTyped
  <2> QED
    BY <1>0, <1>2, <2>1, <2>2, SettledTyped, TypePartsNext DEF RequestFails, PageTyped
<1>3. CASE SignRefresh(r)
  <2>1. req[r].role \in Roles
    BY <1>0 DEF PageTyped, Request
  <2>2. ServersTyped' /\ Len(pairs) + 1 \in Pairs
    BY <1>0, <1>3, <2>1, IssueTyped DEF SignRefresh
  <2>3. req' \in [Requests -> Request]
    <3>1. req' = [req EXCEPT ![r].at = "renewed", ![r].token = Len(pairs) + 1,
                             ![r].role = FirstRole]
      BY <1>3 DEF SignRefresh, Renewed
    <3>2. FirstRole \in Roles
      BY SessionAssumption
    <3> DEFINE n == Len(pairs) + 1
    <3>3. n \in Pairs
      BY <2>2
    <3> HIDE DEF n
    <3>4. req' = [req EXCEPT ![r].at = "renewed", ![r].token = n, ![r].role = FirstRole]
      BY <3>1 DEF n
    <3>5. req \in [Requests -> Request]
      BY <1>0 DEF PageTyped
    <3>6. ASSUME NEW q \in Requests PROVE req'[q] \in Request
      <4>1. CASE q = r
        <5>1. req'[r] = [req[r] EXCEPT !.at = "renewed", !.token = n, !.role = FirstRole]
          BY <3>4, <3>5
        <5> QED
          BY <4>1, <5>1, <3>2, <3>3, <3>5 DEF Request, Stages
      <4>2. CASE q # r
        BY <4>2, <3>4, <3>5
      <4> QED
        BY <4>1, <4>2
    <3> QED
      BY <3>4, <3>5, <3>6
  <2> QED
    BY <1>0, <1>3, <2>2, <2>3, TypePartsNext DEF SignRefresh, PageTyped
<1>4. CASE RefuseRefresh(r)
  <2>1. ServersTyped'
    BY <1>0, <1>4 DEF RefuseRefresh, ServersTyped, servers
  <2>2. req' \in [Requests -> Request]
    BY <1>0, <1>4, NewRequestTyped, SessionAssumption DEF RefuseRefresh, PageTyped, Request, Stages
  <2> QED
    BY <1>0, <1>4, <2>1, <2>2, TypePartsNext DEF RefuseRefresh, PageTyped
<1>5. CASE ReadForRefresh(r)
  <2>1. ServersTyped'
    BY <1>0, <1>5 DEF ReadForRefresh, ServersTyped, servers, history
  <2>2. req' \in [Requests -> Request]
    BY <1>0, <1>5 DEF ReadForRefresh, PageTyped, ServersTyped, Request, Stages
  <2> QED
    BY <1>0, <1>5, <2>1, <2>2, TypePartsNext DEF ReadForRefresh, PageTyped
<1> QED
  BY <1>1, <1>2, <1>3, <1>4, <1>5 DEF Answer

\* The interceptor's steps.
LEMMA InterceptTyped ==
  ASSUME TypeOK, NEW r \in Requests, Intercept(r)
  PROVE  TypeOK'
<1>0. PageTyped /\ ServersTyped
  BY TypeParts
<1>s. ServersTyped'
  BY <1>0 DEF Intercept, EnqueueDenied, RejectTwiceDenied, StartRefresh, NothingToRefreshWith,
              FinishRefresh, AbandonRefresh, ServersTyped, servers, history, Calls
<1>1. CASE EnqueueDenied(r)
  <2>1. req' \in [Requests -> Request]
    BY <1>0, <1>1 DEF EnqueueDenied, PageTyped, Request, Stages
  <2>2. failedQueue' \in Seq(Requests)
    BY <1>0, <1>1 DEF EnqueueDenied, PageTyped
  <2> QED
    BY <1>0, <1>1, <1>s, <2>1, <2>2, TypePartsNext DEF EnqueueDenied, PageTyped
<1>2. CASE RejectTwiceDenied(r)
  <2>2. store' \in Store /\ shown' \in BOOLEAN /\ loading' \in BOOLEAN
    BY <1>0, <1>2, AfterFailureTyped DEF RejectTwiceDenied, PageTyped
  <2> QED
    BY <1>0, <1>2, <1>s, <2>2, SettledTyped, TypePartsNext DEF RejectTwiceDenied, PageTyped
<1>3. CASE StartRefresh(r)
  <2>1. store.refresh \in Pairs
    BY <1>0 DEF PageTyped, Store
  <2>2. req' \in [Requests -> Request]
    BY <1>0, <1>3, <2>1 DEF StartRefresh, PageTyped, Request, Stages
  <2> QED
    BY <1>0, <1>3, <1>s, <2>2, TypePartsNext DEF StartRefresh, PageTyped
<1>4. ASSUME NEW kept \in Store, RejectAll(r, kept), UNCHANGED <<login, logout>>
      PROVE  PageTyped'
  <2>1. store' \in Store /\ shown' \in BOOLEAN /\ loading' \in BOOLEAN
    BY <1>0, <1>4, AfterFailureTyped DEF RejectAll
  <2>2. req' \in [Requests -> Request]
    BY <1>0, <1>4, SettledTyped DEF RejectAll, PageTyped
  <2>3. failedQueue' \in Seq(Requests) /\ isRefreshing' = FALSE /\ leaving' = TRUE
    BY <1>4 DEF RejectAll
  <2> QED
    BY <1>0, <1>4, <2>1, <2>2, <2>3 DEF PageTyped
<1>5. CASE NothingToRefreshWith(r)
  <2>1. [store EXCEPT !.access = 0] \in Store
    BY <1>0, NewRequestTyped DEF PageTyped, Store
  <2> QED
    BY <1>4, <1>5, <1>s, <2>1, TypePartsNext DEF NothingToRefreshWith
<1>6. CASE AbandonRefresh(r)
  <2>1. [store EXCEPT !.access = 0, !.refresh = 0] \in Store
    BY <1>0, NewRequestTyped DEF PageTyped, Store
  <2> QED
    BY <1>4, <1>6, <1>s, <2>1, TypePartsNext DEF AbandonRefresh
<1>7. CASE FinishRefresh(r)
  <2>1. req[r].token \in Pairs
    BY <1>0 DEF PageTyped, Request
  <2>2. store' \in Store
    BY <1>0, <1>7, <2>1 DEF FinishRefresh, PageTyped, Store
  <2>3. req' \in [Requests -> Request]
    BY <1>0, <1>7, <2>1, SentTyped DEF FinishRefresh, PageTyped
  <2>4. failedQueue' \in Seq(Requests)
    BY <1>7 DEF FinishRefresh
  <2> QED
    BY <1>0, <1>7, <1>s, <2>2, <2>3, <2>4, TypePartsNext DEF FinishRefresh, PageTyped
<1> QED
  BY <1>1, <1>2, <1>3, <1>5, <1>6, <1>7 DEF Intercept

\* Logging in and out.
LEMMA LoginAndLogoutTyped == TypeOK /\ LoginAndLogout => TypeOK'
<1> SUFFICES ASSUME TypeOK, LoginAndLogout PROVE TypeOK'
  OBVIOUS
<1>0. PageTyped /\ ServersTyped
  BY TypeParts
<1>1. CASE SubmitLogin \/ RefuseLogin \/ LogoutFails
  <2>1. ServersTyped'
    BY <1>0, <1>1 DEF SubmitLogin, RefuseLogin, LogoutFails, ServersTyped, servers, history, Calls
  <2>2. login' \in Login
    BY <1>0, <1>1, NoCallTyped DEF SubmitLogin, RefuseLogin, LogoutFails, PageTyped, Login
  <2> QED
    BY <1>0, <1>1, <2>1, <2>2, NoCallTyped, TypePartsNext
       DEF SubmitLogin, RefuseLogin, LogoutFails, PageTyped
<1>2. CASE SignLogin
  <2>1. login.role \in Roles
    BY <1>0 DEF PageTyped, Login
  <2>2. ServersTyped' /\ Len(pairs) + 1 \in Pairs
    BY <1>0, <1>2, <2>1, IssueTyped DEF SignLogin
  <2>3. login' \in Login
    BY <1>2, <2>2, NoCallTyped DEF SignLogin, Login
  <2> QED
    BY <1>0, <1>2, <2>2, <2>3, TypePartsNext DEF SignLogin, PageTyped
<1>7. CASE ReadForLogin
  <2>1. ServersTyped'
    BY <1>0, <1>7 DEF ReadForLogin, ServersTyped, servers, history
  <2>2. login' \in Login
    BY <1>0, <1>7, NoCallTyped DEF ReadForLogin, ServersTyped, Login
  <2> QED
    BY <1>0, <1>7, <2>1, <2>2, TypePartsNext DEF ReadForLogin, PageTyped
<1>3. CASE FinishLogin
  <2>1. ServersTyped'
    BY <1>0, <1>3 DEF FinishLogin, ServersTyped, servers, history
  <2>2. store' \in Store
    BY <1>0, <1>3 DEF FinishLogin, PageTyped, Login, Store
  <2> QED
    BY <1>0, <1>3, <2>1, <2>2, NoCallTyped, TypePartsNext DEF FinishLogin, PageTyped
<1>4. CASE SubmitLogout
  <2>1. ServersTyped'
    BY <1>0, <1>4 DEF SubmitLogout, ServersTyped, servers, history
  <2>2. store.access \in Pairs
    BY <1>0 DEF PageTyped, Store
  <2> QED
    BY <1>0, <1>4, <2>1, <2>2, TypePartsNext DEF SubmitLogout, PageTyped
<1>5. CASE ServeLogout
  <2>1. logout.token \in Pairs
    BY <1>0 DEF PageTyped
  <2>2. ServersTyped'
    BY <1>0, <1>5, <2>1 DEF ServeLogout, ServersTyped
  <2>3. logout' \in [at : {"none", "sent", "done", "error"}, token : Pairs]
    BY <1>5, NoCallTyped DEF ServeLogout
  <2> QED
    BY <1>0, <1>5, <2>2, <2>3, TypePartsNext DEF ServeLogout, PageTyped
<1>6. CASE FinishLogout
  <2>1. ServersTyped'
    BY <1>0, <1>6 DEF FinishLogout, ServersTyped, servers, history
  <2> QED
    BY <1>0, <1>6, <2>1, EmptyStoreTyped, NoCallTyped, TypePartsNext DEF FinishLogout, PageTyped
<1> QED
  BY <1>1, <1>2, <1>3, <1>4, <1>5, <1>6, <1>7 DEF LoginAndLogout

\* Loading the page anew.
LEMMA LoadPageTyped == TypeOK /\ LoadPage => TypeOK'
<1> SUFFICES ASSUME TypeOK, LoadPage PROVE TypeOK'
  OBVIOUS
<1>0. PageTyped /\ ServersTyped
  BY TypeParts
<1>1. ServersTyped'
  BY <1>0 DEF LoadPage, ServersTyped, servers, history
<1>2. store.access \in Pairs /\ store.user \in BOOLEAN
  BY <1>0 DEF PageTyped, Store
<1>3. req' \in [Requests -> Request]
  BY <1>2, NewRequestTyped, SentTyped DEF LoadPage
<1>4. failedQueue' \in Seq(Requests)
  BY DEF LoadPage
<1>5. shown' \in BOOLEAN /\ loading' \in BOOLEAN
  BY DEF LoadPage
<1> QED
  BY <1>0, <1>1, <1>3, <1>4, <1>5, NoCallTyped, TypePartsNext DEF LoadPage, PageTyped

\* An ageing token keeps its role, and the others stay as they are.
LEMMA AgesTyped ==
  ASSUME ServersTyped, NEW t \in DOMAIN pairs, TokenAges(t)
  PROVE  /\ pairs' \in Seq(Pair) /\ Len(pairs') = Len(pairs)
         /\ \A u \in DOMAIN pairs : pairs'[u].role = pairs[u].role
<1>1. pairs \in Seq(Pair) /\ pairs[t] \in Pair
  BY DEF ServersTyped
<1>2. [pairs[t] EXCEPT !.age = Aged(@)] \in Pair /\ [pairs[t] EXCEPT !.age = Aged(@)].role = pairs[t].role
  BY <1>1 DEF Aged, Pair
<1>3. pairs' = [pairs EXCEPT ![t] = [pairs[t] EXCEPT !.age = Aged(@)]]
  BY DEF TokenAges
<1> QED
  BY <1>1, <1>2, <1>3

\* Time, Redis and the administrator.
LEMMA EnvironmentTyped == TypeOK /\ Environment => TypeOK'
<1> SUFFICES ASSUME TypeOK, Environment PROVE TypeOK'
  OBVIOUS
<1>0. PageTyped /\ ServersTyped
  BY TypeParts
<1>1. PageTyped'
  BY <1>0 DEF Environment, TokenAges, EntryExpires, RedisFailsOrReturns, AccountChanges, page, PageTyped
<1>2. ASSUME NEW t \in DOMAIN pairs, TokenAges(t) PROVE ServersTyped'
  BY <1>0, <1>2, AgesTyped DEF TokenAges, ServersTyped
<1>3. ASSUME NEW t \in DOMAIN pairs, EntryExpires(t) PROVE ServersTyped'
  BY <1>0, <1>3 DEF EntryExpires, ServersTyped, history
<1>4. CASE RedisFailsOrReturns
  <2>1. events' \in 0 .. MaxEvents
    BY <1>0, <1>4, SessionAssumption DEF RedisFailsOrReturns, Event, ServersTyped
  <2>2. redisUp' \in BOOLEAN
    BY <1>4 DEF RedisFailsOrReturns
  <2>3. UNCHANGED <<pairs, revoked, account, history>>
    BY <1>4 DEF RedisFailsOrReturns
  <2> QED
    BY <1>0, <1>1, <2>1, <2>2, <2>3, TypePartsNext DEF ServersTyped, history
<1>5. CASE AccountChanges
  <2>1. asked' = {}
    BY <1>5 DEF AccountChanges
  <2>2. events' \in 0 .. MaxEvents
    BY <1>0, <1>5, SessionAssumption DEF AccountChanges, Event, ServersTyped
  <2>3. account' \in [role : Roles, is_active : BOOLEAN]
    BY <1>0, <1>5 DEF AccountChanges, ServersTyped
  <2>4. UNCHANGED <<pairs, revoked, redisUp, loggedOut>>
    BY <1>5 DEF AccountChanges
  <2> QED
    BY <1>0, <1>1, <2>1, <2>2, <2>3, <2>4, TypePartsNext DEF ServersTyped
<1> QED
  BY <1>1, <1>2, <1>3, <1>4, <1>5, TypePartsNext DEF Environment

\* Every step keeps the types.
LEMMA TypeStep == TypeOK /\ [Next]_vars => TypeOK'
<1> SUFFICES ASSUME TypeOK, [Next]_vars PROVE TypeOK'
  OBVIOUS
<1>0. PageTyped /\ ServersTyped
  BY TypeParts
<1>1. ASSUME NEW r \in Requests, Send(r) PROVE TypeOK'
  <2>1. store.access \in Pairs
    BY <1>0 DEF PageTyped, Store
  <2>2. ServersTyped'
    BY <1>0, <1>1 DEF Send, ServersTyped, servers, history
  <2> QED
    BY <1>0, <1>1, <2>1, <2>2, SentTyped, TypePartsNext DEF Send, PageTyped
<1>2. ASSUME NEW r \in Requests, Answer(r) PROVE TypeOK'
  BY <1>2, AnswerTyped
<1>3. ASSUME NEW r \in Requests, Intercept(r) PROVE TypeOK'
  BY <1>3, InterceptTyped
<1>4. CASE LoginAndLogout
  BY <1>4, LoginAndLogoutTyped
<1>5. CASE Redirect \/ Reload
  BY <1>5, LoadPageTyped DEF Redirect, Reload
<1>6. CASE Environment
  BY <1>6, EnvironmentTyped
<1>7. CASE UNCHANGED vars
  BY <1>0, <1>7, TypePartsNext DEF vars, page, servers, history, PageTyped, ServersTyped
<1> QED
  BY <1>1, <1>2, <1>3, <1>4, <1>5, <1>6, <1>7 DEF Next

\* Every reachable state is well typed.
THEOREM TypeCorrect == Spec => []TypeOK
BY TypeInit, TypeStep, PTL DEF Spec

-----------------------------------------------------------------------------
(* New tokens carry the account's role. *)

\* Whoever asked since the account last changed and is about to sign has read the
\* account as it is.
ReadIsCurrent ==
  /\ \A r \in Requests :
       r \in asked /\ req[r].at = "signing" => req[r].role = account.role /\ account.is_active
  /\ LoginCall \in asked /\ login.at = "signing" => login.role = account.role /\ account.is_active

\* Steps that leave alone what was read, but for calls that begin or end.
LEMMA ReadsKept ==
  ASSUME ReadIsCurrent, UNCHANGED account,
         \A r \in Requests :
           r \in asked' /\ req'[r].at = "signing" => r \in asked /\ req'[r] = req[r],
         LoginCall \in asked' /\ login'.at = "signing" => LoginCall \in asked /\ login' = login
  PROVE  ReadIsCurrent'
BY DEF ReadIsCurrent

\* The user service reads, signs or refuses; or another request is answered.
LEMMA ReadsAnswer ==
  ASSUME TypeOK, ReadIsCurrent, NEW r \in Requests, Answer(r)
  PROVE  ReadIsCurrent'
<1>0. req \in [Requests -> Request]
  BY TypeParts DEF PageTyped
<1>1. UNCHANGED <<login, account>> /\ asked' \subseteq asked
  BY DEF Answer, Authenticate, RequestFails, ReadForRefresh, SignRefresh, RefuseRefresh, Issue,
         servers, history
<1>2. \A q \in Requests \ {r} : req'[q] = req[q]
  BY <1>0 DEF Answer, Authenticate, RequestFails, ReadForRefresh, SignRefresh, RefuseRefresh, Renewed
<1>3. CASE ReadForRefresh(r)
  <2>1. req'[r].role = account.role /\ account.is_active
    BY <1>0, <1>3 DEF ReadForRefresh, Request
  <2> QED
    BY <1>1, <1>2, <2>1 DEF ReadIsCurrent
<1>4. CASE ~ReadForRefresh(r)
  <2>1. req'[r].at # "signing"
    BY <1>0, <1>4 DEF Answer, Authenticate, RequestFails, SignRefresh, RefuseRefresh, Renewed,
                      Settled, NewRequest, Request
  <2> QED
    BY <1>1, <1>2, <2>1, ReadsKept
<1> QED
  BY <1>3, <1>4

\* The interceptor may ask for a refresh, and signs nothing.
LEMMA ReadsIntercept ==
  ASSUME TypeOK, ReadIsCurrent, NEW r \in Requests, Intercept(r)
  PROVE  ReadIsCurrent'
<1>0. req \in [Requests -> Request] /\ LoginCall \notin Requests
  BY TypeParts, SessionAssumption DEF PageTyped, LoginCall, Requests, Me
<1>1. UNCHANGED <<login, account>> /\ asked' \subseteq asked \cup {r}
  BY DEF Intercept, EnqueueDenied, RejectTwiceDenied, StartRefresh, NothingToRefreshWith,
         FinishRefresh, AbandonRefresh, servers, history
<1>2. ASSUME NEW q \in Requests PROVE req'[q].at = "signing" => q # r /\ req'[q] = req[q]
  <2>1. CASE EnqueueDenied(r) \/ RejectTwiceDenied(r) \/ StartRefresh(r)
    BY <1>0, <2>1 DEF EnqueueDenied, RejectTwiceDenied, StartRefresh, Settled, NewRequest, Request
  <2>2. CASE NothingToRefreshWith(r) \/ AbandonRefresh(r)
    BY <2>2 DEF NothingToRefreshWith, AbandonRefresh, RejectAll, Settled, NewRequest
  <2>3. CASE FinishRefresh(r)
    BY <1>0, <2>3 DEF FinishRefresh, Sent, Request
  <2> QED
    BY <2>1, <2>2, <2>3 DEF Intercept
<1> QED
  BY <1>0, <1>1, <1>2, ReadsKept

\* Login and logout.
LEMMA ReadsLogin ==
  ASSUME TypeOK, ReadIsCurrent, LoginAndLogout
  PROVE  ReadIsCurrent'
<1>0. LoginCall \notin Requests
  BY SessionAssumption DEF LoginCall, Requests, Me
<1>1. UNCHANGED <<req, account>> /\ asked' \subseteq asked \cup {LoginCall}
  BY DEF LoginAndLogout, SubmitLogin, ReadForLogin, SignLogin, RefuseLogin, FinishLogin,
         SubmitLogout, ServeLogout, LogoutFails, FinishLogout, Issue, servers, history
<1>2. CASE ReadForLogin
  <2>1. login'.role = account.role /\ account.is_active /\ asked' = asked
    BY <1>2 DEF ReadForLogin, NoLogin, history
  <2> QED
    BY <1>0, <1>1, <2>1 DEF ReadIsCurrent
<1>3. CASE SubmitLogin \/ SignLogin \/ RefuseLogin \/ FinishLogin
  <2>1. CASE SubmitLogin
    BY <1>0, <1>1, <2>1, ReadsKept DEF SubmitLogin, NoLogin
  <2>2. CASE SignLogin
    BY <1>0, <1>1, <2>2, ReadsKept DEF SignLogin, NoLogin
  <2>3. CASE RefuseLogin
    BY <1>0, <1>1, <2>3, ReadsKept DEF RefuseLogin, NoLogin
  <2>4. CASE FinishLogin
    BY <1>0, <1>1, <2>4, ReadsKept DEF FinishLogin, NoLogin
  <2> QED
    BY <1>3, <2>1, <2>2, <2>3, <2>4
<1>4. CASE SubmitLogout \/ ServeLogout \/ LogoutFails \/ FinishLogout
  <2>1. UNCHANGED <<login, asked>>
    BY <1>4 DEF SubmitLogout, ServeLogout, LogoutFails, FinishLogout, history
  <2> QED
    BY <1>1, <2>1, ReadsKept
<1> QED
  BY <1>2, <1>3, <1>4 DEF LoginAndLogout

\* Every step keeps it: a change of the account makes all that was read out of date,
\* and what was asked for before it with it.
LEMMA ReadsStep == TypeOK /\ ReadIsCurrent /\ [Next]_vars => ReadIsCurrent'
<1> SUFFICES ASSUME TypeOK, ReadIsCurrent, [Next]_vars PROVE ReadIsCurrent'
  OBVIOUS
<1>0. ASSUME asked' = {} PROVE ReadIsCurrent'
  BY <1>0 DEF ReadIsCurrent
<1>1. ASSUME NEW r \in Requests, Send(r) PROVE ReadIsCurrent'
  <2>1. req \in [Requests -> Request]
    BY TypeParts DEF PageTyped
  <2>2. UNCHANGED <<login, account, asked>>
    BY <1>1 DEF Send, servers, history
  <2>3. \A q \in Requests : req'[q].at = "signing" => req'[q] = req[q]
    BY <1>1, <2>1 DEF Send, Sent, Request
  <2> QED
    BY <2>2, <2>3, ReadsKept
<1>2. ASSUME NEW r \in Requests, Answer(r) PROVE ReadIsCurrent'
  BY <1>2, ReadsAnswer
<1>3. ASSUME NEW r \in Requests, Intercept(r) PROVE ReadIsCurrent'
  BY <1>3, ReadsIntercept
<1>4. CASE LoginAndLogout
  BY <1>4, ReadsLogin
<1>5. CASE Redirect \/ Reload
  BY <1>0, <1>5 DEF Redirect, Reload, LoadPage
<1>6. CASE Environment
  <2>1. CASE AccountChanges
    BY <1>0, <2>1 DEF AccountChanges
  <2>2. CASE ~AccountChanges
    <3>1. UNCHANGED <<req, login, account, asked>>
      BY <1>6, <2>2 DEF Environment, TokenAges, EntryExpires, RedisFailsOrReturns, page, history
    <3> QED
      BY <3>1, ReadsKept
  <2> QED
    BY <2>1, <2>2
<1>7. CASE UNCHANGED vars
  <2>1. UNCHANGED <<req, login, account, asked>>
    BY <1>7 DEF vars, page, servers, history
  <2> QED
    BY <2>1, ReadsKept
<1> QED
  BY <1>1, <1>2, <1>3, <1>4, <1>5, <1>6, <1>7 DEF Next

\* A pair that is issued to a call asked for since the account last changed has the
\* account's role, and the account is active, however refreshes, logins and changes
\* interleave, and although the account is read before the pair is signed.
THEOREM NewTokensFit == Spec => NewTokensMatchAccount
<1>1. Init => ReadIsCurrent
  BY DEF Init, ReadIsCurrent
<1>2. TypeOK /\ ReadIsCurrent /\ [Next]_vars =>
        [\A call \in asked :
           Brings(call) => Last(pairs').role = account.role /\ account.is_active]_vars
  <2> SUFFICES ASSUME TypeOK, ReadIsCurrent, NEW call \in asked, Brings(call)
               PROVE  Last(pairs').role = account.role /\ account.is_active
    OBVIOUS
  <2>0. PageTyped /\ ServersTyped
    BY TypeParts
  <2>1. CASE call = LoginCall
    <3>1. login.at = "signing" /\ Issue(call, login.role) /\ login.role \in Roles
      BY <2>0, <2>1 DEF Brings, SignLogin, PageTyped, Login
    <3> QED
      BY <2>0, <2>1, <3>1, IssueTyped DEF ReadIsCurrent
  <2>2. CASE call # LoginCall
    <3>1. call \in Requests
      BY <2>0, <2>2 DEF ServersTyped, Calls
    <3>2. req[call].at = "signing" /\ Issue(call, req[call].role) /\ req[call].role \in Roles
      BY <2>0, <2>2, <3>1 DEF Brings, SignRefresh, PageTyped, Request
    <3> QED
      BY <2>0, <3>1, <3>2, IssueTyped DEF ReadIsCurrent
  <2> QED
    BY <2>1, <2>2
<1> QED
  BY <1>1, <1>2, ReadsStep, TypeInit, TypeStep, PTL DEF Spec, NewTokensMatchAccount

-----------------------------------------------------------------------------
(* One request refreshes. *)

\* OneRefresh without cardinalities: who refreshes is unique, and the queue is
\* the requests that wait, each once.
Refreshing ==
  /\ isRefreshing <=> \E r \in Requests : Renewing(r)
  /\ \A q, r \in Requests : Renewing(q) /\ Renewing(r) => q = r
  /\ Waiting = {r \in Requests : req[r].at = "queued"}
  /\ IsFiniteSet(Waiting) /\ Len(failedQueue) = Cardinality(Waiting)
  /\ failedQueue # <<>> => isRefreshing

\* The form that counts follows.
LEMMA RefreshingIsOne == Refreshing => OneRefresh
<1> SUFFICES ASSUME Refreshing
             PROVE  Cardinality({r \in Requests : Renewing(r)}) = (IF isRefreshing THEN 1 ELSE 0)
  BY DEF Refreshing, OneRefresh
<1>1. CASE isRefreshing
  <2>1. PICK q \in Requests : Renewing(q)
    BY <1>1 DEF Refreshing
  <2>2. {r \in Requests : Renewing(r)} = {q}
    BY <2>1 DEF Refreshing
  <2> QED
    BY <1>1, <2>2, FS_Singleton
<1>2. CASE ~isRefreshing
  <2>1. {r \in Requests : Renewing(r)} = {}
    BY <1>2 DEF Refreshing
  <2> QED
    BY <1>2, <2>1, FS_EmptySet
<1> QED
  BY <1>1, <1>2

\* The queue is empty when nothing is in it.
LEMMA EmptyQueue == ToSet(<<>>) = {} /\ IsFiniteSet({}) /\ Cardinality({}) = 0 /\ Len(<<>>) = 0
BY FS_EmptySet DEF ToSet

\* What is in a queue that grew.
LEMMA ToSetOfAppend ==
  ASSUME NEW S, NEW s \in Seq(S), NEW e \in S
  PROVE  Len(Append(s, e)) = Len(s) + 1 /\ ToSet(Append(s, e)) = ToSet(s) \cup {e}
<1>1. /\ Append(s, e) \in Seq(S) /\ Len(s) \in Nat
      /\ DOMAIN s = 1 .. Len(s) /\ DOMAIN Append(s, e) = 1 .. Len(s) + 1
      /\ \A i \in 1 .. Len(s) : Append(s, e)[i] = s[i]
      /\ Append(s, e)[Len(s) + 1] = e
      /\ Len(Append(s, e)) = Len(s) + 1
  OBVIOUS
<1> QED
  BY <1>1 DEF ToSet

\* Steps that neither begin nor end a refresh, and leave the queue alone.
LEMMA QueueLeftAlone ==
  ASSUME Refreshing, UNCHANGED <<isRefreshing, failedQueue>>,
         \A r \in Requests : /\ Renewing(r)' <=> Renewing(r)
                             /\ req'[r].at = "queued" <=> req[r].at = "queued"
  PROVE  Refreshing'
BY DEF Refreshing, Waiting

\* Steps after which nobody refreshes and nobody waits.
LEMMA QueueEmptied ==
  ASSUME isRefreshing' = FALSE, failedQueue' = <<>>,
         \A r \in Requests : ~Renewing(r)' /\ req'[r].at # "queued"
  PROVE  Refreshing'
BY EmptyQueue DEF Refreshing, Waiting

\* A request that changes alone, from and to stages without a refresh.
LEMMA Elsewhere ==
  ASSUME TypeOK, Refreshing, NEW r \in Requests, UNCHANGED <<isRefreshing, failedQueue>>,
         \A q \in Requests \ {r} : req'[q] = req[q],
         req'[r].at = "queued" <=> req[r].at = "queued", Renewing(r)' <=> Renewing(r)
  PROVE  Refreshing'
<1>1. \A q \in Requests \ {r} : Renewing(q)' <=> Renewing(q)
  BY DEF Renewing
<1> QED
  BY <1>1, QueueLeftAlone

\* What the servers answer.
LEMMA RefreshingAnswer ==
  ASSUME TypeOK, Refreshing, NEW r \in Requests, Answer(r)
  PROVE  Refreshing'
<1>0. req \in [Requests -> Request]
  BY TypeParts DEF PageTyped
<1>1. CASE Authenticate(r)
  <2>1. req'[r].at \in {"settled", "denied"} /\ req[r].at = "sent"
    BY <1>0, <1>1 DEF Authenticate, Settled, NewRequest, Request
  <2>2. UNCHANGED <<isRefreshing, failedQueue>> /\ \A q \in Requests \ {r} : req'[q] = req[q]
    BY <1>0, <1>1 DEF Authenticate
  <2> QED
    BY <2>1, <2>2, Elsewhere DEF Renewing
<1>2. CASE RequestFails(r)
  <2>1. req'[r].at = "settled" /\ req[r].at = "sent"
    BY <1>0, <1>2 DEF RequestFails, Settled, NewRequest
  <2>2. UNCHANGED <<isRefreshing, failedQueue>> /\ \A q \in Requests \ {r} : req'[q] = req[q]
    BY <1>0, <1>2 DEF RequestFails
  <2> QED
    BY <2>1, <2>2, Elsewhere DEF Renewing
<1>3. CASE SignRefresh(r) \/ ReadForRefresh(r)
  <2>1. req'[r].at \in {"signing", "renewed"} /\ req[r].at \in {"refreshing", "signing"}
    BY <1>0, <1>3 DEF SignRefresh, ReadForRefresh, Renewed, Request
  <2>2. UNCHANGED <<isRefreshing, failedQueue>> /\ \A q \in Requests \ {r} : req'[q] = req[q]
    BY <1>0, <1>3 DEF SignRefresh, ReadForRefresh, Renewed
  <2> QED
    BY <2>1, <2>2, Elsewhere DEF Renewing
<1>4. CASE RefuseRefresh(r)
  <2>1. req'[r].at = "refused" /\ req[r].at \in {"refreshing", "signing", "renewed"}
    BY <1>0, <1>4 DEF RefuseRefresh, Request
  <2>2. UNCHANGED <<isRefreshing, failedQueue>> /\ \A q \in Requests \ {r} : req'[q] = req[q]
    BY <1>0, <1>4 DEF RefuseRefresh
  <2> QED
    BY <2>1, <2>2, Elsewhere DEF Renewing
<1> QED
  BY <1>1, <1>2, <1>3, <1>4 DEF Answer

\* What the interceptor does.
LEMMA RefreshingIntercept ==
  ASSUME TypeOK, Refreshing, NEW r \in Requests, Intercept(r)
  PROVE  Refreshing'
<1>0. req \in [Requests -> Request] /\ failedQueue \in Seq(Requests)
  BY TypeParts DEF PageTyped
<1>1. CASE EnqueueDenied(r)
  <2>1. /\ req[r].at = "denied" /\ req'[r].at = "queued"
        /\ \A q \in Requests \ {r} : req'[q] = req[q]
        /\ isRefreshing /\ isRefreshing' = isRefreshing
    BY <1>0, <1>1 DEF EnqueueDenied, Request
  <2>2. Waiting' = Waiting \cup {r} /\ Len(failedQueue') = Len(failedQueue) + 1
    BY <1>0, <1>1, ToSetOfAppend DEF EnqueueDenied, Waiting
  <2>3. r \notin Waiting
    BY <2>1 DEF Refreshing
  <2>4. IsFiniteSet(Waiting') /\ Cardinality(Waiting') = Cardinality(Waiting) + 1
    BY <2>2, <2>3, FS_AddElement DEF Refreshing
  <2>5. Waiting' = {q \in Requests : req'[q].at = "queued"}
    BY <2>1, <2>2 DEF Refreshing
  <2>6. \A q \in Requests : Renewing(q)' <=> Renewing(q)
    BY <2>1 DEF Renewing
  <2> QED
    BY <2>1, <2>2, <2>4, <2>5, <2>6 DEF Refreshing
<1>2. CASE RejectTwiceDenied(r)
  <2>1. req'[r].at = "settled" /\ req[r].at = "denied"
    BY <1>0, <1>2 DEF RejectTwiceDenied, Settled, NewRequest
  <2>2. UNCHANGED <<isRefreshing, failedQueue>> /\ \A q \in Requests \ {r} : req'[q] = req[q]
    BY <1>0, <1>2 DEF RejectTwiceDenied
  <2> QED
    BY <2>1, <2>2, Elsewhere DEF Renewing
<1>3. CASE StartRefresh(r)
  <2>1. /\ ~isRefreshing /\ isRefreshing' = TRUE /\ failedQueue' = failedQueue
        /\ req[r].at = "denied" /\ req'[r].at = "refreshing"
        /\ \A q \in Requests \ {r} : req'[q] = req[q]
    BY <1>0, <1>3 DEF StartRefresh, Request
  <2>2. Renewing(r)' /\ \A q \in Requests \ {r} : ~Renewing(q)'
    BY <2>1 DEF Renewing, Refreshing
  <2>3. Waiting' = Waiting /\ Waiting' = {q \in Requests : req'[q].at = "queued"}
    BY <2>1 DEF Refreshing, Waiting
  <2> QED
    BY <2>1, <2>2, <2>3 DEF Refreshing
<1>4. ASSUME NEW kept, RejectAll(r, kept), isRefreshing => Renewing(r)
      PROVE  Refreshing'
  <2>1. isRefreshing' = FALSE /\ failedQueue' = <<>>
    BY <1>4 DEF RejectAll
  <2>2. ASSUME NEW q \in Requests PROVE ~Renewing(q)' /\ req'[q].at # "queued"
    <3>1. CASE q \in Waiting \cup {r}
      BY <1>4, <3>1 DEF RejectAll, Settled, NewRequest, Renewing
    <3>2. CASE q \notin Waiting \cup {r}
      <4>1. req'[q] = req[q] /\ q # r /\ req[q].at # "queued"
        BY <1>4, <3>2 DEF RejectAll, Refreshing
      <4>2. ~Renewing(q)
        BY <1>4, <4>1 DEF Refreshing
      <4> QED
        BY <4>1, <4>2 DEF Renewing
    <3> QED
      BY <3>1, <3>2
  <2> QED
    BY <2>1, <2>2, QueueEmptied
<1>5. CASE NothingToRefreshWith(r)
  BY <1>4, <1>5 DEF NothingToRefreshWith
<1>6. CASE AbandonRefresh(r)
  BY <1>4, <1>6 DEF AbandonRefresh, Renewing
<1>7. CASE FinishRefresh(r)
  <2>1. isRefreshing' = FALSE /\ failedQueue' = <<>> /\ Renewing(r)
    BY <1>7 DEF FinishRefresh, Renewing
  <2>2. ASSUME NEW q \in Requests PROVE ~Renewing(q)' /\ req'[q].at # "queued"
    <3>1. CASE q \in Waiting \cup {r}
      BY <1>0, <1>7, <3>1 DEF FinishRefresh, Sent, Request, Renewing
    <3>2. CASE q \notin Waiting \cup {r}
      <4>1. req'[q] = req[q] /\ q # r /\ req[q].at # "queued"
        BY <1>7, <3>2 DEF FinishRefresh, Refreshing
      <4>2. ~Renewing(q)
        BY <2>1, <4>1 DEF Refreshing
      <4> QED
        BY <4>1, <4>2 DEF Renewing
    <3> QED
      BY <3>1, <3>2
  <2> QED
    BY <2>1, <2>2, QueueEmptied
<1> QED
  BY <1>1, <1>2, <1>3, <1>5, <1>6, <1>7 DEF Intercept

\* A page that is loaded anew has no refresh and no queue.
LEMMA RefreshingLoad == LoadPage => Refreshing'
<1> SUFFICES ASSUME LoadPage PROVE Refreshing'
  OBVIOUS
<1>1. isRefreshing' = FALSE /\ failedQueue' = <<>>
  BY DEF LoadPage
<1>2. \A r \in Requests : ~Renewing(r)' /\ req'[r].at # "queued"
  BY DEF LoadPage, Sent, NewRequest, Renewing
<1> QED
  BY <1>1, <1>2, QueueEmptied

\* Every step keeps the refresh unique and the queue exact.
LEMMA RefreshingStep == TypeOK /\ Refreshing /\ [Next]_vars => Refreshing'
<1> SUFFICES ASSUME TypeOK, Refreshing, [Next]_vars PROVE Refreshing'
  OBVIOUS
<1>0. ASSUME UNCHANGED <<req, isRefreshing, failedQueue>> PROVE Refreshing'
  BY <1>0, QueueLeftAlone DEF Renewing
<1>1. ASSUME NEW r \in Requests, Send(r) PROVE Refreshing'
  <2>0. req \in [Requests -> Request]
    BY TypeParts DEF PageTyped
  <2>1. req'[r].at = "sent" /\ req[r].at = "idle"
    BY <1>1, <2>0 DEF Send, Sent, Request
  <2>2. UNCHANGED <<isRefreshing, failedQueue>> /\ \A q \in Requests \ {r} : req'[q] = req[q]
    BY <1>1, <2>0 DEF Send
  <2> QED
    BY <2>1, <2>2, Elsewhere DEF Renewing
<1>2. ASSUME NEW r \in Requests, Answer(r) PROVE Refreshing'
  BY <1>2, RefreshingAnswer
<1>3. ASSUME NEW r \in Requests, Intercept(r) PROVE Refreshing'
  BY <1>3, RefreshingIntercept
<1>4. CASE LoginAndLogout
  BY <1>0, <1>4 DEF LoginAndLogout, SubmitLogin, ReadForLogin, SignLogin, RefuseLogin, FinishLogin,
       SubmitLogout, ServeLogout, LogoutFails, FinishLogout
<1>5. CASE Redirect \/ Reload
  BY <1>5, RefreshingLoad DEF Redirect, Reload
<1>6. CASE Environment
  BY <1>0, <1>6 DEF Environment, TokenAges, EntryExpires, RedisFailsOrReturns, AccountChanges, page
<1>7. CASE UNCHANGED vars
  BY <1>0, <1>7 DEF vars, page
<1> QED
  BY <1>1, <1>2, <1>3, <1>4, <1>5, <1>6, <1>7 DEF Next

\* At the start nobody refreshes.
LEMMA RefreshingInit == Init => Refreshing
<1> SUFFICES ASSUME Init PROVE Refreshing
  OBVIOUS
<1>1. isRefreshing = FALSE /\ failedQueue = <<>>
  BY DEF Init
<1>2. \A r \in Requests : ~Renewing(r) /\ req[r].at # "queued"
  BY DEF Init, NewRequest, Renewing
<1> QED
  BY <1>1, <1>2, EmptyQueue DEF Refreshing, Waiting

\* However many requests of a page are denied at once, one of them refreshes, and
\* the others wait in the queue, each once.
THEOREM OneRequestRefreshes == Spec => []OneRefresh
BY RefreshingInit, RefreshingStep, RefreshingIsOne, TypeInit, TypeStep, PTL DEF Spec

-----------------------------------------------------------------------------
(* A logged out token is refused. *)

\* Until its last second, a token whose logout was confirmed has a blacklist entry.
Blacklisted ==
  \A t \in loggedOut : t \in revoked /\ (t \in DOMAIN pairs => pairs[t].age = "fresh")

\* A new pair is fresh, and takes nothing from the blacklist.
LEMMA IssueKeepsBlacklist ==
  ASSUME TypeOK, Blacklisted, NEW call, NEW role \in Roles, Issue(call, role)
  PROVE  Blacklisted'
BY TypeParts, IssueTyped DEF Blacklisted, Issue

\* Entries are added with the logout, and leave in the token's last second.
LEMMA BlacklistedStep == TypeOK /\ Blacklisted /\ [Next]_vars => Blacklisted'
<1> SUFFICES ASSUME TypeOK, Blacklisted, [Next]_vars PROVE Blacklisted'
  OBVIOUS
<1>0. ASSUME UNCHANGED <<pairs, revoked, loggedOut>> PROVE Blacklisted'
  BY <1>0 DEF Blacklisted
<1>1. ASSUME NEW r \in Requests, Send(r) PROVE Blacklisted'
  BY <1>0, <1>1 DEF Send, servers, history
<1>2. ASSUME NEW r \in Requests, Answer(r) PROVE Blacklisted'
  <2>1. CASE SignRefresh(r)
    <3>1. req[r].role \in Roles
      BY TypeParts DEF PageTyped, Request
    <3> QED
      BY <2>1, <3>1, IssueKeepsBlacklist DEF SignRefresh
  <2>2. CASE Authenticate(r) \/ RequestFails(r) \/ ReadForRefresh(r) \/ RefuseRefresh(r)
    BY <1>0, <2>2 DEF Authenticate, RequestFails, ReadForRefresh, RefuseRefresh, servers, history
  <2> QED
    BY <1>2, <2>1, <2>2 DEF Answer
<1>3. ASSUME NEW r \in Requests, Intercept(r) PROVE Blacklisted'
  BY <1>0, <1>3 DEF Intercept, EnqueueDenied, RejectTwiceDenied, StartRefresh,
       NothingToRefreshWith, FinishRefresh, AbandonRefresh, servers, history
<1>4. CASE LoginAndLogout
  <2>1. CASE SignLogin
    <3>1. login.role \in Roles
      BY TypeParts DEF PageTyped, Login
    <3> QED
      BY <2>1, <3>1, IssueKeepsBlacklist DEF SignLogin
  <2>2. CASE SubmitLogin \/ ReadForLogin \/ RefuseLogin \/ FinishLogin \/ SubmitLogout
             \/ LogoutFails \/ FinishLogout
    BY <1>0, <2>2 DEF SubmitLogin, ReadForLogin, RefuseLogin, FinishLogin, SubmitLogout,
         LogoutFails, FinishLogout, servers, history
  <2>3. CASE ServeLogout
    BY <2>3 DEF ServeLogout, Blacklisted
  <2> QED
    BY <1>4, <2>1, <2>2, <2>3 DEF LoginAndLogout
<1>5. CASE Redirect \/ Reload
  BY <1>0, <1>5 DEF Redirect, Reload, LoadPage, servers, history
<1>6. CASE Environment
  <2>1. ASSUME NEW t \in DOMAIN pairs, TokenAges(t) PROVE Blacklisted'
    <3>1. pairs \in Seq(Pair)
      BY TypeParts DEF ServersTyped
    <3>2. DOMAIN pairs' = DOMAIN pairs /\ \A u \in DOMAIN pairs \ {t} : pairs'[u] = pairs[u]
      BY <2>1, <3>1 DEF TokenAges
    <3>3. \A u \in loggedOut' : u \in loggedOut /\ u # t /\ (u \in revoked => u \in revoked')
      BY <2>1 DEF TokenAges
    <3> QED
      BY <3>2, <3>3 DEF Blacklisted
  <2>2. ASSUME NEW t \in DOMAIN pairs, EntryExpires(t) PROVE Blacklisted'
    BY <2>2 DEF EntryExpires, history, Blacklisted
  <2>3. CASE RedisFailsOrReturns \/ AccountChanges
    BY <1>0, <2>3 DEF RedisFailsOrReturns, AccountChanges, history
  <2> QED
    BY <1>6, <2>1, <2>2, <2>3 DEF Environment
<1>7. CASE UNCHANGED vars
  BY <1>0, <1>7 DEF vars, servers, history
<1> QED
  BY <1>1, <1>2, <1>3, <1>4, <1>5, <1>6, <1>7 DEF Next

\* While Redis answers, a token whose logout was confirmed is not accepted again before
\* its last second, whoever holds it and however the account changes.
THEOREM LoggedOutStaysOut == Spec => LoggedOutIsRefused
<1>1. Init => Blacklisted
  BY DEF Init, Blacklisted
<1>2. TypeOK /\ Blacklisted /\ [Next]_vars =>
        [\A r \in Requests :
           redisUp /\ req[r].token \in loggedOut /\ Authenticate(r) => req'[r].at = "denied"]_vars
  <2> SUFFICES ASSUME TypeOK, Blacklisted, NEW r \in Requests,
                      Authenticate(r), redisUp, req[r].token \in loggedOut
               PROVE  req'[r].at = "denied"
    OBVIOUS
  <2>1. req \in [Requests -> Request]
    BY TypeParts DEF PageTyped
  <2>2. ~Accepts(req[r].token)
    BY DEF Accepts, Blacklisted
  <2> QED
    BY <2>1, <2>2 DEF Authenticate, Request
<1> QED
  BY <1>1, <1>2, BlacklistedStep, TypeInit, TypeStep, PTL DEF Spec, LoggedOutIsRefused

================================================================================
