--------------------------- MODULE PacingProofs ---------------------------
(* What the governor keeps, for any number of callers and keys, any rates     *)
(* and any length of time.                                                    *)
EXTENDS Pacing, SequenceTheorems, TLAPS

\* What the bucket of all requests still holds, and what has been taken of it
\* since any earlier token, come from a full bucket and the time in between.
Budget ==
  \A i \in 1..Len(taken) :
    (Len(taken) - i + 1) * Period + Refilled(total, Cap, Period)
      <= Cap * Period + Cap * (now - taken[i])

\* A call has slept at most once for each limit it has come to.
SleptByStage ==
  \A c \in Callers :
    /\ call[c].stage \in {"idle", "total"} => call[c].slept <= MaxWait
    /\ call[c].stage \in {"total_again", "key"} => call[c].slept <= 2 * MaxWait
    /\ call[c].stage = "key_again" => call[c].slept <= 3 * MaxWait

IInv == TypeOK /\ Budget /\ WindowBound /\ SleptByStage

-----------------------------------------------------------------------------
(* Buckets *)

LEMMA ProductIsNat ==
  ASSUME NEW a \in Nat, NEW b \in Nat
  PROVE  a * b \in Nat
  OBVIOUS

LEMMA OneIsLeast ==
  ASSUME NEW a \in Nat \ {0}, NEW b \in Nat
  PROVE  b <= a * b
  OBVIOUS

LEMMA Successor ==
  ASSUME NEW a \in Int, NEW b \in Int
  PROVE  a * (b + 1) = a * b + a /\ (b + 1) * a = b * a + a
  OBVIOUS

LEMMA DivIsNat ==
  ASSUME NEW a \in Nat, NEW b \in Nat \ {0}
  PROVE  a \div b \in Nat
  OBVIOUS

\* A bucket keeps between no token and its capacity, whatever is asked of it.
LEMMA BucketKept ==
  ASSUME now \in Nat,
         NEW cap \in Nat \ {0}, NEW period \in Nat \ {0},
         NEW b \in Buckets(cap, period)
  PROVE  /\ Refilled(b, cap, period) \in 0..(cap * period)
         /\ b.level <= Refilled(b, cap, period)
         /\ HasToken(b, cap, period) => Less(b, cap, period) \in Buckets(cap, period)
         /\ Same(b, cap, period) \in Buckets(cap, period)
         /\ ~HasToken(b, cap, period) => Hint(b, cap, period) \in Nat
  <1> DEFINE full == cap * period
             gain == (now - b.at) * cap
             r == Refilled(b, cap, period)
  <1>1. full \in Nat
    BY ProductIsNat
  <1>2. b.level \in 0..full /\ b.at \in 0..now
    BY DEF Buckets
  <1>3. gain \in Nat
    <2>1. now - b.at \in Nat
      BY <1>2
    <2> QED
      BY <2>1, ProductIsNat
  <1>4. r = IF b.level + gain < full THEN b.level + gain ELSE full
    BY DEF Refilled, Least
  <1>5. r \in 0..full /\ b.level <= r
    <2> HIDE DEF full, gain, r
    <2> QED
      BY <1>1, <1>2, <1>3, <1>4
  <1>6. HasToken(b, cap, period) => Less(b, cap, period) \in Buckets(cap, period)
    <2> SUFFICES ASSUME r >= period PROVE [level |-> r - period, at |-> now] \in Buckets(cap, period)
      BY DEF HasToken, Less
    <2>1. r - period \in 0..full
      <3> HIDE DEF full, r
      <3> QED
        BY <1>1, <1>5
    <2> QED
      BY <2>1 DEF Buckets
  <1>7. Same(b, cap, period) \in Buckets(cap, period)
    BY <1>5 DEF Same, Buckets
  <1>8. ~HasToken(b, cap, period) => Hint(b, cap, period) \in Nat
    <2> SUFFICES ASSUME ~(r >= period) PROVE (period - r + cap - 1) \div cap \in Nat
      BY DEF HasToken, Hint
    <2>1. period - r + cap - 1 \in Nat
      <3> HIDE DEF full, r
      <3> QED
        BY <1>1, <1>5
    <2> QED
      BY <2>1, DivIsNat
  <1> QED
    BY <1>5, <1>6, <1>7, <1>8

\* A bucket holds as much after an attempt as it held before, less what was taken.
LEMMA RefilledAfter ==
  ASSUME now \in Nat, now' = now,
         NEW cap \in Nat \ {0}, NEW period \in Nat \ {0},
         NEW b, NEW l \in 0..(cap * period), b = [level |-> l, at |-> now]
  PROVE  Least(b.level + (now' - b.at) * cap, cap * period) = l
  <1>1. (now' - b.at) * cap = 0
    OBVIOUS
  <1>2. cap * period \in Nat
    BY ProductIsNat
  <1> QED
    BY <1>1, <1>2 DEF Least
-----------------------------------------------------------------------------
(* Types *)

LEMMA TypeInit == Init => TypeOK
  <1> SUFFICES ASSUME Init PROVE TypeOK
    OBVIOUS
  <1> USE RatesAssumption, WaitsAssumption DEF Init
  <1>1. Cap * Period \in Nat /\ Burst * BurstPeriod \in Nat
    BY ProductIsNat
  <1>2. total \in Buckets(Cap, Period)
    BY <1>1 DEF Buckets
  <1>3. perKey \in [Keys -> Buckets(Burst, BurstPeriod)]
    BY <1>1 DEF Buckets
  <1>4. taken \in Seq(0..now) /\ sent \in Seq([key : Keys, at : 0..now])
    OBVIOUS
  <1> QED
    BY <1>2, <1>3, <1>4 DEF TypeOK

\* Time only widens what an instant may be.
LEMMA TypeLater ==
  ASSUME TypeOK, Tick
  PROVE  TypeOK'
  <1> USE DEF Tick
  <1>1. now \in Nat /\ now' = now + 1 /\ 0..now \subseteq 0..now'
    BY DEF TypeOK
  <1>2. \A cap, period : Buckets(cap, period) \subseteq Buckets(cap, period)'
    BY <1>1 DEF Buckets
  <1>3. total' \in Buckets(Cap, Period)' /\ perKey' \in [Keys -> Buckets(Burst, BurstPeriod)']
    BY <1>2 DEF TypeOK
  <1>4. taken' \in Seq(0..now')
    BY <1>1, SeqMonotonic DEF TypeOK
  <1>5. [key : Keys, at : 0..now] \subseteq [key : Keys, at : 0..now']
    BY <1>1
  <1>6. sent' \in Seq([key : Keys, at : 0..now'])
    <2> DEFINE Old == [key : Keys, at : 0..now]
               New == [key : Keys, at : 0..now']
    <2>1. sent \in Seq(Old) /\ Old \subseteq New
      BY <1>5 DEF TypeOK
    <2>2. sent \in Seq(New)
      <3> HIDE DEF Old, New
      <3> QED
        BY <2>1, SeqMonotonic
    <2> QED
      BY <2>2
  <1>7. consumed' \in [Keys -> (0..now') \cup {Never}]
    BY <1>1 DEF TypeOK
  <1> QED
    BY <1>1, <1>3, <1>4, <1>6, <1>7 DEF TypeOK
\* A call that goes on, sleeps or returns is a call again.
LEMMA CallKept ==
  ASSUME TypeOK, NEW c \in Callers, NEW stage \in Stages, NEW d \in Nat,
         call[c].stage \in Stages
  PROVE  /\ call[c].key \in Keys
         /\ Proceed(c, stage) \/ Return(c) \/ Sleep(c, d, stage) =>
              call' \in [Callers -> {Idle} \cup
                           [stage : Stages, key : Keys, wake : Nat, slept : Nat]]
  <1> DEFINE Calls == [stage : Stages, key : Keys, wake : Nat, slept : Nat]
  <1>1. call[c] \in Calls
    BY DEF TypeOK, Idle, Call, Stages
  <1>2. now \in Nat /\ now + d \in Nat /\ call[c].slept + d \in Nat
    BY <1>1 DEF TypeOK
  <1>3. [call[c] EXCEPT !.stage = stage] \in Calls
    BY <1>1
  <1>4. [call[c] EXCEPT !.stage = stage, !.wake = now + d, !.slept = @ + d] \in Calls
    BY <1>1, <1>2
  <1>5. call \in [Callers -> {Idle} \cup Calls]
    BY DEF TypeOK
  <1> QED
    BY <1>1, <1>3, <1>4, <1>5 DEF Proceed, Return, Sleep

\* No attempt at a bucket leaves it or its call in a state it cannot be in.
LEMMA TypeStep ==
  ASSUME TypeOK, [Next]_vars
  PROVE  TypeOK'
  <1> USE RatesAssumption, WaitsAssumption
  <1> DEFINE Calls == {Idle} \cup [stage : Stages, key : Keys, wake : Nat, slept : Nat]
  <1>0. now \in Nat /\ now \in 0..now
    BY DEF TypeOK
  <1>1. CASE Tick
    BY <1>1, TypeLater
  <1>2. ASSUME NEW c \in Callers, NEW k \in Keys, Begin(c, k) PROVE TypeOK'
    <2>1. CoolingLeft(k) \in Nat
      BY <1>0 DEF CoolingLeft, TypeOK
    <2>2. Call("total", k, now + CoolingLeft(k), CoolingLeft(k)) \in Calls
      BY <1>0, <2>1 DEF Call, Stages
    <2> QED
      BY <1>2, <2>2 DEF Begin, TypeOK, Buckets
  <1>3. ASSUME NEW c \in Callers, TakeTotal(c) PROVE TypeOK'
    <2>1. total' \in Buckets(Cap, Period)
      BY <1>0, <1>3, BucketKept DEF TakeTotal, TypeOK
    <2>2. call' \in [Callers -> Calls]
      BY <1>3, CallKept, 0 \in Nat DEF TakeTotal, At, Stages
    <2>3. taken' \in Seq(0..now)
      BY <1>0, <1>3, AppendProperties DEF TakeTotal, TypeOK
    <2> QED
      BY <1>3, <2>1, <2>2, <2>3 DEF TakeTotal, TypeOK, Buckets
  <1>4. ASSUME NEW c \in Callers, MissTotal(c) PROVE TypeOK'
    <2>1. total' \in Buckets(Cap, Period)
      BY <1>0, <1>4, BucketKept DEF MissTotal, TypeOK
    <2>2. Hint(total, Cap, Period) \in Nat
      BY <1>0, <1>4, BucketKept DEF MissTotal, TypeOK
    <2>3. call' \in [Callers -> Calls]
      BY <1>4, <2>2, CallKept DEF MissTotal, At, Stages
    <2> QED
      BY <1>4, <2>1, <2>3 DEF MissTotal, TypeOK, Buckets
  <1>5. ASSUME NEW c \in Callers, TakeKey(c) PROVE TypeOK'
    <2> DEFINE k == call[c].key
    <2>1. k \in Keys
      BY <1>5, CallKept, 0 \in Nat DEF TakeKey, At, Stages
    <2>2. call' \in [Callers -> Calls]
      BY <1>5, CallKept, 0 \in Nat DEF TakeKey, At, Stages
    <2>3. Less(perKey[k], Burst, BurstPeriod) \in Buckets(Burst, BurstPeriod)
      BY <1>0, <1>5, <2>1, BucketKept DEF TakeKey, TypeOK
    <2>4. perKey' \in [Keys -> Buckets(Burst, BurstPeriod)]
      BY <1>5, <2>3 DEF TakeKey, TypeOK
    <2>5. consumed' \in [Keys -> (0..now) \cup {Never}]
      BY <1>0, <1>5 DEF TakeKey, TypeOK
    <2>6. sent' \in Seq([key : Keys, at : 0..now])
      <3>1. [key |-> k, at |-> now] \in [key : Keys, at : 0..now]
        BY <1>0, <2>1
      <3> QED
        BY <1>5, <3>1, AppendProperties DEF TakeKey, TypeOK
    <2> QED
      BY <1>5, <2>2, <2>4, <2>5, <2>6 DEF TakeKey, TypeOK, Buckets
  <1>6. ASSUME NEW c \in Callers, MissKey(c) PROVE TypeOK'
    <2> DEFINE k == call[c].key
    <2>1. k \in Keys
      BY <1>6, CallKept, 0 \in Nat DEF MissKey, At, Stages
    <2>2. /\ Same(perKey[k], Burst, BurstPeriod) \in Buckets(Burst, BurstPeriod)
          /\ Hint(perKey[k], Burst, BurstPeriod) \in Nat
      BY <1>0, <1>6, <2>1, BucketKept DEF MissKey, TypeOK
    <2>3. call' \in [Callers -> Calls]
      BY <1>6, <2>2, CallKept DEF MissKey, At, Stages
    <2>4. perKey' \in [Keys -> Buckets(Burst, BurstPeriod)]
      BY <1>6, <2>2 DEF MissKey, TypeOK
    <2> QED
      BY <1>6, <2>3, <2>4 DEF MissKey, TypeOK, Buckets
  <1>7. CASE UNCHANGED vars
    BY <1>7 DEF vars, TypeOK, Buckets
  <1> QED
    BY <1>1, <1>2, <1>3, <1>4, <1>5, <1>6, <1>7 DEF Next

-----------------------------------------------------------------------------
(* The bucket of all requests *)

\* What the bucket holds, by the action.
LEMMA TotalStep ==
  ASSUME TypeOK, [Next]_vars
  PROVE  LET r == Refilled(total, Cap, Period)
             rr == Refilled(total, Cap, Period)'
         IN \/ /\ now' = now + 1 /\ taken' = taken
               /\ rr \in Nat /\ rr <= r + Cap
            \/ /\ now' = now /\ taken' = Append(taken, now)
               /\ r >= Period /\ rr = r - Period
            \/ /\ now' = now /\ taken' = taken
               /\ rr = r
  <1> USE RatesAssumption
  <1> DEFINE r == Refilled(total, Cap, Period)
             rr == Refilled(total, Cap, Period)'
  <1>0. /\ now \in Nat /\ Cap * Period \in Nat /\ r \in 0..(Cap * Period)
        /\ total \in Buckets(Cap, Period)
    BY ProductIsNat, BucketKept DEF TypeOK
  <1>1. CASE Tick
    <2> DEFINE passed == now - total.at
    <2>1. total.level \in Nat /\ passed \in Nat
      BY <1>0 DEF Buckets
    <2>2. now' = now + 1 /\ total' = total /\ taken' = taken /\ now' - total'.at = passed + 1
      BY <1>0, <1>1, <2>1 DEF Tick, Buckets
    <2>3. (passed + 1) * Cap = passed * Cap + Cap /\ passed * Cap \in Nat
      BY <2>1, Successor, ProductIsNat
    <2>4. r = Least(total.level + passed * Cap, Cap * Period)
      BY DEF Refilled
    <2>5. rr = Least(total.level + (passed * Cap + Cap), Cap * Period)
      BY <2>2, <2>3 DEF Refilled
    <2> DEFINE x == passed * Cap
               full == Cap * Period
    <2>6. x \in Nat /\ full \in Nat
      BY <1>0, <2>3
    <2>7. r = Least(total.level + x, full) /\ rr = Least(total.level + (x + Cap), full)
      BY <2>4, <2>5
    <2>8. rr \in Nat /\ rr <= r + Cap
      <3> HIDE DEF x, full, r, rr
      <3> QED
        BY <2>1, <2>6, <2>7 DEF Least
    <2> QED
      BY <2>2, <2>8
  <1>2. ASSUME NEW c \in Callers, TakeTotal(c)
        PROVE  /\ now' = now /\ taken' = Append(taken, now)
               /\ r >= Period /\ rr = r - Period
    <2>1. now' = now /\ taken' = Append(taken, now) /\ r >= Period
      BY <1>2 DEF TakeTotal, HasToken
    <2>2. total' = [level |-> r - Period, at |-> now]
      BY <1>2 DEF TakeTotal, Less
    <2>3. r - Period \in 0..(Cap * Period)
      <3> DEFINE full == Cap * Period
      <3>1. r \in 0..full /\ full \in Nat
        BY <1>0
      <3>2. r - Period \in 0..full
        <4> HIDE DEF full, r
        <4> QED
          BY <3>1, <2>1
      <3> QED
        BY <3>2
    <2>4. rr = Least(total'.level + (now' - total'.at) * Cap, Cap * Period)
      BY DEF Refilled
    <2> HIDE DEF r, rr
    <2> QED
      BY <1>0, <2>1, <2>2, <2>3, <2>4, RefilledAfter
  <1>3. ASSUME NEW c \in Callers, MissTotal(c)
        PROVE  now' = now /\ taken' = taken /\ rr = r
    <2>1. now' = now /\ taken' = taken /\ total' = [level |-> r, at |-> now]
      BY <1>3 DEF MissTotal, Same
    <2>2. rr = Least(total'.level + (now' - total'.at) * Cap, Cap * Period)
      BY DEF Refilled
    <2> HIDE DEF r, rr
    <2> QED
      BY <1>0, <2>1, <2>2, RefilledAfter
  <1>4. ASSUME UNCHANGED <<now, total, taken>> PROVE now' = now /\ taken' = taken /\ rr = r
    BY <1>4 DEF Refilled
  <1>5. ASSUME NEW c \in Callers, (\E k \in Keys : Begin(c, k)) \/ TakeKey(c) \/ MissKey(c)
        PROVE  UNCHANGED <<now, total, taken>>
    BY <1>5 DEF Begin, TakeKey, MissKey
  <1>6. CASE UNCHANGED vars
    BY <1>6, <1>4 DEF vars
  <1> HIDE DEF r, rr
  <1> QED
    BY <1>1, <1>2, <1>3, <1>4, <1>5, <1>6 DEF Next, r, rr
\* One token more, or one instant more, leaves the budget of each token whole.
LEMMA BudgetStep ==
  ASSUME TypeOK, Budget, [Next]_vars
  PROVE  Budget'
  <1> USE RatesAssumption
  <1> DEFINE r == Refilled(total, Cap, Period)
             rr == Refilled(total, Cap, Period)'
             full == Cap * Period
  <1>0. /\ now \in Nat /\ full \in Nat /\ r \in 0..full
        /\ taken \in Seq(0..now) /\ Len(taken) \in Nat
    BY ProductIsNat, BucketKept DEF TypeOK
  <1>1. CASE now' = now + 1 /\ taken' = taken /\ rr \in Nat /\ rr <= r + Cap
    <2> SUFFICES ASSUME NEW i \in 1..Len(taken)
                 PROVE  (Len(taken) - i + 1) * Period + rr <= full + Cap * (now' - taken[i])
      BY <1>1 DEF Budget
    <2>1. (Len(taken) - i + 1) * Period + r <= full + Cap * (now - taken[i])
      BY DEF Budget
    <2>2. taken[i] \in 0..now
      BY <1>0
    <2>3. now' - taken[i] = (now - taken[i]) + 1 /\ now - taken[i] \in Nat
      <3>1. \A t \in 0..now : (now + 1) - t = (now - t) + 1 /\ now - t \in Nat
        BY <1>0
      <3>2. now' = now + 1
        BY <1>1
      <3> QED
        BY <2>2, <3>1, <3>2
    <2>4. Cap * (now' - taken[i]) = Cap * (now - taken[i]) + Cap
      BY <2>3, Successor
    <2> DEFINE x == Cap * (now - taken[i])
               y == (Len(taken) - i + 1) * Period
    <2>5. x \in Nat /\ y \in Nat
      <3>1. Len(taken) - i + 1 \in Nat
        BY <1>0
      <3>2. y \in Nat
        BY <3>1, ProductIsNat
      <3>3. x \in Nat
        BY <2>3, ProductIsNat
      <3> QED
        BY <3>2, <3>3
    <2>6. y + r <= full + x
      BY <2>1
    <2>7. y + rr <= full + (x + Cap)
      <3> HIDE DEF x, y, r, rr, full
      <3> QED
        BY <1>0, <1>1, <2>5, <2>6
    <2> QED
      BY <2>4, <2>7
  <1>2. CASE now' = now /\ taken' = Append(taken, now) /\ r >= Period /\ rr = r - Period
    <2> SUFFICES ASSUME NEW i \in 1..Len(taken')
                 PROVE  (Len(taken') - i + 1) * Period + rr <= full + Cap * (now - taken'[i])
      BY <1>2 DEF Budget
    <2>1. /\ Len(taken') = Len(taken) + 1
          /\ \A j \in 1..Len(taken) : taken'[j] = taken[j]
          /\ taken'[Len(taken) + 1] = now
      BY <1>0, <1>2, AppendProperties
    <2>2. CASE i \in 1..Len(taken)
      <3>1. (Len(taken) - i + 1) * Period + r <= full + Cap * (now - taken[i])
        BY <2>2 DEF Budget
      <3> DEFINE m == Len(taken) - i + 1
                 x == Cap * (now - taken[i])
      <3>2. Len(taken') - i + 1 = m + 1 /\ m \in Nat
        BY <1>0, <2>1, <2>2
      <3>3. (m + 1) * Period = m * Period + Period /\ m * Period \in Nat
        BY <3>2, Successor, ProductIsNat
      <3>4. taken[i] \in 0..now /\ taken'[i] = taken[i]
        BY <1>0, <2>1, <2>2
      <3>5. x \in Nat
        BY <1>0, <3>4, ProductIsNat
      <3> DEFINE y == m * Period
      <3>6. y + r <= full + x /\ y \in Nat
        BY <3>1, <3>3
      <3>7. (y + Period) + rr <= full + x
        <4> HIDE DEF x, y, m, r, rr, full
        <4> QED
          BY <1>0, <1>2, <3>5, <3>6
      <3> QED
        BY <3>2, <3>3, <3>4, <3>7
    <2>3. CASE i = Len(taken) + 1
      <3>1. (Len(taken') - i + 1) * Period = Period
        BY <1>0, <2>1, <2>3
      <3>2. Cap * (now - taken'[i]) = 0
        BY <1>0, <2>1, <2>3
      <3>3. Period + rr <= full
        <4> HIDE DEF r, rr, full
        <4> QED
          BY <1>0, <1>2
      <3> QED
        BY <1>0, <3>1, <3>2, <3>3
    <2> QED
      BY <1>0, <2>1, <2>2, <2>3
  <1>3. CASE now' = now /\ taken' = taken /\ rr = r
    BY <1>3 DEF Budget
  <1> HIDE DEF r, rr
  <1> QED
    BY <1>1, <1>2, <1>3, TotalStep DEF r, rr

\* A token is within the bound of every earlier one, and of itself.
LEMMA WindowStep ==
  ASSUME TypeOK, Budget, WindowBound, [Next]_vars
  PROVE  WindowBound'
  <1> USE RatesAssumption
  <1> DEFINE r == Refilled(total, Cap, Period)
             full == Cap * Period
  <1>0. /\ now \in Nat /\ full \in Nat /\ r \in 0..full
        /\ taken \in Seq(0..now) /\ Len(taken) \in Nat
    BY ProductIsNat, BucketKept DEF TypeOK
  <1>1. CASE taken' = taken
    BY <1>1 DEF WindowBound
  <1>2. CASE taken' = Append(taken, now) /\ r >= Period
    <2>1. /\ Len(taken') = Len(taken) + 1
          /\ \A j \in 1..Len(taken) : taken'[j] = taken[j]
          /\ taken'[Len(taken) + 1] = now
      BY <1>0, <1>2, AppendProperties
    <2> SUFFICES ASSUME NEW i \in 1..Len(taken'), NEW j \in i..Len(taken')
                 PROVE  (j - i + 1) * Period <= full + Cap * (taken'[j] - taken'[i])
      BY DEF WindowBound
    <2>2. CASE j # Len(taken) + 1
      <3>1. i \in 1..Len(taken) /\ j \in i..Len(taken)
        BY <1>0, <2>1, <2>2
      <3>2. j \in 1..Len(taken)
        BY <1>0, <3>1
      <3> QED
        BY <2>1, <3>1, <3>2 DEF WindowBound
    <2>3. CASE j = Len(taken) + 1 /\ i \in 1..Len(taken)
      <3> DEFINE m == Len(taken) - i + 1
                 x == Cap * (now - taken[i])
                 y == m * Period
      <3>1. y + r <= full + x
        BY <2>3 DEF Budget
      <3>2. j - i + 1 = m + 1 /\ m \in Nat
        BY <1>0, <2>3
      <3>3. (m + 1) * Period = y + Period /\ y \in Nat
        BY <3>2, Successor, ProductIsNat
      <3>4. taken[i] \in 0..now /\ taken'[i] = taken[i]
        BY <1>0, <2>1, <2>3
      <3>5. x \in Nat
        BY <1>0, <3>4, ProductIsNat
      <3>6. y + Period <= full + x
        <4> HIDE DEF x, y, m, r, full
        <4> QED
          BY <1>0, <1>2, <3>1, <3>3, <3>5
      <3>7. (j - i + 1) * Period = y + Period
        BY <3>2, <3>3
      <3>8. Cap * (taken'[j] - taken'[i]) = x
        BY <2>1, <2>3, <3>4
      <3> QED
        BY <3>6, <3>7, <3>8
    <2>4. CASE j = Len(taken) + 1 /\ i = Len(taken) + 1
      <3>1. (j - i + 1) * Period = Period /\ Cap * (taken'[j] - taken'[i]) = 0
        BY <1>0, <2>1, <2>4
      <3>2. Period <= full
        BY OneIsLeast
      <3>3. Period <= full + 0
        BY <1>0, <3>2
      <3> HIDE DEF full
      <3> QED
        BY <3>1, <3>3
    <2> QED
      BY <1>0, <2>1, <2>2, <2>3, <2>4
  <1> HIDE DEF r
  <1> QED
    BY <1>1, <1>2, TotalStep DEF r
-----------------------------------------------------------------------------
(* Sleeps *)

LEMMA SleptStep ==
  ASSUME TypeOK, SleptByStage, [Next]_vars
  PROVE  SleptByStage'
  <1> USE WaitsAssumption
  <1> DEFINE Calls == [stage : Stages, key : Keys, wake : Nat, slept : Nat]
  <1>0. now \in Nat /\ call \in [Callers -> {Idle} \cup Calls]
    BY DEF TypeOK
  <1>1. ASSUME NEW c \in Callers, NEW k \in Keys, Begin(c, k) PROVE SleptByStage'
    <2>1. CoolingLeft(k) <= MaxWait
      BY <1>1 DEF Begin, Waits
    <2>2. call' = [call EXCEPT ![c] = Call("total", k, now + CoolingLeft(k), CoolingLeft(k))]
      BY <1>1 DEF Begin
    <2> QED
      BY <1>0, <2>1, <2>2 DEF SleptByStage, Call
  <1>2. ASSUME NEW c \in Callers, TakeTotal(c) PROVE SleptByStage'
    <2>1. call[c] \in Calls /\ call[c].slept <= 2 * MaxWait
      BY <1>0, <1>2 DEF TakeTotal, At, SleptByStage, Idle, Call
    <2> QED
      BY <1>0, <1>2, <2>1 DEF TakeTotal, Proceed, SleptByStage
  <1>3. ASSUME NEW c \in Callers, MissTotal(c) PROVE SleptByStage'
    <2> DEFINE d == Hint(total, Cap, Period)
    <2>1. CASE Return(c)
      BY <1>0, <2>1 DEF Return, SleptByStage, Idle, Call
    <2>2. CASE call[c].stage = "total" /\ Waits(d) /\ Sleep(c, d, "total_again")
      <3>1. call[c] \in Calls /\ call[c].slept <= MaxWait /\ d <= MaxWait
        BY <1>0, <2>2 DEF Waits, SleptByStage, Idle, Call
      <3>2. d \in Nat
        BY <1>3, RatesAssumption, BucketKept DEF MissTotal, TypeOK
      <3>3. call[c].slept + d <= 2 * MaxWait
        <4> HIDE DEF d
        <4> QED
          BY <3>1, <3>2
      <3> HIDE DEF d
      <3> QED
        BY <1>0, <2>2, <3>1, <3>3 DEF Sleep, SleptByStage
    <2> QED
      BY <1>3, <2>1, <2>2 DEF MissTotal
  <1>4. ASSUME NEW c \in Callers, TakeKey(c) PROVE SleptByStage'
    BY <1>0, <1>4 DEF TakeKey, Return, SleptByStage, Idle, Call
  <1>5. ASSUME NEW c \in Callers, MissKey(c) PROVE SleptByStage'
    <2> DEFINE d == Hint(perKey[call[c].key], Burst, BurstPeriod)
    <2>1. CASE Return(c)
      BY <1>0, <2>1 DEF Return, SleptByStage, Idle, Call
    <2>2. CASE call[c].stage = "key" /\ Waits(d) /\ Sleep(c, d, "key_again")
      <3>1. call[c] \in Calls /\ call[c].slept <= 2 * MaxWait /\ d <= MaxWait
        BY <1>0, <2>2 DEF Waits, SleptByStage, Idle, Call
      <3>2. perKey[call[c].key] \in Buckets(Burst, BurstPeriod)
        BY <3>1 DEF TypeOK
      <3>3. d \in Nat
        BY <1>0, <1>5, <3>2, RatesAssumption, BucketKept DEF MissKey
      <3>4. call[c].slept + d <= 3 * MaxWait
        <4> HIDE DEF d
        <4> QED
          BY <3>1, <3>3
      <3> HIDE DEF d
      <3> QED
        BY <1>0, <2>2, <3>1, <3>4 DEF Sleep, SleptByStage
    <2> QED
      BY <1>5, <2>1, <2>2 DEF MissKey
  <1>6. CASE Tick \/ UNCHANGED vars
    BY <1>6 DEF Tick, vars, SleptByStage
  <1> QED
    BY <1>1, <1>2, <1>3, <1>4, <1>5, <1>6 DEF Next

-----------------------------------------------------------------------------
(* Theorems *)

LEMMA InvInit == Init => IInv
  <1> SUFFICES ASSUME Init PROVE IInv
    OBVIOUS
  <1>1. TypeOK
    BY TypeInit
  <1>2. Len(taken) = 0
    BY DEF Init
  <1>3. SleptByStage
    BY WaitsAssumption DEF Init, SleptByStage, Idle, Call
  <1> QED
    BY <1>1, <1>2, <1>3 DEF IInv, Budget, WindowBound

LEMMA InvStep == IInv /\ [Next]_vars => IInv'
  BY TypeStep, BudgetStep, WindowStep, SleptStep DEF IInv

THEOREM Invariant == Spec => []IInv
  BY InvInit, InvStep, PTL DEF Spec

\* The variables of acquire_historical have their types, and no bucket holds a
\* negative number of tokens or more than its capacity.
THEOREM TypeCorrect == Spec => []TypeOK
  BY Invariant, PTL DEF IInv

\* For any number of callers and any rates, the requests let through in any
\* stretch of time are at most a full bucket and what that time refills
\* (TokenBucket::try_acquire).
THEOREM BucketBoundsRequests == Spec => []WindowBound
  BY Invariant, PTL DEF IInv

\* A call never sleeps more than three times max_queue_wait
\* (acquire_historical).
THEOREM SleepsAreBounded == Spec => []SleepBounded
  <1>1. IInv => SleepBounded
    <2> SUFFICES ASSUME IInv, NEW c \in Callers PROVE call[c].slept <= 3 * MaxWait
      BY DEF SleepBounded
    <2>1. call[c] \in {Idle} \cup [stage : Stages, key : Keys, wake : Nat, slept : Nat]
      BY DEF IInv, TypeOK
    <2> QED
      BY <2>1, WaitsAssumption DEF IInv, SleptByStage, Idle, Call, Stages
  <1> QED
    BY <1>1, Invariant, PTL
=============================================================================
