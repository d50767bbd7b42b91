----------------------------- MODULE GatewayProofs -----------------------------
(***************************************************************************)
(* Proofs about the IB gateway simulator: its pacing of historical requests*)
(* implements the rules, its engine keeps the tables of sessions, of       *)
(* subscriptions, of lines and of feeds in step, and its brackets keep the *)
(* order in which their orders may execute.                                *)
(***************************************************************************)
EXTENDS Gateway, FiniteSetTheorems, NaturalsInduction, SequenceTheorems, TLAPS

-----------------------------------------------------------------------------
(* Costs, counted unit by unit *)

Units(c, S) == UNION {{i} \X (1 .. c[i]) : i \in S}
CostsIn(c, S) == \A i \in S : c[i] \in {1, 2}

LEMMA UnitIn ==
  ASSUME NEW c, NEW S
  PROVE  \A p : p \in Units(c, S) <=> \E i \in S : \E u \in 1 .. c[i] : p = <<i, u>>
  <1>1. ASSUME NEW p \in Units(c, S) PROVE \E i \in S : \E u \in 1 .. c[i] : p = <<i, u>>
    <2>1. PICK i \in S : p \in {i} \X (1 .. c[i])
      BY DEF Units
    <2> QED
      BY <2>1
  <1>2. ASSUME NEW i \in S, NEW u \in 1 .. c[i] PROVE <<i, u>> \in Units(c, S)
    <2>1. <<i, u>> \in {i} \X (1 .. c[i])
      OBVIOUS
    <2> QED
      BY <2>1 DEF Units
  <1> QED
    BY <1>1, <1>2

LEMMA UnitsFinite ==
  ASSUME NEW c, NEW S, IsFiniteSet(S), CostsIn(c, S)
  PROVE  IsFiniteSet(Units(c, S)) /\ Cardinality(Units(c, S)) \in Nat
  <1>1. 1 \in Int /\ 2 \in Int
    OBVIOUS
  <1>2. IsFiniteSet(1 .. 2)
    BY <1>1, FS_Interval, Zenon
  <1>3. IsFiniteSet(S \X (1 .. 2))
    BY <1>2, FS_Product, Zenon
  <1>4. Units(c, S) \subseteq S \X (1 .. 2)
    BY DEF Units, CostsIn
  <1>5. IsFiniteSet(Units(c, S))
    BY <1>3, <1>4, FS_Subset, Zenon
  <1> QED
    BY <1>5, FS_CardinalityType, Zenon

\* What disjoint sets cost together.
LEMMA UnitsSplit ==
  ASSUME NEW c, NEW S, NEW T, IsFiniteSet(S), IsFiniteSet(T), S \cap T = {},
         CostsIn(c, S \cup T)
  PROVE  Cardinality(Units(c, S \cup T)) = Cardinality(Units(c, S)) + Cardinality(Units(c, T))
  <1>1. CostsIn(c, S) /\ CostsIn(c, T)
    BY DEF CostsIn
  <1>2. Units(c, S \cup T) = Units(c, S) \cup Units(c, T)
    BY DEF Units
  <1>3. Units(c, S) \cap Units(c, T) = {}
    BY DEF Units
  <1>4. IsFiniteSet(Units(c, S)) /\ IsFiniteSet(Units(c, T))
    BY <1>1, UnitsFinite
  <1>5. /\ Cardinality(Units(c, S) \cup Units(c, T)) =
             Cardinality(Units(c, S)) + Cardinality(Units(c, T)) - Cardinality({})
        /\ Cardinality({}) = 0
        /\ Cardinality(Units(c, S)) \in Nat /\ Cardinality(Units(c, T)) \in Nat
    BY <1>1, <1>3, <1>4, FS_Union, FS_EmptySet, FS_CardinalityType
  <1>6. \A x : \A m, n \in Nat : x = m + n - 0 => x = m + n
    OBVIOUS
  <1>7. Cardinality(Units(c, S) \cup Units(c, T)) = Cardinality(Units(c, S)) + Cardinality(Units(c, T))
    BY <1>5, <1>6, Zenon
  <1> QED
    BY <1>2, <1>7, Zenon

LEMMA UnitsOne ==
  ASSUME NEW c, NEW i, c[i] \in {1, 2}
  PROVE  Cardinality(Units(c, {i})) = c[i]
  <1>1. Units(c, {i}) = {i} \X (1 .. c[i])
    BY DEF Units
  <1>2. IsFiniteSet({i}) /\ Cardinality({i}) = 1
    BY FS_Singleton, Zenon
  <1>3. IsFiniteSet(1 .. c[i]) /\ Cardinality(1 .. c[i]) = c[i]
    BY FS_Interval
  <1>4. Cardinality({i} \X (1 .. c[i])) = Cardinality({i}) * Cardinality(1 .. c[i])
    BY <1>2, <1>3, FS_Product, Zenon
  <1>5. 1 * c[i] = c[i]
    OBVIOUS
  <1> QED
    BY <1>1, <1>2, <1>3, <1>4, <1>5, Zenon

\* Entries cost the same under other numbers.
LEMMA UnitsShift ==
  ASSUME NEW m \in Int, NEW n \in Int, NEW k \in Int
  PROVE  \A c, e : CostsIn(e, m .. n) /\ (\A i \in m .. n : c[i + k] = e[i])
           => Cardinality(Units(c, m + k .. n + k)) = Cardinality(Units(e, m .. n))
  <1> SUFFICES ASSUME NEW c, NEW e, CostsIn(e, m .. n), \A i \in m .. n : c[i + k] = e[i]
               PROVE  Cardinality(Units(c, m + k .. n + k)) = Cardinality(Units(e, m .. n))
    OBVIOUS
  <1> DEFINE f == [p \in Units(e, m .. n) |-> <<p[1] + k, p[2]>>]
             S == Units(e, m .. n)
             T == Units(c, m + k .. n + k)
  <1>1. \A p : p \in S <=> \E i \in m .. n : \E u \in 1 .. e[i] : p = <<i, u>>
    BY UnitIn
  <1>2. \A p : p \in T <=> \E i \in m + k .. n + k : \E u \in 1 .. c[i] : p = <<i, u>>
    BY UnitIn
  <1> HIDE DEF S, T
  <1>3. ASSUME NEW p \in S PROVE f[p] \in T
    <2>1a. PICK i \in m .. n : \E u \in 1 .. e[i] : p = <<i, u>>
      BY <1>1
    <2>1. PICK u \in 1 .. e[i] : p = <<i, u>>
      BY <2>1a
    <2>2. i + k \in m + k .. n + k /\ u \in 1 .. c[i + k]
      BY <2>1
    <2>3. f[p] = <<i + k, u>>
      BY <2>1 DEF S
    <2> QED
      BY <1>2, <2>2, <2>3
  <1>4. ASSUME NEW p \in S, NEW q \in S, f[p] = f[q] PROVE p = q
    <2>1a. PICK i \in m .. n : \E u \in 1 .. e[i] : p = <<i, u>>
      BY <1>1
    <2>1. PICK u \in 1 .. e[i] : p = <<i, u>>
      BY <2>1a
    <2>2a. PICK j \in m .. n : \E v \in 1 .. e[j] : q = <<j, v>>
      BY <1>1
    <2>2. PICK v \in 1 .. e[j] : q = <<j, v>>
      BY <2>2a
    <2>3. f[p] = <<i + k, u>> /\ f[q] = <<j + k, v>>
      BY <2>1, <2>2 DEF S
    <2>4. i + k = j + k /\ u = v
      BY <1>4, <2>3
    <2>5. i = j
      BY <2>4
    <2> QED
      BY <2>1, <2>2, <2>4, <2>5
  <1>5. ASSUME NEW q \in T PROVE \E p \in S : f[p] = q
    <2>1a. PICK j \in m + k .. n + k : \E u \in 1 .. c[j] : q = <<j, u>>
      BY <1>2
    <2>1. PICK u \in 1 .. c[j] : q = <<j, u>>
      BY <2>1a
    <2>2. j - k \in m .. n /\ (j - k) + k = j
      BY <2>1
    <2>3. u \in 1 .. e[j - k]
      BY <2>1, <2>2
    <2>4. PICK p : p = <<j - k, u>>
      OBVIOUS
    <2>5. p \in S
      BY <1>1, <2>2, <2>3, <2>4
    <2>6. f[p] = <<(j - k) + k, u>>
      BY <2>4, <2>5 DEF S
    <2> QED
      BY <2>1, <2>2, <2>5, <2>6
  <1>6. f \in Bijection(S, T)
    <2>1. f \in [S -> T]
      BY <1>3 DEF S
    <2> HIDE DEF f
    <2> QED
      BY <2>1, <1>4, <1>5, Zenon DEF Bijection, Injection, Surjection, IsInjective
  <1>7. IsFiniteSet(S)
    BY FS_Interval, UnitsFinite DEF S
  <1>8. Cardinality(T) = Cardinality(S)
    BY <1>6, <1>7, FS_Bijection, Zenon DEF ExistsBijection
  <1> QED
    BY <1>8 DEF S, T

\* What goes from the front of a sequence is as many as it is.
LEMMA Front ==
  ASSUME NEW n \in Nat, NEW S, S \subseteq 1 .. n,
         \A i \in S : \A j \in 1 .. i : j \in S
  PROVE  Cardinality(S) \in 0 .. n /\ S = 1 .. Cardinality(S)
  <1> DEFINE T == {m \in Nat : m + 1 \notin S}
  <1>1. n \in T /\ T \subseteq Nat
    OBVIOUS
  <1>2. PICK x \in T : \A y \in T : <<y, x>> \notin OpToRel(<, Nat)
    <2> HIDE DEF T
    <2> QED
      BY <1>1, NatLessThanWellFounded, WFMin
  <1>3. \A y \in T : ~(y < x)
    <2> HIDE DEF T
    <2> QED
      BY <1>1, <1>2 DEF OpToRel
  <1>4. ASSUME NEW i \in 1 .. x PROVE i \in S
    <2>1. i - 1 \in Nat /\ i - 1 < x /\ (i - 1) + 1 = i
      OBVIOUS
    <2> QED
      BY <1>3, <2>1
  <1>5. ASSUME NEW i \in S PROVE i \in 1 .. x
    <2>1. i \in 1 .. n /\ (i > x => x + 1 \in 1 .. i)
      OBVIOUS
    <2> QED
      BY <2>1
  <1>6. S = 1 .. x /\ x \in Nat
    BY <1>4, <1>5
  <1>7. Cardinality(S) = x
    BY <1>6, FS_Interval
  <1>8. x <= n
    BY <1>1, <1>3
  <1> QED
    BY <1>6, <1>7, <1>8

-----------------------------------------------------------------------------
(* What the guard keeps, and what was admitted *)

Keys == {KeyOf(r) : r \in Requests}
Entry == [at : Nat, key : Keys, cost : {1, 2}]
Past == [at : Nat, req : Requests]

\* What was admitted by time t, in its order.
Admitted(t, past) ==
  /\ past \in Seq(Past)
  /\ \A i \in 1 .. Len(past) : past[i].at <= t /\ \A j \in 1 .. i : past[j].at <= past[i].at

Costs(w) == [i \in DOMAIN w |-> w[i].cost]
CopyOf(e, p) == e.at = p.at /\ e.key = KeyOf(p.req) /\ e.cost = CostOf(p.req)

\* The window w holds the last of what was admitted, with its cost, and what it
\* holds no more is older than the window.
WindowOK(t, w, cost, past) ==
  /\ w \in Seq(Entry) /\ Len(w) <= Len(past)
  /\ \A i \in 1 .. Len(w) : CopyOf(w[i], past[i + (Len(past) - Len(w))])
  /\ \A i \in 1 .. Len(past) - Len(w) : t - past[i].at > Window
  /\ cost = Cardinality(Units(Costs(w), 1 .. Len(w)))

\* The cooldowns are the last times of the keys admitted within a cooldown.
CoolOK(t, cool, past) ==
  /\ \A i \in 1 .. Len(past) :
       \/ KeyOf(past[i].req) \in DOMAIN cool /\ past[i].at <= cool[KeyOf(past[i].req)]
       \/ t - past[i].at > Cooldown
  /\ \A k \in DOMAIN cool : \E i \in 1 .. Len(past) :
       KeyOf(past[i].req) = k /\ past[i].at = cool[k]

\* What counts no more is kept until the next check.
NothingOld(t, w, cool) ==
  /\ \A i \in 1 .. Len(w) : t - w[i].at <= Window
  /\ \A k \in DOMAIN cool : t - cool[k] <= Cooldown

PacingInv ==
  /\ now \in 0 .. MaxTime
  /\ windowCost <= Limit
  /\ verdict \in {"none", "admitted", "window", "burst", "cooldown"}
  /\ verdict # "none" => NothingOld(now, window, cooldown)
  /\ Admitted(now, admitted)
  /\ WindowOK(now, window, windowCost, admitted)
  /\ CoolOK(now, cooldown, admitted)

LEMMA CostsOf ==
  ASSUME NEW w \in Seq(Entry)
  PROVE  /\ \A i \in 1 .. Len(w) : Costs(w)[i] = w[i].cost /\ Costs(w)[i] \in {1, 2}
         /\ \A S \in SUBSET (1 .. Len(w)) : CostsIn(Costs(w), S)
  <1>1. ASSUME NEW i \in 1 .. Len(w) PROVE Costs(w)[i] = w[i].cost /\ Costs(w)[i] \in {1, 2}
    <2>1. w[i] \in Entry /\ DOMAIN w = 1 .. Len(w)
      OBVIOUS
    <2> QED
      BY <2>1 DEF Costs, Entry
  <1> QED
    BY <1>1 DEF CostsIn

\* The guard drops the oldest entries, those older than the window.
LEMMA DroppedIs ==
  ASSUME PacingInv
  PROVE  \E d \in 0 .. Len(window) :
           /\ Dropped = 1 .. d /\ Cardinality(Dropped) = d
           /\ \A i \in 1 .. d : now - window[i].at > Window
           /\ \A i \in d + 1 .. Len(window) : now - window[i].at <= Window
  <1>1. window \in Seq(Entry) /\ Len(window) \in Nat /\ DOMAIN window = 1 .. Len(window)
    BY DEF PacingInv, WindowOK
  <1>2. \A i \in 1 .. Len(window) : window[i].at \in Nat
    <2>1. \A i \in 1 .. Len(window) : window[i] \in Entry
      BY <1>1
    <2> QED
      BY <2>1 DEF Entry
  <1>3. now \in Nat /\ Window \in Nat
    BY PacingAssumption DEF PacingInv, Assumptions
  <1>4. \A i \in 1 .. Len(window) : \A j \in 1 .. i : window[j].at <= window[i].at
    <2>1. ASSUME NEW i \in 1 .. Len(window), NEW j \in 1 .. i PROVE window[j].at <= window[i].at
      <3>1. PICK s : s = Len(admitted) - Len(window)
        OBVIOUS
      <3>2. s \in Nat /\ Len(admitted) \in Nat /\ s + Len(window) = Len(admitted)
        BY <1>1, <3>1 DEF PacingInv, WindowOK, Admitted
      <3>3. i + s \in 1 .. Len(admitted) /\ j + s \in 1 .. i + s /\ j \in 1 .. Len(window)
        BY <1>1, <3>2
      <3>4. window[i].at = admitted[i + s].at /\ window[j].at = admitted[j + s].at
        BY <3>1, <3>3 DEF PacingInv, WindowOK, CopyOf
      <3> QED
        BY <3>3, <3>4 DEF PacingInv, Admitted
    <2> QED
      BY <2>1
  <1>5. \A i \in 1 .. Len(window) : i \in Dropped <=> now - window[i].at > Window
    <2>1. ASSUME NEW i \in 1 .. Len(window)
          PROVE  i \in Dropped <=> \A j \in 1 .. i : ~(now - window[j].at <= Window)
      BY <1>1 DEF Dropped, Kept
    <2>2. ASSUME NEW i \in 1 .. Len(window), NEW j \in 1 .. i, now - window[i].at > Window
          PROVE  now - window[j].at > Window
      <3>1. j \in 1 .. Len(window) /\ window[j].at <= window[i].at
        BY <1>1, <1>4
      <3> QED
        BY <1>2, <1>3, <2>2, <3>1
    <2>3. ASSUME NEW i \in 1 .. Len(window) PROVE i \in 1 .. i
      OBVIOUS
    <2>4. ASSUME NEW i \in 1 .. Len(window), NEW j \in 1 .. i PROVE
            ~(now - window[j].at <= Window) <=> now - window[j].at > Window
      <3>1. j \in 1 .. Len(window)
        BY <1>1
      <3> QED
        BY <1>2, <1>3, <3>1
    <2> QED
      BY <2>1, <2>2, <2>3, <2>4
  <1>6. Dropped \subseteq 1 .. Len(window)
    BY <1>1 DEF Dropped
  <1>7. \A i \in Dropped : \A j \in 1 .. i : j \in Dropped
    BY <1>1, <1>6 DEF Dropped, Kept
  <1>8. Cardinality(Dropped) \in 0 .. Len(window) /\ Dropped = 1 .. Cardinality(Dropped)
    BY <1>1, <1>6, <1>7, Front
  <1>9. PICK d \in 0 .. Len(window) : d = Cardinality(Dropped) /\ Dropped = 1 .. d
    BY <1>8
  <1>10. \A i \in 1 .. d : now - window[i].at > Window
    BY <1>5, <1>6, <1>9
  <1>11. \A i \in d + 1 .. Len(window) : now - window[i].at <= Window
    <2>1. ASSUME NEW i \in d + 1 .. Len(window) PROVE now - window[i].at <= Window
      <3>0. i \in 1 .. Len(window) /\ i \notin 1 .. d
        BY <1>1
      <3>1. i \in 1 .. Len(window) /\ i \notin Dropped
        BY <1>9, <3>0
      <3> QED
        BY <1>2, <1>3, <1>5, <3>1
    <2> QED
      BY <2>1
  <1> QED
    BY <1>9, <1>10, <1>11

\* The window after the pruning holds what is no older than the window, and its
\* cost is what the guard computes.
LEMMA PrunedOK ==
  ASSUME PacingInv
  PROVE  /\ WindowOK(now, Pruned, CostLeft, admitted)
         /\ \A i \in 1 .. Len(Pruned) : now - Pruned[i].at <= Window
         /\ CostLeft \in Nat /\ windowCost \in Nat /\ CostLeft <= windowCost
  <1> DEFINE N == Len(window)
             s == Len(admitted) - Len(window)
  <1>1. /\ window \in Seq(Entry) /\ N \in Nat /\ DOMAIN window = 1 .. N
        /\ s \in Nat /\ Len(admitted) \in Nat /\ s + N = Len(admitted)
    BY DEF PacingInv, WindowOK, Admitted
  <1>2. PICK d \in 0 .. N :
          /\ Dropped = 1 .. d /\ Cardinality(Dropped) = d
          /\ \A i \in 1 .. d : now - window[i].at > Window
          /\ \A i \in d + 1 .. N : now - window[i].at <= Window
    BY DroppedIs
  <1>3. /\ Pruned \in Seq(Entry) /\ Len(Pruned) = N - d /\ N - d \in Nat
        /\ \A i \in 1 .. N - d : Pruned[i] = window[i + d]
    <2>1. Pruned = SubSeq(window, d + 1, N)
      BY <1>2 DEF Pruned
    <2>2. \A i \in d + 1 .. N : window[i] \in Entry
      BY <1>1
    <2>3. /\ SubSeq(window, d + 1, N) \in Seq(Entry)
          /\ Len(SubSeq(window, d + 1, N)) = N - d
          /\ \A i \in 1 .. N - d : SubSeq(window, d + 1, N)[i] = window[i + d]
      <3>1. d + 1 \in Int /\ N \in Int
        BY <1>1
      <3>2. /\ SubSeq(window, d + 1, N) \in Seq(Entry)
            /\ Len(SubSeq(window, d + 1, N)) = IF d + 1 <= N THEN N - (d + 1) + 1 ELSE 0
            /\ \A i \in 1 .. N - (d + 1) + 1 :
                 SubSeq(window, d + 1, N)[i] = window[(d + 1) + i - 1]
        BY <2>2, <3>1, SubSeqProperties
      <3>3. (IF d + 1 <= N THEN N - (d + 1) + 1 ELSE 0) = N - d /\ N - (d + 1) + 1 = N - d
        <4>1. N \in Nat /\ d \in 0 .. N
          BY <1>1
        <4> HIDE DEF N
        <4> QED
          BY <4>1
      <3>4. \A i \in 1 .. N - d : (d + 1) + i - 1 = i + d
        BY <1>1
      <3> QED
        BY <3>2, <3>3, <3>4
    <2> QED
      BY <2>1, <2>3
  <1>4. /\ \A i \in 1 .. N : CopyOf(window[i], admitted[i + s])
        /\ \A i \in 1 .. s : now - admitted[i].at > Window
        /\ windowCost = Cardinality(Units(Costs(window), 1 .. N))
    BY DEF PacingInv, WindowOK
  <1> HIDE DEF N, s
  <1>5. \A i \in 1 .. Len(Pruned) :
          /\ CopyOf(Pruned[i], admitted[i + (Len(admitted) - Len(Pruned))])
          /\ now - Pruned[i].at <= Window
    <2>1. ASSUME NEW i \in 1 .. N - d
          PROVE  CopyOf(Pruned[i], admitted[i + (s + d)]) /\ now - Pruned[i].at <= Window
      <3>1. i + d \in 1 .. N /\ i + d \in d + 1 .. N /\ (i + d) + s = i + (s + d)
        BY <1>1
      <3> QED
        BY <1>2, <1>3, <1>4, <3>1
    <2>2. Len(admitted) - Len(Pruned) = s + d
      BY <1>1, <1>3
    <2> QED
      BY <1>3, <2>1, <2>2
  <1>6. \A i \in 1 .. Len(admitted) - Len(Pruned) : now - admitted[i].at > Window
    <2>1. ASSUME NEW i \in 1 .. s + d PROVE now - admitted[i].at > Window
      <3>1. CASE i \in 1 .. s
        BY <1>4, <3>1
      <3>2. CASE i \notin 1 .. s
        <4>1. i - s \in 1 .. d /\ i - s \in 1 .. N /\ (i - s) + s = i
          BY <1>1, <3>2
        <4>2. window[i - s].at = admitted[i].at
          BY <1>4, <4>1 DEF CopyOf
        <4> QED
          BY <1>2, <4>1, <4>2
      <3> QED
        BY <3>1, <3>2
    <2>2. Len(admitted) - Len(Pruned) = s + d
      BY <1>1, <1>3
    <2> QED
      BY <2>1, <2>2
  <1>7. /\ CostLeft = Cardinality(Units(Costs(Pruned), 1 .. Len(Pruned)))
        /\ CostLeft \in Nat /\ windowCost \in Nat /\ CostLeft <= windowCost
    <2>1. CostDropped = Cardinality(Units(Costs(window), 1 .. d))
      <3>1. \A i \in 1 .. d : Costs(window)[i] = window[i].cost
        BY <1>1, CostsOf
      <3>2. Units(Costs(window), 1 .. d) = UNION {{i} \X (1 .. window[i].cost) : i \in 1 .. d}
        BY <3>1 DEF Units
      <3> QED
        BY <1>2, <3>2, Zenon DEF CostDropped, CostOfEntries
    <2>2. IsFiniteSet(1 .. d) /\ IsFiniteSet(d + 1 .. N)
      <3>1. 1 \in Int /\ N \in Int /\ d \in Int /\ d + 1 \in Int
        BY <1>1
      <3> QED
        BY <3>1, FS_Interval, Zenon
    <2>3. (1 .. d) \cap (d + 1 .. N) = {} /\ (1 .. d) \cup (d + 1 .. N) = 1 .. N
      BY <1>1
    <2>4. /\ CostsIn(Costs(window), 1 .. N) /\ CostsIn(Costs(window), 1 .. d)
          /\ CostsIn(Costs(window), d + 1 .. N)
      BY <1>1, <2>3, CostsOf DEF N
    <2>5. windowCost = Cardinality(Units(Costs(window), 1 .. d))
                         + Cardinality(Units(Costs(window), d + 1 .. N))
      <3>1. CostsIn(Costs(window), (1 .. d) \cup (d + 1 .. N))
        BY <2>3, <2>4
      <3>2. Cardinality(Units(Costs(window), (1 .. d) \cup (d + 1 .. N)))
              = Cardinality(Units(Costs(window), 1 .. d))
                  + Cardinality(Units(Costs(window), d + 1 .. N))
        BY <2>2, <2>3, <3>1, UnitsSplit, Zenon
      <3> QED
        BY <1>4, <2>3, <3>2
    <2>6. /\ Cardinality(Units(Costs(window), 1 .. d)) \in Nat
          /\ Cardinality(Units(Costs(window), d + 1 .. N)) \in Nat
      BY <2>2, <2>4, UnitsFinite, Zenon
    <2>7. CostLeft = Cardinality(Units(Costs(window), d + 1 .. N))
      BY <2>1, <2>5, <2>6 DEF CostLeft
    <2>8. CostLeft \in Nat /\ windowCost \in Nat /\ CostLeft <= windowCost
      BY <2>5, <2>6, <2>7
    <2>9. Cardinality(Units(Costs(window), 1 + d .. (N - d) + d))
            = Cardinality(Units(Costs(Pruned), 1 .. N - d))
      <3>1. CostsIn(Costs(Pruned), 1 .. N - d)
        BY <1>3, CostsOf
      <3>2. ASSUME NEW i \in 1 .. N - d PROVE Costs(window)[i + d] = Costs(Pruned)[i]
        <4>1. i + d \in 1 .. N
          BY <1>1
        <4>2. Costs(window)[i + d] = window[i + d].cost /\ Costs(Pruned)[i] = Pruned[i].cost
          BY <1>1, <1>3, <4>1, CostsOf DEF N
        <4> QED
          BY <1>3, <4>2
      <3>3. 1 \in Int /\ N - d \in Int /\ d \in Int
        BY <1>1
      <3>4. \A c, e : CostsIn(e, 1 .. N - d) /\ (\A i \in 1 .. N - d : c[i + d] = e[i])
                => Cardinality(Units(c, 1 + d .. (N - d) + d)) = Cardinality(Units(e, 1 .. N - d))
        BY <3>3, UnitsShift, Zenon
      <3> QED
        BY <3>1, <3>2, <3>4
    <2>10. 1 + d = d + 1 /\ (N - d) + d = N
      BY <1>1
    <2> QED
      BY <1>3, <2>7, <2>8, <2>9, <2>10
  <1>8. Len(Pruned) <= Len(admitted)
    BY <1>1, <1>3
  <1> QED
    BY <1>3, <1>5, <1>6, <1>7, <1>8 DEF WindowOK

\* A request more is in the window and among what was admitted, with its cost.
LEMMA AppendedOK ==
  ASSUME NEW t \in Nat, NEW w, NEW cost, NEW past, NEW r \in Requests,
         Admitted(t, past), WindowOK(t, w, cost, past)
  PROVE  /\ Admitted(t, Append(past, [at |-> t, req |-> r]))
         /\ WindowOK(t, Append(w, [at |-> t, key |-> KeyOf(r), cost |-> CostOf(r)]),
                     cost + CostOf(r), Append(past, [at |-> t, req |-> r]))
  <1>1. PICK p : p = [at |-> t, req |-> r]
    OBVIOUS
  <1>2. PICK e : e = [at |-> t, key |-> KeyOf(r), cost |-> CostOf(r)]
    OBVIOUS
  <1>3. p \in Past /\ p.at = t /\ p.req = r
    BY <1>1 DEF Past
  <1>4. e \in Entry /\ e.at = t /\ e.key = KeyOf(r) /\ e.cost = CostOf(r) /\ CostOf(r) \in {1, 2}
    BY <1>2 DEF Entry, Keys, CostOf
  <1> DEFINE N == Len(w)
             M == Len(past)
             v == Append(w, e)
             after == Append(past, p)
  <1>5. past \in Seq(Past) /\ M \in Nat /\ w \in Seq(Entry) /\ N \in Nat /\ N <= M
    BY DEF Admitted, WindowOK
  <1>6. /\ after \in Seq(Past) /\ Len(after) = M + 1 /\ after[M + 1] = p
        /\ \A i \in 1 .. M : after[i] = past[i]
    BY <1>3, <1>5
  <1>7. /\ v \in Seq(Entry) /\ Len(v) = N + 1 /\ v[N + 1] = e
        /\ \A i \in 1 .. N : v[i] = w[i]
    BY <1>4, <1>5
  <1>8. /\ \A i \in 1 .. M : past[i].at <= t /\ \A j \in 1 .. i : past[j].at <= past[i].at
        /\ \A i \in 1 .. N : CopyOf(w[i], past[i + (M - N)])
        /\ \A i \in 1 .. M - N : t - past[i].at > Window
        /\ cost = Cardinality(Units(Costs(w), 1 .. N))
    BY DEF Admitted, WindowOK
  <1> HIDE DEF N, M, v, after
  <1>9. \A i \in 1 .. M + 1 : after[i].at <= t /\ \A j \in 1 .. i : after[j].at <= after[i].at
    <2>1. ASSUME NEW i \in 1 .. M + 1 PROVE after[i].at <= t
      BY <1>3, <1>5, <1>6, <1>8
    <2>2. ASSUME NEW i \in 1 .. M + 1, NEW j \in 1 .. i PROVE after[j].at <= after[i].at
      <3>1. CASE i \in 1 .. M
        <4>1. j \in 1 .. M
          BY <1>5, <3>1
        <4> QED
          BY <1>6, <1>8, <3>1, <4>1
      <3>2. CASE i = M + 1
        BY <1>3, <1>5, <1>6, <2>1, <3>2
      <3> QED
        BY <1>5, <3>1, <3>2
    <2> QED
      BY <2>1, <2>2
  <1>10. \A i \in 1 .. Len(v) : CopyOf(v[i], after[i + (Len(after) - Len(v))])
    <2>1. Len(after) - Len(v) = M - N
      BY <1>5, <1>6, <1>7
    <2>2. ASSUME NEW i \in 1 .. N PROVE CopyOf(v[i], after[i + (M - N)])
      <3>1. i + (M - N) \in 1 .. M
        BY <1>5
      <3> QED
        BY <1>6, <1>7, <1>8, <3>1
    <2>3. CopyOf(v[N + 1], after[(N + 1) + (M - N)])
      <3>1. (N + 1) + (M - N) = M + 1
        BY <1>5
      <3> QED
        BY <1>3, <1>4, <1>6, <1>7, <3>1 DEF CopyOf
    <2>4. \A i \in 1 .. N + 1 : i \in 1 .. N \/ i = N + 1
      BY <1>5
    <2> QED
      BY <1>7, <2>1, <2>2, <2>3, <2>4
  <1>11. \A i \in 1 .. Len(after) - Len(v) : t - after[i].at > Window
    <2>1. Len(after) - Len(v) = M - N /\ 1 .. M - N \subseteq 1 .. M
      BY <1>5, <1>6, <1>7
    <2> QED
      BY <1>6, <1>8, <2>1
  <1>12. cost + CostOf(r) = Cardinality(Units(Costs(v), 1 .. Len(v)))
    <2>1. CostsIn(Costs(v), 1 .. N + 1) /\ Costs(v)[N + 1] = CostOf(r)
      <3>1. N + 1 \in 1 .. Len(v)
        BY <1>5, <1>7
      <3> QED
        BY <1>4, <1>7, <3>1, CostsOf
    <2>2. Cardinality(Units(Costs(v), 1 .. N)) = cost
      <3>1. CostsIn(Costs(w), 1 .. N)
        BY <1>5, CostsOf DEF N
      <3>2. ASSUME NEW i \in 1 .. N PROVE Costs(v)[i + 0] = Costs(w)[i]
        <4>1. i \in 1 .. N + 1 /\ i + 0 = i
          BY <1>5
        <4>2. Costs(v)[i] = v[i].cost /\ Costs(w)[i] = w[i].cost
          BY <1>5, <1>7, <4>1, CostsOf DEF N
        <4> QED
          BY <1>7, <4>1, <4>2
      <3>3. 1 \in Int /\ N \in Int /\ 0 \in Int /\ 1 + 0 = 1 /\ N + 0 = N
        BY <1>5
      <3>4. \A c, f : CostsIn(f, 1 .. N) /\ (\A i \in 1 .. N : c[i + 0] = f[i])
                => Cardinality(Units(c, 1 + 0 .. N + 0)) = Cardinality(Units(f, 1 .. N))
        BY <3>3, UnitsShift, Zenon
      <3>5. Cardinality(Units(Costs(v), 1 + 0 .. N + 0)) = Cardinality(Units(Costs(w), 1 .. N))
        BY <3>1, <3>2, <3>4
      <3> QED
        BY <1>8, <3>3, <3>5
    <2>3. Cardinality(Units(Costs(v), {N + 1})) = CostOf(r)
      BY <1>4, <2>1, UnitsOne
    <2>4. IsFiniteSet(1 .. N) /\ IsFiniteSet({N + 1})
      <3>1. 1 \in Int /\ N \in Int
        BY <1>5
      <3> QED
        BY <3>1, FS_Interval, FS_Singleton, Zenon
    <2>5. (1 .. N) \cap {N + 1} = {} /\ (1 .. N) \cup {N + 1} = 1 .. N + 1
      BY <1>5
    <2>6. CostsIn(Costs(v), (1 .. N) \cup {N + 1})
      BY <2>1, <2>5
    <2>7. Cardinality(Units(Costs(v), (1 .. N) \cup {N + 1}))
            = Cardinality(Units(Costs(v), 1 .. N)) + Cardinality(Units(Costs(v), {N + 1}))
      BY <2>4, <2>5, <2>6, UnitsSplit, Zenon
    <2> QED
      BY <1>7, <2>2, <2>3, <2>5, <2>7
  <1>13. Admitted(t, after)
    BY <1>6, <1>9 DEF Admitted
  <1>14. WindowOK(t, v, cost + CostOf(r), after)
    <2>1. Len(v) <= Len(after)
      BY <1>5, <1>6, <1>7
    <2> QED
      BY <1>7, <1>10, <1>11, <1>12, <2>1 DEF WindowOK
  <1> QED
    BY <1>1, <1>2, <1>13, <1>14 DEF v, after

\* The keys that cool down after the pruning.
LEMMA CoolingOK ==
  ASSUME PacingInv
  PROVE  CoolOK(now, Cooling, admitted)
  <1>1. CoolOK(now, cooldown, admitted) /\ now \in Nat /\ Cooldown \in Nat
    BY PacingAssumption DEF PacingInv, Assumptions
  <1>2. \A i \in 1 .. Len(admitted) : admitted[i].at \in Nat
    <2>1. \A i \in 1 .. Len(admitted) : admitted[i] \in Past
      BY DEF PacingInv, Admitted
    <2> QED
      BY <2>1 DEF Past
  <1>3. /\ \A k : k \in DOMAIN Cooling <=> k \in DOMAIN cooldown /\ now - cooldown[k] <= Cooldown
        /\ \A k \in DOMAIN Cooling : Cooling[k] = cooldown[k]
    BY DEF Cooling, Restrict
  <1>4. ASSUME NEW i \in 1 .. Len(admitted)
        PROVE  \/ /\ KeyOf(admitted[i].req) \in DOMAIN Cooling
                  /\ admitted[i].at <= Cooling[KeyOf(admitted[i].req)]
               \/ now - admitted[i].at > Cooldown
    <2>1. PICK k : k = KeyOf(admitted[i].req)
      OBVIOUS
    <2>2. CASE k \in DOMAIN cooldown /\ admitted[i].at <= cooldown[k]
      <3>1. cooldown[k] \in Nat
        <4>1. PICK j \in 1 .. Len(admitted) : admitted[j].at = cooldown[k]
          BY <1>1, <2>2 DEF CoolOK
        <4> QED
          BY <1>2, <4>1
      <3>2. CASE now - cooldown[k] <= Cooldown
        BY <1>3, <2>1, <2>2, <3>2
      <3>3. CASE ~(now - cooldown[k] <= Cooldown)
        BY <1>1, <1>2, <2>2, <3>1, <3>3
      <3> QED
        BY <3>2, <3>3
    <2>3. CASE now - admitted[i].at > Cooldown
      BY <2>3
    <2> QED
      BY <1>1, <2>1, <2>2, <2>3 DEF CoolOK
  <1>5. \A k \in DOMAIN Cooling : \E i \in 1 .. Len(admitted) :
          KeyOf(admitted[i].req) = k /\ admitted[i].at = Cooling[k]
    BY <1>1, <1>3 DEF CoolOK
  <1> QED
    BY <1>4, <1>5 DEF CoolOK

\* A request more, and the time of its key.
LEMMA CooledOK ==
  ASSUME NEW t \in Nat, NEW cool, NEW past, NEW r \in Requests,
         Admitted(t, past), CoolOK(t, cool, past)
  PROVE  CoolOK(t, [k \in DOMAIN cool \cup {KeyOf(r)} |-> IF k = KeyOf(r) THEN t ELSE cool[k]],
                Append(past, [at |-> t, req |-> r]))
  <1>1. PICK p : p = [at |-> t, req |-> r]
    OBVIOUS
  <1>2. PICK key : key = KeyOf(r)
    OBVIOUS
  <1>3. PICK after : after = Append(past, p)
    OBVIOUS
  <1>4. PICK c : c = [k \in DOMAIN cool \cup {key} |-> IF k = key THEN t ELSE cool[k]]
    OBVIOUS
  <1>5. p \in Past /\ p.at = t /\ KeyOf(p.req) = key
    BY <1>1, <1>2 DEF Past
  <1>6. past \in Seq(Past) /\ Len(past) \in Nat
    BY DEF Admitted
  <1>7. /\ Len(after) = Len(past) + 1 /\ after[Len(past) + 1] = p
        /\ \A i \in 1 .. Len(past) : after[i] = past[i]
    BY <1>3, <1>5, <1>6
  <1>8. /\ \A k : k \in DOMAIN c <=> k \in DOMAIN cool \/ k = key
        /\ c[key] = t /\ \A k \in DOMAIN cool : k # key => c[k] = cool[k]
    BY <1>4
  <1>9. ASSUME NEW i \in 1 .. Len(after)
        PROVE  \/ KeyOf(after[i].req) \in DOMAIN c /\ after[i].at <= c[KeyOf(after[i].req)]
               \/ t - after[i].at > Cooldown
    <2>1. CASE i = Len(past) + 1
      BY <1>5, <1>7, <1>8, <2>1
    <2>2. CASE i \in 1 .. Len(past)
      <3>1. after[i] = past[i] /\ past[i].at <= t
        BY <1>7, <2>2 DEF Admitted
      <3>2. \/ KeyOf(past[i].req) \in DOMAIN cool /\ past[i].at <= cool[KeyOf(past[i].req)]
            \/ t - past[i].at > Cooldown
        BY <2>2 DEF CoolOK
      <3> QED
        BY <1>8, <3>1, <3>2
    <2> QED
      BY <1>6, <1>7, <2>1, <2>2
  <1>10. ASSUME NEW k \in DOMAIN c
         PROVE  \E i \in 1 .. Len(after) : KeyOf(after[i].req) = k /\ after[i].at = c[k]
    <2>1. CASE k = key
      <3>1. Len(past) + 1 \in 1 .. Len(after)
        BY <1>6, <1>7
      <3> QED
        BY <1>5, <1>7, <1>8, <2>1, <3>1
    <2>2. CASE k # key
      <3>1. PICK i \in 1 .. Len(past) : KeyOf(past[i].req) = k /\ past[i].at = cool[k]
        BY <1>8, <2>2 DEF CoolOK
      <3>2. i \in 1 .. Len(after) /\ after[i] = past[i]
        BY <1>6, <1>7
      <3> QED
        BY <1>8, <2>2, <3>1, <3>2
    <2> QED
      BY <2>1, <2>2
  <1>11. CoolOK(t, c, after)
    BY <1>9, <1>10 DEF CoolOK
  <1> QED
    BY <1>1, <1>2, <1>3, <1>4, <1>11

-----------------------------------------------------------------------------
(* What the guard answers is what the rules say *)

LEMMA RuleCounts == \A S : Rule!Cardinality(S) = Cardinality(S)
  BY Zenon DEF Rule!Cardinality, Cardinality

\* The cost of what the pruned window holds is what the rolling window of all
\* that was admitted costs.
LEMMA SpentSame ==
  ASSUME PacingInv
  PROVE  CostLeft = Rule!SpentIn(Window + 1)
  <1> DEFINE N == Len(Pruned)
             M == Len(admitted)
             s == Len(admitted) - Len(Pruned)
             paid == [i \in DOMAIN admitted |-> CostOf(admitted[i].req)]
  <1>1. /\ WindowOK(now, Pruned, CostLeft, admitted)
        /\ \A i \in 1 .. N : now - Pruned[i].at <= Window
    BY PrunedOK
  <1>2. /\ Pruned \in Seq(Entry) /\ N \in Nat /\ admitted \in Seq(Past) /\ M \in Nat
        /\ s \in Nat /\ s + N = M /\ DOMAIN admitted = 1 .. M
        /\ now \in Nat /\ Window \in Nat
    BY <1>1, PacingAssumption DEF PacingInv, Admitted, WindowOK, Assumptions
  <1>3. /\ \A i \in 1 .. N : CopyOf(Pruned[i], admitted[i + s])
        /\ \A i \in 1 .. s : now - admitted[i].at > Window
        /\ CostLeft = Cardinality(Units(Costs(Pruned), 1 .. N))
    BY <1>1 DEF WindowOK
  <1>4. \A i \in 1 .. M : admitted[i].at \in Nat /\ admitted[i].req \in Requests
    <2>1. \A i \in 1 .. M : admitted[i] \in Past
      BY <1>2
    <2> QED
      BY <2>1 DEF Past
  <1> HIDE DEF N, M, s, paid
  <1>5. Rule!Since(Window + 1) = 1 + s .. N + s
    <2>1. ASSUME NEW i \in 1 .. M PROVE i \in Rule!Since(Window + 1) <=> i \in 1 + s .. N + s
      <3>1. i \in Rule!Since(Window + 1) <=> now - admitted[i].at < Window + 1
        BY <1>2 DEF Rule!Since
      <3>2. CASE i \in 1 .. s
        BY <1>2, <1>3, <1>4, <3>1, <3>2
      <3>3. CASE i \notin 1 .. s
        <4>1. i \in 1 + s .. N + s /\ i - s \in 1 .. N /\ (i - s) + s = i
          BY <1>2, <3>3
        <4>2. now - admitted[i].at <= Window
          BY <1>1, <1>3, <4>1 DEF CopyOf, N
        <4> QED
          BY <1>2, <1>4, <3>1, <4>1, <4>2
      <3> QED
        BY <3>2, <3>3
    <2>2. Rule!Since(Window + 1) \subseteq 1 .. M
      BY <1>2 DEF Rule!Since
    <2>3. 1 + s .. N + s \subseteq 1 .. M
      BY <1>2
    <2> QED
      BY <2>1, <2>2, <2>3
  <1>6. Rule!SpentIn(Window + 1) = Cardinality(Units(paid, 1 + s .. N + s))
    <2>1. \A i \in 1 + s .. N + s : paid[i] = CostOf(admitted[i].req)
      BY <1>2 DEF paid
    <2>2. Units(paid, 1 + s .. N + s)
            = UNION {{i} \X (1 .. CostOf(admitted[i].req)) : i \in 1 + s .. N + s}
      BY <2>1 DEF Units
    <2> QED
      BY <1>5, <2>2, RuleCounts, Zenon DEF Rule!SpentIn
  <1>7. CostsIn(Costs(Pruned), 1 .. N)
    BY <1>2, CostsOf DEF N
  <1>8. ASSUME NEW i \in 1 .. N PROVE paid[i + s] = Costs(Pruned)[i]
    <2>1. i + s \in 1 .. M
      BY <1>2
    <2>2. paid[i + s] = CostOf(admitted[i + s].req) /\ Costs(Pruned)[i] = Pruned[i].cost
      BY <1>2, <2>1, CostsOf DEF paid, N
    <2> QED
      BY <1>3, <2>2 DEF CopyOf
  <1>9. 1 \in Int /\ N \in Int /\ s \in Int
    BY <1>2
  <1>10. \A c, e : CostsIn(e, 1 .. N) /\ (\A i \in 1 .. N : c[i + s] = e[i])
           => Cardinality(Units(c, 1 + s .. N + s)) = Cardinality(Units(e, 1 .. N))
    BY <1>9, UnitsShift, Zenon
  <1> QED
    BY <1>3, <1>6, <1>7, <1>8, <1>10

\* The requests like r in the pruned window are those among all that was
\* admitted, when the short window is no longer than the rolling one.
LEMMA BurstSame ==
  ASSUME PacingInv, BurstWindow <= Window + 1, NEW r \in Requests
  PROVE  Cardinality({i \in DOMAIN Pruned : /\ Pruned[i].key = KeyOf(r)
                                            /\ now - Pruned[i].at < BurstWindow})
           = Cardinality(Rule!Alike(BurstWindow, r))
  <1> DEFINE N == Len(Pruned)
             M == Len(admitted)
             s == Len(admitted) - Len(Pruned)
             S == {i \in DOMAIN Pruned : /\ Pruned[i].key = KeyOf(r)
                                         /\ now - Pruned[i].at < BurstWindow}
             T == Rule!Alike(BurstWindow, r)
             f == [i \in S |-> i + s]
  <1>1. WindowOK(now, Pruned, CostLeft, admitted)
    BY PrunedOK
  <1>2. /\ Pruned \in Seq(Entry) /\ N \in Nat /\ admitted \in Seq(Past) /\ M \in Nat
        /\ s \in Nat /\ s + N = M /\ DOMAIN admitted = 1 .. M /\ DOMAIN Pruned = 1 .. N
        /\ now \in Nat /\ Window \in Nat /\ BurstWindow \in Nat
    BY <1>1, PacingAssumption DEF PacingInv, Admitted, WindowOK, Assumptions
  <1>3. /\ \A i \in 1 .. N : CopyOf(Pruned[i], admitted[i + s])
        /\ \A i \in 1 .. s : now - admitted[i].at > Window
    BY <1>1 DEF WindowOK
  <1>4. \A i \in 1 .. M : admitted[i].at \in Nat
    <2>1. \A i \in 1 .. M : admitted[i] \in Past
      BY <1>2
    <2> QED
      BY <2>1 DEF Past
  <1>5. \A i : i \in S <=> i \in 1 .. N /\ Pruned[i].key = KeyOf(r) /\ now - Pruned[i].at < BurstWindow
    BY <1>2
  <1>6. \A i : i \in T <=> /\ i \in 1 .. M /\ KeyOf(admitted[i].req) = KeyOf(r)
                           /\ now - admitted[i].at < BurstWindow
    BY <1>2 DEF Rule!Alike, Rule!Since
  <1> HIDE DEF N, M, s, S, T
  <1>7. ASSUME NEW i \in S PROVE i \in Int /\ f[i] = i + s /\ i + s \in T
    <2>1. i + s \in 1 .. M /\ i \in Int
      BY <1>2, <1>5
    <2> QED
      BY <1>3, <1>5, <1>6, <2>1 DEF CopyOf
  <1>8. ASSUME NEW j \in T PROVE j - s \in S /\ f[j - s] = j
    <2>1. j \in 1 .. M /\ now - admitted[j].at < BurstWindow
      BY <1>6
    <2>2. j \notin 1 .. s
      BY <1>2, <1>3, <1>4, <2>1
    <2>3. j - s \in 1 .. N /\ (j - s) + s = j
      BY <1>2, <2>1, <2>2
    <2>4. j - s \in S
      BY <1>3, <1>5, <1>6, <2>3 DEF CopyOf
    <2> QED
      BY <2>3, <2>4
  <1>9. f \in Bijection(S, T)
    <2>1. f \in [S -> T]
      BY <1>7
    <2>2. \A i, j \in S : f[i] = f[j] => i = j
      BY <1>2, <1>7
    <2>3. \A j \in T : \E i \in S : f[i] = j
      BY <1>8
    <2> HIDE DEF f
    <2> QED
      BY <2>1, <2>2, <2>3, Zenon DEF Bijection, Injection, Surjection, IsInjective
  <1>10. IsFiniteSet(S)
    <2>1. IsFiniteSet(1 .. N)
      BY <1>2, FS_Interval
    <2>2. S \subseteq 1 .. N
      BY <1>5
    <2> QED
      BY <2>1, <2>2, FS_Subset, Zenon
  <1>11. Cardinality(S) = Cardinality(T)
    BY <1>9, <1>10, FS_Bijection, Zenon DEF ExistsBijection
  <1> QED
    BY <1>11 DEF S, T

\* A key cools down exactly when one like it was admitted within the cooldown.
LEMMA CoolSame ==
  ASSUME PacingInv, NEW r \in Requests
  PROVE  (KeyOf(r) \in DOMAIN Cooling /\ now - cooldown[KeyOf(r)] < Cooldown)
           <=> Rule!Alike(Cooldown, r) # {}
  <1>1. CoolOK(now, cooldown, admitted) /\ now \in Nat /\ Cooldown \in Nat
    BY PacingAssumption DEF PacingInv, Assumptions
  <1>2. /\ DOMAIN admitted = 1 .. Len(admitted)
        /\ \A i \in 1 .. Len(admitted) : admitted[i].at \in Nat
    <2>1. admitted \in Seq(Past) /\ \A i \in 1 .. Len(admitted) : admitted[i] \in Past
      BY DEF PacingInv, Admitted
    <2> QED
      BY <2>1 DEF Past
  <1>3. \A i : i \in Rule!Alike(Cooldown, r)
                <=> /\ i \in 1 .. Len(admitted) /\ KeyOf(admitted[i].req) = KeyOf(r)
                    /\ now - admitted[i].at < Cooldown
    BY <1>2 DEF Rule!Alike, Rule!Since
  <1>4. DOMAIN Cooling = {k \in DOMAIN cooldown : now - cooldown[k] <= Cooldown}
    BY DEF Cooling, Restrict
  <1>5. ASSUME KeyOf(r) \in DOMAIN Cooling, now - cooldown[KeyOf(r)] < Cooldown
        PROVE  Rule!Alike(Cooldown, r) # {}
    <2>1. PICK i \in 1 .. Len(admitted) :
            KeyOf(admitted[i].req) = KeyOf(r) /\ admitted[i].at = cooldown[KeyOf(r)]
      BY <1>1, <1>4, <1>5 DEF CoolOK
    <2> QED
      BY <1>3, <1>5, <2>1
  <1>6. ASSUME Rule!Alike(Cooldown, r) # {}
        PROVE  KeyOf(r) \in DOMAIN Cooling /\ now - cooldown[KeyOf(r)] < Cooldown
    <2>1. PICK i \in 1 .. Len(admitted) :
            KeyOf(admitted[i].req) = KeyOf(r) /\ now - admitted[i].at < Cooldown
      BY <1>3, <1>6
    <2>2. ~(now - admitted[i].at > Cooldown)
      BY <1>1, <1>2, <2>1
    <2>3. KeyOf(r) \in DOMAIN cooldown /\ admitted[i].at <= cooldown[KeyOf(r)]
      BY <1>1, <2>1, <2>2 DEF CoolOK
    <2>4. cooldown[KeyOf(r)] \in Nat
      <3>1. PICK j \in 1 .. Len(admitted) : admitted[j].at = cooldown[KeyOf(r)]
        BY <1>1, <2>3 DEF CoolOK
      <3> QED
        BY <1>2, <3>1
    <2>5. now - cooldown[KeyOf(r)] < Cooldown
      BY <1>1, <1>2, <2>1, <2>3, <2>4
    <2>6. now - cooldown[KeyOf(r)] <= Cooldown
      BY <1>1, <2>4, <2>5
    <2> QED
      BY <1>4, <2>3, <2>5, <2>6
  <1> QED
    BY <1>5, <1>6

LEMMA AnswerSame ==
  ASSUME PacingInv, BurstWindow <= Window + 1, NEW r \in Requests
  PROVE  Answer(r) = Rule!Refusal(r)
  <1>1. Cardinality({i \in DOMAIN Pruned : /\ Pruned[i].key = KeyOf(r)
                                           /\ now - Pruned[i].at < BurstWindow})
          = Rule!Cardinality(Rule!Alike(BurstWindow, r))
    BY BurstSame, RuleCounts
  <1> QED
    BY <1>1, SpentSame, CoolSame, Zenon DEF Answer, Rule!Refusal

-----------------------------------------------------------------------------
(* The steps *)

LEMMA NothingKept ==
  ASSUME NEW t \in Nat
  PROVE  /\ Admitted(t, <<>>) /\ WindowOK(t, <<>>, 0, <<>>) /\ CoolOK(t, <<>>, <<>>)
         /\ 0 <= Limit
  <1>1. /\ <<>> \in Seq(Past) /\ <<>> \in Seq(Entry) /\ Len(<<>>) = 0 /\ DOMAIN <<>> = {}
        /\ 1 .. 0 = {}
    OBVIOUS
  <1>2. Units(Costs(<<>>), 1 .. 0) = {}
    BY <1>1 DEF Units
  <1>3. Cardinality({}) = 0
    BY FS_EmptySet
  <1>4. Admitted(t, <<>>)
    BY <1>1 DEF Admitted
  <1>5. WindowOK(t, <<>>, 0, <<>>)
    <2>1. Len(<<>>) <= Len(<<>>) /\ 1 .. Len(<<>>) = {} /\ 1 .. Len(<<>>) - Len(<<>>) = {}
      BY <1>1
    <2>2. 0 = Cardinality(Units(Costs(<<>>), 1 .. Len(<<>>)))
      BY <1>1, <1>2, <1>3, Zenon
    <2> QED
      BY <1>1, <2>1, <2>2, Zenon DEF WindowOK
  <1>6. CoolOK(t, <<>>, <<>>)
    BY <1>1 DEF CoolOK
  <1> QED
    BY <1>4, <1>5, <1>6, PacingAssumption DEF Assumptions

LEMMA PacingInit == Init => PacingInv
  <1> SUFFICES ASSUME Init PROVE PacingInv
    OBVIOUS
  <1>1. 0 \in Nat /\ 0 \in 0 .. MaxTime
    BY PacingAssumption DEF Assumptions
  <1> QED
    BY <1>1, NothingKept DEF Init, PacingInv

\* Every answer is that of the rules, and leaves the guard with what counts.
LEMMA CheckOK ==
  ASSUME PacingInv, NEW r \in Requests, Check(r)
  PROVE  PacingInv' /\ (BurstWindow <= Window + 1 => Rule!Check(r))
  <1>1. now \in Nat /\ now' = now /\ Window \in Nat /\ Cooldown \in Nat /\ Limit \in Nat
    BY PacingAssumption DEF PacingInv, Assumptions, Check
  <1>2. /\ Admitted(now, admitted) /\ CoolOK(now, Cooling, admitted)
        /\ WindowOK(now, Pruned, CostLeft, admitted) /\ NothingOld(now, Pruned, Cooling)
    <2>1. \A k \in DOMAIN Cooling : now - Cooling[k] <= Cooldown
      BY DEF Cooling, Restrict
    <2> QED
      BY <2>1, PrunedOK, CoolingOK DEF PacingInv, NothingOld
  <1>3. BurstWindow <= Window + 1 => Answer(r) = Rule!Refusal(r)
    BY AnswerSame
  <1>4. BurstWindow <= Window + 1 => Rule!Check(r)
    BY <1>3 DEF Check, Rule!Check
  <1>5. verdict' = Answer(r) /\ Answer(r) \in {"admitted", "window", "burst", "cooldown"}
    BY DEF Check, Answer
  <1>6. CASE Answer(r) = "admitted"
    <2>1. PICK e : e = [at |-> now, key |-> KeyOf(r), cost |-> CostOf(r)]
      OBVIOUS
    <2>2. PICK p : p = [at |-> now, req |-> r]
      OBVIOUS
    <2>3. PICK c : c = [k \in DOMAIN Cooling \cup {KeyOf(r)} |->
                          IF k = KeyOf(r) THEN now ELSE Cooling[k]]
      OBVIOUS
    <2>4. /\ window' = Append(Pruned, e) /\ windowCost' = CostLeft + CostOf(r)
          /\ admitted' = Append(admitted, p)
      BY <1>6, <2>1, <2>2 DEF Check
    <2>5. cooldown' = c
      <3>1. \A k \in DOMAIN Cooling : Cooling[k] = cooldown[k]
        BY DEF Cooling, Restrict
      <3> QED
        BY <1>6, <2>3, <3>1 DEF Check
    <2>6. Admitted(now, admitted') /\ WindowOK(now, window', windowCost', admitted')
      BY <1>1, <1>2, <2>1, <2>2, <2>4, AppendedOK
    <2>7. CoolOK(now, cooldown', admitted')
      BY <1>1, <1>2, <2>2, <2>3, <2>4, <2>5, CooledOK
    <2>8. windowCost' <= Limit
      <3>1. CostLeft \in Nat
        BY PrunedOK
      <3>2. ~(CostLeft + CostOf(r) > Limit)
        BY <1>6 DEF Answer
      <3>3. CostOf(r) \in Nat
        BY DEF CostOf
      <3> QED
        BY <1>1, <2>4, <3>1, <3>2, <3>3
    <2>9. NothingOld(now, window', cooldown')
      <3>1. Pruned \in Seq(Entry) /\ Len(Pruned) \in Nat
        BY <1>2 DEF WindowOK
      <3>2. e \in Entry /\ e.at = now
        BY <1>1, <2>1 DEF Entry, Keys, CostOf
      <3>3. /\ Len(window') = Len(Pruned) + 1 /\ window'[Len(Pruned) + 1] = e
            /\ \A i \in 1 .. Len(Pruned) : window'[i] = Pruned[i]
        BY <2>4, <3>1, <3>2
      <3>4. \A i \in 1 .. Len(window') : now - window'[i].at <= Window
        <4>1. \A i \in 1 .. Len(window') : i \in 1 .. Len(Pruned) \/ i = Len(Pruned) + 1
          BY <3>1, <3>3
        <4>2. now - now <= Window
          BY <1>1
        <4> QED
          BY <1>2, <3>2, <3>3, <4>1, <4>2 DEF NothingOld
      <3>5. \A k \in DOMAIN cooldown' : now - cooldown'[k] <= Cooldown
        BY <1>1, <1>2, <2>3, <2>5 DEF NothingOld
      <3> QED
        BY <3>4, <3>5 DEF NothingOld
    <2> QED
      BY <1>1, <1>4, <1>5, <2>6, <2>7, <2>8, <2>9 DEF PacingInv
  <1>7. CASE Answer(r) # "admitted"
    <2>1. /\ window' = Pruned /\ windowCost' = CostLeft /\ cooldown' = Cooling
          /\ admitted' = admitted
      BY <1>7 DEF Check
    <2>2. CostLeft <= Limit
      <3>1. /\ CostLeft \in Nat /\ windowCost \in Nat
            /\ CostLeft <= windowCost /\ windowCost <= Limit
        BY PrunedOK DEF PacingInv
      <3> QED
        BY <1>1, <3>1
    <2> QED
      BY <1>1, <1>2, <1>4, <1>5, <2>1, <2>2 DEF PacingInv
  <1> QED
    BY <1>6, <1>7

LEMMA TickOK ==
  ASSUME PacingInv, Tick
  PROVE  PacingInv'
  <1>1. /\ now \in Nat /\ now + 1 \in 0 .. MaxTime /\ now' = now + 1 /\ verdict' = "none"
        /\ window' = window /\ windowCost' = windowCost /\ cooldown' = cooldown
        /\ admitted' = admitted /\ Window \in Nat /\ Cooldown \in Nat
    BY PacingAssumption DEF PacingInv, Tick, Assumptions
  <1>2. admitted \in Seq(Past) /\ Len(admitted) \in Nat
    BY DEF PacingInv, Admitted
  <1>3. \A i \in 1 .. Len(admitted) : admitted[i].at \in Nat
    <2>1. \A i \in 1 .. Len(admitted) : admitted[i] \in Past
      BY <1>2
    <2> QED
      BY <2>1 DEF Past
  <1>4. Admitted(now + 1, admitted)
    <2>1. \A i \in 1 .. Len(admitted) : admitted[i].at <= now + 1
      BY <1>1, <1>3 DEF PacingInv, Admitted
    <2> QED
      BY <2>1 DEF PacingInv, Admitted
  <1>5. WindowOK(now + 1, window, windowCost, admitted)
    <2>1. \A i \in 1 .. Len(admitted) - Len(window) : (now + 1) - admitted[i].at > Window
      <3>1. \A i \in 1 .. Len(admitted) - Len(window) :
              i \in 1 .. Len(admitted) /\ now - admitted[i].at > Window
        BY <1>2 DEF PacingInv, WindowOK
      <3> QED
        BY <1>1, <1>3, <3>1
    <2> QED
      BY <2>1 DEF PacingInv, WindowOK
  <1>6. CoolOK(now + 1, cooldown, admitted)
    <2>1. \A i \in 1 .. Len(admitted) :
            now - admitted[i].at > Cooldown => (now + 1) - admitted[i].at > Cooldown
      BY <1>1, <1>3
    <2> QED
      BY <2>1 DEF PacingInv, CoolOK
  <1> QED
    BY <1>1, <1>4, <1>5, <1>6 DEF PacingInv

LEMMA PacingStep ==
  ASSUME PacingInv, [Next]_vars
  PROVE  PacingInv' /\ (BurstWindow <= Window + 1 => [Rule!Next]_(Rule!vars))
  <1>1. ASSUME NEW r \in Requests, Check(r)
        PROVE  PacingInv' /\ (BurstWindow <= Window + 1 => Rule!Next)
    BY <1>1, CheckOK DEF Rule!Next
  <1>2. CASE Forget
    <2>1. now \in Nat
      BY DEF PacingInv
    <2> QED
      BY <1>2, <2>1, NothingKept DEF Forget, PacingInv, Rule!Forget, Rule!Next
  <1>3. CASE Tick
    BY <1>3, TickOK DEF Tick, Rule!Tick, Rule!Next
  <1>4. CASE UNCHANGED vars
    BY <1>4 DEF vars, PacingInv, Rule!vars
  <1> QED
    BY <1>1, <1>2, <1>3, <1>4 DEF Next

LEMMA PacingAlways == Spec => []PacingInv
  BY PacingInit, PacingStep, PTL DEF Spec

\* The types of the guard, for every window, limit and cooldown: what it keeps was
\* admitted by now, and the cost is within the limit (HistoricalPacingGuard).
THEOREM GuardTypeCorrect == Spec => []TypeOK
  <1>1. ASSUME PacingInv PROVE TypeOK
    <2>1. /\ window \in Seq(Entry) /\ DOMAIN window = 1 .. Len(window) /\ Len(window) \in Nat
          /\ admitted \in Seq(Past) /\ DOMAIN admitted = 1 .. Len(admitted)
          /\ Len(admitted) \in Nat /\ Len(window) <= Len(admitted) /\ now \in Nat
      BY <1>1, PacingAssumption DEF PacingInv, WindowOK, Admitted, Assumptions
    <2>2. ASSUME NEW i \in DOMAIN admitted
          PROVE  admitted[i].at \in 0 .. now /\ admitted[i].req \in Requests
      <3>1. admitted[i] \in Past /\ admitted[i].at <= now
        BY <1>1, <2>1, <2>2 DEF PacingInv, Admitted
      <3> QED
        BY <2>1, <3>1 DEF Past
    <2>3. ASSUME NEW i \in DOMAIN window
          PROVE  window[i].at \in 0 .. now /\ window[i].cost \in {1, 2}
      <3>1. window[i].cost \in {1, 2}
        BY <2>1, <2>3, CostsOf
      <3>2. i + (Len(admitted) - Len(window)) \in DOMAIN admitted
        BY <2>1, <2>3
      <3>3. window[i].at = admitted[i + (Len(admitted) - Len(window))].at
        BY <1>1, <2>1, <2>3 DEF PacingInv, WindowOK, CopyOf
      <3> QED
        BY <2>2, <3>1, <3>2, <3>3
    <2>4. ASSUME NEW k \in DOMAIN cooldown PROVE cooldown[k] \in 0 .. now
      <3>1. PICK i \in 1 .. Len(admitted) : admitted[i].at = cooldown[k]
        BY <1>1 DEF PacingInv, CoolOK
      <3> QED
        BY <2>1, <2>2, <3>1
    <2>5. windowCost \in 0 .. Limit
      <3>1. windowCost = Cardinality(Units(Costs(window), 1 .. Len(window)))
        BY <1>1 DEF PacingInv, WindowOK
      <3>2. IsFiniteSet(1 .. Len(window)) /\ CostsIn(Costs(window), 1 .. Len(window))
        <4>1. 1 \in Int /\ Len(window) \in Int
          BY <2>1
        <4>2. IsFiniteSet(1 .. Len(window))
          BY <4>1, FS_Interval, Zenon
        <4> QED
          BY <2>1, <4>2, CostsOf
      <3>3. windowCost \in Nat
        BY <3>1, <3>2, UnitsFinite, Zenon
      <3> QED
        BY <1>1, <3>3, PacingAssumption DEF PacingInv, Assumptions
    <2> QED
      BY <1>1, <2>2, <2>3, <2>4, <2>5 DEF PacingInv, TypeOK
  <1> QED
    BY <1>1, PacingAlways, PTL

\* What the guard keeps for a session is of the requests and the keys that still
\* count at its last check, and the cost is that of what it keeps (prune_window,
\* identical_cooldown.retain).
THEOREM GuardKeepsWhatCounts == Spec => []KeepsWhatCounts
  <1>1. ASSUME PacingInv PROVE KeepsWhatCounts
    <2>1. window \in Seq(Entry) /\ DOMAIN window = 1 .. Len(window)
      BY <1>1 DEF PacingInv, WindowOK
    <2>2. \A i \in DOMAIN window : Costs(window)[i] = window[i].cost
      BY <2>1, CostsOf
    <2>3. Units(Costs(window), DOMAIN window)
            = UNION {{i} \X (1 .. window[i].cost) : i \in DOMAIN window}
      BY <2>2 DEF Units
    <2>4. windowCost = CostOfEntries(DOMAIN window)
      <3>1. windowCost = Cardinality(Units(Costs(window), DOMAIN window))
        BY <1>1, <2>1 DEF PacingInv, WindowOK
      <3> QED
        BY <2>3, <3>1, Zenon DEF CostOfEntries
    <2> QED
      BY <1>1, <2>1, <2>4 DEF PacingInv, NothingOld, KeepsWhatCounts
  <1> QED
    BY <1>1, PacingAlways, PTL

\* Every answer of the guard is the one that the rules give from all that was
\* admitted (HistoricalPacingGuard::check), when the short window is within the
\* rolling one, as PacingParams has them.
THEOREM PacingImplementsRule == ASSUME BurstWindow <= Window + 1 PROVE Spec => ImplementsRule
  <1>1. Init => Rule!Init
    BY DEF Init, Rule!Init
  <1>2. PacingInv /\ [Next]_vars => [Rule!Next]_(Rule!vars)
    BY PacingStep
  <1> QED
    BY <1>1, <1>2, PacingAlways, PTL DEF Spec, ImplementsRule, Rule!Spec

-----------------------------------------------------------------------------
(* The engine: sessions, subscriptions, lines and the feed *)

\* The tables have their types, and the limiters finitely many requests.
EngineTyped ==
  /\ sessions \subseteq Sessions
  /\ streaming \in [Sessions -> SUBSET Reqs]
  /\ subs \in [Sessions \X Reqs -> Engine!Subscription \cup {None}]
  /\ feed \subseteq [session : Sessions, req : Reqs, symbol : Symbols]
  /\ lines \in [Sessions -> SUBSET Reqs] /\ slots \in [Sessions -> SUBSET Reqs]
  /\ owner \in [Orders -> Sessions \cup {None}]
  /\ placer \in [Orders -> Sessions \cup {None}]

\* What the limiters count is within their caps.
WithinCaps ==
  \A s \in Sessions :
    /\ IsFiniteSet(lines[s]) /\ Cardinality(lines[s]) <= MaxLines
    /\ IsFiniteSet(slots[s]) /\ Cardinality(slots[s]) <= MaxTbt

\* The feed, subscription by subscription.
FeedOK ==
  \A k \in [session : Sessions, req : Reqs, symbol : Symbols] :
    k \in feed <=> /\ subs[<<k.session, k.req>>] # None
                   /\ subs[<<k.session, k.req>>].symbol = k.symbol

\* What request r of session s has, from the tables.
RequestOK(s, r) ==
  /\ r \in lines[s] => subs[<<s, r>>] # None /\ subs[<<s, r>>].mode \in Engine!L1Modes
  /\ r \in streaming[s] =>
       /\ s \in sessions /\ subs[<<s, r>>] # None
       /\ subs[<<s, r>>].mode \in Engine!L1Modes => r \in lines[s]
       /\ subs[<<s, r>>].mode = "TickByTick" => r \in slots[s]

RequestsOK == \A s \in Sessions, r \in Reqs : RequestOK(s, r)

EngineInv == EngineTyped /\ WithinCaps /\ FeedOK /\ RequestsOK

LEMMA EngineInit ==
  ASSUME Engine!Assumptions, Engine!Init
  PROVE  EngineInv
  <1>1. \A s \in Sessions, r \in Reqs : subs[<<s, r>>] = None
    BY DEF Engine!Init
  <1>2. EngineTyped
    BY DEF Engine!Init, EngineTyped
  <1>3. WithinCaps
    BY FS_EmptySet DEF Engine!Init, WithinCaps, Engine!Assumptions
  <1>4. FeedOK
    BY <1>1 DEF Engine!Init, FeedOK
  <1>5. RequestsOK
    BY DEF Engine!Init, RequestsOK, RequestOK
  <1> QED
    BY <1>2, <1>3, <1>4, <1>5 DEF EngineInv

\* The engine counts as this module does.
LEMMA EngineCounts == \A S : Engine!Cardinality(S) = Cardinality(S)
  BY Zenon DEF Engine!Cardinality, Cardinality

\* A request more, if there is room or it is counted already.
LEMMA Reserved ==
  ASSUME NEW S, IsFiniteSet(S), NEW cap \in Nat, Cardinality(S) <= cap,
         NEW r, Engine!Reserves(S, r, cap)
  PROVE  IsFiniteSet(S \cup {r}) /\ Cardinality(S \cup {r}) <= cap
  <1>1. /\ IsFiniteSet(S \cup {r}) /\ Cardinality(S) \in Nat
        /\ Cardinality(S \cup {r}) = IF r \in S THEN Cardinality(S) ELSE Cardinality(S) + 1
    BY FS_AddElement, FS_CardinalityType
  <1> QED
    BY <1>1, EngineCounts DEF Engine!Reserves

LEMMA SubscribeOK ==
  ASSUME Engine!Assumptions, EngineInv, NEW s \in Sessions, NEW r \in Reqs, NEW y \in Symbols,
         NEW m \in Engine!Modes, Engine!Subscribe(s, r, y, m)
  PROVE  EngineInv'
  <1>1. EngineTyped /\ WithinCaps /\ FeedOK /\ RequestsOK
    BY DEF EngineInv
  <1>2. PICK x : x = [mode |-> m, symbol |-> y]
    OBVIOUS
  <1>3. x \in Engine!Subscription /\ x.mode = m /\ x.symbol = y /\ x # None
    BY <1>2 DEF Engine!Subscription, Engine!Assumptions
  <1>4. /\ subs[<<s, r>>] = None /\ feed' = feed \cup {Engine!SubKey(s, r, y)}
        /\ subs' = [subs EXCEPT ![<<s, r>>] = x]
        /\ streaming' = [streaming EXCEPT ![s] = IF s \in sessions THEN @ \cup {r} ELSE @]
        /\ UNCHANGED <<sessions, owner, placer>>
    BY <1>2 DEF Engine!Subscribe, Engine!Fresh
  <1>5. \/ /\ m \in Engine!L1Modes /\ Engine!Reserves(lines[s], r, MaxLines)
           /\ lines' = [lines EXCEPT ![s] = @ \cup {r}] /\ slots' = slots
        \/ /\ m = "TickByTick" /\ Engine!Reserves(slots[s], r, MaxTbt)
           /\ slots' = [slots EXCEPT ![s] = @ \cup {r}] /\ lines' = lines
        \/ m = "Historical" /\ lines' = lines /\ slots' = slots
    BY DEF Engine!Subscribe
  <1>6. /\ subs' \in [Sessions \X Reqs -> Engine!Subscription \cup {None}]
        /\ subs'[<<s, r>>] = x
        /\ \A t \in Sessions, q \in Reqs : t # s \/ q # r => subs'[<<t, q>>] = subs[<<t, q>>]
    BY <1>1, <1>3, <1>4 DEF EngineTyped
  <1>7. /\ lines' \in [Sessions -> SUBSET Reqs] /\ slots' \in [Sessions -> SUBSET Reqs]
        /\ streaming' \in [Sessions -> SUBSET Reqs]
    BY <1>1, <1>4, <1>5 DEF EngineTyped
  <1>8. Engine!SubKey(s, r, y) \in [session : Sessions, req : Reqs, symbol : Symbols]
    BY DEF Engine!SubKey
  <1>9. EngineTyped'
    BY <1>1, <1>4, <1>6, <1>7, <1>8 DEF EngineTyped
  <1>10. WithinCaps'
    <2>1. MaxLines \in Nat /\ MaxTbt \in Nat
      BY DEF Engine!Assumptions
    <2>2. ASSUME NEW t \in Sessions
          PROVE  /\ IsFiniteSet(lines'[t]) /\ Cardinality(lines'[t]) <= MaxLines
                 /\ IsFiniteSet(slots'[t]) /\ Cardinality(slots'[t]) <= MaxTbt
      <3>1. /\ IsFiniteSet(lines[t]) /\ Cardinality(lines[t]) <= MaxLines
            /\ IsFiniteSet(slots[t]) /\ Cardinality(slots[t]) <= MaxTbt
        BY <1>1 DEF WithinCaps
      <3>2. \/ lines'[t] = lines[t]
            \/ lines'[t] = lines[t] \cup {r} /\ Engine!Reserves(lines[t], r, MaxLines)
        BY <1>1, <1>5 DEF EngineTyped
      <3>3. \/ slots'[t] = slots[t]
            \/ slots'[t] = slots[t] \cup {r} /\ Engine!Reserves(slots[t], r, MaxTbt)
        BY <1>1, <1>5 DEF EngineTyped
      <3>4. IsFiniteSet(lines'[t]) /\ Cardinality(lines'[t]) <= MaxLines
        BY <2>1, <3>1, <3>2, Reserved
      <3>5. IsFiniteSet(slots'[t]) /\ Cardinality(slots'[t]) <= MaxTbt
        BY <2>1, <3>1, <3>3, Reserved
      <3> QED
        BY <3>4, <3>5
    <2> QED
      BY <2>2 DEF WithinCaps
  <1>11. FeedOK'
    <2>1. ASSUME NEW k \in [session : Sessions, req : Reqs, symbol : Symbols]
          PROVE  k \in feed' <=> /\ subs'[<<k.session, k.req>>] # None
                                 /\ subs'[<<k.session, k.req>>].symbol = k.symbol
      <3>1. k \in feed <=> /\ subs[<<k.session, k.req>>] # None
                           /\ subs[<<k.session, k.req>>].symbol = k.symbol
        BY <1>1 DEF FeedOK
      <3>2. k.session \in Sessions /\ k.req \in Reqs
        OBVIOUS
      <3>3. k = Engine!SubKey(s, r, y) <=> k.session = s /\ k.req = r /\ k.symbol = y
        BY DEF Engine!SubKey
      <3> QED
        BY <1>3, <1>4, <1>6, <3>1, <3>2, <3>3
    <2> QED
      BY <2>1 DEF FeedOK
  <1>12. RequestsOK'
    <2>1. ASSUME NEW t \in Sessions, NEW q \in Reqs PROVE RequestOK(t, q)'
      <3>1. RequestOK(t, q)
        BY <1>1 DEF RequestsOK
      <3>2. CASE t = s /\ q = r
        <4>1. r \notin lines[s] /\ subs'[<<t, q>>] = x
          BY <1>4, <1>6, <3>1, <3>2 DEF RequestOK
        <4>2. /\ r \in lines'[s] <=> m \in Engine!L1Modes
              /\ m = "TickByTick" => r \in slots'[s]
          BY <1>1, <1>5, <4>1 DEF EngineTyped, Engine!L1Modes
        <4>3. r \in streaming'[s] => s \in sessions
          BY <1>1, <1>4, <3>1, <3>2 DEF EngineTyped, RequestOK
        <4> QED
          BY <1>3, <1>4, <3>2, <4>1, <4>2, <4>3 DEF RequestOK
      <3>3. CASE t # s \/ q # r
        <4>1. /\ subs'[<<t, q>>] = subs[<<t, q>>] /\ sessions' = sessions
              /\ q \in streaming'[t] <=> q \in streaming[t]
              /\ q \in lines'[t] <=> q \in lines[t]
              /\ q \in slots'[t] <=> q \in slots[t]
          BY <1>1, <1>4, <1>5, <1>6, <3>3 DEF EngineTyped
        <4> QED
          BY <3>1, <4>1 DEF RequestOK
      <3> QED
        BY <3>2, <3>3
    <2> QED
      BY <2>1 DEF RequestsOK
  <1> QED
    BY <1>9, <1>10, <1>11, <1>12 DEF EngineInv

LEMMA UnsubscribeOK ==
  ASSUME Engine!Assumptions, EngineInv, NEW s \in Sessions, NEW r \in Reqs,
         Engine!Unsubscribe(s, r)
  PROVE  EngineInv'
  <1>1. EngineTyped /\ WithinCaps /\ FeedOK /\ RequestsOK
    BY DEF EngineInv
  <1>2. /\ subs[<<s, r>>] # None /\ feed' = feed \ {Engine!SubKey(s, r, subs[<<s, r>>].symbol)}
        /\ subs' = [subs EXCEPT ![<<s, r>>] = None]
        /\ lines' = [lines EXCEPT ![s] = @ \ {r}]
        /\ streaming' = [streaming EXCEPT ![s] = @ \ {r}]
        /\ UNCHANGED <<sessions, slots, owner, placer>>
    BY DEF Engine!Unsubscribe, Engine!ReleaseL1
  <1>3. /\ subs' \in [Sessions \X Reqs -> Engine!Subscription \cup {None}]
        /\ subs'[<<s, r>>] = None
        /\ \A t \in Sessions, q \in Reqs : t # s \/ q # r => subs'[<<t, q>>] = subs[<<t, q>>]
    BY <1>1, <1>2 DEF EngineTyped
  <1>4. lines' \in [Sessions -> SUBSET Reqs] /\ streaming' \in [Sessions -> SUBSET Reqs]
    BY <1>1, <1>2 DEF EngineTyped
  <1>5. EngineTyped'
    BY <1>1, <1>2, <1>3, <1>4 DEF EngineTyped
  <1>6. WithinCaps'
    <2>1. ASSUME NEW t \in Sessions
          PROVE  IsFiniteSet(lines'[t]) /\ Cardinality(lines'[t]) <= MaxLines
      <3>1. IsFiniteSet(lines[t]) /\ Cardinality(lines[t]) <= MaxLines /\ MaxLines \in Nat
        BY <1>1 DEF WithinCaps, Engine!Assumptions
      <3>2. lines'[t] = lines[t] \/ lines'[t] = lines[t] \ {r}
        BY <1>1, <1>2 DEF EngineTyped
      <3>3. /\ IsFiniteSet(lines'[t]) /\ Cardinality(lines'[t]) <= Cardinality(lines[t])
            /\ Cardinality(lines'[t]) \in Nat /\ Cardinality(lines[t]) \in Nat
        BY <3>1, <3>2, FS_Subset, FS_CardinalityType
      <3> QED
        BY <3>1, <3>3
    <2> QED
      BY <1>1, <1>2, <2>1 DEF WithinCaps
  <1>7. FeedOK'
    <2>1. ASSUME NEW k \in [session : Sessions, req : Reqs, symbol : Symbols]
          PROVE  k \in feed' <=> /\ subs'[<<k.session, k.req>>] # None
                                 /\ subs'[<<k.session, k.req>>].symbol = k.symbol
      <3>1. k \in feed <=> /\ subs[<<k.session, k.req>>] # None
                           /\ subs[<<k.session, k.req>>].symbol = k.symbol
        BY <1>1 DEF FeedOK
      <3>2. k.session \in Sessions /\ k.req \in Reqs
        OBVIOUS
      <3>3. k = Engine!SubKey(s, r, subs[<<s, r>>].symbol)
              <=> k.session = s /\ k.req = r /\ k.symbol = subs[<<s, r>>].symbol
        BY DEF Engine!SubKey
      <3> QED
        BY <1>2, <1>3, <3>1, <3>2, <3>3
    <2> QED
      BY <2>1 DEF FeedOK
  <1>8. RequestsOK'
    <2>1. ASSUME NEW t \in Sessions, NEW q \in Reqs PROVE RequestOK(t, q)'
      <3>1. RequestOK(t, q)
        BY <1>1 DEF RequestsOK
      <3>2. CASE t = s /\ q = r
        <4>1. r \notin lines'[s] /\ r \notin streaming'[s]
          BY <1>1, <1>2 DEF EngineTyped
        <4> QED
          BY <3>2, <4>1 DEF RequestOK
      <3>3. CASE t # s \/ q # r
        <4>1. /\ subs'[<<t, q>>] = subs[<<t, q>>] /\ sessions' = sessions /\ slots' = slots
              /\ q \in streaming'[t] <=> q \in streaming[t]
              /\ q \in lines'[t] <=> q \in lines[t]
          BY <1>1, <1>2, <1>3, <3>3 DEF EngineTyped
        <4> QED
          BY <3>1, <4>1 DEF RequestOK
      <3> QED
        BY <3>2, <3>3
    <2> QED
      BY <2>1 DEF RequestsOK
  <1> QED
    BY <1>5, <1>6, <1>7, <1>8 DEF EngineInv

\* Sessions that go take their streams, lines and slots with them.
LEMMA ForgetOK ==
  ASSUME Engine!Assumptions, EngineInv, NEW gone, Engine!Forget(gone)
  PROVE  EngineInv'
  <1>1. EngineTyped /\ WithinCaps /\ FeedOK /\ RequestsOK
    BY DEF EngineInv
  <1>2. \A s \in Sessions :
          /\ s \in sessions' <=> s \in sessions /\ s \notin gone
          /\ s \in gone => streaming'[s] = {} /\ lines'[s] = {} /\ slots'[s] = {}
          /\ s \notin gone => /\ streaming'[s] = streaming[s] /\ lines'[s] = lines[s]
                              /\ slots'[s] = slots[s]
    BY DEF Engine!Forget
  <1>3. EngineTyped'
    BY <1>1 DEF EngineTyped, Engine!Forget
  <1>4. WithinCaps'
    <2>1. IsFiniteSet({}) /\ Cardinality({}) <= MaxLines /\ Cardinality({}) <= MaxTbt
      BY FS_EmptySet DEF Engine!Assumptions
    <2>2. ASSUME NEW s \in Sessions
          PROVE  /\ IsFiniteSet(lines'[s]) /\ Cardinality(lines'[s]) <= MaxLines
                 /\ IsFiniteSet(slots'[s]) /\ Cardinality(slots'[s]) <= MaxTbt
      BY <1>1, <1>2, <2>1 DEF WithinCaps
    <2> QED
      BY <2>2 DEF WithinCaps
  <1>5. FeedOK'
    BY <1>1 DEF FeedOK, Engine!Forget
  <1>6. RequestsOK'
    BY <1>1, <1>2 DEF RequestsOK, RequestOK, Engine!Forget
  <1> QED
    BY <1>3, <1>4, <1>5, <1>6 DEF EngineInv

LEMMA EngineStep ==
  ASSUME Engine!Assumptions, EngineInv, [Engine!Next]_(Engine!vars)
  PROVE  EngineInv'
  <1>1. EngineTyped /\ WithinCaps /\ FeedOK /\ RequestsOK
    BY DEF EngineInv
  <1>2. ASSUME NEW s \in Sessions, Engine!StartApi(s) PROVE EngineInv'
    BY <1>1, <1>2 DEF Engine!StartApi, EngineInv, EngineTyped, WithinCaps, FeedOK, RequestsOK,
                      RequestOK
  <1>3. ASSUME NEW s \in Sessions, NEW o \in Orders, Engine!PlaceOrder(s, o) PROVE EngineInv'
    <2>1. EngineTyped'
      BY <1>1, <1>3 DEF Engine!PlaceOrder, EngineTyped
    <2>2. WithinCaps' /\ FeedOK' /\ RequestsOK'
      BY <1>1, <1>3 DEF Engine!PlaceOrder, WithinCaps, FeedOK, RequestsOK, RequestOK
    <2> QED
      BY <2>1, <2>2 DEF EngineInv
  <1>4. CASE UNCHANGED Engine!vars
    BY <1>1, <1>4 DEF Engine!vars, EngineInv, EngineTyped, WithinCaps, FeedOK, RequestsOK,
                      RequestOK
  <1> QED
    BY <1>2, <1>3, <1>4, SubscribeOK, UnsubscribeOK, ForgetOK
       DEF Engine!Next, Engine!Disconnect, Engine!DailyRestart

LEMMA EngineAlways == Engine!Spec => []EngineInv
  BY EngineAssumption, EngineInit, EngineStep, PTL DEF Engine!Spec

\* The tables keep their types, and the limiters stay within their caps.
THEOREM EngineTypeCorrect == Engine!Spec => []Engine!TypeOK
  <1>1. EngineInv => Engine!TypeOK
    BY EngineCounts DEF EngineInv, EngineTyped, WithinCaps, Engine!TypeOK
  <1> QED
    BY <1>1, EngineAlways, PTL

\* The market-data engine feeds exactly what is subscribed, for any sessions.
THEOREM FeedAlwaysSubscribed == Engine!Spec => []FeedIsSubscribed
  <1>1. ASSUME EngineInv PROVE FeedIsSubscribed
    <2> DEFINE wanted == {Engine!SubKey(p[1], p[2], subs[p].symbol) :
                            p \in {q \in Sessions \X Reqs : subs[q] # None}}
    <2>1. EngineTyped /\ FeedOK
      BY <1>1 DEF EngineInv
    <2>2. ASSUME NEW k \in feed PROVE k \in wanted
      <3>1. /\ k \in [session : Sessions, req : Reqs, symbol : Symbols]
            /\ subs[<<k.session, k.req>>] # None /\ subs[<<k.session, k.req>>].symbol = k.symbol
        BY <2>1 DEF EngineTyped, FeedOK
      <3>2. k = Engine!SubKey(k.session, k.req, subs[<<k.session, k.req>>].symbol)
        BY <3>1 DEF Engine!SubKey
      <3>3. PICK p \in Sessions \X Reqs : p = <<k.session, k.req>>
        BY <3>1
      <3>4. p[1] = k.session /\ p[2] = k.req /\ subs[p] # None
        BY <3>1, <3>3
      <3> QED
        BY <3>2, <3>3, <3>4
    <2>3. ASSUME NEW k \in wanted PROVE k \in feed
      <3>1. PICK p \in Sessions \X Reqs :
              subs[p] # None /\ k = Engine!SubKey(p[1], p[2], subs[p].symbol)
        OBVIOUS
      <3>2. /\ p[1] \in Sessions /\ p[2] \in Reqs /\ p = <<p[1], p[2]>>
            /\ subs[p] \in Engine!Subscription
        BY <2>1, <3>1 DEF EngineTyped
      <3>3. /\ k \in [session : Sessions, req : Reqs, symbol : Symbols]
            /\ k.session = p[1] /\ k.req = p[2] /\ k.symbol = subs[p].symbol
        BY <3>1, <3>2 DEF Engine!SubKey, Engine!Subscription
      <3> QED
        BY <2>1, <3>1, <3>2, <3>3 DEF FeedOK
    <2> QED
      BY <2>2, <2>3 DEF FeedIsSubscribed, Engine!FeedIsSubscribed
  <1> QED
    BY <1>1, EngineAlways, PTL

\* A line is held only for a request that streams, and what a connected session
\* streams is counted, across unsubscribes, disconnects and daily restarts.
THEOREM StreamsAlwaysCounted ==
  Engine!Spec => []StreamsAreCounted /\ []Engine!LinesAreUsed
  <1>1. ASSUME EngineInv PROVE StreamsAreCounted /\ Engine!LinesAreUsed
    <2>1. EngineTyped /\ RequestsOK
      BY <1>1 DEF EngineInv
    <2>2. ASSUME NEW s \in Sessions, NEW r \in Reqs, subs[<<s, r>>] # None
          PROVE  subs[<<s, r>>].mode \in Engine!Modes
      BY <2>1, <2>2 DEF EngineTyped, Engine!Subscription
    <2> QED
      BY <2>1, <2>2 DEF EngineTyped, RequestsOK, RequestOK, StreamsAreCounted,
                        Engine!StreamsAreCounted, Engine!LinesAreUsed, Engine!Active
  <1> QED
    BY <1>1, EngineAlways, PTL

-----------------------------------------------------------------------------
(* The orders: books, and what the steps of a fill do to them *)

PlanOK ==
  /\ plan \in [Book!Ids -> Book!PlaceOrderReq]
  /\ \A i \in Book!Ids : None \notin Book!OrderRecord(plan[i].qty)

\* A book of the orders of this plan.
IsBook(b) ==
  /\ b = [orders |-> b.orders, groups |-> b.groups, told |-> b.told,
          executed |-> b.executed, moved |-> b.moved]
  /\ b.orders = [i \in Book!Ids |-> b.orders[i]] /\ b.told = [i \in Book!Ids |-> b.told[i]]
  /\ b.groups \in [Book!Ids -> Book!BracketGroup \cup {None}]
  /\ b.moved \in [Book!Ids -> Nat]
  /\ \A i \in Book!Ids : b.orders[i] = None \/ b.orders[i] \in Book!OrderRecord(plan[i].qty)

\* The order is that of the plan, but for what fills change.
IsOf(o, r) ==
  o.kind = r.kind /\ o.side = r.side /\ o.limit = r.limit /\ o.aux = r.aux /\ o.parent = r.parent

\* An order executes whole; a child waits for its parent; the children of a
\* group are of its parent.
OrderOK(b, i) ==
  /\ b.orders[i] = None => b.moved[i] = 0
  /\ b.orders[i] # None =>
       /\ IsOf(b.orders[i], plan[i])
       /\ plan[i].parent # None => b.groups[plan[i].parent] # None
       /\ \/ b.moved[i] = 0 /\ b.orders[i].remaining = plan[i].qty
          \/ b.moved[i] = plan[i].qty /\ b.orders[i].remaining = 0
       /\ b.orders[i].status = "Filled" => b.moved[i] > 0
       /\ plan[i].parent # None /\ b.moved[plan[i].parent] = 0 =>
            b.moved[i] = 0 /\ b.orders[i].status \in {"Inactive", "Cancelled"}
GroupOK(b, p) ==
  b.groups[p] # None =>
    \A c \in Book!Children(b.groups[p]) : b.orders[c] # None /\ plan[c].parent = p
BookOK(b) == IsBook(b) /\ \A i \in Book!Ids : OrderOK(b, i) /\ GroupOK(b, i)

\* What a fill never undoes.
OrderFollows(b, c, i) ==
  /\ c.orders[i] = None <=> b.orders[i] = None
  /\ b.orders[i] # None =>
       /\ b.orders[i].status = "Cancelled" => c.orders[i].status = "Cancelled"
       /\ c.orders[i].status = "Inactive" => b.orders[i].status = "Inactive"
  /\ b.moved[i] > 0 => c.moved[i] > 0
GroupFollows(b, c, p) ==
  /\ c.groups[p] = None <=> b.groups[p] = None
  /\ b.groups[p] # None =>
       /\ c.groups[p].tp = b.groups[p].tp /\ c.groups[p].sl = b.groups[p].sl
       /\ c.groups[p].state = "ParentWorking" => b.groups[p].state = "ParentWorking"
Follows(b, c) == \A i \in Book!Ids : OrderFollows(b, c, i) /\ GroupFollows(b, c, i)

LEMMA PlanIs == ASSUME Book!Assumptions, plan \in Plans PROVE PlanOK
  BY DEF Book!Assumptions, PlanOK

LEMMA TransitionIs ==
  ASSUME NEW n, NEW o \in Book!OrderRecord(n), NEW to \in Book!Statuses
  PROVE  /\ Book!Transition(o, to) \in Book!OrderRecord(n)
         /\ IsOf(Book!Transition(o, to), o)
         /\ Book!Transition(o, to).remaining = o.remaining
         /\ Book!Transition(o, to).triggered = o.triggered
         /\ Book!Transition(o, to).status = IF Book!Allowed(o.kind, o.status, to) THEN to ELSE o.status
  <1>1. PICK t : t = [o EXCEPT !.status = to]
    OBVIOUS
  <1>2. /\ t \in Book!OrderRecord(n) /\ IsOf(t, o) /\ t.remaining = o.remaining
        /\ t.triggered = o.triggered
        /\ t.status = to
    BY <1>1 DEF Book!OrderRecord, IsOf
  <1>3. Book!Transition(o, to) = IF Book!Allowed(o.kind, o.status, to) THEN t ELSE o
    BY <1>1 DEF Book!Transition
  <1>4. IsOf(o, o)
    BY DEF IsOf
  <1> QED
    BY <1>2, <1>3, <1>4

\* The pattern and the account: order i has executed whole.
LEMMA ExecutesIs ==
  ASSUME PlanOK, NEW b, IsBook(b), NEW i \in Book!Ids, b.orders[i] # None
  PROVE  LET c == Book!Executes(b, i) IN
         /\ IsBook(c) /\ c.groups = b.groups
         /\ c.moved = [b.moved EXCEPT ![i] = @ + b.orders[i].remaining]
         /\ \A j \in Book!Ids : j # i => c.orders[j] = b.orders[j]
         /\ c.orders[i] # None /\ IsOf(c.orders[i], b.orders[i]) /\ c.orders[i].remaining = 0
         /\ c.orders[i].triggered = b.orders[i].triggered
         /\ c.orders[i].status = "Inactive" => b.orders[i].status = "Inactive"
         /\ b.orders[i].status = "Cancelled" => c.orders[i].status = "Cancelled"
  <1> DEFINE o == b.orders[i]
             part == IF Len(o.chunks) = 1 THEN o ELSE Book!Transition(o, "PartiallyFilled")
             full == Book!Transition(part, "Filled")
  <1>1. PICK n : n = plan[i].qty
    OBVIOUS
  <1>2. /\ o \in Book!OrderRecord(n) /\ "Filled" \in Book!Statuses
        /\ "PartiallyFilled" \in Book!Statuses
    BY <1>1 DEF IsBook, Book!Statuses
  <1>3. /\ part \in Book!OrderRecord(n) /\ IsOf(part, o) /\ part.triggered = o.triggered
        /\ part.status = o.status \/ (part.status = "PartiallyFilled" /\ o.status # "Cancelled")
    BY <1>2, TransitionIs DEF Book!Allowed, IsOf
  <1> HIDE DEF part
  <1>4. /\ full \in Book!OrderRecord(n) /\ IsOf(full, o) /\ full.triggered = o.triggered
        /\ full.status = part.status \/ (full.status = "Filled" /\ part.status # "Cancelled")
    BY <1>2, <1>3, TransitionIs DEF Book!Allowed, IsOf
  <1> HIDE DEF full
  <1>5. PICK f : f = [full EXCEPT !.remaining = 0]
    OBVIOUS
  <1>6. /\ f \in Book!OrderRecord(n) /\ IsOf(f, o) /\ f.triggered = o.triggered /\ f.remaining = 0
        /\ f.status = full.status
    BY <1>4, <1>5 DEF Book!OrderRecord, IsOf
  <1>7. PICK e : e = Book!Executes(b, i)
    OBVIOUS
  <1>8. /\ e.orders = [b.orders EXCEPT ![i] = f] /\ e.groups = b.groups
        /\ e.moved = [b.moved EXCEPT ![i] = @ + o.remaining]
        /\ e.told = [b.told EXCEPT ![i] = "Filled"]
        /\ e = [orders |-> e.orders, groups |-> e.groups, told |-> e.told,
                executed |-> e.executed, moved |-> e.moved]
    BY <1>5, <1>7 DEF Book!Executes, IsBook, part, full
  <1>9. o.remaining \in Nat
    BY <1>1, <1>2 DEF Book!OrderRecord, PlanOK, Book!PlaceOrderReq
  <1>10. IsBook(e)
    <2>1. e.orders = [j \in Book!Ids |-> e.orders[j]] /\ e.told = [j \in Book!Ids |-> e.told[j]]
      BY <1>8 DEF IsBook
    <2>2. /\ e.moved \in [Book!Ids -> Nat]
          /\ e.groups \in [Book!Ids -> Book!BracketGroup \cup {None}]
      BY <1>8, <1>9 DEF IsBook
    <2>3. \A j \in Book!Ids : e.orders[j] = None \/ e.orders[j] \in Book!OrderRecord(plan[j].qty)
      BY <1>1, <1>6, <1>8 DEF IsBook
    <2> QED
      BY <1>8, <2>1, <2>2, <2>3 DEF IsBook
  <1>11. f # None
    BY <1>1, <1>6 DEF PlanOK
  <1> QED
    BY <1>3, <1>4, <1>6, <1>7, <1>8, <1>10, <1>11 DEF IsBook

\* What orders keep when one of a group fills.
KeepsOrder(b, c, j) ==
  /\ c.orders[j] = None <=> b.orders[j] = None
  /\ b.orders[j] # None =>
       /\ IsOf(c.orders[j], b.orders[j]) /\ c.orders[j].remaining = b.orders[j].remaining
       /\ c.orders[j].triggered = b.orders[j].triggered

LEMMA ChildrenAre == ASSUME NEW g \in Book!BracketGroup PROVE Book!Children(g) \subseteq Book!Ids
  BY DEF Book!Children, Book!BracketGroup

\* The first fill of a parent: its group is not waiting any more, and the orders
\* that became active are its children.
LEMMA ActivatesIs ==
  ASSUME PlanOK, None \notin Book!BracketGroup, NEW b, IsBook(b), NEW i \in Book!Ids,
         GroupOK(b, i)
  PROVE  LET c == Book!Activates(b, i) IN
         /\ IsBook(c) /\ c.moved = b.moved
         /\ \A p \in Book!Ids : GroupFollows(b, c, p)
         /\ c.groups[i] # None => c.groups[i].state # "ParentWorking"
         /\ \A p \in Book!Ids \ {i} : c.groups[p] = b.groups[p]
         /\ b.groups[i] # None /\ b.groups[i].state = "ParentWorking" =>
              \A j \in Book!Children(b.groups[i]) : c.orders[j].status # "Inactive"
         /\ \A j \in Book!Ids :
              /\ KeepsOrder(b, c, j)
              /\ b.orders[j] # None =>
                   \/ c.orders[j].status = b.orders[j].status
                   \/ /\ plan[j].parent = i /\ b.groups[i] # None
                      /\ b.groups[i].state = "ParentWorking" /\ j \in Book!Children(b.groups[i])
                      /\ b.orders[j].status \notin {"Cancelled", "Filled"}
                      /\ c.orders[j].status = "Submitted"
  <1>1. PICK c : c = Book!Activates(b, i)
    OBVIOUS
  <1>2. PICK g : g = b.groups[i]
    OBVIOUS
  <1>3. CASE g = None \/ g.state # "ParentWorking"
    <2>1. c = b
      BY <1>1, <1>2, <1>3 DEF Book!Activates
    <2> QED
      BY <1>1, <1>2, <1>3, <2>1 DEF IsBook, GroupFollows, KeepsOrder, IsOf
  <1>4. CASE g # None /\ g.state = "ParentWorking"
    <2>1. g \in Book!BracketGroup /\ Book!Children(g) \subseteq Book!Ids
      BY <1>2, <1>4, ChildrenAre DEF IsBook
    <2>2. PICK h : h = [g EXCEPT !.state = "ParentFilled"]
      OBVIOUS
    <2>3. /\ h \in Book!BracketGroup /\ h.tp = g.tp /\ h.sl = g.sl /\ h.state = "ParentFilled"
          /\ h # None
      BY <2>1, <2>2 DEF Book!BracketGroup
    <2>4. /\ c.orders = [j \in Book!Ids |-> IF j \in Book!Children(g) 
                                       THEN Book!Transition(b.orders[j], "Submitted")
                                       ELSE b.orders[j]]
          /\ c.groups = [b.groups EXCEPT ![i] = h] /\ c.moved = b.moved
          /\ c.told = [j \in Book!Ids |-> c.told[j]]
          /\ c = [orders |-> c.orders, groups |-> c.groups, told |-> c.told,
                  executed |-> c.executed, moved |-> c.moved]
      BY <1>1, <1>2, <1>4, <2>2 DEF Book!Activates, IsBook
    <2>5. ASSUME NEW j \in Book!Ids
          PROVE  /\ c.orders[j] = None \/ c.orders[j] \in Book!OrderRecord(plan[j].qty)
                 /\ KeepsOrder(b, c, j)
                 /\ b.orders[j] # None =>
                      \/ c.orders[j].status = b.orders[j].status
                      \/ /\ plan[j].parent = i /\ j \in Book!Children(g)
                         /\ b.orders[j].status \notin {"Cancelled", "Filled"}
                         /\ c.orders[j].status = "Submitted"
                 /\ j \in Book!Children(g) => c.orders[j].status # "Inactive"
      <3>1. CASE j \in Book!Children(g)
        <4>1. b.orders[j] # None /\ plan[j].parent = i
          BY <1>2, <1>4, <3>1 DEF GroupOK
        <4>2. PICK n : n = plan[j].qty
          OBVIOUS
        <4>3. b.orders[j] \in Book!OrderRecord(n) /\ "Submitted" \in Book!Statuses
          BY <4>1, <4>2 DEF IsBook, Book!Statuses
        <4>4. PICK t : t = Book!Transition(b.orders[j], "Submitted")
          OBVIOUS
        <4>5. /\ t \in Book!OrderRecord(n) /\ IsOf(t, b.orders[j])
              /\ t.remaining = b.orders[j].remaining
              /\ t.triggered = b.orders[j].triggered
              /\ \/ t.status = b.orders[j].status
                 \/ b.orders[j].status \notin {"Cancelled", "Filled"} /\ t.status = "Submitted"
              /\ t.status # "Inactive"
          BY <4>3, <4>4, TransitionIs DEF Book!Allowed
        <4>6. c.orders[j] = t /\ t # None
          BY <2>4, <3>1, <4>2, <4>4, <4>5 DEF PlanOK
        <4> QED
          BY <3>1, <4>1, <4>2, <4>5, <4>6 DEF KeepsOrder
      <3>2. CASE j \notin Book!Children(g)
        <4>1. c.orders[j] = b.orders[j]
          BY <2>4, <3>2
        <4> QED
          BY <3>2, <4>1 DEF IsBook, KeepsOrder, IsOf
      <3> QED
        BY <3>1, <3>2
    <2>6. IsBook(c)
      <3>1. c.orders = [j \in Book!Ids |-> c.orders[j]]
        BY <2>4
      <3>2. c.groups \in [Book!Ids -> Book!BracketGroup \cup {None}]
        BY <2>3, <2>4 DEF IsBook
      <3> QED
        BY <2>4, <2>5, <3>1, <3>2 DEF IsBook
    <2>7. ASSUME NEW p \in Book!Ids PROVE GroupFollows(b, c, p)
      BY <1>2, <1>4, <2>3, <2>4 DEF IsBook, GroupFollows
    <2>8. /\ c.groups[i].state # "ParentWorking"
          /\ \A p \in Book!Ids \ {i} : c.groups[p] = b.groups[p]
      BY <2>3, <2>4 DEF IsBook
    <2> QED
      BY <1>1, <1>2, <1>4, <2>1, <2>4, <2>5, <2>6, <2>7, <2>8
  <1> QED
    BY <1>3, <1>4

\* The fill of a child: its sibling is cancelled, unless it has ended.
LEMMA CancelsIs ==
  ASSUME PlanOK, None \notin Book!BracketGroup, NEW b, IsBook(b), NEW i \in Book!Ids,
         b.orders[i] # None,
         IsOf(b.orders[i], plan[i]), \A p \in Book!Ids : GroupOK(b, p),
         plan[i].parent # None => b.groups[plan[i].parent] # None
  PROVE  LET c == Book!CancelsSibling(b, i) IN
         /\ IsBook(c) /\ c.moved = b.moved
         /\ \A p \in Book!Ids : GroupFollows(b, c, p)
         /\ \A p \in Book!Ids : p # plan[i].parent => c.groups[p] = b.groups[p]
         /\ \A j \in Book!Ids :
              /\ KeepsOrder(b, c, j)
              /\ b.orders[j] # None =>
                   /\ \/ c.orders[j].status = b.orders[j].status
                      \/ c.orders[j].status = "Cancelled"
                   /\ (/\ plan[i].parent # None /\ j # i
                       /\ {i, j} \subseteq Book!Children(b.groups[plan[i].parent]))
                      => c.orders[j].status \in {"Cancelled", "Filled"}
  <1> DEFINE p == plan[i].parent
             siblings == IF p = None \/ i \notin Book!Children(b.groups[p]) THEN {}
                         ELSE Book!Children(b.groups[p]) \ {i}
             gone == {j \in siblings :
                        Book!Allowed(b.orders[j].kind, b.orders[j].status, "Cancelled")}
  <1>1. PICK c : c = Book!CancelsSibling(b, i)
    OBVIOUS
  <1>2. b.orders[i].parent = p /\ p \in Book!Ids \cup {None}
    BY DEF IsOf, PlanOK, Book!PlaceOrderReq
  <1> HIDE DEF p
  <1>3. CASE siblings = {}
    <2>1. c = b
      BY <1>1, <1>2, <1>3 DEF Book!CancelsSibling
    <2>2. \A j \in Book!Ids : ~(/\ plan[i].parent # None /\ j # i
                                /\ {i, j} \subseteq Book!Children(b.groups[plan[i].parent]))
      BY <1>3 DEF p
    <2> QED
      BY <1>1, <2>1, <2>2 DEF IsBook, GroupFollows, KeepsOrder, IsOf
  <1>4. CASE siblings # {}
    <2>1. /\ p \in Book!Ids /\ b.groups[p] # None /\ b.groups[p] \in Book!BracketGroup
          /\ i \in Book!Children(b.groups[p]) /\ siblings = Book!Children(b.groups[p]) \ {i}
          /\ siblings \subseteq Book!Ids
      <3>1. /\ p \in Book!Ids /\ i \in Book!Children(b.groups[p])
            /\ siblings = Book!Children(b.groups[p]) \ {i}
        BY <1>2, <1>4
      <3>2. b.groups[p] # None /\ b.groups[p] \in Book!BracketGroup
        BY <3>1, <1>4 DEF IsBook, p
      <3> QED
        BY <3>1, <3>2, ChildrenAre
    <2> HIDE DEF siblings
    <2>2. PICK h : h = [b.groups[p] EXCEPT !.state = "OneChildFilled"]
      OBVIOUS
    <2>3. /\ h \in Book!BracketGroup /\ h.tp = b.groups[p].tp /\ h.sl = b.groups[p].sl
          /\ h.state = "OneChildFilled" /\ h # None
      BY <2>1, <2>2 DEF Book!BracketGroup
    <2>4. /\ c.orders = [j \in Book!Ids |-> IF j \in gone 
                                       THEN Book!Transition(b.orders[j], "Cancelled")
                                       ELSE b.orders[j]]
          /\ c.groups = [b.groups EXCEPT ![p] = h] /\ c.moved = b.moved
          /\ c.told = [j \in Book!Ids |-> c.told[j]]
          /\ c = [orders |-> c.orders, groups |-> c.groups, told |-> c.told,
                  executed |-> c.executed, moved |-> c.moved]
      BY <1>1, <1>2, <1>4, <2>2 DEF Book!CancelsSibling, IsBook, siblings
    <2>5. ASSUME NEW j \in Book!Ids
          PROVE  /\ c.orders[j] = None \/ c.orders[j] \in Book!OrderRecord(plan[j].qty)
                 /\ KeepsOrder(b, c, j)
                 /\ b.orders[j] # None =>
                      /\ \/ c.orders[j].status = b.orders[j].status
                         \/ c.orders[j].status = "Cancelled"
                      /\ j \in siblings => c.orders[j].status \in {"Cancelled", "Filled"}
      <3>1. CASE j \in gone
        <4>1. b.orders[j] # None
          BY <2>1, <3>1 DEF GroupOK
        <4>2. PICK n : n = plan[j].qty
          OBVIOUS
        <4>3. b.orders[j] \in Book!OrderRecord(n) /\ "Cancelled" \in Book!Statuses
          BY <4>1, <4>2 DEF IsBook, Book!Statuses
        <4>4. PICK t : t = Book!Transition(b.orders[j], "Cancelled")
          OBVIOUS
        <4>5. /\ t \in Book!OrderRecord(n) /\ IsOf(t, b.orders[j])
              /\ t.remaining = b.orders[j].remaining
              /\ t.triggered = b.orders[j].triggered
              /\ t.status = "Cancelled"
          BY <3>1, <4>3, <4>4, TransitionIs
        <4>6. c.orders[j] = t /\ t # None
          BY <2>4, <3>1, <4>2, <4>4, <4>5 DEF PlanOK
        <4> QED
          BY <4>1, <4>2, <4>5, <4>6 DEF KeepsOrder
      <3>2. CASE j \notin gone
        <4>1. c.orders[j] = b.orders[j]
          BY <2>4, <3>2
        <4>2. j \in siblings /\ b.orders[j] # None => b.orders[j].status \in {"Cancelled", "Filled"}
          BY <3>2 DEF Book!Allowed
        <4> QED
          BY <4>1, <4>2 DEF IsBook, KeepsOrder, IsOf
      <3> QED
        BY <3>1, <3>2
    <2>6. IsBook(c)
      <3>1. c.orders = [j \in Book!Ids |-> c.orders[j]]
        BY <2>4
      <3>2. c.groups \in [Book!Ids -> Book!BracketGroup \cup {None}]
        BY <2>3, <2>4 DEF IsBook
      <3> QED
        BY <2>4, <2>5, <3>1, <3>2 DEF IsBook
    <2>7. ASSUME NEW k \in Book!Ids PROVE GroupFollows(b, c, k)
      BY <2>1, <2>3, <2>4 DEF IsBook, GroupFollows
    <2>8. \A j \in Book!Ids : j # i /\ j \in Book!Children(b.groups[plan[i].parent]) => j \in siblings
      BY <2>1 DEF p
    <2>9. \A k \in Book!Ids : k # plan[i].parent => c.groups[k] = b.groups[k]
      BY <2>1, <2>4 DEF IsBook, p
    <2> QED
      BY <1>1, <2>4, <2>5, <2>6, <2>7, <2>8, <2>9
  <1> QED
    BY <1>3, <1>4

LEMMA KeepsOK ==
  ASSUME PlanOK, NEW b, BookOK(b), NEW c, IsBook(c), c.moved = b.moved,
         \A p \in Book!Ids : GroupFollows(b, c, p), \A j \in Book!Ids : KeepsOrder(b, c, j),
         \A j \in Book!Ids : b.orders[j] # None =>
           \/ c.orders[j].status = b.orders[j].status
           \/ c.orders[j].status = "Cancelled"
           \/ /\ c.orders[j].status = "Submitted" /\ b.orders[j].status # "Cancelled"
              /\ b.moved[plan[j].parent] > 0
  PROVE  BookOK(c) /\ Follows(b, c)
  <1>1. ASSUME NEW j \in Book!Ids PROVE OrderOK(c, j)
    <2>1. OrderOK(b, j) /\ KeepsOrder(b, c, j)
      BY DEF BookOK
    <2>2. plan[j].parent # None => plan[j].parent \in Book!Ids
      BY DEF PlanOK, Book!PlaceOrderReq
    <2>3. plan[j].parent # None /\ b.groups[plan[j].parent] # None
            => c.groups[plan[j].parent] # None
      BY <2>2 DEF GroupFollows
    <2> QED
      BY <2>1, <2>3 DEF OrderOK, KeepsOrder, IsOf
  <1>2. ASSUME NEW p \in Book!Ids PROVE GroupOK(c, p)
    <2>1. c.groups[p] # None =>
            /\ b.groups[p] # None
            /\ c.groups[p].tp = b.groups[p].tp /\ c.groups[p].sl = b.groups[p].sl
      BY DEF GroupFollows
    <2>2. c.groups[p] # None => Book!Children(c.groups[p]) = Book!Children(b.groups[p])
      BY <2>1 DEF Book!Children
    <2>3. c.groups[p] # None => Book!Children(c.groups[p]) \subseteq Book!Ids
      BY ChildrenAre DEF IsBook
    <2> QED
      BY <2>1, <2>2, <2>3 DEF BookOK, GroupOK, KeepsOrder
  <1>3. ASSUME NEW j \in Book!Ids PROVE OrderFollows(b, c, j)
    BY DEF KeepsOrder, OrderFollows
  <1> QED
    BY <1>1, <1>2, <1>3 DEF BookOK, Follows

LEMMA FollowsOn ==
  ASSUME NEW b, NEW c, NEW d, Follows(b, c), Follows(c, d)
  PROVE  Follows(b, d)
  BY DEF Follows, OrderFollows, GroupFollows

-----------------------------------------------------------------------------
(* The exits of brackets *)

\* An exit has its place in the group of its parent, which waits no more when it is active.
InSlot(g, i) == i = IF plan[i].kind \in Book!Stops THEN g.sl ELSE g.tp
ExitOK(b, i) ==
  plan[i].parent # None /\ b.orders[i] # None =>
    /\ InSlot(b.groups[plan[i].parent], i)
    /\ b.orders[i].status \notin {"Inactive", "Cancelled"} \/ b.moved[i] > 0
         => b.groups[plan[i].parent].state # "ParentWorking"

\* A stop that has triggered has executed.
StopOK(b, i) ==
  b.orders[i] # None /\ plan[i].kind = "Stop" /\ b.orders[i].triggered => b.moved[i] > 0

\* Two exits of a parent, of which no more than one may execute.
Rivals(i, j) ==
  /\ i # j /\ plan[i].parent # None /\ plan[j].parent = plan[i].parent
  /\ plan[i].kind # "StopLimit" /\ plan[j].kind # "StopLimit"

\* The rival of what has executed has not, and does not work.
RivalOK(b, i, j) ==
  Rivals(i, j) /\ b.moved[i] > 0 =>
    /\ b.moved[j] = 0
    /\ b.orders[j] # None => b.orders[j].status \in {"Inactive", "Cancelled"}

ExitsOK(b) ==
  \A i \in Book!Ids : ExitOK(b, i) /\ StopOK(b, i) /\ \A j \in Book!Ids : RivalOK(b, i, j)

\* A group that waits no more is that of a parent that has filled.
Begun(b) ==
  \A p \in Book!Ids : b.groups[p] # None /\ b.groups[p].state # "ParentWorking" => b.moved[p] > 0

\* What an order that fills is, in a book that follows one in which it worked.
Working(b, i) ==
  /\ b.orders[i] # None
  /\ plan[i].parent # None => b.moved[plan[i].parent] > 0

LEMMA ExecutesOK ==
  ASSUME PlanOK, NEW b, BookOK(b), NEW i \in Book!Ids, Working(b, i)
  PROVE  LET c == Book!Executes(b, i) IN
         /\ BookOK(c) /\ Follows(b, c) /\ c.groups = b.groups
         /\ c.moved[i] > 0 /\ \A j \in Book!Ids \ {i} : c.moved[j] = b.moved[j]
         /\ \A j \in Book!Ids \ {i} : c.orders[j] = b.orders[j]
         /\ c.orders[i].triggered = b.orders[i].triggered
  <1>1. PICK c : c = Book!Executes(b, i)
    OBVIOUS
  <1>2. IsBook(b) /\ b.orders[i] # None
    BY DEF BookOK, Working
  <1>3. /\ IsBook(c) /\ c.groups = b.groups
        /\ c.moved = [b.moved EXCEPT ![i] = @ + b.orders[i].remaining]
        /\ \A j \in Book!Ids : j # i => c.orders[j] = b.orders[j]
        /\ c.orders[i] # None /\ IsOf(c.orders[i], b.orders[i]) /\ c.orders[i].remaining = 0
        /\ c.orders[i].triggered = b.orders[i].triggered
        /\ c.orders[i].status = "Inactive" => b.orders[i].status = "Inactive"
        /\ b.orders[i].status = "Cancelled" => c.orders[i].status = "Cancelled"
    BY <1>1, <1>2, ExecutesIs
  <1>4. plan[i].qty \in Nat /\ plan[i].qty > 0
    BY DEF PlanOK, Book!PlaceOrderReq
  <1>5. c.moved[i] = plan[i].qty /\ \A j \in Book!Ids : j # i => c.moved[j] = b.moved[j]
    <2>1. b.moved[i] + b.orders[i].remaining = plan[i].qty
      BY <1>2, <1>4 DEF BookOK, OrderOK
    <2> QED
      BY <1>2, <1>3, <2>1 DEF IsBook
  <1>6. \A j \in Book!Ids : b.moved[j] > 0 => c.moved[j] > 0
    BY <1>4, <1>5
  <1>7. \A j \in Book!Ids : b.moved[j] \in Nat /\ c.moved[j] \in Nat
    BY <1>2, <1>3 DEF IsBook
  <1>8. ASSUME NEW j \in Book!Ids PROVE OrderOK(c, j)
    <2>1. OrderOK(b, j) /\ OrderOK(b, i)
      BY DEF BookOK
    <2>2. plan[j].parent # None => plan[j].parent \in Book!Ids
      BY DEF PlanOK, Book!PlaceOrderReq
    <2>3. plan[j].parent # None /\ c.moved[plan[j].parent] = 0 => b.moved[plan[j].parent] = 0
      BY <1>6, <1>7, <2>2
    <2>4. CASE j = i
      <3>1. plan[i].parent # None => c.moved[plan[i].parent] > 0
        BY <1>6, <2>2, <2>4 DEF Working
      <3>2. /\ IsOf(c.orders[i], plan[i])
            /\ (plan[i].parent # None => b.groups[plan[i].parent] # None)
        BY <1>2, <1>3, <2>1 DEF OrderOK, IsOf
      <3>3. ~(plan[i].parent # None /\ c.moved[plan[i].parent] = 0)
        BY <3>1
      <3> QED
        BY <1>3, <1>4, <1>5, <2>4, <3>2, <3>3 DEF OrderOK
    <2>5. CASE j # i
      <3>1. c.orders[j] = b.orders[j] /\ c.moved[j] = b.moved[j]
        BY <1>3, <1>5, <2>5
      <3> QED
        BY <1>3, <2>1, <2>3, <3>1 DEF OrderOK
    <2> QED
      BY <2>4, <2>5
  <1>9. ASSUME NEW p \in Book!Ids PROVE GroupOK(c, p)
    <2>1. \A j \in Book!Ids : c.orders[j] = None <=> b.orders[j] = None
      BY <1>2, <1>3
    <2>2. c.groups[p] # None => Book!Children(c.groups[p]) \subseteq Book!Ids
      BY <1>3, ChildrenAre DEF IsBook
    <2> QED
      BY <1>3, <2>1, <2>2 DEF BookOK, GroupOK
  <1>10. Follows(b, c)
    <2>1. ASSUME NEW j \in Book!Ids PROVE OrderFollows(b, c, j)
      BY <1>2, <1>3, <1>6 DEF OrderFollows
    <2>2. ASSUME NEW p \in Book!Ids PROVE GroupFollows(b, c, p)
      BY <1>3 DEF GroupFollows
    <2> QED
      BY <2>1, <2>2 DEF Follows
  <1> QED
    BY <1>1, <1>3, <1>4, <1>5, <1>8, <1>9, <1>10 DEF BookOK

\* A fill leaves a book, and leaves no rival of what fills working.
LEMMA FinalizeOK ==
  ASSUME PlanOK, None \notin Book!BracketGroup \cup Book!Ids, NEW b, BookOK(b),
         NEW i \in Book!Ids, Working(b, i)
  PROVE  LET f == Book!FinalizeFill(b, i) IN
         /\ BookOK(f) /\ Follows(b, f)
         /\ f.moved[i] > 0 /\ \A j \in Book!Ids \ {i} : f.moved[j] = b.moved[j]
         /\ Begun(b) =>
              /\ Begun(f)
              /\ b.moved[i] = 0 =>
                   \A j \in Book!Ids :
                     b.orders[j] # None /\ plan[j].parent = i /\ InSlot(b.groups[i], j)
                       => f.orders[j].status # "Inactive"
         /\ (/\ \A j \in Book!Ids : ExitOK(b, j) /\ \A k \in Book!Ids : RivalOK(b, j, k)
             /\ \A j \in Book!Ids \ {i} : StopOK(b, j)
             /\ plan[i].parent # None => b.groups[plan[i].parent].state # "ParentWorking"
             /\ \A j \in Book!Ids : Rivals(i, j) => b.moved[j] = 0)
            => ExitsOK(f)
  <1>1. PICK c : c = Book!Executes(b, i)
    OBVIOUS
  <1>2. PICK e : e = Book!Activates(c, i)
    OBVIOUS
  <1>3. PICK f : f = Book!CancelsSibling(e, i)
    OBVIOUS
  <1>4. f = Book!FinalizeFill(b, i)
    BY <1>1, <1>2, <1>3 DEF Book!FinalizeFill
  <1>5. /\ BookOK(c) /\ Follows(b, c) /\ c.groups = b.groups
        /\ c.moved[i] > 0 /\ \A j \in Book!Ids \ {i} : c.moved[j] = b.moved[j]
        /\ \A j \in Book!Ids \ {i} : c.orders[j] = b.orders[j]
        /\ c.orders[i].triggered = b.orders[i].triggered
    BY <1>1, ExecutesOK
  <1>6. /\ IsBook(e) /\ e.moved = c.moved
        /\ \A p \in Book!Ids : GroupFollows(c, e, p)
        /\ e.groups[i] # None => e.groups[i].state # "ParentWorking"
        /\ \A p \in Book!Ids \ {i} : e.groups[p] = c.groups[p]
        /\ c.groups[i] # None /\ c.groups[i].state = "ParentWorking" =>
             \A j \in Book!Children(c.groups[i]) : e.orders[j].status # "Inactive"
        /\ \A j \in Book!Ids :
             /\ KeepsOrder(c, e, j)
             /\ c.orders[j] # None =>
                  \/ e.orders[j].status = c.orders[j].status
                  \/ /\ plan[j].parent = i /\ c.groups[i] # None
                     /\ c.groups[i].state = "ParentWorking" /\ j \in Book!Children(c.groups[i])
                     /\ c.orders[j].status \notin {"Cancelled", "Filled"}
                     /\ e.orders[j].status = "Submitted"
    BY <1>2, <1>5, ActivatesIs DEF BookOK
  <1>7. BookOK(e) /\ Follows(c, e)
    <2>1. \A j \in Book!Ids : c.orders[j] # None =>
            \/ e.orders[j].status = c.orders[j].status
            \/ e.orders[j].status = "Cancelled"
            \/ /\ e.orders[j].status = "Submitted" /\ c.orders[j].status # "Cancelled"
               /\ c.moved[plan[j].parent] > 0
      BY <1>5, <1>6
    <2> QED
      BY <1>5, <1>6, <2>1, KeepsOK
  <1>8. /\ e.orders[i] # None /\ IsOf(e.orders[i], plan[i])
        /\ plan[i].parent # None => e.groups[plan[i].parent] # None
    <2>1. e.orders[i] # None
      BY <1>5, <1>7 DEF Working, Follows, OrderFollows
    <2> QED
      BY <1>7, <2>1 DEF BookOK, OrderOK
  <1>9. /\ IsBook(f) /\ f.moved = e.moved
        /\ \A p \in Book!Ids : GroupFollows(e, f, p)
        /\ \A p \in Book!Ids : p # plan[i].parent => f.groups[p] = e.groups[p]
        /\ \A j \in Book!Ids :
             /\ KeepsOrder(e, f, j)
             /\ e.orders[j] # None =>
                  /\ \/ f.orders[j].status = e.orders[j].status
                     \/ f.orders[j].status = "Cancelled"
                  /\ (/\ plan[i].parent # None /\ j # i
                      /\ {i, j} \subseteq Book!Children(e.groups[plan[i].parent]))
                     => f.orders[j].status \in {"Cancelled", "Filled"}
    BY <1>3, <1>7, <1>8, CancelsIs DEF BookOK
  <1>10. BookOK(f) /\ Follows(e, f)
    <2>1. \A j \in Book!Ids : e.orders[j] # None =>
            f.orders[j].status = e.orders[j].status \/ f.orders[j].status = "Cancelled"
      BY <1>9
    <2> QED
      BY <1>7, <1>9, <2>1, KeepsOK
  <1>11. Follows(b, f)
    BY <1>5, <1>7, <1>10, FollowsOn
  <1>12. f.moved[i] > 0 /\ \A j \in Book!Ids \ {i} : f.moved[j] = b.moved[j]
    BY <1>5, <1>6, <1>9
  <1>13. ASSUME \A j \in Book!Ids : ExitOK(b, j) /\ \A k \in Book!Ids : RivalOK(b, j, k),
                \A j \in Book!Ids \ {i} : StopOK(b, j),
                plan[i].parent # None => b.groups[plan[i].parent].state # "ParentWorking",
                \A j \in Book!Ids : Rivals(i, j) => b.moved[j] = 0
         PROVE  ExitsOK(f)
    <2>1. \A j \in Book!Ids : plan[j].parent # None => plan[j].parent \in Book!Ids
      BY DEF PlanOK, Book!PlaceOrderReq
    <2>2. \A j \in Book!Ids : /\ c.orders[j] = None <=> b.orders[j] = None
                              /\ (b.moved[j] > 0 => c.moved[j] > 0)
      BY <1>5 DEF Follows, OrderFollows
    <2>3. ASSUME NEW j \in Book!Ids PROVE ExitOK(c, j)
      <3>1. ExitOK(b, j) /\ ExitOK(b, i)
        BY <1>13
      <3>2. CASE j = i
        BY <1>5, <1>13, <2>2, <3>1, <3>2 DEF ExitOK
      <3>3. CASE j # i
        BY <1>5, <3>1, <3>3 DEF ExitOK
      <3> QED
        BY <3>2, <3>3
    <2>4. ASSUME NEW j \in Book!Ids PROVE ExitOK(e, j)
      <3>1. ExitOK(c, j) /\ KeepsOrder(c, e, j)
        BY <1>6, <2>3
      <3>2. CASE plan[j].parent # None /\ e.orders[j] # None
        <4>1. PICK p \in Book!Ids : p = plan[j].parent
          BY <2>1, <3>2
        <4>2. c.orders[j] # None /\ c.groups[p] # None /\ InSlot(c.groups[p], j)
          BY <1>5, <3>1, <3>2, <4>1 DEF KeepsOrder, ExitOK, BookOK, OrderOK
        <4>3. /\ e.groups[p] # None /\ InSlot(e.groups[p], j)
              /\ e.groups[p].state = "ParentWorking" => c.groups[p].state = "ParentWorking"
          BY <1>6, <4>2 DEF GroupFollows, InSlot
        <4>4. CASE e.orders[j].status = c.orders[j].status
          BY <1>6, <3>1, <3>2, <4>1, <4>2, <4>3, <4>4 DEF ExitOK
        <4>5. CASE plan[j].parent = i
          BY <1>6, <4>1, <4>2, <4>3, <4>5 DEF ExitOK
        <4> QED
          BY <1>6, <4>2, <4>4, <4>5
      <3> QED
        BY <3>2 DEF ExitOK
    <2>5. ASSUME NEW j \in Book!Ids PROVE ExitOK(f, j)
      <3>1. ExitOK(e, j) /\ KeepsOrder(e, f, j)
        BY <1>9, <2>4
      <3>2. CASE plan[j].parent # None /\ f.orders[j] # None
        <4>1. PICK p \in Book!Ids : p = plan[j].parent
          BY <2>1, <3>2
        <4>2. e.orders[j] # None /\ e.groups[p] # None /\ InSlot(e.groups[p], j)
          BY <1>7, <3>1, <3>2, <4>1 DEF KeepsOrder, ExitOK, BookOK, OrderOK
        <4>3. /\ f.groups[p] # None /\ InSlot(f.groups[p], j)
              /\ f.groups[p].state = "ParentWorking" => e.groups[p].state = "ParentWorking"
          BY <1>9, <4>2 DEF GroupFollows, InSlot
        <4>4. f.orders[j].status = e.orders[j].status \/ f.orders[j].status = "Cancelled"
          BY <1>9, <4>2
        <4> QED
          BY <1>9, <3>1, <3>2, <4>1, <4>2, <4>3, <4>4 DEF ExitOK
      <3> QED
        BY <3>2 DEF ExitOK
    <2>6. ASSUME NEW j \in Book!Ids PROVE StopOK(f, j)
      <3>1. f.orders[j] # None => b.orders[j] # None
        BY <1>11 DEF Follows, OrderFollows
      <3>2. f.orders[j] # None => f.orders[j].triggered = b.orders[j].triggered
        BY <1>5, <1>6, <1>9, <2>2, <3>1 DEF KeepsOrder
      <3>3. CASE j = i
        BY <1>12, <3>3 DEF StopOK
      <3>4. CASE j # i
        BY <1>12, <1>13, <3>1, <3>2, <3>4 DEF StopOK
      <3> QED
        BY <3>3, <3>4
    <2>7. ASSUME NEW a \in Book!Ids, NEW j \in Book!Ids PROVE RivalOK(f, a, j)
      <3>1. CASE a = i
        <4>1. ASSUME Rivals(i, j)
              PROVE  /\ f.moved[j] = 0
                     /\ f.orders[j] # None => f.orders[j].status \in {"Inactive", "Cancelled"}
          <5>1. j # i /\ f.moved[j] = 0
            BY <1>12, <1>13, <4>1 DEF Rivals
          <5>2. ASSUME f.orders[j] # None PROVE f.orders[j].status = "Cancelled"
            <6>1. e.orders[j] # None
              BY <1>10, <5>2 DEF Follows, OrderFollows
            <6>2. /\ plan[i].parent # None /\ plan[j].parent = plan[i].parent
                  /\ {i, j} \subseteq Book!Children(e.groups[plan[i].parent])
              BY <1>8, <2>4, <4>1, <6>1 DEF Rivals, ExitOK, InSlot, Book!Children
            <6>3. f.orders[j].status \in {"Cancelled", "Filled"}
              BY <1>9, <5>1, <6>1, <6>2
            <6> QED
              BY <1>10, <5>1, <5>2, <6>3 DEF BookOK, OrderOK
          <5> QED
            BY <5>1, <5>2
        <4> QED
          BY <3>1, <4>1 DEF RivalOK
      <3>2. CASE a # i
        <4>1. ASSUME Rivals(a, j), f.moved[a] > 0
              PROVE  /\ f.moved[j] = 0
                     /\ f.orders[j] # None => f.orders[j].status \in {"Inactive", "Cancelled"}
          <5>1. b.moved[a] > 0 /\ c.moved[a] > 0
            BY <1>12, <2>2, <3>2, <4>1
          <5>2. j # i
            <6>1. ASSUME j = i PROVE FALSE
              <7>1. Rivals(i, a)
                BY <4>1, <6>1 DEF Rivals
              <7>2. b.moved[a] = 0
                BY <1>13, <7>1
              <7> QED
                BY <5>1, <7>2
            <6> QED
              BY <6>1
          <5>3. /\ b.moved[j] = 0
                /\ b.orders[j] # None => b.orders[j].status \in {"Inactive", "Cancelled"}
            BY <1>13, <4>1, <5>1 DEF RivalOK
          <5>4. c.orders[j] = b.orders[j] /\ f.moved[j] = 0
            BY <1>5, <1>12, <5>2, <5>3
          <5>5. ASSUME f.orders[j] # None PROVE f.orders[j].status \in {"Inactive", "Cancelled"}
            <6>1. b.orders[j] # None /\ c.orders[j] # None /\ e.orders[j] # None
              BY <1>7, <1>10, <5>4, <5>5 DEF Follows, OrderFollows
            <6>2. e.orders[j].status = c.orders[j].status
              <7>1. ASSUME plan[j].parent = i, c.groups[i].state = "ParentWorking" PROVE FALSE
                <8>1. plan[a].parent = i /\ i # None
                  BY <4>1, <7>1 DEF Rivals
                <8>2. c.orders[a] # None
                  BY <1>5, <5>1 DEF BookOK, OrderOK
                <8>3. c.groups[i].state # "ParentWorking"
                  <9>1. ExitOK(c, a)
                    BY <2>3
                  <9> QED
                    BY <5>1, <8>1, <8>2, <9>1 DEF ExitOK
                <8> QED
                  BY <7>1, <8>3
              <7> QED
                BY <1>6, <6>1, <7>1
            <6> QED
              BY <1>9, <5>3, <5>4, <6>1, <6>2
          <5> QED
            BY <5>4, <5>5
        <4> QED
          BY <3>2, <4>1 DEF RivalOK
      <3> QED
        BY <3>1, <3>2
    <2> QED
      BY <2>5, <2>6, <2>7 DEF ExitsOK
  <1>14. ASSUME Begun(b) PROVE Begun(f)
    <2>1. SUFFICES ASSUME NEW p \in Book!Ids, f.groups[p] # None,
                          f.groups[p].state # "ParentWorking"
                   PROVE  f.moved[p] > 0
      BY DEF Begun
    <2>2. \A j \in Book!Ids : b.moved[j] > 0 => f.moved[j] > 0
      BY <1>11 DEF Follows, OrderFollows
    <2>3. CASE p = i
      BY <1>12, <2>3
    <2>4. CASE p = plan[i].parent
      <3>1. p # None
        OBVIOUS
      <3> QED
        BY <2>2, <2>4, <3>1 DEF Working
    <2>5. CASE p # i /\ p # plan[i].parent
      <3>1. b.groups[p] = f.groups[p]
        BY <1>5, <1>6, <1>9, <2>5
      <3> QED
        BY <1>14, <2>1, <2>2, <3>1 DEF Begun
    <2> QED
      BY <2>3, <2>4, <2>5
  <1>15. ASSUME Begun(b), b.moved[i] = 0, NEW j \in Book!Ids, b.orders[j] # None,
                plan[j].parent = i,
                InSlot(b.groups[i], j)
         PROVE  f.orders[j].status # "Inactive"
    <2>1. b.groups[i] # None /\ i # None /\ j # None
      BY <1>15 DEF BookOK, OrderOK
    <2>2. b.groups[i].state = "ParentWorking"
      BY <1>15, <2>1 DEF Begun
    <2>3. j \in Book!Children(b.groups[i])
      BY <1>15, <2>1 DEF InSlot, Book!Children
    <2>4. e.orders[j].status # "Inactive" /\ e.orders[j] # None
      <3>1. c.groups[i] = b.groups[i]
        BY <1>5
      <3>2. e.orders[j].status # "Inactive"
        BY <1>6, <2>1, <2>2, <2>3, <3>1
      <3>3. e.orders[j] # None
        BY <1>5, <1>7, <1>15 DEF Follows, OrderFollows
      <3> QED
        BY <3>2, <3>3
    <2> QED
      BY <1>10, <2>4 DEF Follows, OrderFollows
  <1> QED
    BY <1>4, <1>10, <1>11, <1>12, <1>13, <1>14, <1>15

-----------------------------------------------------------------------------
(* A snapshot *)

StopMet(o, q) == IF o.side = "Buy" THEN q.mid >= o.aux ELSE q.mid <= o.aux

\* The price at which order i of the plan executes.
PriceMet(i, q) ==
  /\ plan[i].kind = "Limit" => Book!Crosses(plan[i], q)
  /\ plan[i].kind = "Stop" => StopMet(plan[i], q)

\* The exits of an entry that fills in a snapshot.
Armed(b) ==
  \A j \in Book!Ids :
    /\ orders[j] # None /\ plan[j].parent # None
    /\ moved[plan[j].parent] = 0 /\ b.moved[plan[j].parent] > 0
    => b.orders[j].status # "Inactive"

\* A book that candidates of a snapshot have met.
MetOK(b, q) ==
  /\ BookOK(b) /\ Follows(Book!Book, b)
  /\ \A i \in Book!Ids : i \notin Book!Candidates => b.moved[i] = moved[i]
  /\ ExitsOK(Book!Book) /\ Book!IsBracketed(plan) =>
       /\ ExitsOK(b)
       /\ \A i \in Book!Ids : moved[i] = 0 /\ b.moved[i] > 0 => PriceMet(i, q)
       /\ Begun(Book!Book) => Begun(b) /\ Armed(b)

\* The prices of a bracket are not met at once.
LEMMA PricesApart ==
  ASSUME Book!Assumptions, PlanOK, Book!IsBracketed(plan), NEW q \in Quotes,
         NEW i \in Book!Ids, NEW j \in Book!Ids, Rivals(i, j), PriceMet(i, q)
  PROVE  ~PriceMet(j, q)
  <1>1. /\ plan[i] \in Book!PlaceOrderReq /\ plan[j] \in Book!PlaceOrderReq
        /\ q.mid \in Nat /\ q.bid \in Nat /\ q.ask \in Nat /\ q.bid <= q.mid /\ q.mid <= q.ask
    BY DEF Book!Assumptions, PlanOK
  <1>2. \/ plan[i].kind = "Limit" /\ plan[j].kind = "Stop"
        \/ plan[i].kind = "Stop" /\ plan[j].kind = "Limit"
    BY <1>1 DEF Rivals, Book!IsBracketed, Book!PlaceOrderReq, Book!Kinds, Book!Stops
  <1>3. ASSUME NEW t \in Book!Ids, NEW s \in Book!Ids, plan[t].kind = "Limit",
               plan[s].kind = "Stop",
               plan[t].parent # None, plan[s].parent = plan[t].parent,
               PriceMet(t, q), PriceMet(s, q)
        PROVE  FALSE
    <2>1. /\ plan[s].side = plan[t].side
          /\ IF plan[t].side = "Sell" THEN plan[s].aux < plan[t].limit
                                      ELSE plan[t].limit < plan[s].aux
      BY <1>3 DEF Book!IsBracketed, Book!Stops
    <2>2. /\ plan[t].side \in {"Buy", "Sell"} /\ plan[t].limit \in Nat /\ plan[s].aux \in Nat
      BY DEF PlanOK, Book!PlaceOrderReq
    <2>3. Book!Crosses(plan[t], q) /\ StopMet(plan[s], q)
      BY <1>3 DEF PriceMet
    <2> QED
      BY <1>1, <2>1, <2>2, <2>3 DEF Book!Crosses, StopMet
  <1> QED
    BY <1>2, <1>3 DEF Rivals

\* The stop of an order is latched.
Latches(b, i, q) == [b EXCEPT !.orders[i].triggered = Book!Latched(b.orders[i], q)]

LEMMA LatchedIs ==
  ASSUME PlanOK, NEW b, BookOK(b), NEW i \in Book!Ids, b.orders[i] # None, NEW q,
         NEW l, l = Latches(b, i, q)
  PROVE  /\ BookOK(l) /\ Follows(b, l) /\ l.groups = b.groups /\ l.moved = b.moved
         /\ \A j \in Book!Ids \ {i} : l.orders[j] = b.orders[j]
         /\ l.orders[i] # None /\ l.orders[i].status = b.orders[i].status
         /\ l.orders[i].triggered = Book!Latched(b.orders[i], q)
  <1>2. PICK o : o = b.orders[i]
    OBVIOUS
  <1>3. PICK n : n = plan[i].qty
    OBVIOUS
  <1>4. PICK t : t = [o EXCEPT !.triggered = Book!Latched(o, q)]
    OBVIOUS
  <1>5. IsBook(b) /\ o \in Book!OrderRecord(n)
    BY <1>2, <1>3 DEF BookOK, IsBook
  <1>6. Book!Latched(o, q) \in BOOLEAN
    BY DEF Book!Latched
  <1>7. /\ t \in Book!OrderRecord(n) /\ IsOf(t, o) /\ t.remaining = o.remaining
        /\ t.status = o.status
        /\ t.triggered = Book!Latched(o, q)
    BY <1>4, <1>5, <1>6 DEF Book!OrderRecord, IsOf
  <1>8. t # None
    BY <1>3, <1>7 DEF PlanOK
  <1>9. /\ l.orders = [b.orders EXCEPT ![i] = t] /\ l.groups = b.groups /\ l.moved = b.moved
        /\ l.told = b.told
        /\ l = [orders |-> l.orders, groups |-> l.groups, told |-> l.told,
                executed |-> l.executed, moved |-> l.moved]
    <2>1. l = [b EXCEPT !.orders = [b.orders EXCEPT ![i] = t]]
      BY <1>2, <1>4 DEF Latches
    <2> QED
      BY <1>5, <2>1 DEF IsBook
  <1>10. l.orders[i] = t /\ \A j \in Book!Ids \ {i} : l.orders[j] = b.orders[j]
    BY <1>5, <1>9 DEF IsBook
  <1>11. IsBook(l)
    <2>1. l.orders = [j \in Book!Ids |-> l.orders[j]]
      BY <1>5, <1>9 DEF IsBook
    <2>2. \A j \in Book!Ids : l.orders[j] = None \/ l.orders[j] \in Book!OrderRecord(plan[j].qty)
      BY <1>3, <1>5, <1>7, <1>10 DEF IsBook
    <2>3. l.told = [j \in Book!Ids |-> l.told[j]]
      BY <1>5, <1>9 DEF IsBook
    <2> QED
      BY <1>5, <1>9, <2>1, <2>2, <2>3 DEF IsBook
  <1>12. ASSUME NEW j \in Book!Ids PROVE OrderOK(l, j)
    <2>1. OrderOK(b, j)
      BY DEF BookOK
    <2>2. CASE j = i
      BY <1>2, <1>7, <1>8, <1>9, <1>10, <2>1, <2>2 DEF OrderOK, IsOf
    <2>3. CASE j # i
      BY <1>9, <1>10, <2>1, <2>3 DEF OrderOK
    <2> QED
      BY <2>2, <2>3
  <1>13. \A j \in Book!Ids : l.orders[j] = None <=> b.orders[j] = None
    BY <1>8, <1>10
  <1>14. ASSUME NEW p \in Book!Ids PROVE GroupOK(l, p)
    <2>1. l.groups[p] # None => Book!Children(l.groups[p]) \subseteq Book!Ids
      BY <1>11, ChildrenAre DEF IsBook
    <2> QED
      BY <1>9, <1>13, <2>1 DEF BookOK, GroupOK
  <1>15. Follows(b, l)
    BY <1>2, <1>7, <1>9, <1>10, <1>13 DEF Follows, OrderFollows, GroupFollows
  <1> QED
    BY <1>2, <1>7, <1>8, <1>9, <1>10, <1>11, <1>12, <1>14, <1>15 DEF BookOK

LEMMA CandidateIs ==
  ASSUME PlanOK, BookOK(Book!Book), NEW i \in Book!Candidates
  PROVE  /\ i \in Book!Ids /\ orders[i] # None
         /\ orders[i].status \notin {"Inactive", "Cancelled"}
         /\ plan[i].parent # None =>
              /\ plan[i].parent \in Book!Ids /\ moved[plan[i].parent] > 0
              /\ groups[plan[i].parent] # None
  <1>1. /\ i \in Book!Ids /\ orders[i] # None
        /\ orders[i].status \notin {"Inactive", "Cancelled"}
    BY DEF Book!Candidates, Book!Placed
  <1>2. plan[i].parent # None => plan[i].parent \in Book!Ids
    BY <1>1 DEF PlanOK, Book!PlaceOrderReq
  <1>3. OrderOK(Book!Book, i) /\ moved \in [Book!Ids -> Nat]
    BY <1>1 DEF BookOK, IsBook, Book!Book
  <1> QED
    BY <1>1, <1>2, <1>3 DEF OrderOK, Book!Book

LEMMA MeetsOK ==
  ASSUME Book!Assumptions, PlanOK, BookOK(Book!Book), NEW q \in Quotes, NEW b, MetOK(b, q),
         NEW i \in Book!Candidates
  PROVE  MetOK(Book!Meets(b, i, q), q)
  <1>1. PICK l : l = Latches(b, i, q)
    OBVIOUS
  <1>2. PICK f : f = Book!Meets(b, i, q)
    OBVIOUS
  <1>3. f = IF Book!Fills(b.orders[i], q) THEN Book!FinalizeFill(l, i) ELSE l
    BY <1>1, <1>2 DEF Book!Meets, Latches
  <1>4. /\ i \in Book!Ids /\ orders[i] # None
        /\ orders[i].status \notin {"Inactive", "Cancelled"}
        /\ plan[i].parent # None =>
             /\ plan[i].parent \in Book!Ids /\ moved[plan[i].parent] > 0
             /\ groups[plan[i].parent] # None
    BY CandidateIs
  <1>5. /\ BookOK(b) /\ Follows(Book!Book, b)
        /\ \A j \in Book!Ids : j \notin Book!Candidates => b.moved[j] = moved[j]
    BY DEF MetOK
  <1>6. /\ Book!Book.orders = orders /\ Book!Book.groups = groups /\ Book!Book.moved = moved
    BY DEF Book!Book
  <1>7. b.orders[i] # None
    BY <1>4, <1>5, <1>6 DEF Follows, OrderFollows
  <1>8. /\ BookOK(l) /\ Follows(b, l) /\ l.groups = b.groups /\ l.moved = b.moved
        /\ \A j \in Book!Ids \ {i} : l.orders[j] = b.orders[j]
        /\ l.orders[i] # None /\ l.orders[i].status = b.orders[i].status
        /\ l.orders[i].triggered = Book!Latched(b.orders[i], q)
    BY <1>1, <1>4, <1>5, <1>7, LatchedIs
  <1>9. Working(l, i)
    BY <1>4, <1>5, <1>6, <1>8 DEF Working, Follows, OrderFollows
  <1>10. None \notin Book!BracketGroup \cup Book!Ids
    BY DEF Book!Assumptions
  <1>11. plan[i].parent # None /\ ExitsOK(Book!Book) => l.groups[plan[i].parent].state # "ParentWorking"
    <2>1. ASSUME plan[i].parent # None, ExitsOK(Book!Book)
          PROVE  l.groups[plan[i].parent].state # "ParentWorking"
      <3>1. groups[plan[i].parent].state # "ParentWorking"
        BY <1>4, <1>6, <2>1 DEF ExitsOK, ExitOK
      <3> QED
        BY <1>4, <1>5, <1>6, <1>8, <2>1, <3>1 DEF Follows, GroupFollows
    <2> QED
      BY <2>1
  <1>12. ASSUME ExitsOK(Book!Book), Book!IsBracketed(plan)
         PROVE  /\ \A j \in Book!Ids : ExitOK(l, j) /\ \A k \in Book!Ids : RivalOK(l, j, k)
                /\ \A j \in Book!Ids \ {i} : StopOK(l, j)
    <2>1. ExitsOK(b)
      BY <1>12 DEF MetOK
    <2>2. \A j \in Book!Ids : /\ l.orders[j] # None <=> b.orders[j] # None
                              /\ b.orders[j] # None => l.orders[j].status = b.orders[j].status
      BY <1>7, <1>8
    <2>3. ASSUME NEW j \in Book!Ids PROVE ExitOK(l, j)
      <3>1. ExitOK(b, j)
        BY <2>1 DEF ExitsOK
      <3> QED
        BY <1>8, <2>2, <3>1 DEF ExitOK
    <2>4. ASSUME NEW j \in Book!Ids, NEW k \in Book!Ids PROVE RivalOK(l, j, k)
      <3>1. RivalOK(b, j, k)
        BY <2>1 DEF ExitsOK
      <3> QED
        BY <1>8, <2>2, <3>1 DEF RivalOK
    <2>5. \A j \in Book!Ids \ {i} : StopOK(l, j)
      BY <1>8, <2>1 DEF ExitsOK, StopOK
    <2> QED
      BY <2>3, <2>4, <2>5
  <1>13. CASE ~Book!Fills(b.orders[i], q)
    <2>1. f = l
      BY <1>3, <1>13
    <2>2. ASSUME ExitsOK(Book!Book), Book!IsBracketed(plan)
          PROVE  /\ ExitsOK(l)
                 /\ \A j \in Book!Ids : moved[j] = 0 /\ l.moved[j] > 0 => PriceMet(j, q)
                 /\ Begun(Book!Book) => Begun(l) /\ Armed(l)
      <3>1. StopOK(l, i)
        <4>1. b.orders[i].kind = plan[i].kind
          BY <1>4, <1>5, <1>7 DEF BookOK, OrderOK, IsOf
        <4> QED
          BY <1>8, <1>13, <4>1 DEF StopOK, Book!Fills
      <3>2. ExitsOK(l)
        BY <1>12, <2>2, <3>1 DEF ExitsOK
      <3>3. ASSUME Begun(Book!Book) PROVE Begun(l) /\ Armed(l)
        <4>1. Begun(b) /\ Armed(b)
          BY <2>2, <3>3 DEF MetOK
        <4>2. \A j \in Book!Ids : plan[j].parent # None => plan[j].parent \in Book!Ids
          BY DEF PlanOK, Book!PlaceOrderReq
        <4>3. Armed(l)
          BY <1>5, <1>6, <1>8, <4>1, <4>2 DEF Armed, Follows, OrderFollows
        <4> QED
          BY <1>8, <4>1, <4>3 DEF Begun
      <3> QED
        BY <1>8, <2>2, <3>2, <3>3 DEF MetOK
    <2>3. Follows(Book!Book, l)
      BY <1>5, <1>8, FollowsOn
    <2> QED
      BY <1>2, <1>5, <1>8, <2>1, <2>2, <2>3 DEF MetOK
  <1>14. CASE Book!Fills(b.orders[i], q)
    <2>1. f = Book!FinalizeFill(l, i)
      BY <1>3, <1>14
    <2>2. /\ BookOK(f) /\ Follows(l, f)
          /\ f.moved[i] > 0 /\ \A j \in Book!Ids \ {i} : f.moved[j] = l.moved[j]
          /\ Begun(l) =>
               /\ Begun(f)
               /\ l.moved[i] = 0 =>
                    \A j \in Book!Ids :
                      l.orders[j] # None /\ plan[j].parent = i /\ InSlot(l.groups[i], j)
                        => f.orders[j].status # "Inactive"
          /\ (/\ \A j \in Book!Ids : ExitOK(l, j) /\ \A k \in Book!Ids : RivalOK(l, j, k)
              /\ \A j \in Book!Ids \ {i} : StopOK(l, j)
              /\ plan[i].parent # None => l.groups[plan[i].parent].state # "ParentWorking"
              /\ \A j \in Book!Ids : Rivals(i, j) => l.moved[j] = 0)
             => ExitsOK(f)
      BY <1>4, <1>8, <1>9, <1>10, <2>1, FinalizeOK
    <2>3. Follows(Book!Book, f)
      BY <1>5, <1>8, <2>2, FollowsOn
    <2>4. \A j \in Book!Ids : j \notin Book!Candidates => f.moved[j] = moved[j]
      <3>1. ASSUME NEW j \in Book!Ids, j \notin Book!Candidates PROVE f.moved[j] = moved[j]
        <4>1. j # i
          BY <3>1
        <4> QED
          BY <1>5, <1>8, <2>2, <3>1, <4>1
      <3> QED
        BY <3>1
    <2>5. ASSUME ExitsOK(Book!Book), Book!IsBracketed(plan)
          PROVE  /\ ExitsOK(f)
                 /\ \A j \in Book!Ids : moved[j] = 0 /\ f.moved[j] > 0 => PriceMet(j, q)
                 /\ Begun(Book!Book) => Begun(f) /\ Armed(f)
      <3>1. /\ ExitsOK(b)
            /\ \A j \in Book!Ids : moved[j] = 0 /\ b.moved[j] > 0 => PriceMet(j, q)
        BY <2>5 DEF MetOK
      <3>2. /\ IsOf(b.orders[i], plan[i])
            /\ \A j \in Book!Ids : b.moved[j] \in Nat /\ moved[j] \in Nat
        BY <1>4, <1>5, <1>6, <1>7 DEF BookOK, OrderOK, IsBook
      <3>3. b.moved[i] > 0 \/ PriceMet(i, q)
        <4>1. plan[i].kind = "Limit" => Book!Crosses(plan[i], q)
          BY <1>14, <3>2 DEF Book!Fills, Book!Crosses, IsOf
        <4>2. ASSUME plan[i].kind = "Stop", ~(b.moved[i] > 0) PROVE StopMet(plan[i], q)
          <5>1. ~b.orders[i].triggered
            BY <1>4, <1>7, <3>1, <4>2 DEF ExitsOK, StopOK
          <5>2. Book!Latched(b.orders[i], q)
            BY <1>14, <3>2, <4>2 DEF Book!Fills, IsOf, Book!Stops
          <5> QED
            BY <3>2, <5>1, <5>2 DEF Book!Latched, StopMet, IsOf
        <4> QED
          BY <4>1, <4>2 DEF PriceMet
      <3>4. ASSUME NEW j \in Book!Ids, Rivals(i, j) PROVE l.moved[j] = 0
        <4>1. ASSUME b.moved[j] > 0 PROVE FALSE
          <5>1. Rivals(j, i)
            BY <3>4 DEF Rivals
          <5>2. moved[j] = 0
            <6>1. ASSUME moved[j] > 0 PROVE FALSE
              <7>1. orders[i].status \in {"Inactive", "Cancelled"}
                BY <1>4, <1>6, <2>5, <5>1, <6>1 DEF ExitsOK, RivalOK
              <7> QED
                BY <1>4, <7>1
            <6> QED
              BY <3>2, <6>1
          <5>3. PriceMet(j, q)
            BY <3>1, <4>1, <5>2
          <5>4. b.moved[i] = 0
            BY <1>4, <3>1, <4>1, <5>1 DEF ExitsOK, RivalOK
          <5>5. PriceMet(i, q)
            BY <3>3, <5>4
          <5> QED
            BY <1>4, <2>5, <3>4, <5>3, <5>5, PricesApart
        <4> QED
          BY <1>8, <3>2, <4>1
      <3>5. ExitsOK(f)
        BY <1>11, <1>12, <2>2, <2>5, <3>4
      <3>6. ASSUME NEW j \in Book!Ids, moved[j] = 0, f.moved[j] > 0 PROVE PriceMet(j, q)
        <4>1. CASE j = i
          BY <3>1, <3>3, <3>6, <4>1
        <4>2. CASE j # i
          BY <1>8, <2>2, <3>1, <3>6, <4>2
        <4> QED
          BY <4>1, <4>2
      <3>7. ASSUME Begun(Book!Book) PROVE Begun(f) /\ Armed(f)
        <4>1. Begun(b) /\ Armed(b)
          BY <2>5, <3>7 DEF MetOK
        <4>2. Begun(l)
          BY <1>8, <4>1 DEF Begun
        <4>3. ASSUME NEW j \in Book!Ids, orders[j] # None, plan[j].parent # None,
                     moved[plan[j].parent] = 0, f.moved[plan[j].parent] > 0
              PROVE  f.orders[j].status # "Inactive"
          <5>1. PICK p \in Book!Ids : p = plan[j].parent
            BY <4>3 DEF PlanOK, Book!PlaceOrderReq
          <5>2. b.orders[j] # None /\ l.orders[j] # None
            BY <1>5, <1>6, <1>8, <4>3 DEF Follows, OrderFollows
          <5>3. CASE b.moved[p] > 0
            <6>1. b.orders[j].status # "Inactive"
              BY <4>1, <4>3, <5>1, <5>3 DEF Armed
            <6>2. l.orders[j].status # "Inactive"
              BY <1>8, <5>2, <6>1 DEF Follows, OrderFollows
            <6> QED
              BY <2>2, <5>2, <6>2 DEF Follows, OrderFollows
          <5>4. CASE b.moved[p] = 0
            <6>1. p = i /\ l.moved[i] = 0
              BY <1>8, <2>2, <4>3, <5>1, <5>4
            <6>2. InSlot(l.groups[i], j)
              BY <1>12, <2>5, <4>3, <5>1, <5>2, <6>1 DEF ExitOK
            <6> QED
              BY <2>2, <4>2, <5>1, <5>2, <6>1, <6>2
          <5> QED
            BY <3>2, <5>3, <5>4
        <4> QED
          BY <2>2, <4>2, <4>3 DEF Armed
      <3> QED
        BY <3>5, <3>6, <3>7
    <2> QED
      BY <1>2, <2>2, <2>3, <2>4, <2>5 DEF MetOK
  <1> QED
    BY <1>13, <1>14

-----------------------------------------------------------------------------
(* The candidates in turn *)

\* A set of naturals that is not empty has a least one.
LEMMA LeastOf ==
  ASSUME NEW T, T \subseteq Nat, T # {}
  PROVE  \E x \in T : \A y \in T : ~(y < x)
  <1>1. PICK x \in T : \A y \in T : <<y, x>> \notin OpToRel(<, Nat)
    BY NatLessThanWellFounded, WFMin
  <1>2. \A y \in T : ~(y < x)
    BY <1>1 DEF OpToRel
  <1> QED
    BY <1>2

\* The books of a snapshot up to order m.
Books(f, q, m) ==
  f = [n \in 0 .. m |->
         IF n = 0 THEN Book!Book
         ELSE IF n \in Book!Candidates THEN Book!Meets(f[n - 1], n, q) ELSE f[n - 1]]

LEMMA BooksExist ==
  ASSUME NEW q, NEW m \in Nat
  PROVE  \E f : Books(f, q, m)
  <1> DEFINE T == {x \in Nat : ~\E f : Books(f, q, x)}
  <1>1. SUFFICES ASSUME T # {} PROVE FALSE
    OBVIOUS
  <1>2. PICK x \in T : \A y \in T : ~(y < x)
    <2>1. T \subseteq Nat
      OBVIOUS
    <2> HIDE DEF T
    <2> QED
      BY <1>1, <2>1, LeastOf
  <1>3. CASE x = 0
    <2>1. PICK f : f = [n \in 0 .. 0 |-> Book!Book]
      OBVIOUS
    <2>2. \A n \in 0 .. 0 : n = 0
      OBVIOUS
    <2>3. Books(f, q, 0)
      BY <2>1, <2>2 DEF Books
    <2> QED
      BY <1>3, <2>3
  <1>4. CASE x # 0
    <2>1. x - 1 \in Nat /\ x - 1 < x
      BY <1>4
    <2>2. PICK g : Books(g, q, x - 1)
      BY <1>2, <2>1
    <2>3. PICK f : f = [n \in 0 .. x |->
                          IF n = x THEN IF x \in Book!Candidates THEN Book!Meets(g[x - 1], x, q)
                                        ELSE g[x - 1]
                          ELSE g[n]]
      OBVIOUS
    <2>4. ASSUME NEW n \in 0 .. x
          PROVE  f[n] = IF n = 0 THEN Book!Book
                        ELSE IF n \in Book!Candidates THEN Book!Meets(f[n - 1], n, q) ELSE f[n - 1]
      <3>1. n # 0 => n - 1 \in 0 .. x /\ n - 1 # x
        BY <2>1
      <3>2. n # 0 => f[n - 1] = g[n - 1]
        BY <2>3, <3>1
      <3>3. CASE n = x
        BY <1>4, <2>3, <3>2, <3>3
      <3>4. CASE n # x
        <4>1. n \in 0 .. x - 1 /\ f[n] = g[n]
          BY <2>1, <2>3, <3>4
        <4>2. g[n] = IF n = 0 THEN Book!Book
                     ELSE IF n \in Book!Candidates THEN Book!Meets(g[n - 1], n, q) ELSE g[n - 1]
          BY <2>2, <4>1 DEF Books
        <4> QED
          BY <3>2, <4>1, <4>2
      <3> QED
        BY <3>3, <3>4
    <2>5. Books(f, q, x)
      <3>1. f = [n \in 0 .. x |-> f[n]]
        BY <2>3
      <3> QED
        BY <2>4, <3>1 DEF Books
    <2> QED
      BY <2>5
  <1> QED
    BY <1>3, <1>4

LEMMA VisitedIs ==
  ASSUME NEW q, LastId \in Nat
  PROVE  Books(Book!Visited(q), q, LastId)
  <1>1. \E f : Books(f, q, LastId)
    BY BooksExist
  <1>2. Book!Visited(q) = CHOOSE f : Books(f, q, LastId)
    BY Zenon DEF Book!Visited, Books
  <1> QED
    BY <1>1, <1>2

\* A book follows itself.
LEMMA MetFirst ==
  ASSUME PlanOK, BookOK(Book!Book), NEW q
  PROVE  MetOK(Book!Book, q)
  <1>1. Book!Book.moved = moved
    BY DEF Book!Book
  <1>2. Follows(Book!Book, Book!Book)
    BY DEF Follows, OrderFollows, GroupFollows
  <1>3. \A i \in Book!Ids : moved[i] \in Nat
    BY <1>1 DEF BookOK, IsBook
  <1>4. \A i \in Book!Ids : ~(moved[i] = 0 /\ Book!Book.moved[i] > 0)
    BY <1>1, <1>3
  <1>5. Armed(Book!Book)
    <2>1. \A i \in Book!Ids : plan[i].parent # None => plan[i].parent \in Book!Ids
      BY DEF PlanOK, Book!PlaceOrderReq
    <2> QED
      BY <1>1, <1>3, <2>1 DEF Armed
  <1> QED
    BY <1>1, <1>2, <1>4, <1>5 DEF MetOK

\* Whoever has met the snapshot, the book is one.
LEMMA VisitsOK ==
  ASSUME Book!Assumptions, PlanOK, BookOK(Book!Book), NEW q \in Quotes
  PROVE  MetOK(Book!Visited(q)[LastId], q)
  <1> DEFINE T == {x \in 0 .. LastId : ~MetOK(Book!Visited(q)[x], q)}
  <1>1. LastId \in Nat
    BY DEF Book!Assumptions
  <1>2. SUFFICES ASSUME T # {} PROVE FALSE
    BY <1>1
  <1>3. PICK x \in T : \A y \in T : ~(y < x)
    <2>1. T \subseteq Nat
      OBVIOUS
    <2> HIDE DEF T
    <2> QED
      BY <1>2, <2>1, LeastOf
  <1>4. /\ Book!Visited(q)[x] = IF x = 0 THEN Book!Book
                           ELSE IF x \in Book!Candidates THEN Book!Meets(Book!Visited(q)[x - 1], x, q)
                                ELSE Book!Visited(q)[x - 1]
    BY <1>1, VisitedIs DEF Books
  <1>5. CASE x = 0
    BY <1>4, <1>5, MetFirst
  <1>6. CASE x # 0
    <2>1. x - 1 \in 0 .. LastId /\ x - 1 < x
      BY <1>1, <1>6
    <2>2. MetOK(Book!Visited(q)[x - 1], q)
      BY <1>3, <2>1
    <2>3. x \in Book!Candidates => MetOK(Book!Meets(Book!Visited(q)[x - 1], x, q), q)
      BY <2>2, MeetsOK
    <2> QED
      BY <1>4, <1>6, <2>2, <2>3
  <1> QED
    BY <1>5, <1>6

-----------------------------------------------------------------------------
(* The invariant *)

OrdersInv ==
  /\ plan \in Plans
  /\ BookOK(Book!Book)
  /\ Book!IsBracketed(plan) => ExitsOK(Book!Book) /\ Begun(Book!Book)

\* The plan is fixed, and so are the conditions on a book.
LEMMA PrimeIs ==
  ASSUME plan' = plan, NEW c, c = Book!Book'
  PROVE  /\ BookOK(c) => BookOK(Book!Book)'
         /\ ExitsOK(c) => ExitsOK(Book!Book)'
         /\ Begun(c) => Begun(Book!Book)'
         /\ Book!IsBracketed(plan)' = Book!IsBracketed(plan)
  <1>1. BookOK(c) => BookOK(Book!Book)'
    <2>1. IsBook(c) => IsBook(Book!Book)'
      BY DEF IsBook
    <2>2. \A i \in Book!Ids : OrderOK(c, i) => OrderOK(Book!Book, i)'
      BY DEF OrderOK, IsOf
    <2>3. \A i \in Book!Ids : GroupOK(c, i) => GroupOK(Book!Book, i)'
      BY DEF GroupOK
    <2> QED
      BY <2>1, <2>2, <2>3 DEF BookOK
  <1>2. ExitsOK(c) => ExitsOK(Book!Book)'
    BY DEF ExitsOK, ExitOK, StopOK, RivalOK, Rivals, InSlot
  <1>3. Book!IsBracketed(plan)' = Book!IsBracketed(plan)
    BY DEF Book!IsBracketed
  <1>4. Begun(c) => Begun(Book!Book)'
    BY DEF Begun
  <1> QED
    BY <1>1, <1>2, <1>3, <1>4

LEMMA BookIs ==
  /\ Book!Book.orders = orders /\ Book!Book.groups = groups /\ Book!Book.told = told
  /\ Book!Book.executed = executed /\ Book!Book.moved = moved
  /\ Book!Book' = [orders |-> orders', groups |-> groups', told |-> told',
              executed |-> executed', moved |-> moved']
  BY DEF Book!Book

LEMMA OrdersInit == ASSUME Book!Assumptions, Book!Init PROVE OrdersInv
  <1>1. \A i \in Book!Ids : orders[i] = None /\ groups[i] = None /\ told[i] = None /\ moved[i] = 0
    BY DEF Book!Init
  <1>2. IsBook(Book!Book)
    BY <1>1 DEF Book!Init, IsBook, Book!Book
  <1>3. \A i \in Book!Ids : OrderOK(Book!Book, i) /\ GroupOK(Book!Book, i)
    BY <1>1, BookIs DEF OrderOK, GroupOK
  <1>4. ExitsOK(Book!Book)
    BY <1>1, BookIs DEF ExitsOK, ExitOK, StopOK, RivalOK
  <1>5. Begun(Book!Book)
    BY <1>1, BookIs DEF Begun
  <1> QED
    BY <1>2, <1>3, <1>4, <1>5 DEF OrdersInv, BookOK, Book!Init

LEMMA PlaceOK ==
  ASSUME Book!Assumptions, OrdersInv, NEW i \in Book!Ids, Book!Place(i)
  PROVE  OrdersInv'
  <1>1. PlanOK /\ IsBook(Book!Book) /\ orders[i] = None /\ plan' = plan /\ moved' = moved
    BY PlanIs DEF OrdersInv, BookOK, Book!Place
  <1>2. PICK c : c = Book!Book'
    OBVIOUS
  <1>3. PICK n : n = plan[i].qty
    OBVIOUS
  <1>4. /\ plan[i] \in Book!PlaceOrderReq /\ n \in Nat \ {0}
        /\ None \notin Book!OrderRecord(n) /\ None \notin Book!Ids
        /\ None \notin Book!BracketGroup
    BY <1>1, <1>3 DEF PlanOK, Book!PlaceOrderReq, Book!Assumptions
  <1>5. /\ told'[i] \in {"Inactive", "Submitted", "PreSubmitted"}
        /\ plan[i].parent # None => told'[i] = "Inactive"
        /\ told' = [j \in Book!Ids |-> told'[j]]
    BY <1>1, BookIs DEF IsBook, Book!Place, Book!PlaceChild, Book!PlaceParent
  <1>6. PICK ch \in Book!Chunks(n) :
          orders' = [orders EXCEPT ![i] =
            [kind |-> plan[i].kind, side |-> plan[i].side, limit |-> plan[i].limit,
             aux |-> plan[i].aux, parent |-> plan[i].parent, chunks |-> ch,
             remaining |-> plan[i].qty, triggered |-> FALSE, status |-> told'[i]]]
    BY <1>3 DEF Book!Place
  <1>7. PICK o : o = [kind |-> plan[i].kind, side |-> plan[i].side, limit |-> plan[i].limit,
                      aux |-> plan[i].aux, parent |-> plan[i].parent, chunks |-> ch,
                      remaining |-> n, triggered |-> FALSE, status |-> told'[i]]
    OBVIOUS
  <1>8. /\ o \in Book!OrderRecord(n) /\ o # None /\ IsOf(o, plan[i]) /\ o.remaining = n
        /\ ~o.triggered /\ o.status = told'[i]
    <2>1. /\ plan[i].kind \in Book!Kinds /\ plan[i].side \in {"Buy", "Sell"}
          /\ plan[i].limit \in Nat
          /\ plan[i].aux \in Nat /\ plan[i].parent \in Book!Ids \cup {None}
      BY <1>4 DEF Book!PlaceOrderReq
    <2>2. told'[i] \in Book!Statuses
      BY <1>5 DEF Book!Statuses
    <2>3. o \in Book!OrderRecord(n)
      BY <1>4, <1>6, <1>7, <2>1, <2>2 DEF Book!OrderRecord
    <2>4. IsOf(o, plan[i]) /\ o.remaining = n /\ ~o.triggered /\ o.status = told'[i]
      BY <1>7 DEF IsOf
    <2> QED
      BY <1>4, <2>3, <2>4
  <1>9. /\ c.orders[i] = o /\ \A j \in Book!Ids \ {i} : c.orders[j] = orders[j]
        /\ c.orders = [j \in Book!Ids |-> c.orders[j]]
        /\ c.groups = groups' /\ c.told = told' /\ c.moved = moved
        /\ c = [orders |-> c.orders, groups |-> c.groups, told |-> c.told,
                executed |-> c.executed, moved |-> c.moved]
    BY <1>1, <1>2, <1>3, <1>6, <1>7, BookIs DEF IsBook
  <1>10. /\ groups' \in [Book!Ids -> Book!BracketGroup \cup {None}]
         /\ \A p \in Book!Ids :
              /\ groups[p] # None => groups'[p] # None
              /\ groups[p] # None => groups'[p].state = groups[p].state
              /\ groups'[p] # None /\ p # plan[i].parent =>
                   /\ groups[p] # None => groups'[p] = groups[p]
                   /\ groups[p] = None => Book!Children(groups'[p]) = {}
              /\ groups[p] = None /\ groups'[p] # None => groups'[p].state = "ParentWorking"
              /\ p = plan[i].parent =>
                   /\ groups'[p] # None /\ InSlot(groups'[p], i)
                   /\ groups'[p].tp = i \/ groups'[p].sl = i
                   /\ plan[i].kind \in Book!Stops =>
                        groups'[p].tp = IF groups[p] = None THEN None ELSE groups[p].tp
                   /\ plan[i].kind \notin Book!Stops =>
                        groups'[p].sl = IF groups[p] = None THEN None ELSE groups[p].sl
    <2>1. groups \in [Book!Ids -> Book!BracketGroup \cup {None}]
      BY <1>1, BookIs DEF IsBook
    <2>2. CASE Book!PlaceChild(i)
      <3>1. PICK p \in Book!Ids : p = plan[i].parent
        BY <1>4, <2>2 DEF Book!PlaceChild, Book!PlaceOrderReq
      <3>2. PICK g : g = IF groups[p] = None
                         THEN [tp |-> None, sl |-> None, state |-> "ParentWorking"]
                         ELSE groups[p]
        OBVIOUS
      <3>3. PICK h : h = IF plan[i].kind \in Book!Stops THEN [g EXCEPT !.sl = i]
                         ELSE [g EXCEPT !.tp = i]
        OBVIOUS
      <3>4. groups' = [groups EXCEPT ![p] = h]
        BY <2>2, <3>1, <3>2, <3>3 DEF Book!PlaceChild, Book!WithChild
      <3>5. g \in Book!BracketGroup
        BY <2>1, <3>2 DEF Book!BracketGroup
      <3>6. /\ h \in Book!BracketGroup /\ h # None /\ h.state = g.state
            /\ IF plan[i].kind \in Book!Stops THEN h.sl = i /\ h.tp = g.tp
                                         ELSE h.tp = i /\ h.sl = g.sl
        BY <1>4, <3>3, <3>5 DEF Book!BracketGroup
      <3> QED
        BY <2>1, <3>1, <3>2, <3>4, <3>6 DEF InSlot
    <2>3. CASE Book!PlaceParent(i)
      <3>1. PICK g : g = IF groups[i] = None /\ plan[i].oca
                         THEN [tp |-> None, sl |-> None, state |-> "ParentWorking"]
                         ELSE groups[i]
        OBVIOUS
      <3>2. plan[i].parent = None /\ groups' = [groups EXCEPT ![i] = g]
        BY <2>3, <3>1 DEF Book!PlaceParent
      <3>3. g \in Book!BracketGroup \cup {None}
        BY <2>1, <3>1 DEF Book!BracketGroup
      <3>4. groups[i] = None /\ g # None => Book!Children(g) = {}
        BY <3>1 DEF Book!Children
      <3> QED
        BY <1>4, <2>1, <3>1, <3>2, <3>3, <3>4
    <2> QED
      BY <2>2, <2>3 DEF Book!Place
  <1>11. \A j \in Book!Ids : plan[j].parent # None => plan[j].parent \in Book!Ids
    BY <1>1 DEF PlanOK, Book!PlaceOrderReq
  <1>12. OrderOK(Book!Book, i) /\ moved[i] = 0
    BY <1>1, BookIs DEF OrdersInv, BookOK, OrderOK
  <1>13. IsBook(c)
    <2>1. c.moved \in [Book!Ids -> Nat]
      BY <1>1, <1>9, BookIs DEF IsBook
    <2>2. \A j \in Book!Ids : c.orders[j] = None \/ c.orders[j] \in Book!OrderRecord(plan[j].qty)
      BY <1>1, <1>3, <1>8, <1>9, BookIs DEF IsBook
    <2> QED
      BY <1>5, <1>9, <1>10, <2>1, <2>2 DEF IsBook
  <1>14. ASSUME NEW j \in Book!Ids PROVE OrderOK(c, j)
    <2>1. OrderOK(Book!Book, j)
      BY DEF OrdersInv, BookOK
    <2>2. CASE j = i
      BY <1>3, <1>5, <1>8, <1>9, <1>10, <1>11, <1>12, <2>2 DEF OrderOK
    <2>3. CASE j # i
      BY <1>9, <1>10, <1>11, <2>1, <2>3, BookIs DEF OrderOK
    <2> QED
      BY <2>2, <2>3
  <1>15. ASSUME NEW p \in Book!Ids PROVE GroupOK(c, p)
    <2>1. /\ GroupOK(Book!Book, p)
          /\ (groups[p] # None => Book!Children(groups[p]) \subseteq Book!Ids)
      BY <1>1, BookIs, ChildrenAre DEF OrdersInv, BookOK, IsBook
    <2>2. \A j \in Book!Ids : orders[j] # None => c.orders[j] # None
      BY <1>8, <1>9
    <2>3. CASE p # plan[i].parent
      BY <1>9, <1>10, <2>1, <2>2, <2>3, BookIs DEF GroupOK
    <2>4. CASE p = plan[i].parent
      <3>1. \A k \in Book!Children(groups'[p]) :
              k = i \/ (groups[p] # None /\ k \in Book!Children(groups[p]))
        BY <1>10, <2>4 DEF InSlot, Book!Children
      <3> QED
        BY <1>8, <1>9, <2>1, <2>2, <2>4, <3>1, BookIs DEF GroupOK
    <2> QED
      BY <2>3, <2>4
  <1>16. ASSUME Book!IsBracketed(plan) PROVE ExitsOK(c)
    <2>1. ExitsOK(Book!Book)
      BY <1>16 DEF OrdersInv
    <2>2. ASSUME NEW j \in Book!Ids PROVE ExitOK(c, j)
      <3>1. CASE j = i
        BY <1>5, <1>8, <1>9, <1>10, <1>11, <1>12, <3>1 DEF ExitOK
      <3>2. CASE j # i
        <4>1. ASSUME plan[j].parent # None, c.orders[j] # None
              PROVE  /\ InSlot(c.groups[plan[j].parent], j)
                     /\ c.orders[j].status \notin {"Inactive", "Cancelled"} \/ c.moved[j] > 0
                          => c.groups[plan[j].parent].state # "ParentWorking"
          <5>1. PICK p \in Book!Ids : p = plan[j].parent
            BY <1>11, <4>1
          <5>2. orders[j] = c.orders[j]
            BY <1>9, <3>2
          <5>3. /\ groups[p] # None /\ InSlot(groups[p], j)
                /\ orders[j].status \notin {"Inactive", "Cancelled"} \/ moved[j] > 0
                     => groups[p].state # "ParentWorking"
            BY <2>1, <4>1, <5>1, <5>2, BookIs DEF ExitsOK, ExitOK, OrdersInv, BookOK, OrderOK
          <5>4. groups'[p].state = groups[p].state
            BY <1>10, <5>3
          <5>5. InSlot(groups'[p], j)
            <6>1. CASE p = plan[i].parent
              <7>1. (plan[i].kind \in Book!Stops) # (plan[j].kind \in Book!Stops)
                BY <1>16, <3>2, <4>1, <5>1, <6>1 DEF Book!IsBracketed
              <7> QED
                BY <1>10, <5>3, <6>1, <7>1 DEF InSlot
            <6>2. CASE p # plan[i].parent
              BY <1>10, <5>3, <6>2
            <6> QED
              BY <6>1, <6>2
          <5> QED
            BY <1>9, <5>1, <5>2, <5>3, <5>4, <5>5
        <4> QED
          BY <4>1 DEF ExitOK
      <3> QED
        BY <3>1, <3>2
    <2>3. ASSUME NEW j \in Book!Ids PROVE StopOK(c, j)
      BY <1>8, <1>9, <2>1, BookIs DEF ExitsOK, StopOK
    <2>4. ASSUME NEW a \in Book!Ids, NEW j \in Book!Ids PROVE RivalOK(c, a, j)
      <3>1. RivalOK(Book!Book, a, j)
        BY <2>1 DEF ExitsOK
      <3>2. CASE j = i
        BY <1>5, <1>8, <1>9, <1>12, <3>2 DEF RivalOK, Rivals
      <3>3. CASE j # i
        BY <1>9, <3>1, <3>3, BookIs DEF RivalOK
      <3> QED
        BY <3>2, <3>3
    <2> QED
      BY <2>2, <2>3, <2>4 DEF ExitsOK
  <1>17. Book!IsBracketed(plan) => Begun(c)
    BY <1>9, <1>10, BookIs DEF OrdersInv, Begun
  <1> QED
    BY <1>1, <1>2, <1>13, <1>14, <1>15, <1>16, <1>17, PrimeIs DEF OrdersInv, BookOK

LEMMA CancelOK ==
  ASSUME Book!Assumptions, OrdersInv, NEW i \in Book!Ids, Book!Cancel(i)
  PROVE  OrdersInv' /\ Follows(Book!Book, Book!Book')
  <1>1. PlanOK /\ BookOK(Book!Book) /\ IsBook(Book!Book) /\ orders[i] # None /\ plan' = plan
    BY PlanIs DEF OrdersInv, BookOK, Book!Cancel
  <1>2. PICK c : c = Book!Book'
    OBVIOUS
  <1>3. PICK n : n = plan[i].qty
    OBVIOUS
  <1>4. PICK t : t = Book!Transition(orders[i], "Cancelled")
    OBVIOUS
  <1>5. /\ t \in Book!OrderRecord(n) /\ IsOf(t, orders[i]) /\ t.remaining = orders[i].remaining
        /\ t.triggered = orders[i].triggered /\ t.status = "Cancelled"
    <2>1. orders[i] \in Book!OrderRecord(n) /\ "Cancelled" \in Book!Statuses
      BY <1>1, <1>3, BookIs DEF IsBook, Book!Statuses
    <2>2. Book!Allowed(orders[i].kind, orders[i].status, "Cancelled")
      BY DEF Book!Cancel
    <2> QED
      BY <1>4, <2>1, <2>2, TransitionIs
  <1>6. t # None
    BY <1>1, <1>3, <1>5 DEF PlanOK
  <1>7. /\ c.orders[i] = t /\ \A j \in Book!Ids \ {i} : c.orders[j] = orders[j]
        /\ c.orders = [j \in Book!Ids |-> c.orders[j]] /\ c.told = [j \in Book!Ids |-> c.told[j]]
        /\ c.groups = groups /\ c.moved = moved
        /\ c = [orders |-> c.orders, groups |-> c.groups, told |-> c.told,
                executed |-> c.executed, moved |-> c.moved]
    BY <1>1, <1>2, <1>4, BookIs DEF IsBook, Book!Cancel
  <1>8. IsBook(c)
    <2>1. \A j \in Book!Ids : c.orders[j] = None \/ c.orders[j] \in Book!OrderRecord(plan[j].qty)
      BY <1>1, <1>3, <1>5, <1>7, BookIs DEF IsBook
    <2> QED
      BY <1>1, <1>7, <2>1, BookIs DEF IsBook
  <1>9. ASSUME NEW j \in Book!Ids
        PROVE  /\ KeepsOrder(Book!Book, c, j) /\ GroupFollows(Book!Book, c, j)
               /\ orders[j] # None =>
                    c.orders[j].status = orders[j].status \/ c.orders[j].status = "Cancelled"
    BY <1>1, <1>5, <1>6, <1>7, BookIs DEF KeepsOrder, GroupFollows, IsOf
  <1>10. BookOK(c) /\ Follows(Book!Book, c)
    BY <1>1, <1>7, <1>8, <1>9, BookIs, KeepsOK
  <1>11. ASSUME Book!IsBracketed(plan) PROVE ExitsOK(c)
    <2>1. ExitsOK(Book!Book)
      BY <1>11 DEF OrdersInv
    <2>2. ASSUME NEW j \in Book!Ids PROVE ExitOK(c, j) /\ StopOK(c, j)
      BY <1>7, <1>9, <2>1, BookIs DEF ExitsOK, ExitOK, StopOK, KeepsOrder
    <2>3. ASSUME NEW a \in Book!Ids, NEW j \in Book!Ids PROVE RivalOK(c, a, j)
      BY <1>7, <1>9, <2>1, BookIs DEF ExitsOK, RivalOK, KeepsOrder
    <2> QED
      BY <2>2, <2>3 DEF ExitsOK
  <1>12. Book!IsBracketed(plan) => Begun(c)
    BY <1>7, BookIs DEF OrdersInv, Begun
  <1> QED
    BY <1>1, <1>2, <1>10, <1>11, <1>12, PrimeIs DEF OrdersInv

\* What a snapshot leaves.
LEMMA SnapshotOK ==
  ASSUME Book!Assumptions, OrdersInv, NEW q \in Quotes, Book!Snapshot(q)
  PROVE  /\ OrdersInv' /\ Follows(Book!Book, Book!Book')
         /\ \A i \in Book!Ids : i \notin Book!Candidates => moved'[i] = moved[i]
         /\ Book!IsBracketed(plan) => Armed(Book!Book')
  <1>1. PlanOK /\ BookOK(Book!Book) /\ plan' = plan
    BY PlanIs DEF OrdersInv, Book!Snapshot
  <1>2. PICK c : c = Book!Visited(q)[LastId]
    OBVIOUS
  <1>3. MetOK(c, q)
    BY <1>1, <1>2, VisitsOK
  <1>4. c = Book!Book'
    BY <1>2, <1>3, BookIs DEF Book!Snapshot, MetOK, BookOK, IsBook
  <1>5. Book!IsBracketed(plan) => ExitsOK(c) /\ Begun(c) /\ Armed(c)
    BY <1>3 DEF OrdersInv, MetOK
  <1>6. OrdersInv'
    BY <1>1, <1>3, <1>4, <1>5, PrimeIs DEF OrdersInv, MetOK
  <1>7. moved' = c.moved
    BY <1>4, BookIs
  <1> QED
    BY <1>3, <1>4, <1>5, <1>6, <1>7 DEF MetOK

LEMMA OrdersStep ==
  ASSUME Book!Assumptions, OrdersInv, [Book!Next]_(Book!vars)
  PROVE  OrdersInv'
  <1>1. ASSUME NEW i \in Book!Ids, Book!Place(i) PROVE OrdersInv'
    BY <1>1, PlaceOK
  <1>2. ASSUME NEW i \in Book!Ids, Book!Cancel(i) PROVE OrdersInv'
    BY <1>2, CancelOK
  <1>3. ASSUME NEW q \in Quotes, Book!Snapshot(q) PROVE OrdersInv'
    BY <1>3, SnapshotOK
  <1>4. CASE UNCHANGED Book!vars
    <2>1. plan' = plan /\ Book!Book' = Book!Book
      BY <1>4 DEF Book!vars, Book!Book
    <2> QED
      BY <2>1, PrimeIs DEF OrdersInv
  <1> QED
    BY <1>1, <1>2, <1>3, <1>4 DEF Book!Next

LEMMA OrdersAlways == Book!Spec => []OrdersInv
  <1>1. Book!Init => OrdersInv
    BY OrdersInit, BookAssumption
  <1>2. OrdersInv /\ [Book!Next]_(Book!vars) => OrdersInv'
    BY OrdersStep, BookAssumption
  <1> QED
    BY <1>1, <1>2, PTL DEF Book!Spec

\* An exit never executes before its entry has: it is held until then (place,
\* finalize_fill).
THEOREM EntryAlwaysFirst == Book!Spec => []EntryFirst
  <1>1. OrdersInv => EntryFirst
    <2>1. SUFFICES ASSUME OrdersInv, NEW i \in Book!Ids, plan[i].parent # None, moved[i] > 0
                   PROVE  moved[plan[i].parent] > 0
      BY DEF EntryFirst, Book!EntryFirst
    <2>2. PlanOK /\ OrderOK(Book!Book, i) /\ moved \in [Book!Ids -> Nat]
      BY <2>1, BookAssumption, PlanIs, BookIs DEF OrdersInv, BookOK, IsBook
    <2>3. plan[i].parent \in Book!Ids
      BY <2>1, <2>2 DEF PlanOK, Book!PlaceOrderReq
    <2>4. moved[plan[i].parent] # 0
      BY <2>1, <2>2, BookIs DEF OrderOK
    <2> QED
      BY <2>2, <2>3, <2>4
  <1> QED
    BY <1>1, OrdersAlways, PTL

\* An order executes whole or not at all, however often snapshots meet it
\* (finalize_fill).
THEOREM FillsAlwaysOnce == Book!Spec => []FillsOnce
  <1>1. OrdersInv => FillsOnce
    <2>1. SUFFICES ASSUME OrdersInv, NEW i \in Book!Ids PROVE moved[i] \in {0, plan[i].qty}
      BY DEF FillsOnce, Book!FillsOnce
    <2>2. OrderOK(Book!Book, i)
      BY <2>1 DEF OrdersInv, BookOK
    <2> QED
      BY <2>2, BookIs DEF OrderOK
  <1> QED
    BY <1>1, OrdersAlways, PTL

\* Of the exits of a bracket no more than one executes: the fill of one cancels
\* the other, and no snapshot meets the prices of both (finalize_fill).
THEOREM OneExitAlways ==
  ASSUME \A p \in Plans : Book!IsBracketed(p) PROVE Book!Spec => []OneExitUnlessLatched
  <1>1. OrdersInv => OneExitUnlessLatched
    <2>1. SUFFICES ASSUME OrdersInv, NEW p \in Book!Ids,
                          \A i \in Book!Exits(p) : plan[i].kind # "StopLimit",
                          NEW i \in Book!Exits(p), NEW j \in Book!Exits(p), i # j
                   PROVE  FALSE
      BY DEF OneExitUnlessLatched, Book!OneExitUnlessLatched
    <2>2. /\ i \in Book!Ids /\ j \in Book!Ids /\ moved[i] > 0 /\ moved[j] > 0
          /\ plan[i].parent = p /\ plan[j].parent = p /\ p # None
      BY BookAssumption DEF Book!Exits, Book!Assumptions
    <2>3. RivalOK(Book!Book, i, j) /\ Rivals(i, j)
      BY <2>1, <2>2 DEF OrdersInv, ExitsOK, Rivals
    <2> QED
      BY <2>2, <2>3, BookIs DEF RivalOK
  <1> QED
    BY <1>1, OrdersAlways, PTL

\* What is cancelled before a snapshot neither executes nor comes back
\* (on_market_snapshot).
THEOREM CancelledAlwaysStays == Book!Spec => CancelledStays
  <1>1. OrdersInv /\ [Book!Next]_(Book!vars) =>
          [\A i \in Book!Placed :
             orders[i].status = "Cancelled" =>
               moved'[i] = moved[i] /\ orders'[i].status = "Cancelled"]_(Book!vars)
    <2>1. SUFFICES ASSUME OrdersInv, Book!Next, NEW i \in Book!Placed,
                          orders[i].status = "Cancelled"
                   PROVE  moved'[i] = moved[i] /\ orders'[i].status = "Cancelled"
      OBVIOUS
    <2>2. i \in Book!Ids /\ orders[i] # None /\ orders = [j \in Book!Ids |-> orders[j]]
      BY <2>1, BookIs DEF Book!Placed, OrdersInv, BookOK, IsBook
    <2>3. ASSUME NEW j \in Book!Ids, Book!Place(j)
          PROVE  moved'[i] = moved[i] /\ orders'[i].status = "Cancelled"
      <3>1. i # j
        BY <2>2, <2>3 DEF Book!Place
      <3> QED
        BY <2>1, <2>2, <2>3, <3>1 DEF Book!Place
    <2>4. ASSUME NEW j \in Book!Ids, Book!Cancel(j)
          PROVE  moved'[i] = moved[i] /\ orders'[i].status = "Cancelled"
      <3>1. Follows(Book!Book, Book!Book')
        BY <2>1, <2>4, BookAssumption, CancelOK
      <3> QED
        BY <2>1, <2>2, <2>4, <3>1, BookIs DEF Follows, OrderFollows, Book!Cancel
    <2>5. ASSUME NEW q \in Quotes, Book!Snapshot(q)
          PROVE  moved'[i] = moved[i] /\ orders'[i].status = "Cancelled"
      <3>1. Follows(Book!Book, Book!Book') /\ (i \notin Book!Candidates => moved'[i] = moved[i])
        BY <2>1, <2>2, <2>5, BookAssumption, SnapshotOK
      <3>2. i \notin Book!Candidates
        BY <2>1 DEF Book!Candidates
      <3> QED
        BY <2>1, <2>2, <3>1, <3>2, BookIs DEF Follows, OrderFollows
    <2> QED
      BY <2>1, <2>3, <2>4, <2>5 DEF Book!Next
  <1> QED
    BY <1>1, OrdersAlways, PTL DEF Book!Spec, CancelledStays, Book!CancelledStays

\* The fill of an entry leaves none of the exits it has inactive (finalize_fill).
THEOREM ExitsAlwaysArmed ==
  ASSUME \A p \in Plans : Book!IsBracketed(p) PROVE Book!Spec => ExitsArmed
  <1>1. OrdersInv /\ [Book!Next]_(Book!vars) =>
          [\A i \in Book!Placed :
             LET p == plan[i].parent IN
             p # None /\ moved[p] = 0 /\ moved'[p] > 0
               => orders'[i].status # "Inactive"]_(Book!vars)
    <2>1. SUFFICES ASSUME OrdersInv, Book!Next, NEW i \in Book!Placed, plan[i].parent # None,
                          moved[plan[i].parent] = 0, moved'[plan[i].parent] > 0
                   PROVE  orders'[i].status # "Inactive"
      OBVIOUS
    <2>2. i \in Book!Ids /\ orders[i] # None
      BY DEF Book!Placed
    <2>3. ~(moved' = moved)
      BY <2>1
    <2>4. PICK q \in Quotes : Book!Snapshot(q)
      BY <2>1, <2>3 DEF Book!Next, Book!Place, Book!Cancel
    <2>5. Book!IsBracketed(plan) => Armed(Book!Book')
      BY <2>1, <2>4, BookAssumption, SnapshotOK
    <2>6. Book!IsBracketed(plan)
      BY <2>1 DEF OrdersInv
    <2> QED
      BY <2>1, <2>2, <2>5, <2>6, BookIs DEF Armed
  <1> QED
    BY <1>1, OrdersAlways, PTL DEF Book!Spec, ExitsArmed, Book!ExitsArmed
=============================================================================
