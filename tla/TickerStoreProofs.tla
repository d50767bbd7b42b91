------------------------- MODULE TickerStoreProofs -------------------------
(***************************************************************************)
(* What TickerStore promises, for any number of symbols, callers, upserts, *)
(* failures and stops.                                                     *)
(***************************************************************************)
EXTENDS TickerStore, TLAPS

\* What is on disk is never newer than a batch, a batch never newer than the
\* cache, and nothing newer than the last upsert.
RowOrder(s) ==
  /\ cache[s] <= given /\ disk[s] <= given /\ old[s] <= given /\ batch[s] <= given
  /\ cache[s] # 0 => disk[s] <= cache[s]
  /\ batch[s] # 0 => disk[s] <= batch[s]
  /\ batch[s] # 0 /\ cache[s] # 0 => batch[s] <= cache[s]
  /\ ~up => cache[s] = 0 /\ batch[s] = 0

\* Where a promised state that is not on disk is, stage by stage.  In the final
\* pass a mark that comes after the drain does not help it any more.
OnItsWay(s) ==
  /\ stage \in {"wait", "drain"} => s \in dirty
  /\ stage = "read" => s \in taken \/ (~final /\ s \in dirty)
  /\ stage = "write" => batch[s] >= promised[s] \/ (~final /\ s \in dirty)
  /\ stage = "remark" => (batch[s] >= promised[s] /\ s \in lost) \/ (~final /\ s \in dirty)
  /\ stage \in {"signal", "exited"} => s \in lost

PromiseKept(s) ==
  /\ ~shutdown => promised[s] = 0
  /\ promised[s] > disk[s] => cache[s] >= promised[s] /\ OnItsWay(s)

StageOK ==
  /\ shutdown => up
  /\ final => shutdown
  /\ \A s \in Symbols : stage = "remark" /\ batch[s] # 0 => s \in lost

IInv ==
  /\ TypeOK
  /\ UnsavedIsPending
  /\ StageOK
  /\ \A s \in Symbols : RowOrder(s) /\ PromiseKept(s)

-----------------------------------------------------------------------------
(* The steps preserve the invariant *)

\* A start: what is in the cache is on disk, whatever rows could not be read.
LEMMA OpenInv == ASSUME IInv, Open PROVE IInv'
  <1>0. /\ ~up /\ up' /\ cache' \in [Symbols -> Nat] /\ skipped' \subseteq Symbols
        /\ disk' = [s \in Symbols |-> IF cache'[s] # 0 THEN cache'[s] ELSE disk[s]]
        /\ \A s \in Symbols : cache'[s] \in {0, disk[s], old[s]}
        /\ UNCHANGED <<dirty, marking, shutdown, done, stage, final, taken, batch, lost, old,
                       promised, given, failures, stops>>
    BY DEF IInv, TypeOK, Open, Hydrated, flushVars, bounds
  <1>1. TypeOK'
    BY <1>0 DEF IInv, TypeOK, StageOK, Stages
  <1>2. StageOK'
    BY <1>0 DEF IInv, TypeOK, StageOK
  <1>3. ASSUME NEW t \in Symbols PROVE RowOrder(t)'
    BY <1>0 DEF IInv, TypeOK, RowOrder
  <1>4. ASSUME NEW t \in Symbols PROVE PromiseKept(t)'
    BY <1>0 DEF IInv, TypeOK, StageOK, UnsavedIsPending, Unsaved, Pending, RowOrder, PromiseKept,
           OnItsWay
  <1>5. UnsavedIsPending'
    BY <1>0 DEF IInv, TypeOK, UnsavedIsPending, Unsaved, Pending, RowOrder
  <1> QED
    BY <1>1, <1>2, <1>3, <1>4, <1>5 DEF IInv

\* A stop empties memory.
LEMMA StopInv == ASSUME IInv, Stop PROVE IInv'
  <1>1. TypeOK'
    <2>1. (done <=> stage = "exited")'
      BY DEF Stop
    <2>2. (marking \in [Callers -> SUBSET Symbols])'
      BY DEF Stop
    <2>3. (/\ promised \in [Symbols -> Nat]
           /\ cache \in [Symbols -> Nat] /\ batch \in [Symbols -> Nat])'
      BY DEF Stop, NoRows
    <2>4. (dirty \subseteq Symbols /\ taken \subseteq Symbols /\ lost \subseteq Symbols)'
      BY DEF Stop
    <2>5. (stage \in Stages /\ (stage \in {"signal", "exited"} => final))'
      BY DEF Stop, Stages
    <2>6. (up \in BOOLEAN /\ shutdown \in BOOLEAN /\ done \in BOOLEAN /\ final \in BOOLEAN)'
      BY DEF Stop
    <2>7. (disk \in [Symbols -> Nat] /\ old \in [Symbols -> Nat] /\ skipped \subseteq Symbols)'
      BY DEF IInv, TypeOK, Stop, tableVars
    <2>8. (given \in Nat /\ failures \in Nat /\ stops \in Nat)'
      BY DEF IInv, TypeOK, Stop
    <2> QED
      BY <2>1, <2>2, <2>3, <2>4, <2>5, <2>6, <2>7, <2>8, Zenon DEF TypeOK
  <1>2. StageOK'
    BY DEF IInv, TypeOK, StageOK, Stop, NoRows, cacheVars, flushVars, tableVars, bounds
  <1>3. ASSUME NEW t \in Symbols PROVE RowOrder(t)'
    BY DEF IInv, TypeOK, RowOrder, Stop, NoRows, cacheVars, flushVars, tableVars, bounds
  <1>4. ASSUME NEW t \in Symbols PROVE PromiseKept(t)'
    BY DEF IInv, TypeOK, StageOK, UnsavedIsPending, Unsaved, Pending, RowOrder, PromiseKept,
           OnItsWay,
           Stop, NoRows, cacheVars, flushVars, tableVars, bounds
  <1>5. UnsavedIsPending'
    BY DEF IInv, TypeOK, UnsavedIsPending, Unsaved, Pending, RowOrder, Stop, NoRows, cacheVars,
           flushVars, tableVars, bounds
  <1> QED
    BY <1>1, <1>2, <1>3, <1>4, <1>5 DEF IInv

\* The state in the cache is newer than any other, and about to be marked.
LEMMA UpsertInv == ASSUME IInv, NEW c \in Callers, NEW s \in Symbols, Upsert(c, s) PROVE IInv'
  <1>1. TypeOK'
    BY DEF IInv, TypeOK, StageOK, Stages, Upsert, cacheVars, flushVars, tableVars, bounds
  <1>2. StageOK'
    BY DEF IInv, TypeOK, StageOK, Upsert, cacheVars, flushVars, tableVars, bounds
  <1>3. ASSUME NEW t \in Symbols PROVE RowOrder(t)'
    BY DEF IInv, TypeOK, RowOrder, Upsert, cacheVars, flushVars, tableVars, bounds
  <1>4. ASSUME NEW t \in Symbols PROVE PromiseKept(t)'
    BY DEF IInv, TypeOK, StageOK, UnsavedIsPending, Unsaved, Pending, RowOrder, PromiseKept,
           OnItsWay,
           Upsert, cacheVars, flushVars, tableVars, bounds
  <1>5. UnsavedIsPending'
    BY DEF IInv, TypeOK, UnsavedIsPending, Unsaved, Pending, RowOrder, Upsert, cacheVars,
           flushVars, tableVars, bounds
  <1> QED
    BY <1>1, <1>2, <1>3, <1>4, <1>5 DEF IInv

\* A forgotten symbol has no state that could be unsaved.
LEMMA ForgetInv == ASSUME IInv, NEW c \in Callers, NEW s \in Symbols, Forget(c, s) PROVE IInv'
  <1>1. TypeOK'
    BY DEF IInv, TypeOK, StageOK, Stages, Forget, cacheVars, flushVars, tableVars, bounds
  <1>2. StageOK'
    BY DEF IInv, TypeOK, StageOK, Forget, cacheVars, flushVars, tableVars, bounds
  <1>3. ASSUME NEW t \in Symbols PROVE RowOrder(t)'
    BY DEF IInv, TypeOK, RowOrder, Forget, cacheVars, flushVars, tableVars, bounds
  <1>4. ASSUME NEW t \in Symbols PROVE PromiseKept(t)'
    BY DEF IInv, TypeOK, StageOK, UnsavedIsPending, Unsaved, Pending, RowOrder, PromiseKept,
           OnItsWay,
           Forget, cacheVars, flushVars, tableVars, bounds
  <1>5. UnsavedIsPending'
    BY DEF IInv, TypeOK, UnsavedIsPending, Unsaved, Pending, RowOrder, Forget, cacheVars,
           flushVars, tableVars, bounds
  <1> QED
    BY <1>1, <1>2, <1>3, <1>4, <1>5 DEF IInv

\* The mark is set.
LEMMA MarkInv == ASSUME IInv, NEW c \in Callers, Mark(c) PROVE IInv'
  <1>1. TypeOK'
    BY DEF IInv, TypeOK, StageOK, Stages, Mark, cacheVars, flushVars, tableVars, bounds
  <1>2. StageOK'
    BY DEF IInv, TypeOK, StageOK, Mark, cacheVars, flushVars, tableVars, bounds
  <1>3. ASSUME NEW t \in Symbols PROVE RowOrder(t)'
    BY DEF IInv, TypeOK, RowOrder, Mark, cacheVars, flushVars, tableVars, bounds
  <1>4. ASSUME NEW t \in Symbols PROVE PromiseKept(t)'
    BY DEF IInv, TypeOK, StageOK, UnsavedIsPending, Unsaved, Pending, RowOrder, PromiseKept,
           OnItsWay,
           Mark, cacheVars, flushVars, tableVars, bounds
  <1>5. UnsavedIsPending'
    BY DEF IInv, TypeOK, UnsavedIsPending, Unsaved, Pending, RowOrder, Mark, cacheVars,
           flushVars, tableVars, bounds
  <1> QED
    BY <1>1, <1>2, <1>3, <1>4, <1>5 DEF IInv

\* The promises are made: what is unsaved then is on its way.
LEMMA ShutdownInv == ASSUME IInv, Shutdown PROVE IInv'
  <1>1. TypeOK'
    BY DEF IInv, TypeOK, StageOK, Stages, Shutdown, cacheVars, flushVars, tableVars, bounds
  <1>2. StageOK'
    BY DEF IInv, TypeOK, StageOK, Shutdown, cacheVars, flushVars, tableVars, bounds
  <1>3. ASSUME NEW t \in Symbols PROVE RowOrder(t)'
    BY DEF IInv, TypeOK, RowOrder, Shutdown, cacheVars, flushVars, tableVars, bounds
  <1>4. ASSUME NEW t \in Symbols PROVE PromiseKept(t)'
    BY DEF IInv, TypeOK, StageOK, UnsavedIsPending, Unsaved, Pending, RowOrder, PromiseKept,
           OnItsWay,
           Shutdown, cacheVars, flushVars, tableVars, bounds
  <1>5. UnsavedIsPending'
    BY DEF IInv, TypeOK, UnsavedIsPending, Unsaved, Pending, RowOrder, Shutdown, cacheVars,
           flushVars, tableVars, bounds
  <1> QED
    BY <1>1, <1>2, <1>3, <1>4, <1>5 DEF IInv

\* A pass begins.
LEMMA StartPassInv == ASSUME IInv, StartPass PROVE IInv'
  <1>1. TypeOK'
    BY DEF IInv, TypeOK, StageOK, Stages, StartPass, cacheVars, flushVars, tableVars, bounds
  <1>2. StageOK'
    BY DEF IInv, TypeOK, StageOK, StartPass, cacheVars, flushVars, tableVars, bounds
  <1>3. ASSUME NEW t \in Symbols PROVE RowOrder(t)'
    BY DEF IInv, TypeOK, RowOrder, StartPass, cacheVars, flushVars, tableVars, bounds
  <1>4. ASSUME NEW t \in Symbols PROVE PromiseKept(t)'
    BY DEF IInv, TypeOK, StageOK, UnsavedIsPending, Unsaved, Pending, RowOrder, PromiseKept,
           OnItsWay,
           StartPass, cacheVars, flushVars, tableVars, bounds
  <1>5. UnsavedIsPending'
    BY DEF IInv, TypeOK, UnsavedIsPending, Unsaved, Pending, RowOrder, StartPass, cacheVars,
           flushVars, tableVars, bounds
  <1> QED
    BY <1>1, <1>2, <1>3, <1>4, <1>5 DEF IInv

\* The marks are taken.
LEMMA DrainInv == ASSUME IInv, Drain PROVE IInv'
  <1>1. TypeOK'
    BY DEF IInv, TypeOK, StageOK, Stages, Drain, cacheVars, flushVars, tableVars, bounds
  <1>2. StageOK'
    BY DEF IInv, TypeOK, StageOK, Drain, cacheVars, flushVars, tableVars, bounds
  <1>3. ASSUME NEW t \in Symbols PROVE RowOrder(t)'
    BY DEF IInv, TypeOK, RowOrder, Drain, cacheVars, flushVars, tableVars, bounds
  <1>4. ASSUME NEW t \in Symbols PROVE PromiseKept(t)'
    BY DEF IInv, TypeOK, StageOK, UnsavedIsPending, Unsaved, Pending, RowOrder, PromiseKept,
           OnItsWay,
           Drain, cacheVars, flushVars, tableVars, bounds
  <1>5. UnsavedIsPending'
    BY DEF IInv, TypeOK, UnsavedIsPending, Unsaved, Pending, RowOrder, Drain, cacheVars,
           flushVars, tableVars, bounds
  <1> QED
    BY <1>1, <1>2, <1>3, <1>4, <1>5 DEF IInv

\* The rows of the taken symbols are copied.
LEMMA ReadInv == ASSUME IInv, Read PROVE IInv'
  <1>1. TypeOK'
    BY DEF IInv, TypeOK, StageOK, Stages, Read, AfterPass, cacheVars, flushVars, tableVars, bounds
  <1>2. StageOK'
    BY DEF IInv, TypeOK, StageOK, Read, AfterPass, cacheVars, flushVars, tableVars, bounds
  <1>3. ASSUME NEW t \in Symbols PROVE RowOrder(t)'
    BY DEF IInv, TypeOK, RowOrder, Read, AfterPass, cacheVars, flushVars, tableVars, bounds
  <1>4. ASSUME NEW t \in Symbols PROVE PromiseKept(t)'
    BY DEF IInv, TypeOK, StageOK, UnsavedIsPending, Unsaved, Pending, RowOrder, PromiseKept,
           OnItsWay,
           Read, AfterPass, cacheVars, flushVars, tableVars, bounds
  <1>5. UnsavedIsPending'
    BY DEF IInv, TypeOK, UnsavedIsPending, Unsaved, Pending, RowOrder, Read, AfterPass,
           cacheVars, flushVars, tableVars, bounds
  <1> QED
    BY <1>1, <1>2, <1>3, <1>4, <1>5 DEF IInv

\* The batch is on disk: no row of it is older than what it replaces.
LEMMA WriteInv == ASSUME IInv, Write PROVE IInv'
  <1>1. TypeOK'
    BY DEF IInv, TypeOK, StageOK, Stages, Write, AfterPass, NoRows, cacheVars, flushVars,
           tableVars, bounds
  <1>2. StageOK'
    BY DEF IInv, TypeOK, StageOK, Write, AfterPass, NoRows, cacheVars, flushVars, tableVars, bounds
  <1>3. ASSUME NEW t \in Symbols PROVE RowOrder(t)'
    BY DEF IInv, TypeOK, RowOrder, Write, AfterPass, NoRows, cacheVars, flushVars, tableVars, bounds
  <1>4. ASSUME NEW t \in Symbols PROVE PromiseKept(t)'
    BY DEF IInv, TypeOK, StageOK, UnsavedIsPending, Unsaved, Pending, RowOrder, PromiseKept,
           OnItsWay,
           Write, AfterPass, NoRows, cacheVars, flushVars, tableVars, bounds
  <1>5. UnsavedIsPending'
    BY DEF IInv, TypeOK, UnsavedIsPending, Unsaved, Pending, RowOrder, Write, AfterPass, NoRows,
           cacheVars, flushVars, tableVars, bounds
  <1> QED
    BY <1>1, <1>2, <1>3, <1>4, <1>5 DEF IInv

\* The transaction fails.
LEMMA WriteFailsInv == ASSUME IInv, WriteFails PROVE IInv'
  <1>1. TypeOK'
    BY DEF IInv, TypeOK, StageOK, Stages, WriteFails, cacheVars, flushVars, tableVars, bounds
  <1>2. StageOK'
    BY DEF IInv, TypeOK, StageOK, WriteFails, cacheVars, flushVars, tableVars, bounds
  <1>3. ASSUME NEW t \in Symbols PROVE RowOrder(t)'
    BY DEF IInv, TypeOK, RowOrder, WriteFails, cacheVars, flushVars, tableVars, bounds
  <1>4. ASSUME NEW t \in Symbols PROVE PromiseKept(t)'
    BY DEF IInv, TypeOK, StageOK, UnsavedIsPending, Unsaved, Pending, RowOrder, PromiseKept,
           OnItsWay,
           WriteFails, cacheVars, flushVars, tableVars, bounds
  <1>5. UnsavedIsPending'
    BY DEF IInv, TypeOK, UnsavedIsPending, Unsaved, Pending, RowOrder, WriteFails, cacheVars,
           flushVars, tableVars, bounds
  <1> QED
    BY <1>1, <1>2, <1>3, <1>4, <1>5 DEF IInv

\* What was not written is marked again.
LEMMA ReMarkInv == ASSUME IInv, ReMark PROVE IInv'
  <1>1. TypeOK'
    BY DEF IInv, TypeOK, StageOK, Stages, ReMark, AfterPass, NoRows, cacheVars, flushVars,
           tableVars, bounds
  <1>2. StageOK'
    BY DEF IInv, TypeOK, StageOK, ReMark, AfterPass, NoRows, cacheVars, flushVars, tableVars, bounds
  <1>3. ASSUME NEW t \in Symbols PROVE RowOrder(t)'
    BY DEF IInv, TypeOK, RowOrder, ReMark, AfterPass, NoRows, cacheVars, flushVars, tableVars,
           bounds
  <1>4. ASSUME NEW t \in Symbols PROVE PromiseKept(t)'
    BY DEF IInv, TypeOK, StageOK, UnsavedIsPending, Unsaved, Pending, RowOrder, PromiseKept,
           OnItsWay,
           ReMark, AfterPass, NoRows, cacheVars, flushVars, tableVars, bounds
  <1>5. UnsavedIsPending'
    BY DEF IInv, TypeOK, UnsavedIsPending, Unsaved, Pending, RowOrder, ReMark, AfterPass, NoRows,
           cacheVars, flushVars, tableVars, bounds
  <1> QED
    BY <1>1, <1>2, <1>3, <1>4, <1>5 DEF IInv

\* The thread ends.
LEMMA SignalInv == ASSUME IInv, Signal PROVE IInv'
  <1>1. TypeOK'
    BY DEF IInv, TypeOK, StageOK, Stages, Signal, cacheVars, flushVars, tableVars, bounds
  <1>2. StageOK'
    BY DEF IInv, TypeOK, StageOK, Signal, cacheVars, flushVars, tableVars, bounds
  <1>3. ASSUME NEW t \in Symbols PROVE RowOrder(t)'
    BY DEF IInv, TypeOK, RowOrder, Signal, cacheVars, flushVars, tableVars, bounds
  <1>4. ASSUME NEW t \in Symbols PROVE PromiseKept(t)'
    BY DEF IInv, TypeOK, StageOK, UnsavedIsPending, Unsaved, Pending, RowOrder, PromiseKept,
           OnItsWay,
           Signal, cacheVars, flushVars, tableVars, bounds
  <1>5. UnsavedIsPending'
    BY DEF IInv, TypeOK, UnsavedIsPending, Unsaved, Pending, RowOrder, Signal, cacheVars,
           flushVars, tableVars, bounds
  <1> QED
    BY <1>1, <1>2, <1>3, <1>4, <1>5 DEF IInv

-----------------------------------------------------------------------------
(* The theorems *)

LEMMA InitInv == Init => IInv
  <1> SUFFICES ASSUME Init PROVE IInv
    OBVIOUS
  <1>1. done <=> stage = "exited"
    BY DEF Init
  <1>2. marking \in [Callers -> SUBSET Symbols]
    BY DEF Init
  <1>3. promised \in [Symbols -> Nat] /\ cache \in [Symbols -> Nat] /\ disk \in [Symbols -> Nat]
        /\ old \in [Symbols -> Nat] /\ batch \in [Symbols -> Nat]
    BY DEF Init, NoRows
  <1>4. dirty \subseteq Symbols /\ taken \subseteq Symbols /\ lost \subseteq Symbols
        /\ skipped \subseteq Symbols
    BY DEF Init
  <1>5. given \in Nat /\ failures \in Nat /\ stops \in Nat
    BY DEF Init
  <1>6. stage \in Stages /\ (stage \in {"signal", "exited"} => final)
    BY DEF Init, Stages
  <1>7. up \in BOOLEAN /\ shutdown \in BOOLEAN /\ done \in BOOLEAN /\ final \in BOOLEAN
    BY DEF Init
  <1>8. TypeOK
    BY <1>1, <1>2, <1>3, <1>4, <1>5, <1>6, <1>7, Zenon DEF TypeOK
  <1>9. UnsavedIsPending
    BY DEF Init, NoRows, UnsavedIsPending, Unsaved
  <1>10. StageOK /\ \A s \in Symbols : RowOrder(s) /\ PromiseKept(s)
    BY DEF Init, NoRows, StageOK, RowOrder, PromiseKept
  <1> QED
    BY <1>8, <1>9, <1>10 DEF IInv

LEMMA StutterInv == ASSUME IInv, UNCHANGED vars PROVE IInv'
  <1> USE DEF vars, cacheVars, flushVars, tableVars, bounds
  <1>1. TypeOK' /\ StageOK'
    BY DEF IInv, TypeOK, StageOK
  <1>2. UnsavedIsPending'
    BY DEF IInv, UnsavedIsPending, Unsaved, Pending
  <1>3. ASSUME NEW t \in Symbols PROVE RowOrder(t)' /\ PromiseKept(t)'
    BY DEF IInv, RowOrder, PromiseKept, OnItsWay
  <1> QED
    BY <1>1, <1>2, <1>3 DEF IInv

LEMMA NextInv == IInv /\ [Next]_vars => IInv'
  <1> SUFFICES ASSUME IInv, [Next]_vars PROVE IInv'
    OBVIOUS
  <1>1. CASE Open
    BY <1>1, OpenInv
  <1>2. CASE Stop
    BY <1>2, StopInv
  <1>3. CASE Shutdown
    BY <1>3, ShutdownInv
  <1>4. CASE FlushStep
    BY <1>4, StartPassInv, DrainInv, ReadInv, WriteInv, WriteFailsInv, ReMarkInv,
           SignalInv DEF FlushStep
  <1>5. CASE \E c \in Callers : Mark(c) \/ \E s \in Symbols : Upsert(c, s) \/ Forget(c, s)
    BY <1>5, MarkInv, UpsertInv, ForgetInv
  <1>6. CASE UNCHANGED vars
    BY <1>6, StutterInv
  <1> QED
    BY <1>1, <1>2, <1>3, <1>4, <1>5, <1>6 DEF Next

LEMMA Invariant == Spec => []IInv
  BY InitInv, NextInv, PTL DEF Spec

\* The variables have their types, and the thread is done when it has ended.
THEOREM TypeCorrect == Spec => []TypeOK
  <1>1. IInv => TypeOK
    BY DEF IInv
  <1> QED
    BY <1>1, Invariant, PTL

\* No update is lost between the locks of upsert, drain_dirty and re_mark_dirty.
THEOREM NothingForgotten == Spec => []UnsavedIsPending
  <1>1. IInv => UnsavedIsPending
    BY DEF IInv
  <1> QED
    BY <1>1, Invariant, PTL

\* An orderly shutdown leaves on disk what was in the store when it was called.
THEOREM ShutdownSaves == Spec => []ClosedIsSaved
  <1>1. ASSUME IInv, done, NEW s \in Symbols PROVE promised[s] <= disk[s] \/ s \in lost
    <2>1. stage = "exited"
      BY <1>1, Zenon DEF IInv, TypeOK
    <2> QED
      BY <1>1, <2>1 DEF IInv, TypeOK, PromiseKept, OnItsWay
  <1>2. IInv => ClosedIsSaved
    BY <1>1 DEF ClosedIsSaved
  <1> QED
    BY <1>2, Invariant, PTL

\* Rows on disk only ever get newer, across failures, stops and starts, but for
\* a start that could not read a row and took that of the old table.
THEOREM RowsGetNewer == Spec => NeverGoesBack
  <1> DEFINE WentBack(s) == ~up /\ s \in skipped' /\ disk'[s] = old[s]
  <1>1. IInv /\ [Next]_vars =>
          [\A s \in Symbols : disk'[s] < disk[s] => WentBack(s)]_vars
    <2> SUFFICES ASSUME IInv, Next, NEW s \in Symbols, disk'[s] < disk[s]
                 PROVE  WentBack(s)
      OBVIOUS
    <2> USE DEF IInv, TypeOK, RowOrder
    <2>1. CASE Open
      <3>1. PICK bad, badOld \in SUBSET Symbols :
              cache' = Hydrated(bad, badOld) /\ skipped' = {t \in bad : disk[t] # 0}
        BY <2>1 DEF Open
      <3>2. disk'[s] = IF cache'[s] # 0 THEN cache'[s] ELSE disk[s]
        BY <2>1 DEF Open
      <3>3. disk'[s] = cache'[s] /\ cache'[s] # 0 /\ cache'[s] # disk[s] /\ disk[s] # 0
        BY <3>1, <3>2 DEF Hydrated
      <3>4. s \in bad /\ cache'[s] = old[s]
        BY <3>1, <3>3 DEF Hydrated
      <3> QED
        BY <2>1, <3>1, <3>3, <3>4 DEF Open
    <2>2. CASE Write
      BY <2>2 DEF Write
    <2>3. CASE UNCHANGED disk
      BY <2>3
    <2> QED
      BY <2>1, <2>2, <2>3 DEF Next, FlushStep, Stop, Shutdown, StartPass, Drain, Read,
             WriteFails, ReMark,
         Signal, Mark, Upsert, Forget, tableVars
  <1> QED
    BY <1>1, Invariant, PTL DEF Spec, NeverGoesBack
=============================================================================
