---------------------------- MODULE TickerStore ----------------------------
(***************************************************************************)
(* TickerStatePersistHandle: the write-behind store of the per-symbol      *)
(* ticker states (midas-app/src/ticker_state/persist.rs), over redb.       *)
(*                                                                         *)
(* Callers write to a cache in memory and mark what they wrote as dirty;   *)
(* a flush thread drains the marks and commits the rows in one             *)
(* transaction.  Cache and marks have a lock each, which no operation      *)
(* holds together except re_mark_dirty, so that callers and thread         *)
(* interleave between them.  The process may stop at any point; what a     *)
(* commit returned for is kept (Durability::Immediate).                    *)
(*                                                                         *)
(* A state is known by the number of the upsert that wrote it.  The flag   *)
(* wake and the debounce only say when a pass of the thread begins: it     *)
(* wakes by itself, so here it may begin at any time.                      *)
(***************************************************************************)
EXTENDS Naturals

CONSTANTS
  Symbols,      \* keys of the store
  Callers,      \* threads that hold a clone of the handle
  MaxUpserts,   \* bound: upserts
  MaxFailures,  \* bound: failed transactions
  MaxStops      \* bound: times the process stops

ASSUME BoundsAssumption == MaxUpserts \in Nat /\ MaxFailures \in Nat /\ MaxStops \in Nat

VARIABLES
  up,        \* the process runs and the store is open
  cache,     \* StateCache.cache: symbol -> state, 0 if absent
  dirty,     \* StateCache.dirty
  marking,   \* per caller: the symbol it changed and has not marked yet
  shutdown,  \* FlushCtl.shutdown
  done,      \* FlushCtl.done
  stage,     \* where the flush thread is
  final,     \* is_shutdown of its pass
  taken,     \* the marks drained in this pass
  batch,     \* the rows to write in this pass, 0 if not among them
  lost,      \* the symbols of the last transaction, if it failed
  disk,      \* table ticker_state_v2, 0 if there is no row
  old,       \* table ticker_intent_v1, which nobody writes
  skipped,   \* history: the rows of ticker_state_v2 the last start could not read
  given,     \* number of the last upsert
  promised,  \* history: the cache at the call of shutdown, 0 without promise
  failures,  \* failed transactions
  stops      \* times the process stopped

cacheVars == <<cache, dirty, marking>>
flushVars == <<stage, final, taken, batch, lost>>
tableVars == <<disk, old, skipped>>
bounds == <<given, failures, stops>>
vars == <<up, cacheVars, shutdown, done, flushVars, tableVars, promised, bounds>>

Stages == {"wait", "drain", "read", "write", "remark", "signal", "exited"}
NoRows == [s \in Symbols |-> 0]

TypeOK ==
  /\ up \in BOOLEAN /\ shutdown \in BOOLEAN /\ done \in BOOLEAN /\ final \in BOOLEAN
  /\ cache \in [Symbols -> Nat]
  /\ disk \in [Symbols -> Nat]
  /\ old \in [Symbols -> Nat]
  /\ batch \in [Symbols -> Nat]
  /\ promised \in [Symbols -> Nat]
  /\ dirty \subseteq Symbols /\ taken \subseteq Symbols /\ lost \subseteq Symbols
  /\ skipped \subseteq Symbols
  /\ marking \in [Callers -> SUBSET Symbols]
  /\ stage \in Stages
  /\ given \in Nat /\ failures \in Nat /\ stops \in Nat
  /\ stage \in {"signal", "exited"} => final
  /\ done <=> stage = "exited"

\* The first start with this version: some rows are in the old table, written
\* before any state of the new one.
Init ==
  /\ up = FALSE /\ shutdown = FALSE /\ done = FALSE /\ final = FALSE
  /\ cache = NoRows /\ batch = NoRows /\ disk = NoRows
  /\ old \in [Symbols -> {0, 1}]
  /\ promised = NoRows
  /\ dirty = {} /\ taken = {} /\ lost = {} /\ skipped = {}
  /\ marking = [c \in Callers |-> {}]
  /\ stage = "wait"
  /\ given = 1 /\ failures = 0 /\ stops = 0

-----------------------------------------------------------------------------
\* Mutant: a row of the old table comes before the newer one.
OldFirst(bad, badOld) == [s \in Symbols |-> IF old[s] # 0 /\ s \notin badOld THEN old[s]
                                            ELSE IF s \notin bad THEN disk[s] ELSE 0]

\* hydrate_v2 skips the rows that do not deserialize (bad).  migrate_v1_to_v2
\* then seeds what is not in the cache, skipping in its turn (badOld).
Hydrated(bad, badOld) ==
  [s \in Symbols |-> IF disk[s] # 0 /\ s \notin bad THEN disk[s]
                     ELSE IF s \notin badOld THEN old[s] ELSE 0]

\* open: the whole cache is written if a row was migrated; what is not in the
\* cache keeps its row.  A row may be readable to one start and not to the next
\* (another version of the program).  A failed write makes open fail, which
\* leaves the tables as they were.
Open ==
  /\ ~up
  /\ up' = TRUE
  /\ \E bad, badOld \in SUBSET Symbols :
       /\ cache' = Hydrated(bad, badOld)
       /\ skipped' = {s \in bad : disk[s] # 0}
  /\ disk' = [s \in Symbols |-> IF cache'[s] # 0 THEN cache'[s] ELSE disk[s]]
  /\ UNCHANGED <<dirty, marking, shutdown, done, flushVars, old, promised, bounds>>

\* The process exits or dies: all but the tables is gone.  shutdown_blocking
\* gives up after five seconds, so an orderly exit too may come at any time.
Stop ==
  /\ up
  /\ stops < MaxStops
  /\ stops' = stops + 1
  /\ up' = FALSE /\ shutdown' = FALSE /\ done' = FALSE /\ final' = FALSE
  /\ cache' = NoRows /\ batch' = NoRows
  /\ promised' = NoRows
  /\ dirty' = {} /\ taken' = {} /\ lost' = {}
  /\ marking' = [c \in Callers |-> {}]
  /\ stage' = "wait"
  /\ UNCHANGED <<tableVars, given, failures>>

-----------------------------------------------------------------------------
\* upsert, first lock: the state goes into the cache.
Upsert(c, s) ==
  /\ up
  /\ marking[c] = {}
  /\ given < MaxUpserts
  /\ given' = given + 1
  /\ cache' = [cache EXCEPT ![s] = given + 1]
  /\ marking' = [marking EXCEPT ![c] = {s}]
  /\ UNCHANGED <<up, dirty, shutdown, done, flushVars, tableVars, promised, failures, stops>>

\* forget, first lock: the symbol leaves the cache, if it is there.
Forget(c, s) ==
  /\ up
  /\ marking[c] = {}
  /\ cache[s] # 0
  /\ cache' = [cache EXCEPT ![s] = 0]
  /\ marking' = [marking EXCEPT ![c] = {s}]
  /\ promised' = [promised EXCEPT ![s] = 0]
  /\ UNCHANGED <<up, dirty, shutdown, done, flushVars, tableVars, bounds>>

\* upsert and forget, second lock.
Mark(c) ==
  /\ marking[c] # {}
  /\ dirty' = dirty \cup marking[c]
  /\ marking' = [marking EXCEPT ![c] = {}]
  /\ UNCHANGED <<up, cache, shutdown, done, flushVars, tableVars, promised, bounds>>

\* shutdown and shutdown_blocking set a flag; calling again changes nothing.
\* What the cache held then is promised, but for calls still on their way.
Shutdown ==
  /\ up
  /\ ~shutdown
  /\ shutdown' = TRUE
  /\ promised' = [s \in Symbols |-> IF \E c \in Callers : s \in marking[c] THEN 0 ELSE cache[s]]
  /\ UNCHANGED <<up, cacheVars, done, flushVars, tableVars, bounds>>

-----------------------------------------------------------------------------
\* flush_loop.  A pass begins with a look at shutdown.
StartPass ==
  /\ up
  /\ stage = "wait"
  /\ stage' = "drain"
  /\ final' = shutdown
  /\ UNCHANGED <<up, cacheVars, shutdown, done, taken, batch, lost, tableVars, promised, bounds>>

\* drain_dirty, first lock.
Drain ==
  /\ stage = "drain"
  /\ stage' = "read"
  /\ taken' = dirty
  /\ dirty' = {}
  /\ UNCHANGED <<up, cache, marking, shutdown, done, final, batch, lost,
                 tableVars, promised, bounds>>

\* Mutant: the flag is looked at again when the pass ends.
LatestFlag == IF shutdown THEN "signal" ELSE "wait"

AfterPass == IF final THEN "signal" ELSE "wait"

\* Mutant: the marks are cleared when the cache has been read.
ClearsLate ==
  /\ stage = "read"
  /\ batch' = [s \in Symbols |-> IF s \in taken THEN cache[s] ELSE 0]
  /\ stage' = IF \A s \in taken : cache[s] = 0 THEN AfterPass ELSE "write"
  /\ taken' = {}
  /\ dirty' = {}
  /\ UNCHANGED <<up, cache, marking, shutdown, done, final, lost, tableVars, promised, bounds>>

\* drain_dirty, second lock: symbols that are no longer in the cache have no
\* state to write and are left out.
Read ==
  /\ stage = "read"
  /\ batch' = [s \in Symbols |-> IF s \in taken THEN cache[s] ELSE 0]
  /\ stage' = IF \A s \in taken : cache[s] = 0 THEN AfterPass ELSE "write"
  /\ taken' = {}
  /\ UNCHANGED <<up, cacheVars, shutdown, done, final, lost, tableVars, promised, bounds>>

\* write_batch_to_v2: one transaction, which inserts and never removes.
Write ==
  /\ stage = "write"
  /\ stage' = AfterPass
  /\ disk' = [s \in Symbols |-> IF batch[s] # 0 THEN batch[s] ELSE disk[s]]
  /\ batch' = NoRows
  /\ lost' = {}
  /\ UNCHANGED <<up, cacheVars, shutdown, done, final, taken, old, skipped, promised, bounds>>

\* The transaction fails as a whole.
WriteFails ==
  /\ stage = "write"
  /\ failures < MaxFailures
  /\ failures' = failures + 1
  /\ stage' = "remark"
  /\ lost' = {s \in Symbols : batch[s] # 0}
  /\ UNCHANGED <<up, cacheVars, shutdown, done, final, taken, batch,
                 tableVars, promised, given, stops>>

\* Mutant: what a failed transaction held is given up.
GivesUp ==
  /\ stage = "remark"
  /\ stage' = AfterPass
  /\ batch' = NoRows
  /\ UNCHANGED <<up, cacheVars, shutdown, done, final, taken, lost, tableVars, promised, bounds>>

\* re_mark_dirty, under both locks.
ReMark ==
  /\ stage = "remark"
  /\ stage' = AfterPass
  /\ dirty' = dirty \cup {s \in Symbols : batch[s] # 0 /\ cache[s] # 0}
  /\ batch' = NoRows
  /\ UNCHANGED <<up, cache, marking, shutdown, done, final, taken, lost,
                 tableVars, promised, bounds>>

\* The last pass is over, whatever became of it.
Signal ==
  /\ stage = "signal"
  /\ stage' = "exited"
  /\ done' = TRUE
  /\ UNCHANGED <<up, cacheVars, shutdown, final, taken, batch, lost, tableVars, promised, bounds>>

FlushStep == StartPass \/ Drain \/ Read \/ Write \/ WriteFails \/ ReMark \/ Signal

Next ==
  \/ Open \/ Stop \/ Shutdown \/ FlushStep
  \/ \E c \in Callers : Mark(c) \/ \E s \in Symbols : Upsert(c, s) \/ Forget(c, s)

Spec == Init /\ [][Next]_vars

\* The operating system runs every thread that can go on.
Fairness == WF_vars(FlushStep) /\ \A c \in Callers : WF_vars(Mark(c))

FairSpec == Spec /\ Fairness

-----------------------------------------------------------------------------
Unsaved(s) == cache[s] # 0 /\ cache[s] # disk[s]

\* The thread, or a caller in the middle of a call, still knows of s.
Pending(s) ==
  \/ s \in dirty
  \/ stage = "read" /\ s \in taken
  \/ stage \in {"write", "remark"} /\ batch[s] = cache[s]
  \/ \E c \in Callers : s \in marking[c]

\* No update is lost between the two locks: while the store is open, a state
\* that is not on disk is marked, in the batch, or about to be marked (upsert,
\* drain_dirty, re_mark_dirty).
UnsavedIsPending == \A s \in Symbols : Unsaved(s) => Pending(s)

\* A row is never replaced by an older state, by a late or repeated batch or by
\* a migration at a later start (flush_loop, migrate_v1_to_v2), but in one case:
\* a start that cannot read the row takes that of the old table.
NeverGoesBack ==
  [][\A s \in Symbols : disk'[s] < disk[s] => ~up /\ s \in skipped' /\ disk'[s] = old[s]]_vars

\* What the comments of migrate_v1_to_v2 say: it only seeds what is not there,
\* so that a row of ticker_state_v2 takes priority.  A row that could not be
\* read is there, and is replaced by the older one.
NewTableWins == [][\A s \in Symbols : disk'[s] >= disk[s]]_vars

\* When shutdown_blocking has seen the thread finish, every state that was
\* in the store at the call is on disk, unless the last transaction failed.
ClosedIsSaved == done => \A s \in Symbols : promised[s] <= disk[s] \/ s \in lost

\* While the store stays open and its callers pause, which MaxUpserts makes
\* them do, the table catches up with the cache, in spite of failures and of
\* updates that come while a batch is written (flush_loop).
EventuallySaved == []<>(~up \/ shutdown \/ \A s \in Symbols : ~Unsaved(s))
=============================================================================
