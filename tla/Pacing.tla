------------------------------ MODULE Pacing ------------------------------
(***************************************************************************)
(* PacingGovernor::acquire_historical, the client's own limit on           *)
(* historical requests (crates/midas-broker/src/ib/pacing.rs).             *)
(*                                                                         *)
(* A call reads when its key was last granted, then takes a token from the *)
(* bucket of all requests and one from the bucket of its key.  It may      *)
(* sleep before each of the three, and each bucket is a Mutex of its own,  *)
(* so that calls interleave between them.                                  *)
(*                                                                         *)
(* Time is discrete.  A bucket of capacity cap refilled over period gains  *)
(* cap / period tokens per tick: its level counts parts of 1/period of a   *)
(* token, so that one token is period parts, a tick adds cap parts, and    *)
(* no fraction is lost.                                                    *)
(***************************************************************************)
EXTENDS Naturals, Sequences, FiniteSets

CONSTANTS
  Callers,      \* tasks that fetch history
  Keys,         \* IdenticalKeys
  Cap,          \* historical_max_in_10min
  Period,       \* the 10 minutes its bucket refills in
  Burst,        \* identical_burst
  BurstPeriod,  \* the 2 seconds the bucket of a key refills in
  Cooldown,     \* identical_cooldown
  MaxWait,      \* max_queue_wait
  Never,        \* no consumption yet
  MaxClock      \* bound: no call begins after this instant

ASSUME RatesAssumption ==
  /\ Cap \in Nat \ {0} /\ Period \in Nat \ {0}
  /\ Burst \in Nat \ {0} /\ BurstPeriod \in Nat \ {0}
ASSUME WaitsAssumption == Cooldown \in Nat /\ MaxWait \in Nat /\ MaxClock \in Nat
ASSUME NeverAssumption == Never \notin Nat

VARIABLES
  now,       \* the instant
  policy,    \* config.on_violation, fixed when the governor is built
  total,     \* historical_total
  perKey,    \* historical_per_key: a full bucket is as good as none
  consumed,  \* per key: last_consume of its bucket
  call,      \* per caller: where its call is, and until when it sleeps
  taken,     \* history: the instants of the tokens taken from `total'
  sent       \* history: the calls that returned Ok, with their instants

vars == <<now, policy, total, perKey, consumed, call, taken, sent>>

\* A call about to take the token of a stage, the first time or `again', no
\* earlier than `wake'.  `slept' adds up its sleeps and is read by no step.
Call(stage, k, w, d) == [stage |-> stage, key |-> k, wake |-> w, slept |-> d]
Idle == Call("idle", Never, 0, 0)
Stages == {"total", "total_again", "key", "key_again"}

Init ==
  /\ now = 0
  /\ policy \in {"queue", "reject"}
  /\ total = [level |-> Cap * Period, at |-> 0]
  /\ perKey = [k \in Keys |-> [level |-> Burst * BurstPeriod, at |-> 0]]
  /\ consumed = [k \in Keys |-> Never]
  /\ call = [c \in Callers |-> Idle]
  /\ taken = <<>>
  /\ sent = <<>>

-----------------------------------------------------------------------------
(* TokenBucket *)

Least(a, b) == IF a < b THEN a ELSE b

\* Mutant: the refill is not capped.
Overflowing(b, cap, period) == b.level + (now - b.at) * cap

\* The level of a bucket once refilled up to now.
Refilled(b, cap, period) == Least(b.level + (now - b.at) * cap, cap * period)

HasToken(b, cap, period) == Refilled(b, cap, period) >= period

\* The bucket after a try_acquire that succeeds, and after one that fails.
Less(b, cap, period) == [level |-> Refilled(b, cap, period) - period, at |-> now]
Same(b, cap, period) == [level |-> Refilled(b, cap, period), at |-> now]

\* The wait hint, in whole ticks: a sleep ends no earlier than asked for.
Hint(b, cap, period) == (period - Refilled(b, cap, period) + cap - 1) \div cap

-----------------------------------------------------------------------------
(* acquire_historical *)

\* Mutant: a key is asked for again as soon as the bucket lets it.
NeverCools(k) == 0

\* What is left of the cooldown of a key.
CoolingLeft(k) ==
  IF consumed[k] = Never \/ now - consumed[k] >= Cooldown
  THEN 0 ELSE Cooldown - (now - consumed[k])

\* The policy allows a wait as long as this.
Waits(d) == policy = "queue" /\ d <= MaxWait

At(c, stages) == call[c].stage \in stages /\ now >= call[c].wake
Proceed(c, stage) == call' = [call EXCEPT ![c].stage = stage]
Return(c) == call' = [call EXCEPT ![c] = Idle]

\* sleep(d), then another attempt.
Sleep(c, d, stage) ==
  call' = [call EXCEPT ![c].stage = stage, ![c].wake = now + d, ![c].slept = @ + d]

\* The test of the identical cooldown.  A call refused by it changes nothing.
Begin(c, k) ==
  /\ call[c] = Idle /\ now < MaxClock
  /\ CoolingLeft(k) = 0 \/ Waits(CoolingLeft(k))
  /\ call' = [call EXCEPT ![c] = Call("total", k, now + CoolingLeft(k), CoolingLeft(k))]
  /\ UNCHANGED <<now, policy, total, perKey, consumed, taken, sent>>

\* consume_bucket on the bucket of all requests: one attempt, and under the
\* policy Queue a second one after a sleep.
TakeTotal(c) ==
  /\ At(c, {"total", "total_again"})
  /\ HasToken(total, Cap, Period)
  /\ total' = Less(total, Cap, Period)
  /\ taken' = Append(taken, now)
  /\ Proceed(c, "key")
  /\ UNCHANGED <<now, policy, perKey, consumed, sent>>

MissTotal(c) ==
  /\ At(c, {"total", "total_again"})
  /\ ~HasToken(total, Cap, Period)
  /\ total' = Same(total, Cap, Period)
  /\ IF call[c].stage = "total" /\ Waits(Hint(total, Cap, Period))
     THEN Sleep(c, Hint(total, Cap, Period), "total_again")
     ELSE Return(c)
  /\ UNCHANGED <<now, policy, perKey, consumed, taken, sent>>

\* consume_bucket on the bucket of the key; its success is the call's.
TakeKey(c) ==
  LET k == call[c].key IN
  /\ At(c, {"key", "key_again"})
  /\ HasToken(perKey[k], Burst, BurstPeriod)
  /\ perKey' = [perKey EXCEPT ![k] = Less(@, Burst, BurstPeriod)]
  /\ consumed' = [consumed EXCEPT ![k] = now]
  /\ sent' = Append(sent, [key |-> k, at |-> now])
  /\ Return(c)
  /\ UNCHANGED <<now, policy, total, taken>>

MissKey(c) ==
  LET k == call[c].key IN
  /\ At(c, {"key", "key_again"})
  /\ ~HasToken(perKey[k], Burst, BurstPeriod)
  /\ perKey' = [perKey EXCEPT ![k] = Same(@, Burst, BurstPeriod)]
  /\ IF call[c].stage = "key" /\ Waits(Hint(perKey[k], Burst, BurstPeriod))
     THEN Sleep(c, Hint(perKey[k], Burst, BurstPeriod), "key_again")
     ELSE Return(c)
  /\ UNCHANGED <<now, policy, total, consumed, taken, sent>>

\* A task may run at any time after it could go on.
Tick ==
  /\ now < MaxClock \/ \E c \in Callers : now < call[c].wake
  /\ now' = now + 1
  /\ UNCHANGED <<policy, total, perKey, consumed, call, taken, sent>>

Next ==
  \/ Tick
  \/ \E c \in Callers : \/ \E k \in Keys : Begin(c, k)
                        \/ TakeTotal(c) \/ MissTotal(c)
                        \/ TakeKey(c) \/ MissKey(c)

Spec == Init /\ [][Next]_vars

-----------------------------------------------------------------------------
(* Properties *)

Buckets(cap, period) == [level : 0..(cap * period), at : 0..now]

\* The types of the governor's state; no token count is negative or above the
\* capacity of its bucket.
TypeOK ==
  /\ now \in Nat
  /\ policy \in {"queue", "reject"}
  /\ total \in Buckets(Cap, Period)
  /\ perKey \in [Keys -> Buckets(Burst, BurstPeriod)]
  /\ consumed \in [Keys -> (0..now) \cup {Never}]
  /\ call \in [Callers -> {Idle} \cup
                   [stage : Stages, key : Keys, wake : Nat, slept : Nat]]
  /\ taken \in Seq(0..now)
  /\ sent \in Seq([key : Keys, at : 0..now])

\* The bucket lets any stretch of time have the tokens it started with and
\* those it gained, and no more: between the token i and the token j at most
\* Cap + Cap * (time between them) / Period are taken, however the callers
\* interleave (TokenBucket::try_acquire).
WindowBound ==
  \A i \in 1..Len(taken) : \A j \in i..Len(taken) :
    (j - i + 1) * Period <= Cap * Period + Cap * (taken[j] - taken[i])

\* A call sleeps at most max_queue_wait for each of the three limits, and
\* never twice for the same one (acquire_historical, consume_bucket).
SleepBounded == \A c \in Callers : call[c].slept <= 3 * MaxWait

\* What a documentation line promises of max_queue_wait: the whole call waits
\* no longer than that.
WaitWithinMax == \A c \in Callers : call[c].slept <= MaxWait

\* What the governor is for: no more than Cap requests in a window of Period.
RollingWindow ==
  \A i \in 1..Len(sent) : \A j \in i..Len(sent) :
    sent[j].at - sent[i].at < Period => j - i + 1 <= Cap

\* Two requests for the same key are Cooldown apart (the identical cooldown of
\* acquire_historical).
IdenticalApart ==
  \A i, j \in 1..Len(sent) :
    i < j /\ sent[i].key = sent[j].key => sent[j].at - sent[i].at >= Cooldown

\* Every token taken from the bucket of all requests is spent on a request that
\* is sent, or on one whose call still waits for its key: what passes the
\* cooldown is not refused by the bucket of its key (acquire_historical).
TokensAreSpent ==
  Len(taken) = Len(sent)
               + Cardinality({c \in Callers : call[c].stage \in {"key", "key_again"}})
=============================================================================
