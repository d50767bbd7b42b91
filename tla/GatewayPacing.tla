---------------------------- MODULE GatewayPacing ----------------------------
(***************************************************************************)
(* The pacing of historical requests by the IB gateway simulator           *)
(* (midas-ib-sim: quirks/historical_pacing.rs), for one session: the guard *)
(* keeps a window of what it admitted and the last time of each key, prunes*)
(* both on every check, and forgets the session when it disconnects.  Time *)
(* is the virtual clock of the engine.                                     *)
(***************************************************************************)
EXTENDS Integers, Sequences, FiniteSets, Functions

CONSTANTS
  \* The requests: a contract, its symbol and exchange, and the rest of what
  \* the pacing looks at (what_to_show and bar_size).
  Requests,
  Limit, Window, Burst, BurstWindow, Cooldown,   \* PacingParams
  MaxTime                                        \* the clock stops there

\* What an instance of this module gives its constants.
Assumptions ==
  /\ \A r \in Requests : {"contract", "symbol", "exchange", "show", "bar"} = DOMAIN r
  /\ Limit \in Nat \ {0} /\ Burst \in Nat \ {0}
  /\ {Window, BurstWindow, Cooldown, MaxTime} \subseteq Nat

VARIABLES
  now,         \* the clock
  window,      \* SessionState::window
  windowCost,  \* SessionState::window_cost
  cooldown,    \* SessionState::identical_cooldown
  admitted,    \* history: all that was admitted since the session connected
  verdict      \* the answer to the last request
vars == <<now, window, windowCost, cooldown, admitted, verdict>>

\* RequestKey::from.
KeyOf(r) == [symbol |-> r.symbol, exchange |-> r.exchange, show |-> r.show, bar |-> r.bar]
CostOf(r) == IF r.show = "BID_ASK" THEN 2 ELSE 1

\* Mutant: an entry leaves when it is as old as the window.
KeptEarly == {i \in DOMAIN window : \E j \in 1 .. i : now - window[j].at < Window}
\* prune_window: entries leave from the front of the window, with their cost.
Kept == {i \in DOMAIN window : \E j \in 1 .. i : now - window[j].at <= Window}
Dropped == DOMAIN window \ Kept
Pruned == SubSeq(window, Cardinality(Dropped) + 1, Len(window))
\* The cost of entries, counted unit by unit.
CostOfEntries(S) == Cardinality(UNION {{i} \X (1 .. window[i].cost) : i \in S})
CostDropped == CostOfEntries(Dropped)
CostLeft == IF CostDropped > windowCost THEN 0 ELSE windowCost - CostDropped
Cooling == Restrict(cooldown, {k \in DOMAIN cooldown : now - cooldown[k] <= Cooldown})

Init ==
  /\ now = 0 /\ window = <<>> /\ windowCost = 0 /\ cooldown = <<>>
  /\ admitted = <<>> /\ verdict = "none"

\* The three regimes in the order of check.
Answer(r) ==
  LET key == KeyOf(r)
      burst == {i \in DOMAIN Pruned : Pruned[i].key = key /\ now - Pruned[i].at < BurstWindow}
  IN IF CostLeft + CostOf(r) > Limit THEN "window"
     ELSE IF Cardinality(burst) >= Burst THEN "burst"
     ELSE IF key \in DOMAIN Cooling /\ now - cooldown[key] < Cooldown THEN "cooldown"
     ELSE "admitted"

Check(r) ==
  /\ verdict' = Answer(r)
  /\ IF Answer(r) = "admitted"
     THEN /\ window' = Append(Pruned, [at |-> now, key |-> KeyOf(r), cost |-> CostOf(r)])
          /\ windowCost' = CostLeft + CostOf(r)
          /\ cooldown' = [k \in DOMAIN Cooling \cup {KeyOf(r)} |->
                            IF k = KeyOf(r) THEN now ELSE cooldown[k]]
          /\ admitted' = Append(admitted, [at |-> now, req |-> r])
     ELSE /\ window' = Pruned /\ windowCost' = CostLeft /\ cooldown' = Cooling
          /\ UNCHANGED admitted
  /\ UNCHANGED now

\* forget_session, when the session disconnects.
Forget ==
  /\ window' = <<>> /\ windowCost' = 0 /\ cooldown' = <<>>
  /\ admitted' = <<>> /\ verdict' = "none" /\ UNCHANGED now

Tick ==
  /\ now < MaxTime /\ now' = now + 1 /\ verdict' = "none"
  /\ UNCHANGED <<window, windowCost, cooldown, admitted>>

Next == (\E r \in Requests : Check(r)) \/ Forget \/ Tick

Spec == Init /\ [][Next]_vars

-----------------------------------------------------------------------------
\* Every variable has its type.
TypeOK ==
  /\ now \in 0 .. MaxTime /\ windowCost \in 0 .. Limit
  /\ \A i \in DOMAIN window : window[i].at \in 0 .. now /\ window[i].cost \in {1, 2}
  /\ \A k \in DOMAIN cooldown : cooldown[k] \in 0 .. now
  /\ \A i \in DOMAIN admitted : admitted[i].at \in 0 .. now /\ admitted[i].req \in Requests
  /\ verdict \in {"none", "admitted", "window", "burst", "cooldown"}

\* A session keeps the keys of one cooldown and the requests of one window,
\* and nothing besides ("leak memory one entry per unique request"): every
\* key was admitted, and the cost is that of what is kept.
KeepsWhatCounts ==
  /\ windowCost = CostOfEntries(DOMAIN window)
  /\ verdict # "none" =>
       /\ \A i \in DOMAIN window : now - window[i].at <= Window
       /\ \A k \in DOMAIN cooldown : now - cooldown[k] <= Cooldown

\* What the guard answers from its pruned window is what the rules say of
\* everything that was admitted: pruning forgets nothing that counts and
\* holds on to nothing that does not.
Rule == INSTANCE PacingRule
ImplementsRule == Rule!Spec

\* Only requests for the "same contract/exchange/tickType/barSize" are
\* identical (the module's documentation): a cooldown is refused after such a
\* request.  The key leaves out what tells two options or futures of a symbol apart.
IdenticalMeansSame ==
  [][\A r \in Requests : Check(r) /\ verdict' = "cooldown"
        => \E i \in DOMAIN admitted : /\ now - admitted[i].at < Cooldown
                                      /\ admitted[i].req = r]_vars

=============================================================================
