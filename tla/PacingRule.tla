----------------------------- MODULE PacingRule -----------------------------
(***************************************************************************)
(* What IB's pacing of historical requests is about, over everything that  *)
(* was ever admitted: no more than Limit in a rolling window, no more than *)
(* Burst identical ones in a short one, and identical ones a cooldown      *)
(* apart.  GatewayPacing decides the same from what it has kept.           *)
(***************************************************************************)
EXTENDS Naturals, Sequences, FiniteSets

CONSTANTS Requests, KeyOf(_), CostOf(_), Limit, Window, Burst, BurstWindow, Cooldown, MaxTime

VARIABLES
  now,       \* the clock
  admitted,  \* the requests admitted since the session connected, and when
  verdict    \* of the last request
vars == <<now, admitted, verdict>>

Since(span) == {i \in DOMAIN admitted : now - admitted[i].at < span}
\* What they cost, counted unit by unit.
SpentIn(span) == Cardinality(UNION {{i} \X (1 .. CostOf(admitted[i].req)) : i \in Since(span)})
Alike(span, r) == {i \in Since(span) : KeyOf(admitted[i].req) = KeyOf(r)}

\* The first regime that r breaks.
Refusal(r) ==
  IF SpentIn(Window + 1) + CostOf(r) > Limit THEN "window"
  ELSE IF Cardinality(Alike(BurstWindow, r)) >= Burst THEN "burst"
  ELSE IF Alike(Cooldown, r) # {} THEN "cooldown"
  ELSE "admitted"

Init == now = 0 /\ admitted = <<>> /\ verdict = "none"

Check(r) ==
  /\ verdict' = Refusal(r)
  /\ admitted' = IF Refusal(r) = "admitted" THEN Append(admitted, [at |-> now, req |-> r])
                                            ELSE admitted
  /\ UNCHANGED now

Forget == admitted' = <<>> /\ verdict' = "none" /\ UNCHANGED now
Tick == now < MaxTime /\ now' = now + 1 /\ verdict' = "none" /\ UNCHANGED admitted

Next == (\E r \in Requests : Check(r)) \/ Forget \/ Tick
Spec == Init /\ [][Next]_vars
=============================================================================
