------------------------ MODULE BracketSubmitProofs ------------------------
(***************************************************************************)
(* What bracket submission keeps, for any number of brackets of any shape, *)
(* any configuration of the client and any movement of the price, and that *)
(* it implements BracketLife.                                              *)
(***************************************************************************)
EXTENDS BracketSubmit, FiniteSetTheorems, TLAPS

Exits == {"tp", "sl"}
Active == {"Working", "Triggered"}

\* Only legs of the bracket are placed, in their order, and what has been placed
\* and not been rejected is linked.
LegsPlaced(b) ==
  /\ \A leg \in Legs : Status(b, leg) # "none" => Has(b, leg)
  /\ \A leg \in Exits : Status(b, leg) \notin {"none", "Rejected"} => <<b, leg>> \in links
  /\ pc[b] \in {"idle", "entry"} => \A leg \in Legs : Status(b, leg) = "none"
  /\ pc[b] \in Legs => Has(b, pc[b])

\* Until the last leg is placed, all orders are held.
HeldTogether(b) ==
  pc[b] \in {"idle"} \cup Legs =>
    \A leg \in Legs : Status(b, leg) \in {"none", "Held", "Rejected"}

\* Exits are armed only with their entry, and a take-profit works only after it.
EntryFirstOK(b) ==
  /\ Status(b, "entry") # "Triggered"
  /\ Status(b, "tp") \in {"Working", "Filled"} => Status(b, "entry") = "Filled"
  /\ \A leg \in Exits : Status(b, leg) \in Active => Status(b, "entry") \in {"Working", "Filled"}
  /\ Status(b, "entry") = "Working" /\ params[b].kind = "Market" => config.timing # "instant"

\* Once an exit has filled the other is out of the book.
OneExit(b) ==
  \A leg, other \in Exits :
    leg # other /\ Status(b, leg) = "Filled" =>
      Status(b, other) # "Filled" /\ ~IsLive(Status(b, other))

\* The last leg is in the book when anything of the bracket goes to work.
LastLegPlaced(b) ==
  \A last \in LegsOf(b) :
    /\ Following(b, last, "done") = "done"
    /\ \E leg \in Legs : Status(b, leg) \in Active \cup {"Filled"}
    => Status(b, last) \notin {"none", "Rejected"}

\* What cancel_bracket has passed is out of the book.
Passed(b) ==
  CASE canceller[b] = "tp" -> {"entry"}
    [] canceller[b] = "sl" -> {"entry", "tp"}
    [] canceller[b] = "done" -> Legs
    [] OTHER -> {}

CancelProgress(b) ==
  canceller[b] # "none" =>
    /\ pc[b] = "done"
    /\ b \notin lost => \A leg \in Passed(b) : ~IsLive(Status(b, leg))

BracketOK(b) ==
  /\ LegsPlaced(b) /\ HeldTogether(b) /\ EntryFirstOK(b) /\ OneExit(b) /\ LastLegPlaced(b)
  /\ CancelProgress(b)

IInv == TypeOK /\ \A b \in Brackets : BracketOK(b)

-----------------------------------------------------------------------------
(* What the calls of the client do to the statuses *)

OrderRecords == [status : Statuses, at : Prices \cup {0}]

LEMMA BookTypes ==
  ASSUME TypeOK
  PROVE  /\ orders \in [Ids -> OrderRecords]
         /\ links \subseteq {i \in Ids : IsChild(i)}
         /\ orderCount \in Nat
         /\ params \in [Brackets -> BracketParams]
         /\ config \in SimOrderConfig
  BY MenuAssumption, ConfigsAssumption DEF TypeOK, BookTypeOK, OrderRecords

LEMMA KindsOfLegs ==
  ASSUME TypeOK, NEW b \in Brackets
  PROVE  /\ Kind(<<b, "entry">>) = params[b].kind
         /\ Kind(<<b, "tp">>) = "Limit" /\ Kind(<<b, "tp">>) \notin SlKinds
         /\ Kind(<<b, "sl">>) # "Limit" /\ Kind(<<b, "sl">>) \in SlKinds
         /\ \A leg \in Legs : <<b, leg>> \in Ids
         /\ \A leg \in Legs : IsChild(<<b, leg>>) <=> leg \in Exits
  <1>1. params[b].slKind \in SlKinds
    BY BookTypes DEF BracketParams
  <1> QED
    BY <1>1 DEF Kind, SlKinds, Ids, Legs, IsChild, Exits

LEMMA CancelEffect ==
  ASSUME TypeOK, NEW b \in Brackets, NEW leg \in Legs, CancelOrder(<<b, leg>>)
  PROVE  /\ orders' \in [Ids -> OrderRecords]
         /\ UNCHANGED <<config, params, links, orderCount>>
         /\ \A c \in Brackets, l \in Legs :
              Status(c, l)' = IF /\ c = b /\ IsLive(Status(b, leg)) /\ IsLive(Status(c, l))
                                 /\ l = leg \/ (leg = "entry" /\ <<b, l>> \in links)
                              THEN "Cancelled" ELSE Status(c, l)
  <1> DEFINE i == <<b, leg>>
             S == {i} \cup Children(i)
  <1>1. orders \in [Ids -> OrderRecords] /\ links \subseteq {j \in Ids : IsChild(j)}
    BY BookTypes
  <1>2. UNCHANGED <<config, params, links, orderCount>>
    BY DEF CancelOrder
  <1>3. CASE ~IsLive(orders[i].status)
    BY <1>1, <1>2, <1>3 DEF CancelOrder, Status
  <1>4. CASE IsLive(orders[i].status)
    <2>1. orders' = [j \in Ids |->
                       IF j \in S /\ IsLive(orders[j].status)
                       THEN [status |-> "Cancelled", at |-> orders[j].at] ELSE orders[j]]
      BY <1>4, <1>1 DEF CancelOrder, CancelAll, Sets
    <2>2. orders' \in [Ids -> OrderRecords]
      BY <2>1, <1>1 DEF OrderRecords, Statuses
    <2>3. ASSUME NEW c \in Brackets, NEW l \in Legs
          PROVE  <<c, l>> \in S <=> c = b /\ (l = leg \/ (leg = "entry" /\ <<b, l>> \in links))
      BY <1>1 DEF Children, Entry, IsChild, Legs
    <2>4. ASSUME NEW c \in Brackets, NEW l \in Legs
          PROVE  Status(c, l)' = IF /\ c = b /\ IsLive(Status(b, leg)) /\ IsLive(Status(c, l))
                                    /\ l = leg \/ (leg = "entry" /\ <<b, l>> \in links)
                                 THEN "Cancelled" ELSE Status(c, l)
      <3>1. <<c, l>> \in Ids
        BY DEF Ids
      <3> HIDE DEF S
      <3> QED
        BY <2>1, <2>3, <3>1, <1>4 DEF Status
    <2> QED
      BY <1>2, <2>2, <2>4
  <1> QED
    BY <1>3, <1>4

\* An order of the bracket is rejected, held, or held and activates the bracket.
PlacedRejected(b, leg) ==
  /\ Status(b, leg)' = "Rejected"
  /\ \A l \in Legs : l # leg => Status(b, l)' = Status(b, l)

PlacedHeld(b, leg) ==
  /\ Status(b, leg)' = "Held"
  /\ \A l \in Legs : l # leg => Status(b, l)' = Status(b, l)

\* What the statuses would be without the activation.
Before(b, leg, l) == IF l = leg THEN "Held" ELSE Status(b, l)

PlacedActivates(b, leg) ==
  /\ Before(b, leg, "entry") = "Held"
  /\ Status(b, "entry")' \in {"Working", "Filled"}
  /\ Status(b, "entry")' = "Working" /\ params[b].kind = "Market" => config.timing # "instant"
  /\ \A l \in Exits :
       IF <<b, l>> \in links' /\ Before(b, leg, l) = "Held"
       THEN Status(b, l)' = IF l = "tp" /\ Status(b, "entry")' = "Filled"
                            THEN "Working" ELSE "Triggered"
       ELSE Status(b, l)' = Before(b, leg, l)

LEMMA PlaceEffect ==
  ASSUME TypeOK, NEW b \in Brackets, NEW leg \in Legs, NEW transmit \in BOOLEAN,
         PlaceOrder(<<b, leg>>, transmit)
  PROVE  /\ orders' \in [Ids -> OrderRecords]
         /\ links' \subseteq {i \in Ids : IsChild(i)}
         /\ orderCount' \in Nat
         /\ UNCHANGED <<config, params>>
         /\ Status(b, leg) = "none"
         /\ \A c \in Brackets \ {b}, l \in Legs : Status(c, l)' = Status(c, l)
         /\ links \subseteq links'
         /\ \/ Rejects /\ PlacedRejected(b, leg)
            \/ /\ PlacedHeld(b, leg)
               /\ leg \in Exits => <<b, leg>> \in links'
            \/ /\ transmit
               /\ PlacedActivates(b, leg)
               /\ leg \in Exits => <<b, leg>> \in links'
  <1> DEFINE i == <<b, leg>>
             e == <<b, "entry">>
  <1>1. /\ orders \in [Ids -> OrderRecords] /\ links \subseteq {j \in Ids : IsChild(j)}
        /\ params[b] \in BracketParams /\ params \in [Brackets -> BracketParams]
        /\ config \in SimOrderConfig /\ orderCount \in Nat
    BY BookTypes
  <1>2. /\ Entry(i) = e /\ e \in Ids /\ i \in Ids
        /\ \A c \in Brackets, l \in Legs : <<c, l>> \in Ids
    BY DEF Entry, Ids, Legs
  <1>3. UNCHANGED <<config, params>> /\ Status(b, leg) = "none"
    BY DEF PlaceOrder, Status
  <1>4. orderCount' \in Nat
    <2>1. config.rejectEvery \in Nat
      BY <1>1 DEF SimOrderConfig
    <2> QED
      BY <1>1, <2>1 DEF PlaceOrder, NextCount
  <1>5. SpecPrice(i) \in Prices \cup {0}
    BY <1>1 DEF SpecPrice, BracketParams, Legs
  <1>6. CASE Rejects
    <2>1. /\ links' = links
          /\ orders' = [orders EXCEPT ![i] = [status |-> "Rejected", at |-> SpecPrice(i)]]
      BY <1>6 DEF PlaceOrder, Added
    <2>2. orders' \in [Ids -> OrderRecords]
      BY <2>1, <1>1, <1>2, <1>5 DEF OrderRecords, Statuses
    <2>3. /\ PlacedRejected(b, leg)
          /\ \A c \in Brackets \ {b}, l \in Legs : Status(c, l)' = Status(c, l)
      BY <2>1, <1>1, <1>2 DEF Status, PlacedRejected
    <2> QED
      BY <2>1, <2>2, <2>3, <1>1, <1>3, <1>4, <1>6
  <1>7. CASE ~Rejects
    <2> DEFINE held == Added(i, "Held")
               kids == Children(e) \cup LinksOf(i)
    <2>1. /\ links' = links \cup LinksOf(i)
          /\ orders' = IF transmit THEN Activate(held, kids, e) ELSE held
      BY <1>7, <1>2 DEF PlaceOrder
    <2>2. held = [orders EXCEPT ![i] = [status |-> "Held", at |-> SpecPrice(i)]]
      BY DEF Added
    <2> HIDE DEF held
    <2>3. held \in [Ids -> OrderRecords]
      BY <2>2, <1>1, <1>2, <1>5 DEF OrderRecords, Statuses
    <2>4. /\ \A c \in Brackets \ {b}, l \in Legs : held[<<c, l>>] = orders[<<c, l>>]
          /\ \A l \in Legs : held[<<b, l>>].status = Before(b, leg, l)
      <3>1. \A j \in Ids : held[j] = IF j = i THEN [status |-> "Held", at |-> SpecPrice(i)]
                                     ELSE orders[j]
        BY <2>2, <1>1
      <3> QED
        BY <3>1, <1>2 DEF Status, Before
    <2>5. /\ links' \subseteq {j \in Ids : IsChild(j)} /\ links \subseteq links'
          /\ leg \in Exits => <<b, leg>> \in links'
      BY <2>1, <1>1, <1>2, KindsOfLegs DEF LinksOf
    <2>6. \A l \in Exits : <<b, l>> \in kids <=> <<b, l>> \in links'
      BY <2>1, <1>2 DEF Children, Entry, IsChild, LinksOf, Exits
    <2>7. \A j \in kids : j[1] = b /\ IsChild(j)
      BY <1>1, <1>2 DEF Children, Entry, LinksOf
    <2> HIDE DEF kids
    <2>8. CASE ~transmit \/ held[e].status # "Held"
      <3>1. orders' = held
        BY <2>1, <2>8 DEF Activate
      <3>2. PlacedHeld(b, leg) /\ \A c \in Brackets \ {b}, l \in Legs : Status(c, l)' = Status(c, l)
        BY <3>1, <2>4, <1>2 DEF PlacedHeld, Status, Before
      <3> QED
        BY <3>1, <3>2, <2>3, <2>5, <1>3, <1>4
    <2>9. CASE transmit /\ held[e].status = "Held"
      <3> DEFINE p == Submit(held, e)
      <3>1. p = [j \in Ids |->
                   IF j = e
                   THEN [status |-> IF Kind(e) = "Market" /\ config.timing = "instant"
                                    THEN "Filled" ELSE "Working",
                         at |-> held[j].at]
                   ELSE held[j]]
        BY DEF Submit, Sets
      <3>2. p \in [Ids -> OrderRecords]
        BY <3>1, <2>3 DEF OrderRecords, Statuses
      <3>3. orders' = [j \in Ids |->
                         IF j \in kids /\ held[j].status = "Held"
                         THEN [status |-> Armed(p, j), at |-> held[j].at] ELSE p[j]]
        BY <2>1, <2>9 DEF Activate
      <3>4. \A j : Armed(p, j) \in Statuses
        BY DEF Armed, Statuses
      <3> HIDE DEF p
      <3>5. orders' \in [Ids -> OrderRecords]
        BY <3>2, <3>3, <3>4, <2>3 DEF OrderRecords
      <3>6. \A c \in Brackets \ {b}, l \in Legs : Status(c, l)' = Status(c, l)
        BY <3>1, <3>3, <2>4, <2>7, <1>2 DEF Status
      <3>7. Status(b, "entry")' = p[e].status
        BY <3>3, <2>7, <1>2 DEF Status, IsChild
      <3>8. ASSUME NEW l \in Exits
            PROVE  IF <<b, l>> \in links' /\ Before(b, leg, l) = "Held"
                   THEN Status(b, l)' = IF l = "tp" /\ Status(b, "entry")' = "Filled"
                                        THEN "Working" ELSE "Triggered"
                   ELSE Status(b, l)' = Before(b, leg, l)
        <4>1. l \in Legs /\ <<b, l>> \in Ids /\ <<b, l>> # e /\ Entry(<<b, l>>) = e
          BY <1>2 DEF Exits, Legs, Entry
        <4>2. Armed(p, <<b, l>>) = IF l = "tp" /\ p[e].status = "Filled"
                                   THEN "Working" ELSE "Triggered"
          BY <4>1, KindsOfLegs DEF Armed, Exits
        <4>3. p[<<b, l>>] = held[<<b, l>>]
          BY <4>1, <3>1
        <4> QED
          BY <4>1, <4>2, <4>3, <3>3, <3>7, <2>4, <2>6 DEF Status
      <3>9. /\ p[e].status \in {"Working", "Filled"}
            /\ p[e].status = "Working" /\ params[b].kind = "Market" => config.timing # "instant"
        BY <3>1, <1>2, KindsOfLegs
      <3>10. PlacedActivates(b, leg)
        BY <3>7, <3>8, <3>9, <2>4, <2>9 DEF PlacedActivates, Legs
      <3> QED
        BY <3>5, <3>6, <3>10, <2>5, <2>9, <1>3, <1>4
    <2> QED
      BY <2>8, <2>9
  <1> QED
    BY <1>6, <1>7

\* A price: the entry or the take-profit may fill, which takes the linked stop
\* out; then the stop may go to work or fill, which takes the take-profit out.
EntryHit(b, p) ==
  /\ Status(b, "entry") = "Working" /\ params[b].kind = "Limit"
  /\ IF params[b].side = "Buy" THEN p <= orders[<<b, "entry">>].at
     ELSE p >= orders[<<b, "entry">>].at

StopHit(b, p) ==
  IF params[b].side = "Buy" THEN p <= orders[<<b, "sl">>].at ELSE p >= orders[<<b, "sl">>].at

\* The statuses of exits after the limits.
TpThen(b, hit) == IF hit THEN "Filled" ELSE Status(b, "tp")
SlThen(b, hit) ==
  IF hit /\ <<b, "sl">> \in links /\ IsLive(Status(b, "sl")) THEN "Cancelled"
  ELSE Status(b, "sl")

MarketMovesBracket(b, p) ==
  \E hit, fired \in BOOLEAN :
    /\ hit => Status(b, "tp") = "Working"
    /\ fired => SlThen(b, hit) = "Triggered" /\ StopHit(b, p)
    /\ Status(b, "entry")' = IF EntryHit(b, p) THEN "Filled" ELSE Status(b, "entry")
    /\ Status(b, "sl")' \in IF fired THEN {"Filled"}
                            ELSE {SlThen(b, hit)} \cup
                                 (IF SlThen(b, hit) = "Triggered" THEN {"Working"} ELSE {})
    /\ Status(b, "tp")' = IF /\ fired /\ <<b, "tp">> \in links
                             /\ IsLive(TpThen(b, hit))
                          THEN "Cancelled" ELSE TpThen(b, hit)

LEMMA SiblingsOfLegs ==
  ASSUME TypeOK, NEW b \in Brackets
  PROVE  /\ OcaOf(<<b, "entry">>) = {}
         /\ OcaOf(<<b, "tp">>) = {<<b, "sl">>} \cap links
         /\ OcaOf(<<b, "sl">>) = {<<b, "tp">>} \cap links
  <1>1. links \subseteq {i \in Ids : IsChild(i)}
    BY BookTypes
  <1>2. \A i \in Ids : IsChild(i) /\ i[1] = b => i = <<b, "tp">> \/ i = <<b, "sl">>
    BY DEF Ids, Legs, IsChild
  <1>3. \A leg \in Exits : IsChild(<<b, leg>>) /\ Entry(<<b, leg>>) = <<b, "entry">>
    BY DEF Exits, IsChild, Entry
  <1>4. Children(<<b, "entry">>) = {<<b, "tp">>, <<b, "sl">>} \cap links
    BY <1>1, <1>2, <1>3 DEF Children, Entry, Exits
  <1>5. ~IsChild(<<b, "entry">>)
    BY DEF IsChild
  <1> QED
    BY <1>3, <1>4, <1>5 DEF OcaOf, Siblings, Exits

LEMMA FillTypes ==
  ASSUME NEW o \in [Ids -> OrderRecords], NEW S
  PROVE  LET q == CancelSiblings(FillAll(o, S), S)
         IN  q \in [Ids -> OrderRecords] /\ \A i \in Ids : q[i].at = o[i].at
  <1> DEFINE f == FillAll(o, S)
             U == UNION {OcaOf(i) : i \in S}
  <1>1. f = [i \in Ids |-> IF i \in S THEN [status |-> "Filled", at |-> o[i].at] ELSE o[i]]
    BY DEF FillAll, Sets
  <1>2. f \in [Ids -> OrderRecords] /\ \A i \in Ids : f[i].at = o[i].at
    BY <1>1 DEF OrderRecords, Statuses
  <1>3. CancelSiblings(f, S) = [i \in Ids |->
          IF i \in U /\ IsLive(f[i].status)
          THEN [status |-> "Cancelled", at |-> f[i].at] ELSE f[i]]
    BY <1>2 DEF CancelSiblings, CancelAll, Sets
  <1> HIDE DEF f, U
  <1>4. \A i \in Ids : CancelSiblings(f, S)[i] \in OrderRecords
                        /\ CancelSiblings(f, S)[i].at = f[i].at
    BY <1>2, <1>3 DEF OrderRecords, Statuses
  <1>5. CancelSiblings(f, S) \in [Ids -> OrderRecords]
    BY <1>3, <1>4
  <1> QED
    BY <1>2, <1>4, <1>5 DEF f

\* Fills, and the cancels they bring, at the orders of one bracket.
LEMMA FillEffect ==
  ASSUME TypeOK, NEW o \in [Ids -> OrderRecords], NEW S, S \subseteq Ids,
         NEW b \in Brackets
  PROVE  LET q == CancelSiblings(FillAll(o, S), S)
             after(leg, other) ==
               IF <<b, other>> \in S /\ <<b, leg>> \in links
                  /\ IsLive(IF <<b, leg>> \in S THEN "Filled" ELSE o[<<b, leg>>].status)
               THEN "Cancelled"
               ELSE IF <<b, leg>> \in S THEN "Filled" ELSE o[<<b, leg>>].status
         IN  /\ q \in [Ids -> OrderRecords]
             /\ \A i \in Ids : q[i].at = o[i].at
             /\ q[<<b, "entry">>].status =
                  IF <<b, "entry">> \in S THEN "Filled" ELSE o[<<b, "entry">>].status
             /\ q[<<b, "tp">>].status = after("tp", "sl")
             /\ q[<<b, "sl">>].status = after("sl", "tp")
  <1> DEFINE f == FillAll(o, S)
             U == UNION {OcaOf(i) : i \in S}
             q == CancelSiblings(f, S)
  <1>1. f = [i \in Ids |-> IF i \in S THEN [status |-> "Filled", at |-> o[i].at] ELSE o[i]]
    BY DEF FillAll, Sets
  <1>2. f \in [Ids -> OrderRecords] /\ \A i \in Ids : f[i].at = o[i].at
    BY <1>1 DEF OrderRecords, Statuses
  <1>3. q = [i \in Ids |-> IF i \in U /\ IsLive(f[i].status)
                           THEN [status |-> "Cancelled", at |-> f[i].at] ELSE f[i]]
    BY <1>2 DEF CancelSiblings, CancelAll, Sets
  <1>4. q \in [Ids -> OrderRecords] /\ \A i \in Ids : q[i].at = o[i].at
    BY FillTypes
  <1> HIDE DEF f
  <1>5. ASSUME NEW i \in S, NEW j \in OcaOf(i)
        PROVE  j[1] = i[1] /\ j # i /\ IsChild(j) /\ IsChild(i) /\ j \in links
    <2>1. IsChild(i) /\ j \in Children(Entry(i)) /\ j # i
      BY <1>5 DEF OcaOf, Siblings
    <2> QED
      BY <2>1 DEF Children, Entry
  <1>6. \A leg \in Legs : <<b, leg>> \in Ids
    BY DEF Ids
  <1>7. <<b, "entry">> \notin U
    BY <1>5 DEF IsChild
  <1>8. <<b, "tp">> \in U <=> <<b, "sl">> \in S /\ <<b, "tp">> \in links
    <2>1. ASSUME NEW i \in S, <<b, "tp">> \in OcaOf(i)
          PROVE  i = <<b, "sl">> /\ <<b, "tp">> \in links
      BY <2>1, <1>5 DEF Ids, Legs, IsChild
    <2>2. OcaOf(<<b, "sl">>) = {<<b, "tp">>} \cap links
      BY SiblingsOfLegs
    <2>3. <<b, "tp">> \in links => <<b, "tp">> \in OcaOf(<<b, "sl">>)
      BY <2>2
    <2> QED
      BY <2>1, <2>3
  <1>9. <<b, "sl">> \in U <=> <<b, "tp">> \in S /\ <<b, "sl">> \in links
    <2>1. ASSUME NEW i \in S, <<b, "sl">> \in OcaOf(i)
          PROVE  i = <<b, "tp">> /\ <<b, "sl">> \in links
      BY <2>1, <1>5 DEF Ids, Legs, IsChild
    <2>2. OcaOf(<<b, "tp">>) = {<<b, "sl">>} \cap links
      BY SiblingsOfLegs
    <2>3. <<b, "sl">> \in links => <<b, "sl">> \in OcaOf(<<b, "tp">>)
      BY <2>2
    <2> QED
      BY <2>1, <2>3
  <1> HIDE DEF U, q
  <1>10. \A leg \in Legs : f[<<b, leg>>].status =
                            IF <<b, leg>> \in S THEN "Filled" ELSE o[<<b, leg>>].status
    BY <1>1, <1>6
  <1>11. q[<<b, "entry">>].status =
           IF <<b, "entry">> \in S THEN "Filled" ELSE o[<<b, "entry">>].status
    BY <1>3, <1>6, <1>7, <1>10 DEF Legs
  <1>12. q[<<b, "tp">>].status =
           IF <<b, "sl">> \in S /\ <<b, "tp">> \in links
              /\ IsLive(IF <<b, "tp">> \in S THEN "Filled" ELSE o[<<b, "tp">>].status)
           THEN "Cancelled"
           ELSE IF <<b, "tp">> \in S THEN "Filled" ELSE o[<<b, "tp">>].status
    BY <1>3, <1>6, <1>8, <1>10 DEF Legs
  <1>13. q[<<b, "sl">>].status =
           IF <<b, "tp">> \in S /\ <<b, "sl">> \in links
              /\ IsLive(IF <<b, "sl">> \in S THEN "Filled" ELSE o[<<b, "sl">>].status)
           THEN "Cancelled"
           ELSE IF <<b, "sl">> \in S THEN "Filled" ELSE o[<<b, "sl">>].status
    BY <1>3, <1>6, <1>9, <1>10 DEF Legs
  <1> QED
    BY <1>4, <1>11, <1>12, <1>13 DEF f, q

LEMMA MarketEffect ==
  ASSUME TypeOK, NEW p \in Prices, SetMarketPrice(p),
         \A b \in Brackets : Status(b, "entry") # "Triggered"
  PROVE  /\ orders' \in [Ids -> OrderRecords]
         /\ UNCHANGED <<config, params, links, orderCount>>
         /\ \A b \in Brackets : MarketMovesBracket(b, p)
  <1> DEFINE L == LimitHits(orders, p)
             o == AfterLimits(orders, p)
             hits == StopHits(o, p)
             fired == {i \in hits : Kind(i) = "Stop" \/ LimitOk(i, p)}
             w == Sets(o, hits, "Working")
  <1>1. /\ orders \in [Ids -> OrderRecords] /\ params \in [Brackets -> BracketParams]
        /\ L \subseteq Ids /\ hits \subseteq Ids /\ fired \subseteq hits
    BY BookTypes DEF LimitHits, StopHits
  <1>2. o = CancelSiblings(FillAll(orders, L), L)
    BY DEF AfterLimits
  <1>3. orders' = CancelSiblings(FillAll(w, fired), fired)
    BY DEF SetMarketPrice, AfterStops
  <1>4. UNCHANGED <<config, params, links, orderCount>>
    BY DEF SetMarketPrice
  <1>5. o \in [Ids -> OrderRecords] /\ \A i \in Ids : o[i].at = orders[i].at
    <2> HIDE DEF L, o, hits, fired
    <2> QED
      BY <1>1, <1>2, FillTypes
  <1>6. w = [i \in Ids |-> IF i \in hits THEN [status |-> "Working", at |-> o[i].at] ELSE o[i]]
    BY DEF Sets
  <1> HIDE DEF o, w
  <1>7. w \in [Ids -> OrderRecords] /\ \A i \in Ids : w[i].at = orders[i].at
    BY <1>5, <1>6 DEF OrderRecords, Statuses
  <1>8. orders' \in [Ids -> OrderRecords]
    <2> HIDE DEF fired, hits
    <2> QED
      BY <1>3, <1>7, FillTypes
  <1>9. ASSUME NEW b \in Brackets PROVE MarketMovesBracket(b, p)
    <2> DEFINE tpHit == <<b, "tp">> \in L
               slHit == <<b, "sl">> \in hits
               slFired == <<b, "sl">> \in fired
    <2>1. /\ <<b, "entry">> \in L <=> EntryHit(b, p)
          /\ tpHit => Status(b, "tp") = "Working"
          /\ <<b, "sl">> \notin L
      <3>1. IsBuy(<<b, "entry">>) <=> params[b].side = "Buy"
        BY DEF IsBuy, IsChild
      <3> QED
        BY <3>1, KindsOfLegs DEF LimitHits, EntryHit, Status, Legs
    <2>2. /\ o[<<b, "entry">>].status = IF EntryHit(b, p) THEN "Filled" ELSE Status(b, "entry")
          /\ o[<<b, "tp">>].status = TpThen(b, tpHit)
          /\ o[<<b, "sl">>].status = SlThen(b, tpHit)
      <3> HIDE DEF L
      <3> QED
        BY <1>1, <1>2, <2>1, FillEffect DEF Status, TpThen, SlThen
    <2>3. /\ slHit => o[<<b, "sl">>].status = "Triggered" /\ StopHit(b, p)
          /\ <<b, "tp">> \notin hits
      <3>1. IsBuy(<<b, "sl">>) <=> params[b].side # "Buy"
        BY DEF IsBuy, IsChild
      <3>2. params[b].side \in {"Buy", "Sell"}
        BY <1>1 DEF BracketParams
      <3> QED
        BY <3>1, <3>2, <1>5, KindsOfLegs DEF StopHits, StopHit, Legs
    <2>4. <<b, "entry">> \notin hits
      BY <2>2 DEF StopHits
    <2>5. \A leg \in Legs : <<b, leg>> \in Ids
      BY DEF Ids
    <2>6. /\ w[<<b, "entry">>].status = o[<<b, "entry">>].status
          /\ w[<<b, "tp">>].status = o[<<b, "tp">>].status
          /\ w[<<b, "sl">>].status = IF slHit THEN "Working" ELSE o[<<b, "sl">>].status
      BY <1>6, <2>3, <2>4, <2>5 DEF Legs
    <2>7. <<b, "entry">> \notin fired /\ <<b, "tp">> \notin fired /\ (slFired => slHit)
      BY <2>3, <2>4
    <2> HIDE DEF fired, hits, L
    <2>8. /\ Status(b, "entry")' = w[<<b, "entry">>].status
          /\ Status(b, "sl")' = IF slFired THEN "Filled" ELSE w[<<b, "sl">>].status
          /\ Status(b, "tp")' = IF slFired /\ <<b, "tp">> \in links
                                   /\ IsLive(w[<<b, "tp">>].status)
                                THEN "Cancelled" ELSE w[<<b, "tp">>].status
      BY <1>1, <1>3, <1>7, <2>7, FillEffect DEF Status
    <2> HIDE DEF tpHit, slHit, slFired
    <2>9. tpHit \in BOOLEAN /\ slFired \in BOOLEAN
      BY DEF tpHit, slFired
    <2> QED
      BY <2>1, <2>2, <2>3, <2>6, <2>7, <2>8, <2>9 DEF MarketMovesBracket
  <1> QED
    BY <1>4, <1>8, <1>9

-----------------------------------------------------------------------------
(* The legs of a bracket *)

LEMMA FollowingLeg ==
  ASSUME NEW b \in Brackets, NEW end
  PROVE  /\ Following(b, "entry", end) = IF Has(b, "tp") THEN "tp"
                                         ELSE IF Has(b, "sl") THEN "sl" ELSE end
         /\ Following(b, "tp", end) = IF Has(b, "sl") THEN "sl" ELSE end
         /\ Following(b, "sl", end) = end
  BY DEF Following

LEMMA FollowingStays ==
  ASSUME NEW b \in Brackets, NEW leg, NEW end, params' = params
  PROVE  Following(b, leg, end)' = Following(b, leg, end)
  BY DEF Following, Has

\* Nothing a bracket depends on has changed, but for links and losses of others.
LEMMA Untouched ==
  ASSUME NEW b \in Brackets, BracketOK(b), UNCHANGED <<config, params>>,
         links \subseteq links', lost \subseteq lost', pc'[b] = pc[b],
         canceller'[b] = canceller[b], \A leg \in Legs : Status(b, leg)' = Status(b, leg)
  PROVE  BracketOK(b)'
  <1>1. /\ \A leg : Has(b, leg)' <=> Has(b, leg)
        /\ LegsOf(b)' = LegsOf(b) /\ LegsOf(b) \subseteq Legs
    BY DEF Has, LegsOf
  <1>2. \A leg : Following(b, leg, "done")' = Following(b, leg, "done")
    BY FollowingStays
  <1>3. Passed(b)' = Passed(b) /\ Passed(b) \subseteq Legs
    BY DEF Passed, Legs
  <1>4. Exits \subseteq Legs
    BY DEF Exits, Legs
  <1>5. LegsPlaced(b)' /\ HeldTogether(b)'
    BY <1>1, <1>4 DEF BracketOK, LegsPlaced, HeldTogether, Legs, Exits
  <1>6. EntryFirstOK(b)' /\ OneExit(b)'
    BY <1>4 DEF BracketOK, EntryFirstOK, OneExit, Legs, Exits
  <1>7. LastLegPlaced(b)'
    BY <1>1, <1>2 DEF BracketOK, LastLegPlaced
  <1>8. CancelProgress(b)'
    BY <1>3 DEF BracketOK, CancelProgress
  <1> QED
    BY <1>5, <1>6, <1>7, <1>8 DEF BracketOK

\* The book is as it was, and the bracket is not being submitted any more.
LEMMA SameBook ==
  ASSUME NEW b \in Brackets, BracketOK(b), UNCHANGED <<config, params, orders, links>>,
         pc'[b] \notin {"idle"} \cup Legs
  PROVE  /\ LegsPlaced(b)' /\ HeldTogether(b)' /\ EntryFirstOK(b)' /\ OneExit(b)'
         /\ LastLegPlaced(b)'
  <1>1. /\ \A l : Has(b, l)' <=> Has(b, l)
        /\ LegsOf(b)' = LegsOf(b)
    BY DEF Has, LegsOf
  <1>2. \A l : Following(b, l, "done")' = Following(b, l, "done")
    BY FollowingStays
  <1>3. \A l : Status(b, l)' = Status(b, l)
    BY DEF Status
  <1>4. LegsPlaced(b)' /\ HeldTogether(b)'
    <2>1. "entry" \in Legs
      BY DEF Legs
    <2>2. LegsPlaced(b)'
      BY <1>1, <1>3, <2>1 DEF BracketOK, LegsPlaced
    <2> QED
      BY <2>2 DEF HeldTogether
  <1>5. EntryFirstOK(b)' /\ OneExit(b)'
    BY <1>3 DEF BracketOK, EntryFirstOK, OneExit
  <1>6. LastLegPlaced(b)'
    BY <1>1, <1>2, <1>3 DEF BracketOK, LastLegPlaced
  <1> QED
    BY <1>4, <1>5, <1>6

LEMMA PlacedOK ==
  ASSUME TypeOK, NEW b \in Brackets, BracketOK(b), NEW leg \in Legs, pc[b] = leg,
         PlaceOrder(<<b, leg>>, Transmit(b, leg)),
         pc'[b] \in {Following(b, leg, "done"), "failed", "undoEntry"},
         canceller'[b] = canceller[b]
  PROVE  BracketOK(b)'
  <1>1. Transmit(b, leg) \in BOOLEAN
    BY DEF Transmit
  <1>2. /\ UNCHANGED <<config, params>>
        /\ Status(b, leg) = "none"
        /\ links \subseteq links'
        /\ \/ PlacedRejected(b, leg)
           \/ /\ PlacedHeld(b, leg)
              /\ leg \in Exits => <<b, leg>> \in links'
           \/ /\ Transmit(b, leg)
              /\ PlacedActivates(b, leg)
              /\ leg \in Exits => <<b, leg>> \in links'
    BY <1>1, PlaceEffect
  <1>3. /\ \A l : Has(b, l)' <=> Has(b, l)
        /\ LegsOf(b)' = LegsOf(b) /\ LegsOf(b) = {l \in Legs : Has(b, l)}
    BY <1>2 DEF Has, LegsOf
  <1>4. \A l : Following(b, l, "done")' = Following(b, l, "done")
    BY <1>2, FollowingStays
  <1>5. canceller'[b] = "none" /\ Has(b, leg)
    BY DEF BracketOK, CancelProgress, LegsPlaced, Legs
  <1>6. \A l \in Legs : Status(b, l) \in {"none", "Held", "Rejected"}
    BY DEF BracketOK, HeldTogether
  <1>7. /\ Following(b, "entry", "done") = IF Has(b, "tp") THEN "tp"
                                           ELSE IF Has(b, "sl") THEN "sl" ELSE "done"
        /\ Following(b, "tp", "done") = IF Has(b, "sl") THEN "sl" ELSE "done"
        /\ Following(b, "sl", "done") = "done"
    BY FollowingLeg
  <1>8. leg \in Legs /\ pc'[b] \in {Following(b, leg, "done"), "failed", "undoEntry"}
    OBVIOUS
  <1>9. \A l \in Legs : Status(b, l) # "none" => Has(b, l)
    BY DEF BracketOK, LegsPlaced
  <1>10. \A l \in Exits : Status(b, l) \notin {"none", "Rejected"} => <<b, l>> \in links
    BY DEF BracketOK, LegsPlaced
  <1>11. LegsPlaced(b)'
    BY <1>2, <1>3, <1>5, <1>7, <1>8, <1>9, <1>10
    DEF LegsPlaced, PlacedRejected, PlacedHeld, PlacedActivates, Before, Legs, Exits
  <1>12. HeldTogether(b)'
    BY <1>2, <1>6, <1>7, <1>8 DEF HeldTogether, PlacedRejected, PlacedHeld, Transmit, Legs
  <1>13. EntryFirstOK(b)' /\ OneExit(b)'
    BY <1>2, <1>6, <1>8
    DEF EntryFirstOK, OneExit, PlacedRejected, PlacedHeld, PlacedActivates, Before, Legs,
        Exits, Active, IsLive, Terminal
  <1>14. LastLegPlaced(b)'
    <2>1. CASE PlacedRejected(b, leg) \/ PlacedHeld(b, leg)
      BY <2>1, <1>6, <1>8 DEF LastLegPlaced, PlacedRejected, PlacedHeld, Legs, Active
    <2>2. CASE Transmit(b, leg) /\ PlacedActivates(b, leg)
      <3>1. Status(b, leg)' \notin {"none", "Rejected"}
        BY <2>2, <1>8 DEF PlacedActivates, Before, Legs, Exits
      <3>2. \A last \in LegsOf(b) : Following(b, last, "done") = "done" => last = leg
        BY <2>2, <1>3, <1>5, <1>7, <1>8 DEF Transmit, Legs, Has
      <3> QED
        BY <3>1, <3>2, <1>3, <1>4 DEF LastLegPlaced
    <2> QED
      BY <2>1, <2>2, <1>2
  <1>15. CancelProgress(b)'
    BY <1>5 DEF CancelProgress
  <1> QED
    BY <1>11, <1>12, <1>13, <1>14, <1>15 DEF BracketOK

LEMMA CancelledOK ==
  ASSUME TypeOK, NEW b \in Brackets, BracketOK(b), NEW leg \in Legs, CancelOrder(<<b, leg>>),
         pc[b] \in {"undoEntry", "undoTp", "done"},
         pc'[b] \in {"undoTp", "done", "failed"}, lost' = lost,
         \/ canceller'[b] = canceller[b]
         \/ /\ pc'[b] = "done" /\ canceller[b] = leg
            /\ canceller'[b] = Following(b, leg, "done"),
         canceller[b] # "none" => pc'[b] = "done"
  PROVE  BracketOK(b)'
  <1>1. /\ UNCHANGED <<config, params, links>>
        /\ \A l \in Legs :
             Status(b, l)' = IF /\ IsLive(Status(b, leg)) /\ IsLive(Status(b, l))
                                /\ l = leg \/ (leg = "entry" /\ <<b, l>> \in links)
                             THEN "Cancelled" ELSE Status(b, l)
    <2>1. /\ UNCHANGED <<config, params, links>>
          /\ \A c \in Brackets, l \in Legs :
               Status(c, l)' = IF /\ c = b /\ IsLive(Status(b, leg)) /\ IsLive(Status(c, l))
                                  /\ l = leg \/ (leg = "entry" /\ <<b, l>> \in links)
                               THEN "Cancelled" ELSE Status(c, l)
      BY CancelEffect
    <2> QED
      BY <2>1
  <1>2. /\ \A l : Has(b, l)' <=> Has(b, l)
        /\ LegsOf(b)' = LegsOf(b) /\ LegsOf(b) = {l \in Legs : Has(b, l)}
    BY <1>1 DEF Has, LegsOf
  <1>3. \A l : Following(b, l, "done")' = Following(b, l, "done")
    BY <1>1, FollowingStays
  <1>4. LegsPlaced(b)' /\ HeldTogether(b)'
    <2>1. \A l \in Legs : Status(b, l)' # Status(b, l) => IsLive(Status(b, l))
      BY <1>1
    <2>2. pc'[b] \notin {"idle"} \cup Legs
      BY DEF Legs
    <2>3. LegsPlaced(b)'
      BY <1>1, <1>2, <2>1, <2>2 DEF BracketOK, LegsPlaced, Legs, Exits, IsLive, Terminal
    <2> QED
      BY <2>2, <2>3 DEF HeldTogether
  <1>5. EntryFirstOK(b)'
    BY <1>1 DEF BracketOK, EntryFirstOK, LegsPlaced, Legs, Exits, Active, IsLive, Terminal
  <1>6. OneExit(b)'
    BY <1>1 DEF BracketOK, OneExit, Legs, Exits, IsLive, Terminal
  <1>7. LastLegPlaced(b)'
    <2>1. ASSUME NEW last \in LegsOf(b), Status(b, last)' \in {"none", "Rejected"}
          PROVE  Status(b, last) = Status(b, last)'
      BY <2>1, <1>1, <1>2
    <2>2. ASSUME NEW l \in Legs, Status(b, l)' \in Active \cup {"Filled"}
          PROVE  Status(b, l) = Status(b, l)'
      BY <2>2, <1>1 DEF Active
    <2> QED
      BY <2>1, <2>2, <1>2, <1>3 DEF BracketOK, LastLegPlaced
  <1>8. CancelProgress(b)'
    <2>1. \A l \in Legs : ~IsLive(Status(b, l)) => ~IsLive(Status(b, l)')
      BY <1>1 DEF IsLive, Terminal
    <2>2. ~IsLive(Status(b, leg)')
      BY <1>1 DEF IsLive, Terminal
    <2>3. \A l \in Legs : ~Has(b, l) => ~IsLive(Status(b, l))
      BY DEF BracketOK, LegsPlaced, IsLive
    <2>4. CASE canceller'[b] = canceller[b]
      <3>1. Passed(b)' = Passed(b) /\ Passed(b) \subseteq Legs
        BY <2>4 DEF Passed, Legs
      <3> QED
        BY <3>1, <2>1, <2>4 DEF BracketOK, CancelProgress, IsLive
    <2>5. CASE /\ pc'[b] = "done" /\ canceller[b] = leg
               /\ canceller'[b] = Following(b, leg, "done")
      <3>1. \A l \in Passed(b)' : l \in Passed(b) \/ l = leg \/ (l \in Legs /\ ~Has(b, l))
        <4>1. CASE canceller'[b] = "tp"
          BY <4>1, <2>5, Zenon DEF Passed, Following
        <4>2. CASE canceller'[b] = "sl"
          BY <4>2, <2>5, Zenon DEF Passed, Following, Legs
        <4>3. CASE canceller'[b] = "done"
          BY <4>3, <2>5, Zenon DEF Passed, Following, Legs
        <4> QED
          BY <2>5, <4>1, <4>2, <4>3, FollowingLeg DEF Legs
      <3>2. Passed(b) \subseteq Legs
        BY DEF Passed, Legs
      <3> QED
        BY <3>1, <3>2, <2>1, <2>2, <2>3, <2>5 DEF BracketOK, CancelProgress, IsLive, Legs
    <2> QED
      BY <2>4, <2>5
  <1> QED
    BY <1>4, <1>5, <1>6, <1>7, <1>8 DEF BracketOK

LEMMA MarketOK ==
  ASSUME TypeOK, NEW b \in Brackets, BracketOK(b), NEW p \in Prices, MarketMovesBracket(b, p),
         UNCHANGED <<config, params, links, taskVars>>
  PROVE  BracketOK(b)'
  <1>1. PICK hit \in BOOLEAN, fired \in BOOLEAN :
          /\ hit => Status(b, "tp") = "Working"
          /\ fired => SlThen(b, hit) = "Triggered" /\ StopHit(b, p)
          /\ Status(b, "entry")' = IF EntryHit(b, p) THEN "Filled" ELSE Status(b, "entry")
          /\ Status(b, "sl")' \in IF fired THEN {"Filled"}
                                  ELSE {SlThen(b, hit)} \cup
                                       (IF SlThen(b, hit) = "Triggered" THEN {"Working"} ELSE {})
          /\ Status(b, "tp")' = IF /\ fired /\ <<b, "tp">> \in links
                                   /\ IsLive(TpThen(b, hit))
                                THEN "Cancelled" ELSE TpThen(b, hit)
    BY DEF MarketMovesBracket
  <1>2. EntryHit(b, p) => Status(b, "entry") = "Working"
    BY DEF EntryHit
  <1>3. /\ UNCHANGED <<config, params, links>> /\ pc'[b] = pc[b]
        /\ canceller'[b] = canceller[b] /\ lost' = lost
    BY DEF taskVars
  <1>4. /\ \A l : Has(b, l)' <=> Has(b, l)
        /\ LegsOf(b)' = LegsOf(b) /\ LegsOf(b) = {l \in Legs : Has(b, l)}
    BY <1>3 DEF Has, LegsOf
  <1>5. \A l : Following(b, l, "done")' = Following(b, l, "done")
    BY <1>3, FollowingStays
  <1>6. \A l \in Legs : Status(b, l) \in {"none", "Rejected", "Held"} =>
          Status(b, l)' \in {Status(b, l), "Cancelled"}
    BY <1>1, <1>2 DEF TpThen, SlThen, Legs
  <1>7. \A l \in Legs : Status(b, l) \in {"none", "Rejected"} <=>
                         Status(b, l)' \in {"none", "Rejected"}
    BY <1>1, <1>2 DEF TpThen, SlThen, Legs, IsLive, Terminal
  <1>8. \A l \in Legs : Status(b, l)' \in Active => Status(b, l) \in Active
    BY <1>1, <1>2 DEF TpThen, SlThen, Legs, Active
  <1>9. LegsPlaced(b)'
    BY <1>1, <1>2, <1>3, <1>4, <1>6, <1>7
    DEF BracketOK, LegsPlaced, Legs, Exits, TpThen, SlThen, IsLive, Terminal
  <1>10. HeldTogether(b)'
    BY <1>1, <1>2, <1>3 DEF BracketOK, HeldTogether, TpThen, SlThen, Legs
  <1>11. EntryFirstOK(b)'
    BY <1>1, <1>2, <1>3, <1>8 DEF BracketOK, EntryFirstOK, TpThen, SlThen, Exits, Legs, Active
  <1>12. OneExit(b)'
    BY <1>1 DEF BracketOK, OneExit, LegsPlaced, TpThen, SlThen, Exits, IsLive, Terminal
  <1>13. LastLegPlaced(b)'
    <2>1. \A l \in Legs : Status(b, l)' = "Filled" => Status(b, l) \in Active \cup {"Filled"}
      BY <1>1, <1>2 DEF TpThen, SlThen, Legs, Active
    <2> QED
      BY <2>1, <1>4, <1>5, <1>7, <1>8 DEF BracketOK, LastLegPlaced
  <1>14. CancelProgress(b)'
    <2>1. \A l \in Legs : ~IsLive(Status(b, l)) => ~IsLive(Status(b, l)')
      BY <1>1, <1>2 DEF TpThen, SlThen, Legs, IsLive, Terminal
    <2>2. Passed(b)' = Passed(b) /\ Passed(b) \subseteq Legs
      BY <1>3 DEF Passed, Legs
    <2> QED
      BY <2>1, <2>2, <1>3 DEF BracketOK, CancelProgress, IsLive
  <1> QED
    BY <1>9, <1>10, <1>11, <1>12, <1>13, <1>14 DEF BracketOK

-----------------------------------------------------------------------------
(* Every step keeps the invariant *)

LEMMA InitOK == Init => IInv
  <1> SUFFICES ASSUME Init PROVE IInv
    OBVIOUS
  <1>1. TypeOK
    BY MaxModifiesAssumption
    DEF Init, BookInit, TypeOK, BookTypeOK, Statuses, Ids, Legs, Ended, IsChild
  <1>2. ASSUME NEW b \in Brackets PROVE BracketOK(b)
    <2>1. \A leg \in Legs : Status(b, leg) = "none"
      BY DEF Init, BookInit, Status, Ids
    <2>2. pc[b] = "idle" /\ canceller[b] = "none"
      BY DEF Init
    <2> QED
      BY <2>1, <2>2
      DEF BracketOK, LegsPlaced, HeldTogether, EntryFirstOK, OneExit, LastLegPlaced,
          CancelProgress, Legs, Exits, Active
  <1> QED
    BY <1>1, <1>2 DEF IInv

\* A cancel request, taken or lost, for a leg of one bracket.
LEMMA TryCancelKeeps ==
  ASSUME TypeOK, \A c \in Brackets : BracketOK(c), NEW b \in Brackets, NEW leg \in Legs,
         TryCancel(b, <<b, leg>>),
         pc[b] \in {"undoEntry", "undoTp", "done"},
         pc' = [pc EXCEPT ![b] = pc'[b]], pc'[b] \in {"undoTp", "done", "failed"},
         canceller' = [canceller EXCEPT ![b] = canceller'[b]],
         \/ canceller'[b] = canceller[b]
         \/ /\ pc'[b] = "done" /\ canceller[b] = leg
            /\ canceller'[b] = Following(b, leg, "done"),
         canceller[b] # "none" => pc'[b] = "done"
  PROVE  /\ orders' \in [Ids -> OrderRecords] /\ UNCHANGED <<config, params, links, orderCount>>
         /\ lost' \subseteq Brackets
         /\ \A c \in Brackets : BracketOK(c)'
  <1>1. \A c \in Brackets \ {b} : pc'[c] = pc[c] /\ canceller'[c] = canceller[c]
    BY DEF TypeOK
  <1>2. lost \subseteq Brackets /\ orders \in [Ids -> OrderRecords]
    BY BookTypes DEF TypeOK
  <1>3. CASE CancelOrder(<<b, leg>>) /\ UNCHANGED lost
    <2>1. /\ orders' \in [Ids -> OrderRecords] /\ UNCHANGED <<config, params, links, orderCount>>
          /\ \A c \in Brackets \ {b}, l \in Legs : Status(c, l)' = Status(c, l)
      <3>1. /\ orders' \in [Ids -> OrderRecords]
            /\ UNCHANGED <<config, params, links, orderCount>>
            /\ \A c \in Brackets, l \in Legs :
                 Status(c, l)' = IF /\ c = b /\ IsLive(Status(b, leg)) /\ IsLive(Status(c, l))
                                    /\ l = leg \/ (leg = "entry" /\ <<b, l>> \in links)
                                 THEN "Cancelled" ELSE Status(c, l)
        BY <1>3, CancelEffect
      <3> QED
        BY <3>1
    <2>2. ASSUME NEW c \in Brackets, c # b PROVE BracketOK(c)'
      BY <2>1, <2>2, <1>1, <1>3, Untouched
    <2>3. BracketOK(b)'
      BY <1>3, CancelledOK
    <2> QED
      BY <2>1, <2>2, <2>3, <1>2, <1>3
  <1>4. CASE lost' = lost \cup {b} /\ UNCHANGED bookVars
    <2>1. /\ UNCHANGED <<config, params, links, orderCount, orders>>
          /\ \A c \in Brackets, l \in Legs : Status(c, l)' = Status(c, l)
      BY <1>4 DEF bookVars, Status
    <2>2. ASSUME NEW c \in Brackets, c # b PROVE BracketOK(c)'
      BY <2>1, <2>2, <1>1, <1>4, Untouched
    <2>3. BracketOK(b)'
      <3>1. pc'[b] \notin {"idle"} \cup Legs
        BY DEF Legs
      <3>2. CancelProgress(b)'
        BY <1>4 DEF BracketOK, CancelProgress
      <3> QED
        BY <2>1, <3>1, <3>2, SameBook DEF BracketOK
    <2> QED
      BY <2>1, <2>2, <2>3, <1>2, <1>4
  <1> QED
    BY <1>3, <1>4 DEF TryCancel

\* A placement, answered or not.
LEMMA PlaceKeeps ==
  ASSUME TypeOK, \A c \in Brackets : BracketOK(c), NEW b \in Brackets, NEW leg \in Legs,
         pc[b] = leg, PlaceOrder(<<b, leg>>, Transmit(b, leg)),
         pc' = [pc EXCEPT ![b] = pc'[b]],
         pc'[b] \in {Following(b, leg, "done"), "failed", "undoEntry"},
         UNCHANGED <<canceller, lost>>
  PROVE  BookTypeOK' /\ \A c \in Brackets : BracketOK(c)'
  <1>1. Transmit(b, leg) \in BOOLEAN
    BY DEF Transmit
  <1>2. /\ orders' \in [Ids -> OrderRecords]
        /\ links' \subseteq {i \in Ids : IsChild(i)}
        /\ orderCount' \in Nat
        /\ UNCHANGED <<config, params>>
        /\ \A c \in Brackets \ {b}, l \in Legs : Status(c, l)' = Status(c, l)
        /\ links \subseteq links'
    BY <1>1, PlaceEffect
  <1>3. BookTypeOK'
    BY <1>2 DEF TypeOK, BookTypeOK, OrderRecords
  <1>4. ASSUME NEW c \in Brackets, c # b PROVE BracketOK(c)'
    <2>1. pc'[c] = pc[c]
      BY <1>4 DEF TypeOK
    <2> QED
      BY <2>1, <1>2, <1>4, Untouched
  <1>5. BracketOK(b)'
    BY PlacedOK
  <1> QED
    BY <1>3, <1>4, <1>5

\* Steps that leave the book alone, or only move the price of an exit.
LEMMA BookKept ==
  ASSUME TypeOK, UNCHANGED <<config, params, links, orderCount>>,
         orders' \in [Ids -> OrderRecords]
  PROVE  BookTypeOK'
  BY DEF TypeOK, BookTypeOK, OrderRecords

LEMMA StepOK == IInv /\ [Next]_vars => IInv'
  <1> SUFFICES ASSUME IInv, [Next]_vars PROVE IInv'
    OBVIOUS
  <1>1. TypeOK /\ \A c \in Brackets : BracketOK(c)
    BY DEF IInv
  <1>2. orders \in [Ids -> OrderRecords]
    BY <1>1, BookTypes
  <1>3. ASSUME NEW b \in Brackets, Call(b) \/ NoIds(b) PROVE IInv'
    <2>1. /\ UNCHANGED <<config, params, orders, links, orderCount, canceller, lost, modifies>>
          /\ pc[b] = "idle" /\ pc' = [pc EXCEPT ![b] = pc'[b]] /\ pc'[b] \in {"entry", "failed"}
          /\ failedAt' \in [Brackets -> {"none", "ids"} \cup Legs]
      BY <1>1, <1>3 DEF Call, NoIds, Goes, bookVars, TypeOK
    <2>2. TypeOK'
      BY <1>1, <2>1 DEF TypeOK, BookTypeOK, Legs, Ended
    <2>3. \A c \in Brackets, l \in Legs : Status(c, l)' = Status(c, l)
      BY <2>1 DEF Status
    <2>4. ASSUME NEW c \in Brackets, c # b PROVE BracketOK(c)'
      <3>1. pc'[c] = pc[c]
        BY <1>1, <2>1, <2>4 DEF TypeOK
      <3> QED
        BY <1>1, <2>1, <2>3, <3>1, Untouched
    <2>5. BracketOK(b)'
      <3>1. canceller[b] = "none" /\ \A l \in Legs : Status(b, l) = "none"
        BY <1>1, <2>1 DEF BracketOK, CancelProgress, LegsPlaced
      <3>2. canceller'[b] = "none" /\ \A l \in Legs : Status(b, l)' = "none"
        BY <2>1, <2>3, <3>1
      <3>3. pc'[b] \in Legs => Has(b, pc[b])'
        BY <2>1 DEF Has, Legs
      <3> QED
        BY <3>2, <3>3
        DEF BracketOK, LegsPlaced, HeldTogether, EntryFirstOK, OneExit, LastLegPlaced,
            CancelProgress, Legs, Exits, Active
    <2> QED
      BY <2>2, <2>4, <2>5 DEF IInv
  <1>4. ASSUME NEW b \in Brackets, Place(b) PROVE IInv'
    <2>1. PICK leg \in Legs : pc[b] = leg
      BY <1>4 DEF Place
    <2>2. /\ PlaceOrder(<<b, leg>>, Transmit(b, leg))
          /\ pc' = [pc EXCEPT ![b] = Following(b, leg, "done")]
          /\ UNCHANGED <<failedAt, canceller, lost, modifies>>
      BY <1>4, <2>1 DEF Place, Goes
    <2>3. pc'[b] = Following(b, leg, "done") /\ pc' = [pc EXCEPT ![b] = pc'[b]]
      BY <1>1, <2>2 DEF TypeOK
    <2>4. BookTypeOK' /\ \A c \in Brackets : BracketOK(c)'
      BY <1>1, <2>1, <2>2, <2>3, PlaceKeeps
    <2>5. Following(b, leg, "done") \in Legs \cup Ended
      BY DEF Following, Legs, Ended
    <2> QED
      BY <1>1, <2>2, <2>4, <2>5 DEF IInv, TypeOK
  <1>5. ASSUME NEW b \in Brackets, PlaceFails(b) PROVE IInv'
    <2>1. PICK leg \in Legs : pc[b] = leg
      BY <1>5 DEF PlaceFails
    <2>2. /\ PlaceOrder(<<b, leg>>, Transmit(b, leg)) \/ UNCHANGED bookVars
          /\ pc' = [pc EXCEPT ![b] = pc'[b]] /\ pc'[b] \in {"failed", "undoEntry"}
          /\ failedAt' = [failedAt EXCEPT ![b] = leg]
          /\ UNCHANGED <<canceller, lost, modifies>>
      BY <1>1, <1>5, <2>1 DEF PlaceFails, Goes, Undo, TypeOK
    <2>3. BookTypeOK' /\ \A c \in Brackets : BracketOK(c)'
      <3>1. CASE PlaceOrder(<<b, leg>>, Transmit(b, leg))
        BY <1>1, <2>1, <2>2, <3>1, PlaceKeeps
      <3>2. CASE UNCHANGED bookVars
        <4>1. UNCHANGED <<config, params, orders, links, orderCount>>
          BY <3>2 DEF bookVars
        <4>2. \A c \in Brackets, l \in Legs : Status(c, l)' = Status(c, l)
          BY <4>1 DEF Status
        <4>3. ASSUME NEW c \in Brackets, c # b PROVE BracketOK(c)'
          <5>1. pc'[c] = pc[c]
            BY <1>1, <2>2, <4>3 DEF TypeOK
          <5> QED
            BY <1>1, <2>2, <4>1, <4>2, <5>1, Untouched
        <4>4. BracketOK(b)'
          <5>1. pc'[b] \notin {"idle"} \cup Legs
            BY <2>2 DEF Legs
          <5>2. canceller'[b] = "none"
            BY <1>1, <2>1, <2>2 DEF BracketOK, CancelProgress, Legs
          <5> QED
            BY <1>1, <4>1, <5>1, <5>2, SameBook DEF BracketOK, CancelProgress
        <4> QED
          BY <1>1, <1>2, <4>1, <4>3, <4>4, BookKept
      <3> QED
        BY <2>2, <3>1, <3>2
    <2> QED
      BY <1>1, <2>2, <2>3 DEF IInv, TypeOK, Ended
  <1>6. ASSUME NEW b \in Brackets, UndoEntry(b) \/ UndoTp(b) PROVE IInv'
    <2>1. PICK leg \in Legs :
            /\ TryCancel(b, <<b, leg>>)
            /\ pc[b] \in {"undoEntry", "undoTp"}
            /\ pc' = [pc EXCEPT ![b] = pc'[b]] /\ pc'[b] \in {"undoTp", "failed"}
            /\ UNCHANGED <<failedAt, canceller, modifies>>
      BY <1>1, <1>6 DEF UndoEntry, UndoTp, Goes, Legs, TypeOK
    <2>2. canceller[b] = "none" /\ canceller' = [canceller EXCEPT ![b] = canceller'[b]]
      BY <1>1, <2>1 DEF BracketOK, CancelProgress, TypeOK
    <2>3. /\ orders' \in [Ids -> OrderRecords] /\ UNCHANGED <<config, params, links, orderCount>>
          /\ lost' \subseteq Brackets
          /\ \A c \in Brackets : BracketOK(c)'
      BY <1>1, <2>1, <2>2, TryCancelKeeps
    <2> QED
      BY <1>1, <2>1, <2>3, BookKept DEF IInv, TypeOK, Ended
  <1>7. ASSUME NEW b \in Brackets, StartCancel(b) PROVE IInv'
    <2>1. /\ UNCHANGED <<config, params, orders, links, orderCount, pc, failedAt, lost, modifies>>
          /\ pc[b] = "done" /\ canceller' = [canceller EXCEPT ![b] = "entry"]
      BY <1>7 DEF StartCancel, bookVars
    <2>2. \A c \in Brackets, l \in Legs : Status(c, l)' = Status(c, l)
      BY <2>1 DEF Status
    <2>3. ASSUME NEW c \in Brackets, c # b PROVE BracketOK(c)'
      <3>1. canceller'[c] = canceller[c]
        BY <1>1, <2>1, <2>3 DEF TypeOK
      <3> QED
        BY <1>1, <2>1, <2>2, <3>1, Untouched
    <2>4. BracketOK(b)'
      <3>1. pc'[b] = "done" /\ pc'[b] \notin {"idle"} \cup Legs
        BY <2>1 DEF Legs
      <3>2. canceller'[b] = "entry"
        BY <1>1, <2>1 DEF TypeOK
      <3>3. Passed(b)' = {}
        BY <3>2, Zenon DEF Passed
      <3> QED
        BY <1>1, <2>1, <3>1, <3>3, SameBook DEF BracketOK, CancelProgress
    <2>5. TypeOK'
      BY <1>1, <2>1 DEF TypeOK, BookTypeOK, Legs
    <2> QED
      BY <2>3, <2>4, <2>5 DEF IInv
  <1>8. ASSUME NEW b \in Brackets, CancelLeg(b) PROVE IInv'
    <2>1. PICK leg \in Legs : canceller[b] = leg
      BY <1>8 DEF CancelLeg
    <2>2. /\ TryCancel(b, <<b, leg>>)
          /\ canceller' = [canceller EXCEPT ![b] = Following(b, leg, "done")]
          /\ UNCHANGED <<pc, failedAt, modifies>>
      BY <1>1, <1>8, <2>1 DEF CancelLeg, TypeOK
    <2>3. /\ pc[b] = "done" /\ pc' = [pc EXCEPT ![b] = pc'[b]] /\ pc'[b] = "done"
          /\ canceller'[b] = Following(b, leg, "done")
          /\ canceller' = [canceller EXCEPT ![b] = canceller'[b]]
      BY <1>1, <2>1, <2>2 DEF BracketOK, CancelProgress, TypeOK, Legs
    <2>4. /\ orders' \in [Ids -> OrderRecords] /\ UNCHANGED <<config, params, links, orderCount>>
          /\ lost' \subseteq Brackets
          /\ \A c \in Brackets : BracketOK(c)'
      BY <1>1, <2>1, <2>2, <2>3, TryCancelKeeps
    <2>5. Following(b, leg, "done") \in Legs \cup {"done"}
      BY DEF Following, Legs
    <2> QED
      BY <1>1, <2>2, <2>4, <2>5, BookKept DEF IInv, TypeOK
  <1>9. ASSUME NEW b \in Brackets, NEW leg \in {"tp", "sl"}, NEW p \in Prices, Drag(b, leg, p)
        PROVE  IInv'
    <2>1. /\ orders' = [orders EXCEPT ![<<b, leg>>] =
                          [status |-> orders[<<b, leg>>].status, at |-> p]]
          /\ UNCHANGED <<config, params, links, orderCount, taskVars>>
          /\ modifies < MaxModifies /\ modifies' = modifies + 1
      BY <1>2, <1>9 DEF Drag, ModifyOrder
    <2>2. orders' \in [Ids -> OrderRecords] /\ \A i \in Ids : orders'[i].status = orders[i].status
      BY <1>2, <2>1 DEF OrderRecords
    <2>3. \A c \in Brackets, l \in Legs : Status(c, l)' = Status(c, l)
      BY <2>2 DEF Status, Ids
    <2>4. \A c \in Brackets : BracketOK(c)'
      BY <1>1, <2>1, <2>3, Untouched DEF taskVars
    <2>5. modifies' \in 0..MaxModifies
      BY <1>1, <2>1, MaxModifiesAssumption DEF TypeOK
    <2> QED
      BY <1>1, <2>1, <2>2, <2>4, <2>5, BookKept DEF IInv, TypeOK, taskVars
  <1>10. ASSUME NEW p \in Prices, MarketMoves(p) PROVE IInv'
    <2>1. SetMarketPrice(p) /\ UNCHANGED <<taskVars, modifies>>
      BY <1>10 DEF MarketMoves
    <2>2. \A b \in Brackets : Status(b, "entry") # "Triggered"
      BY <1>1 DEF BracketOK, EntryFirstOK
    <2>3. /\ orders' \in [Ids -> OrderRecords]
          /\ UNCHANGED <<config, params, links, orderCount>>
          /\ \A b \in Brackets : MarketMovesBracket(b, p)
      BY <1>1, <2>1, <2>2, MarketEffect
    <2>4. \A b \in Brackets : BracketOK(b)'
      BY <1>1, <2>1, <2>3, MarketOK
    <2> QED
      BY <1>1, <2>1, <2>3, <2>4, BookKept DEF IInv, TypeOK, taskVars
  <1>11. CASE UNCHANGED vars
    <2>1. UNCHANGED <<config, params, orders, links, orderCount, pc, failedAt, canceller, lost,
                      modifies>>
      BY <1>11 DEF vars, bookVars, taskVars
    <2>2. \A c \in Brackets, l \in Legs : Status(c, l)' = Status(c, l)
      BY <2>1 DEF Status
    <2>3. \A c \in Brackets : BracketOK(c)'
      BY <1>1, <2>1, <2>2, Untouched
    <2> QED
      BY <1>1, <2>1, <2>3 DEF IInv, TypeOK, BookTypeOK
  <1> QED
    BY <1>3, <1>4, <1>5, <1>6, <1>7, <1>8, <1>9, <1>10, <1>11 DEF Next

-----------------------------------------------------------------------------
(* What follows *)

\* The values stay in their types for any number of brackets (place_bracket,
\* SimOrderClient).
THEOREM TypeCorrect == Spec => []TypeOK
  BY InitOK, StepOK, PTL DEF Spec, IInv

LEMMA Invariant == Spec => []IInv
  BY InitOK, StepOK, PTL DEF Spec

\* At most one exit has filled.
LEMMA FilledExitsOf ==
  ASSUME NEW b \in Brackets, BracketOK(b)
  PROVE  /\ FilledExits(b) = {leg \in Exits : Status(b, leg) = "Filled"}
         /\ Cardinality(FilledExits(b)) =
              IF Status(b, "tp") = "Filled" \/ Status(b, "sl") = "Filled" THEN 1 ELSE 0
  <1>1. FilledExits(b) = {leg \in Exits : Status(b, leg) = "Filled"}
    BY DEF FilledExits, LegsOf, Legs, Exits, BracketOK, LegsPlaced
  <1>2. CASE Status(b, "tp") = "Filled"
    <2>1. Status(b, "sl") # "Filled"
      BY <1>2 DEF BracketOK, OneExit, Exits
    <2>2. FilledExits(b) = {"tp"}
      BY <1>1, <1>2, <2>1 DEF Exits
    <2> QED
      BY <1>1, <1>2, <2>2, FS_Singleton
  <1>3. CASE Status(b, "tp") # "Filled" /\ Status(b, "sl") = "Filled"
    <2>1. FilledExits(b) = {"sl"}
      BY <1>1, <1>3 DEF Exits
    <2> QED
      BY <1>1, <1>3, <2>1, FS_Singleton
  <1>4. CASE Status(b, "tp") # "Filled" /\ Status(b, "sl") # "Filled"
    <2>1. FilledExits(b) = {}
      BY <1>1, <1>4 DEF Exits
    <2> QED
      BY <1>1, <1>4, <2>1, FS_EmptySet
  <1> QED
    BY <1>2, <1>3, <1>4

\* One cancels all (check_oca_inner), for any number of brackets and any prices.
THEOREM OneCancelsOtherAlways == Spec => []OneCancelsOther
  <1>1. IInv => OneCancelsOther
    <2> SUFFICES ASSUME IInv, NEW b \in Brackets, FilledExits(b) # {}
                 PROVE  Cardinality(FilledExits(b)) = 1 /\ LiveLegs(b) \subseteq {"entry"}
      BY DEF OneCancelsOther
    <2>1. BracketOK(b)
      BY DEF IInv
    <2>2. PICK leg \in Exits : Status(b, leg) = "Filled"
      BY <2>1, FilledExitsOf
    <2>3. Cardinality(FilledExits(b)) = 1
      BY <2>1, <2>2, FilledExitsOf DEF Exits
    <2>4. \A other \in Exits : ~IsLive(Status(b, other))
      BY <2>1, <2>2 DEF BracketOK, OneExit, IsLive, Terminal
    <2> QED
      BY <2>3, <2>4 DEF LiveLegs, LegsOf, Legs, Exits
  <1> QED
    BY <1>1, Invariant, PTL

\* Transmit last (place_bracket, activate_bracket): the book acts on no part of
\* a bracket.
THEOREM TransmitLastAlways == Spec => []TransmitLast
  <1>1. IInv => TransmitLast
    <2> SUFFICES ASSUME IInv, NEW b \in Brackets,
                        \E leg \in LegsOf(b) : Status(b, leg) \in {"Working", "Triggered", "Filled"}
                 PROVE  Status(b, LastLeg(b)) \notin {"none", "Rejected"}
      BY DEF TransmitLast
    <2>1. \E leg \in LegsOf(b) : Following(b, leg, "done") = "done"
      BY FollowingLeg DEF LegsOf, Legs, Has
    <2>2. LastLeg(b) \in LegsOf(b) /\ Following(b, LastLeg(b), "done") = "done"
      BY <2>1 DEF LastLeg
    <2>3. \E leg \in Legs : Status(b, leg) \in Active \cup {"Filled"}
      BY DEF LegsOf, Active
    <2> QED
      BY <2>2, <2>3 DEF IInv, BracketOK, LastLegPlaced
  <1> QED
    BY <1>1, Invariant, PTL

\* cancel_bracket leaves nothing behind when its requests arrive, whatever fills
\* between them.
THEOREM CancelledIsDeadAlways == Spec => []CancelledIsDead
  <1>1. IInv => CancelledIsDead
    <2> SUFFICES ASSUME IInv, NEW b \in Brackets \ lost, canceller[b] = "done"
                 PROVE  LiveLegs(b) = {}
      BY DEF CancelledIsDead
    <2>1. Passed(b) = Legs
      BY Zenon DEF Passed
    <2> QED
      BY <2>1 DEF IInv, BracketOK, CancelProgress, LiveLegs, LegsOf
  <1> QED
    BY <1>1, Invariant, PTL

-----------------------------------------------------------------------------
(* A submission that fails *)

\* reject_every_n is a knob of the simulator: the adapter, whose calls may fail,
\* has no such counter.
FlakyNeverRejects == \A c \in Configs : c.flaky => c.rejectEvery = 0

\* What failed is known until the end, and only a flaky client fails.
FailureKnown(b) ==
  /\ failedAt[b] = "none" <=> pc[b] \notin {"undoEntry", "undoTp", "failed"}
  /\ failedAt[b] \in Legs => config.flaky /\ Has(b, failedAt[b])
  /\ pc[b] \in {"undoEntry", "undoTp"} => failedAt[b] \in Exits
  /\ pc[b] = "undoTp" => failedAt[b] = "sl"

\* What had been placed before the failure, and what had not.
PlacedBefore(b) ==
  /\ config.flaky => \A leg \in Legs : Status(b, leg) # "Rejected"
  /\ failedAt[b] = "ids" => \A leg \in Legs : Status(b, leg) = "none"
  /\ pc[b] \in Exits \/ failedAt[b] \in Exits => Status(b, "entry") # "none"
  /\ pc[b] = "tp" \/ failedAt[b] = "tp" => Status(b, "sl") = "none"
  /\ pc[b] \in Legs \cup {"undoEntry"} => Status(b, "entry") # "Cancelled"

\* The cancel of the entry takes the whole bracket with it or comes after its
\* fill, and the one of the take-profit takes that.
UndoProgress(b) ==
  b \notin lost /\ failedAt[b] \in Exits =>
    /\ pc[b] \in {"undoTp", "failed"} =>
         Status(b, "entry") = "Filled" \/ \A leg \in Legs : ~IsLive(Status(b, leg))
    /\ pc[b] = "failed" /\ failedAt[b] = "sl" => ~IsLive(Status(b, "tp"))

UndoOK(b) == FailureKnown(b) /\ PlacedBefore(b) /\ UndoProgress(b)

\* Nothing the undoing of a bracket depends on has changed.
LEMMA UndoUntouched ==
  ASSUME NEW b \in Brackets, UndoOK(b), UNCHANGED <<config, params>>, lost \subseteq lost',
         pc'[b] = pc[b], failedAt'[b] = failedAt[b],
         \A leg \in Legs : Status(b, leg)' = Status(b, leg)
  PROVE  UndoOK(b)'
  <1>1. \A leg : Has(b, leg)' <=> Has(b, leg)
    BY DEF Has
  <1>2. FailureKnown(b)'
    BY <1>1 DEF UndoOK, FailureKnown
  <1>3. PlacedBefore(b)'
    BY DEF UndoOK, PlacedBefore, Legs
  <1>4. UndoProgress(b)'
    BY DEF UndoOK, UndoProgress, Legs
  <1> QED
    BY <1>2, <1>3, <1>4 DEF UndoOK

\* A placement that is taken, whether or not its answer comes.
LEMMA UndoPlaced ==
  ASSUME FlakyNeverRejects, TypeOK, NEW b \in Brackets, BracketOK(b), UndoOK(b),
         NEW leg \in Legs, pc[b] = leg, PlaceOrder(<<b, leg>>, Transmit(b, leg)),
         \/ pc'[b] = Following(b, leg, "done") /\ failedAt'[b] = "none"
         \/ pc'[b] = Undo(b) /\ failedAt'[b] = leg /\ config.flaky
  PROVE  UndoOK(b)'
  <1>1. Transmit(b, leg) \in BOOLEAN
    BY DEF Transmit
  <1>2. /\ UNCHANGED <<config, params>>
        /\ Status(b, leg) = "none"
        /\ \/ Rejects /\ PlacedRejected(b, leg)
           \/ PlacedHeld(b, leg)
           \/ PlacedActivates(b, leg)
    BY <1>1, PlaceEffect
  <1>3. /\ Following(b, "entry", "done") = IF Has(b, "tp") THEN "tp"
                                           ELSE IF Has(b, "sl") THEN "sl" ELSE "done"
        /\ Following(b, "tp", "done") = IF Has(b, "sl") THEN "sl" ELSE "done"
        /\ Following(b, "sl", "done") = "done"
    BY FollowingLeg
  <1>4. \A l : Has(b, l)' <=> Has(b, l)
    BY <1>2 DEF Has
  <1>5. Has(b, leg) /\ \A l \in Legs : Status(b, l) \in {"none", "Held", "Rejected"}
    BY DEF BracketOK, LegsPlaced, HeldTogether, Legs
  <1>6. config.flaky => ~Rejects
    BY DEF FlakyNeverRejects, TypeOK, BookTypeOK, Rejects
  <1>7. leg \in Legs
    OBVIOUS
  <1>8. FailureKnown(b)'
    BY <1>2, <1>3, <1>4, <1>5, <1>7 DEF FailureKnown, Undo, Legs, Exits
  <1>9. PlacedBefore(b)'
    <2>1. config.flaky => \A l \in Legs : Status(b, l)' # "Rejected"
      BY <1>2, <1>6, <1>7
      DEF UndoOK, PlacedBefore, PlacedHeld, PlacedActivates, Before, Legs, Exits
    <2>2. Status(b, "entry")' # "Cancelled" /\ Status(b, "entry")' # "none"
      <3>1. leg # "entry" => Status(b, "entry") # "none"
        BY <1>7 DEF UndoOK, PlacedBefore, Legs, Exits
      <3> QED
        BY <3>1, <1>2, <1>5, <1>7 DEF PlacedRejected, PlacedHeld, PlacedActivates, Legs
    <2>3. leg = "tp" \/ leg = "entry" => Status(b, "sl")' = "none"
      <3>1. leg = "tp" \/ leg = "entry" => Status(b, "sl") = "none"
        BY <1>7 DEF UndoOK, PlacedBefore, BracketOK, LegsPlaced, Legs
      <3> QED
        BY <3>1, <1>2
        DEF PlacedRejected, PlacedHeld, PlacedActivates, Before, Legs, Exits
    <2>4. pc'[b] = "tp" => leg = "entry"
      BY <1>3, <1>7 DEF Legs, Undo
    <2> QED
      BY <2>1, <2>2, <2>3, <2>4, <1>2, <1>7 DEF PlacedBefore, Legs, Exits
  <1>10. UndoProgress(b)'
    BY <1>7 DEF UndoProgress, Undo, Legs, Exits
  <1> QED
    BY <1>8, <1>9, <1>10 DEF UndoOK

\* A placement that is not taken.
LEMMA UndoUnplaced ==
  ASSUME TypeOK, NEW b \in Brackets, BracketOK(b), UndoOK(b), NEW leg \in Legs, pc[b] = leg,
         config.flaky, UNCHANGED <<config, params>>,
         \A l \in Legs : Status(b, l)' = Status(b, l),
         pc'[b] = Undo(b), failedAt'[b] = leg
  PROVE  UndoOK(b)'
  <1>1. \A l : Has(b, l)' <=> Has(b, l)
    BY DEF Has
  <1>2. Has(b, leg) /\ leg \in Legs
    BY DEF BracketOK, LegsPlaced
  <1>3. FailureKnown(b)'
    BY <1>1, <1>2 DEF FailureKnown, Undo, Legs, Exits
  <1>4. PlacedBefore(b)'
    BY <1>2 DEF UndoOK, PlacedBefore, Undo, Legs, Exits
  <1>5. UndoProgress(b)'
    BY <1>2 DEF UndoProgress, Undo, Legs, Exits
  <1> QED
    BY <1>3, <1>4, <1>5 DEF UndoOK

\* A cancel of a leg of b, taken: of the undoing, or of cancel_bracket.
LEMMA UndoCancelled ==
  ASSUME TypeOK, NEW b \in Brackets, BracketOK(b), UndoOK(b), NEW leg \in Legs,
         CancelOrder(<<b, leg>>), lost' = lost, failedAt'[b] = failedAt[b],
         \/ pc[b] = "done" /\ pc'[b] = "done"
         \/ /\ pc[b] = "undoEntry" /\ leg = "entry"
            /\ pc'[b] = IF failedAt[b] = "sl" /\ Has(b, "tp") THEN "undoTp" ELSE "failed"
         \/ pc[b] = "undoTp" /\ leg = "tp" /\ pc'[b] = "failed"
  PROVE  UndoOK(b)'
  <1>1. UNCHANGED <<config, params, links>>
    BY CancelEffect
  <1>2. \A l \in Legs :
          Status(b, l)' = IF /\ IsLive(Status(b, leg)) /\ IsLive(Status(b, l))
                             /\ l = leg \/ (leg = "entry" /\ <<b, l>> \in links)
                          THEN "Cancelled" ELSE Status(b, l)
    <2>1. \A c \in Brackets, l \in Legs :
            Status(c, l)' = IF /\ c = b /\ IsLive(Status(b, leg)) /\ IsLive(Status(c, l))
                               /\ l = leg \/ (leg = "entry" /\ <<b, l>> \in links)
                            THEN "Cancelled" ELSE Status(c, l)
      BY CancelEffect
    <2> QED
      BY <2>1
  <1>3. \A l : Has(b, l)' <=> Has(b, l)
    BY <1>1 DEF Has
  <1>4. leg \in Legs
    OBVIOUS
  <1>5. /\ \A l \in Legs :
             \/ Status(b, l)' = Status(b, l)
             \/ IsLive(Status(b, l)) /\ Status(b, l)' = "Cancelled"
        /\ ~IsLive(Status(b, leg)')
    <2>1. ASSUME NEW l \in Legs
          PROVE  \/ Status(b, l)' = Status(b, l)
                 \/ IsLive(Status(b, l)) /\ Status(b, l)' = "Cancelled"
      <3>1. Status(b, l)' = IF /\ IsLive(Status(b, leg)) /\ IsLive(Status(b, l))
                               /\ l = leg \/ (leg = "entry" /\ <<b, l>> \in links)
                            THEN "Cancelled" ELSE Status(b, l)
        BY <1>2
      <3> QED
        BY <3>1, Zenon
    <2>2. Status(b, leg)' = IF IsLive(Status(b, leg)) THEN "Cancelled" ELSE Status(b, leg)
      BY <1>2, <1>4
    <2>3. ~IsLive(Status(b, leg)')
      BY <2>2 DEF IsLive, Terminal
    <2> QED
      BY <2>1, <2>3
  <1>6. \A l \in Legs : ~IsLive(Status(b, l)) => Status(b, l)' = Status(b, l)
    BY <1>5
  <1>7. FailureKnown(b)'
    BY <1>1, <1>3 DEF UndoOK, FailureKnown, Legs
  <1>8. PlacedBefore(b)'
    <2>1. \A l \in Legs, st \in {"none", "Rejected"} :
            Status(b, l)' = st <=> Status(b, l) = st
      BY <1>5 DEF IsLive, Terminal
    <2>2. pc'[b] \notin Legs \cup {"undoEntry"}
      BY DEF Legs
    <2> QED
      BY <1>1, <2>1, <2>2 DEF UndoOK, PlacedBefore, Legs, Exits
  <1>9. UndoProgress(b)'
    <2> SUFFICES ASSUME b \notin lost, failedAt[b] \in Exits, pc'[b] \in {"undoTp", "failed"}
                 PROVE  /\ \/ Status(b, "entry")' = "Filled"
                           \/ \A l \in Legs : ~IsLive(Status(b, l))'
                        /\ pc'[b] = "failed" /\ failedAt[b] = "sl" => ~IsLive(Status(b, "tp"))'
      BY DEF UndoProgress
    <2>1. CASE pc[b] = "undoEntry" /\ leg = "entry"
               /\ pc'[b] = IF failedAt[b] = "sl" /\ Has(b, "tp") THEN "undoTp" ELSE "failed"
      <3>1. Status(b, "entry") \notin {"none", "Rejected", "Cancelled"}
        BY <2>1 DEF UndoOK, PlacedBefore, FailureKnown, Legs, Exits
      <3>2. CASE IsLive(Status(b, "entry"))
        <4>1. \A l \in Exits : IsLive(Status(b, l)) => <<b, l>> \in links
          BY DEF BracketOK, LegsPlaced, IsLive, Terminal
        <4>2. \A l \in Legs : ~IsLive(Status(b, l))'
          BY <4>1, <3>2, <2>1, <1>2 DEF IsLive, Terminal, Legs, Exits
        <4> QED
          BY <4>2 DEF Legs
      <3>3. CASE ~IsLive(Status(b, "entry"))
        <4>1. Status(b, "entry") \in Statuses
          BY BookTypes DEF Status, OrderRecords, Ids, Legs
        <4>2. Status(b, "entry") = "Filled"
          BY <4>1, <3>1, <3>3 DEF IsLive, Terminal, Statuses
        <4>3. Status(b, "entry")' = "Filled"
          BY <4>2, <3>3, <1>6 DEF Legs
        <4>4. ASSUME pc'[b] = "failed", failedAt[b] = "sl" PROVE ~IsLive(Status(b, "tp"))'
          <5>1. ~Has(b, "tp")
            BY <4>4, <2>1
          <5>2. Status(b, "tp") = "none"
            BY <5>1 DEF BracketOK, LegsPlaced, Legs
          <5>3. "tp" \in Legs
            BY DEF Legs
          <5> QED
            BY <5>2, <5>3, <1>6 DEF IsLive
        <4> QED
          BY <4>3, <4>4
      <3> QED
        BY <3>2, <3>3
    <2>2. CASE pc[b] = "undoTp" /\ leg = "tp" /\ pc'[b] = "failed"
      <3>1. Status(b, "entry") = "Filled" \/ \A l \in Legs : ~IsLive(Status(b, l))
        BY <2>2 DEF UndoOK, UndoProgress
      <3>2. ~IsLive(Status(b, "entry")) => Status(b, "entry")' = Status(b, "entry")
        BY <1>6 DEF Legs
      <3>3. \A l \in Legs : ~IsLive(Status(b, l)) => ~IsLive(Status(b, l))'
        BY <1>6
      <3> QED
        BY <3>1, <3>2, <3>3, <2>2, <1>5 DEF IsLive, Terminal
    <2> QED
      BY <2>1, <2>2
  <1> QED
    BY <1>7, <1>8, <1>9 DEF UndoOK

\* A cancel that is lost: nothing is promised of the bracket any more.
LEMMA UndoLost ==
  ASSUME NEW b \in Brackets, UndoOK(b), UNCHANGED <<config, params>>,
         lost' = lost \cup {b}, failedAt'[b] = failedAt[b],
         \A l \in Legs : Status(b, l)' = Status(b, l),
         \/ pc[b] = "done" /\ pc'[b] = "done"
         \/ /\ pc[b] = "undoEntry"
            /\ pc'[b] = IF failedAt[b] = "sl" /\ Has(b, "tp") THEN "undoTp" ELSE "failed"
         \/ pc[b] = "undoTp" /\ pc'[b] = "failed"
  PROVE  UndoOK(b)'
  <1>1. \A l : Has(b, l)' <=> Has(b, l)
    BY DEF Has
  <1>2. FailureKnown(b)'
    BY <1>1 DEF UndoOK, FailureKnown, Legs
  <1>3. PlacedBefore(b)'
    <2>1. pc'[b] \notin Legs \cup {"undoEntry"}
      BY DEF Legs
    <2> QED
      BY <2>1 DEF UndoOK, PlacedBefore, Legs, Exits
  <1>4. UndoProgress(b)'
    BY DEF UndoProgress
  <1> QED
    BY <1>2, <1>3, <1>4 DEF UndoOK

\* The price moves.
LEMMA UndoMarket ==
  ASSUME TypeOK, NEW b \in Brackets, BracketOK(b), UndoOK(b), NEW p \in Prices,
         MarketMovesBracket(b, p), UNCHANGED <<config, params, links, taskVars>>
  PROVE  UndoOK(b)'
  <1>1. UNCHANGED <<config, params, pc, failedAt, lost>>
    BY DEF taskVars
  <1>2. /\ \/ Status(b, "entry")' = Status(b, "entry")
           \/ Status(b, "entry") = "Working" /\ Status(b, "entry")' = "Filled"
        /\ \A l \in Exits : ~IsLive(Status(b, l)) => Status(b, l)' = Status(b, l)
        /\ \A l \in Exits : IsLive(Status(b, l)) => Status(b, l)' \notin {"none", "Rejected"}
    <2>1. PICK hit \in BOOLEAN, fired \in BOOLEAN :
            /\ hit => Status(b, "tp") = "Working"
            /\ fired => SlThen(b, hit) = "Triggered" /\ StopHit(b, p)
            /\ Status(b, "entry")' = IF EntryHit(b, p) THEN "Filled" ELSE Status(b, "entry")
            /\ Status(b, "sl")' \in IF fired THEN {"Filled"}
                                    ELSE {SlThen(b, hit)} \cup
                                         (IF SlThen(b, hit) = "Triggered" THEN {"Working"} ELSE {})
            /\ Status(b, "tp")' = IF /\ fired /\ <<b, "tp">> \in links
                                     /\ IsLive(TpThen(b, hit))
                                  THEN "Cancelled" ELSE TpThen(b, hit)
      BY DEF MarketMovesBracket
    <2>2. \/ Status(b, "entry")' = Status(b, "entry")
          \/ Status(b, "entry") = "Working" /\ Status(b, "entry")' = "Filled"
      BY <2>1 DEF EntryHit
    <2>3. /\ ~IsLive(Status(b, "tp")) => Status(b, "tp")' = Status(b, "tp")
          /\ IsLive(Status(b, "tp")) => Status(b, "tp")' \notin {"none", "Rejected"}
      BY <2>1 DEF TpThen, IsLive, Terminal
    <2>4. /\ ~IsLive(Status(b, "sl")) => Status(b, "sl")' = Status(b, "sl")
          /\ IsLive(Status(b, "sl")) => Status(b, "sl")' \notin {"none", "Rejected"}
      BY <2>1 DEF SlThen, IsLive, Terminal
    <2> QED
      <3>1. \A l \in Exits : l = "tp" \/ l = "sl"
        BY DEF Exits
      <3> QED
        BY <2>2, <2>3, <2>4, <3>1, Zenon
  <1>3. \A l : Has(b, l)' <=> Has(b, l)
    BY <1>1 DEF Has
  <1>4. FailureKnown(b)'
    BY <1>1, <1>3 DEF UndoOK, FailureKnown
  <1>5. \A l \in Legs, st \in {"none", "Rejected"} : Status(b, l)' = st <=> Status(b, l) = st
    BY <1>2 DEF Legs, Exits, IsLive, Terminal
  <1>6. \A l \in Legs : ~IsLive(Status(b, l)) => ~IsLive(Status(b, l))'
    BY <1>2 DEF Legs, Exits, IsLive, Terminal
  <1>7. PlacedBefore(b)'
    BY <1>1, <1>2, <1>5 DEF UndoOK, PlacedBefore, Legs, Exits
  <1>8. UndoProgress(b)'
    BY <1>1, <1>2, <1>6 DEF UndoOK, UndoProgress, Legs
  <1> QED
    BY <1>4, <1>7, <1>8 DEF UndoOK

LEMMA UndoTryCancel ==
  ASSUME TypeOK, \A c \in Brackets : BracketOK(c) /\ UndoOK(c), NEW b \in Brackets,
         NEW leg \in Legs, TryCancel(b, <<b, leg>>), UNCHANGED failedAt,
         \A c \in Brackets \ {b} : pc'[c] = pc[c],
         \/ pc[b] = "done" /\ pc'[b] = "done"
         \/ /\ pc[b] = "undoEntry" /\ leg = "entry"
            /\ pc'[b] = IF failedAt[b] = "sl" /\ Has(b, "tp") THEN "undoTp" ELSE "failed"
         \/ pc[b] = "undoTp" /\ leg = "tp" /\ pc'[b] = "failed"
  PROVE  \A c \in Brackets : UndoOK(c)'
  <1>1. CASE CancelOrder(<<b, leg>>) /\ UNCHANGED lost
    <2>1. /\ UNCHANGED <<config, params>>
          /\ \A c \in Brackets \ {b}, l \in Legs : Status(c, l)' = Status(c, l)
      <3>1. /\ UNCHANGED <<config, params, links, orderCount>>
            /\ \A c \in Brackets, l \in Legs :
                 Status(c, l)' = IF /\ c = b /\ IsLive(Status(b, leg)) /\ IsLive(Status(c, l))
                                    /\ l = leg \/ (leg = "entry" /\ <<b, l>> \in links)
                                 THEN "Cancelled" ELSE Status(c, l)
        BY <1>1, CancelEffect
      <3> QED
        BY <3>1
    <2>2. ASSUME NEW c \in Brackets, c # b PROVE UndoOK(c)'
      BY <2>1, <2>2, <1>1, UndoUntouched
    <2>3. UndoOK(b)'
      BY <1>1, UndoCancelled
    <2> QED
      BY <2>2, <2>3
  <1>2. CASE lost' = lost \cup {b} /\ UNCHANGED bookVars
    <2>1. /\ UNCHANGED <<config, params>>
          /\ \A c \in Brackets, l \in Legs : Status(c, l)' = Status(c, l)
      BY <1>2 DEF bookVars, Status
    <2>2. ASSUME NEW c \in Brackets, c # b PROVE UndoOK(c)'
      BY <2>1, <2>2, <1>2, UndoUntouched
    <2>3. UndoOK(b)'
      BY <1>2, <2>1, UndoLost
    <2> QED
      BY <2>2, <2>3
  <1> QED
    BY <1>1, <1>2 DEF TryCancel

\* A placement, taken or not, answered or not.
LEMMA UndoPlace ==
  ASSUME FlakyNeverRejects, TypeOK, \A c \in Brackets : BracketOK(c) /\ UndoOK(c),
         NEW b \in Brackets, NEW leg \in Legs, pc[b] = leg,
         \/ PlaceOrder(<<b, leg>>, Transmit(b, leg))
         \/ UNCHANGED bookVars /\ pc'[b] = Undo(b) /\ failedAt'[b] = leg /\ config.flaky,
         \A c \in Brackets \ {b} : pc'[c] = pc[c] /\ failedAt'[c] = failedAt[c],
         UNCHANGED lost,
         \/ pc'[b] = Following(b, leg, "done") /\ failedAt'[b] = "none"
         \/ pc'[b] = Undo(b) /\ failedAt'[b] = leg /\ config.flaky
  PROVE  \A c \in Brackets : UndoOK(c)'
  <1>1. /\ UNCHANGED <<config, params>>
        /\ \A c \in Brackets \ {b}, l \in Legs : Status(c, l)' = Status(c, l)
    <2>1. CASE PlaceOrder(<<b, leg>>, Transmit(b, leg))
      <3>1. Transmit(b, leg) \in BOOLEAN
        BY DEF Transmit
      <3> QED
        BY <2>1, <3>1, PlaceEffect
    <2>2. CASE UNCHANGED bookVars
      BY <2>2 DEF bookVars, Status
    <2> QED
      BY <2>1, <2>2
  <1>2. ASSUME NEW c \in Brackets, c # b PROVE UndoOK(c)'
    BY <1>1, <1>2, UndoUntouched
  <1>3. UndoOK(b)'
    <2>1. CASE PlaceOrder(<<b, leg>>, Transmit(b, leg))
      BY <2>1, UndoPlaced
    <2>2. CASE UNCHANGED bookVars /\ pc'[b] = Undo(b) /\ failedAt'[b] = leg /\ config.flaky
      <3>1. \A l \in Legs : Status(b, l)' = Status(b, l)
        BY <2>2 DEF bookVars, Status
      <3> QED
        BY <1>1, <2>2, <3>1, UndoUnplaced
    <2> QED
      BY <2>1, <2>2
  <1> QED
    BY <1>2, <1>3

\* Every step keeps the undoing on its way.
LEMMA UndoStep ==
  ASSUME FlakyNeverRejects, IInv, \A c \in Brackets : UndoOK(c), [Next]_vars
  PROVE  \A c \in Brackets : UndoOK(c)'
  <1>1. TypeOK /\ \A c \in Brackets : BracketOK(c) /\ UndoOK(c)
    BY DEF IInv
  <1>2. /\ pc \in [Brackets -> {"idle", "undoEntry", "undoTp"} \cup Legs \cup Ended]
        /\ failedAt \in [Brackets -> {"none", "ids"} \cup Legs]
        /\ orders \in [Ids -> OrderRecords]
    BY <1>1, BookTypes DEF TypeOK
  <1>3. ASSUME NEW b \in Brackets, Call(b) \/ NoIds(b) PROVE \A c \in Brackets : UndoOK(c)'
    <2>1. /\ UNCHANGED <<config, params, lost>>
          /\ \A c \in Brackets, l \in Legs : Status(c, l)' = Status(c, l)
          /\ pc[b] = "idle"
          /\ \/ pc'[b] = "entry" /\ failedAt'[b] = failedAt[b]
             \/ pc'[b] = "failed" /\ failedAt'[b] = "ids"
          /\ \A c \in Brackets \ {b} : pc'[c] = pc[c] /\ failedAt'[c] = failedAt[c]
      BY <1>2, <1>3 DEF Call, NoIds, Goes, bookVars, Status
    <2>2. ASSUME NEW c \in Brackets, c # b PROVE UndoOK(c)'
      BY <1>1, <2>1, <2>2, UndoUntouched
    <2>3. UndoOK(b)'
      <3>1. failedAt[b] = "none" /\ \A l \in Legs : Status(b, l)' = "none"
        BY <1>1, <2>1 DEF UndoOK, FailureKnown, BracketOK, LegsPlaced
      <3>2. FailureKnown(b)'
        BY <2>1, <3>1 DEF FailureKnown, Legs, Exits
      <3>3. PlacedBefore(b)'
        BY <2>1, <3>1 DEF PlacedBefore, Legs, Exits
      <3>4. UndoProgress(b)'
        BY <2>1, <3>1 DEF UndoProgress, Exits
      <3> QED
        BY <3>2, <3>3, <3>4 DEF UndoOK
    <2> QED
      BY <2>2, <2>3
  <1>4. ASSUME NEW b \in Brackets, Place(b) \/ PlaceFails(b)
        PROVE  \A c \in Brackets : UndoOK(c)'
    <2>1. PICK leg \in Legs : pc[b] = leg
      BY <1>4 DEF Place, PlaceFails
    <2>2. failedAt[b] = "none"
      BY <1>1, <2>1 DEF UndoOK, FailureKnown, Legs
    <2>3. /\ \/ PlaceOrder(<<b, leg>>, Transmit(b, leg))
             \/ UNCHANGED bookVars /\ pc'[b] = Undo(b) /\ failedAt'[b] = leg /\ config.flaky
          /\ \A c \in Brackets \ {b} : pc'[c] = pc[c] /\ failedAt'[c] = failedAt[c]
          /\ UNCHANGED lost
          /\ \/ pc'[b] = Following(b, leg, "done") /\ failedAt'[b] = "none"
             \/ pc'[b] = Undo(b) /\ failedAt'[b] = leg /\ config.flaky
      BY <1>2, <1>4, <2>1, <2>2 DEF Place, PlaceFails, Goes
    <2> QED
      BY <1>1, <2>1, <2>3, UndoPlace
  <1>5. ASSUME NEW b \in Brackets, UndoEntry(b) \/ UndoTp(b)
        PROVE  \A c \in Brackets : UndoOK(c)'
    <2>1. "entry" \in Legs /\ "tp" \in Legs
      BY DEF Legs
    <2>2. UNCHANGED failedAt /\ \A c \in Brackets \ {b} : pc'[c] = pc[c]
      BY <1>2, <1>5 DEF UndoEntry, UndoTp, Goes
    <2>3. CASE UndoEntry(b)
      <3>1. /\ pc[b] = "undoEntry" /\ TryCancel(b, <<b, "entry">>)
            /\ pc'[b] = IF failedAt[b] = "sl" /\ Has(b, "tp") THEN "undoTp" ELSE "failed"
        BY <1>2, <2>3 DEF UndoEntry, Goes
      <3> QED
        BY <1>1, <2>1, <2>2, <3>1, UndoTryCancel
    <2>4. CASE UndoTp(b)
      <3>1. pc[b] = "undoTp" /\ TryCancel(b, <<b, "tp">>) /\ pc'[b] = "failed"
        BY <1>2, <2>4 DEF UndoTp, Goes
      <3> QED
        BY <1>1, <2>1, <2>2, <3>1, UndoTryCancel
    <2> QED
      BY <1>5, <2>3, <2>4
  <1>6. ASSUME NEW b \in Brackets, CancelLeg(b) PROVE \A c \in Brackets : UndoOK(c)'
    <2>1. PICK leg \in Legs : canceller[b] = leg
      BY <1>6 DEF CancelLeg
    <2>2. TryCancel(b, <<b, leg>>) /\ UNCHANGED <<pc, failedAt>>
      BY <1>6, <2>1 DEF CancelLeg
    <2>3. pc[b] = "done"
      BY <1>1, <2>1 DEF BracketOK, CancelProgress, Legs
    <2> QED
      BY <1>1, <2>2, <2>3, UndoTryCancel
  <1>7. ASSUME NEW p \in Prices, MarketMoves(p) PROVE \A c \in Brackets : UndoOK(c)'
    <2>1. SetMarketPrice(p) /\ UNCHANGED taskVars
      BY <1>7 DEF MarketMoves
    <2>2. \A b \in Brackets : Status(b, "entry") # "Triggered"
      BY <1>1 DEF BracketOK, EntryFirstOK
    <2>3. UNCHANGED <<config, params, links>> /\ \A b \in Brackets : MarketMovesBracket(b, p)
      BY <1>1, <2>1, <2>2, MarketEffect
    <2> QED
      BY <1>1, <2>1, <2>3, UndoMarket
  <1>8. ASSUME \/ \E b \in Brackets : StartCancel(b)
               \/ \E b \in Brackets, leg \in Exits, p \in Prices : Drag(b, leg, p)
               \/ UNCHANGED vars
        PROVE  \A c \in Brackets : UndoOK(c)'
    <2>1. UNCHANGED <<config, params, pc, failedAt, lost>>
      BY <1>8 DEF StartCancel, Drag, ModifyOrder, vars, bookVars, taskVars
    <2>2. \A c \in Brackets, l \in Legs : Status(c, l)' = Status(c, l)
      <3>1. \/ UNCHANGED orders
            \/ \E i \in Ids, p \in Prices :
                 orders' = [orders EXCEPT ![i] = [status |-> orders[i].status, at |-> p]]
        BY <1>2, <1>8
        DEF StartCancel, Drag, ModifyOrder, vars, bookVars, Exits, Ids, Legs
      <3>2. \A i \in Ids : orders'[i].status = orders[i].status
        BY <1>2, <3>1
      <3> QED
        BY <3>2 DEF Status, Ids
    <2> QED
      BY <1>1, <2>1, <2>2, UndoUntouched
  <1> QED
    BY <1>3, <1>4, <1>5, <1>6, <1>7, <1>8 DEF Next, Exits

\* place_bracket that fails past the entry leaves nothing in the book but the leg
\* whose placement failed, and that only for a position: for any number of
\* brackets, with prices moving and fills coming between its calls, when its
\* cancels arrive.
THEOREM FailedSubmitIsDeadAlways ==
  ASSUME FlakyNeverRejects
  PROVE  Spec => []FailedSubmitIsDead
  <1> DEFINE UInv == IInv /\ \A b \in Brackets : UndoOK(b)
  <1>1. Init => UInv
    <2> SUFFICES ASSUME Init, NEW b \in Brackets PROVE UndoOK(b)
      BY InitOK
    <2>1. \A leg \in Legs : Status(b, leg) = "none"
      BY DEF Init, BookInit, Status, Ids
    <2>2. pc[b] = "idle" /\ failedAt[b] = "none"
      BY DEF Init
    <2> QED
      BY <2>1, <2>2 DEF UndoOK, FailureKnown, PlacedBefore, UndoProgress, Legs, Exits
  <1>2. UInv /\ [Next]_vars => UInv'
    BY StepOK, UndoStep
  <1>3. UInv => FailedSubmitIsDead
    <2> SUFFICES ASSUME UInv, NEW b \in Brackets \ lost, pc[b] = "failed", LiveLegs(b) # {},
                        failedAt[b] # "entry"
                 PROVE  Status(b, "entry") = "Filled" /\ LiveLegs(b) = {failedAt[b]}
      BY DEF FailedSubmitIsDead
    <2>1. UndoOK(b) /\ TypeOK
      BY DEF IInv
    <2>2. LiveLegs(b) \subseteq Legs /\ \A l \in LiveLegs(b) : IsLive(Status(b, l))
      BY DEF LiveLegs, LegsOf
    <2>3. failedAt[b] \in Exits
      BY <2>1, <2>2
      DEF UndoOK, FailureKnown, PlacedBefore, TypeOK, IsLive, Legs, Exits
    <2>4. Status(b, "entry") = "Filled"
      BY <2>1, <2>2, <2>3 DEF UndoOK, UndoProgress
    <2>5. \A l \in Legs : IsLive(Status(b, l)) => l = failedAt[b]
      BY <2>1, <2>3, <2>4
      DEF UndoOK, UndoProgress, PlacedBefore, IsLive, Terminal, Legs, Exits
    <2> QED
      BY <2>2, <2>4, <2>5
  <1> HIDE DEF UInv
  <1> QED
    BY <1>1, <1>2, <1>3, PTL DEF Spec

-----------------------------------------------------------------------------
(* Bracket submission implements BracketLife *)

\* The value of the entry and the number of exits that BracketLife sees.
Phase(st) ==
  IF st = "none" THEN "idle"
  ELSE IF st = "Filled" THEN "filled"
  ELSE IF st \in {"Cancelled", "Rejected"} THEN "dead"
  ELSE "pending"

ExitCount(tp, sl) == IF tp = "Filled" \/ sl = "Filled" THEN 1 ELSE 0

MappedOK ==
  \A b \in Brackets :
    /\ EntryPhase(b) = Phase(Status(b, "entry"))
    /\ Cardinality(FilledExits(b)) = ExitCount(Status(b, "tp"), Status(b, "sl"))

LEMMA Mapped == IInv => MappedOK
  <1> SUFFICES ASSUME IInv, NEW b \in Brackets
               PROVE  /\ EntryPhase(b) = Phase(Status(b, "entry"))
                      /\ Cardinality(FilledExits(b)) = ExitCount(Status(b, "tp"), Status(b, "sl"))
    BY DEF MappedOK
  <1>1. EntryPhase(b) = Phase(Status(b, "entry"))
    <2>1. CASE Status(b, "entry") = "none"
      BY <2>1, Zenon DEF EntryPhase, Phase
    <2>2. CASE Status(b, "entry") = "Filled"
      BY <2>2, Zenon DEF EntryPhase, Phase
    <2>3. CASE Status(b, "entry") \in {"Cancelled", "Rejected"}
      BY <2>3, Zenon DEF EntryPhase, Phase
    <2>4. CASE Status(b, "entry") \notin {"none", "Filled", "Cancelled", "Rejected"}
      BY <2>4, Zenon DEF EntryPhase, Phase
    <2> QED
      BY <2>1, <2>2, <2>3, <2>4
  <1>2. Cardinality(FilledExits(b)) = ExitCount(Status(b, "tp"), Status(b, "sl"))
    BY FilledExitsOf DEF IInv, ExitCount
  <1> QED
    BY <1>1, <1>2

\* A step of BracketLife at b, in terms of the statuses.
LifeMoves(b) ==
  LET e == Phase(Status(b, "entry"))
      n == ExitCount(Status(b, "tp"), Status(b, "sl"))
  IN  \/ e' = e /\ n' = n
      \/ e = "idle" /\ e' \in {"pending", "filled", "dead"} /\ n' = n
      \/ e = "pending" /\ e' = "filled" /\ n' \in {n, 1}
      \/ e = "pending" /\ e' = "dead" /\ n' = n
      \/ /\ e = "filled" \/ (e = "pending" /\ Exposed(b))
         /\ n = 0 /\ n' = 1 /\ e' = e

LEMMA SameMoves ==
  ASSUME NEW b \in Brackets, \A leg \in Legs : Status(b, leg)' = Status(b, leg)
  PROVE  LifeMoves(b)
  BY DEF LifeMoves, Legs

LEMMA CancelMoves ==
  ASSUME TypeOK, NEW b \in Brackets, NEW leg \in Legs, CancelOrder(<<b, leg>>),
         NEW c \in Brackets
  PROVE  LifeMoves(c)
  <1>1. \A d \in Brackets, l \in Legs :
          Status(d, l)' = Status(d, l)
          \/ (IsLive(Status(d, l)) /\ Status(d, l)' = "Cancelled")
    <2>1. \A d \in Brackets, l \in Legs :
            Status(d, l)' = IF /\ d = b /\ IsLive(Status(b, leg)) /\ IsLive(Status(d, l))
                               /\ l = leg \/ (leg = "entry" /\ <<b, l>> \in links)
                            THEN "Cancelled" ELSE Status(d, l)
      BY CancelEffect
    <2> QED
      BY <2>1
  <1> QED
    BY <1>1 DEF LifeMoves, Phase, ExitCount, IsLive, Terminal, Legs

LEMMA PlaceMoves ==
  ASSUME TypeOK, NEW b \in Brackets, BracketOK(b), NEW leg \in Legs, pc[b] = leg,
         PlaceOrder(<<b, leg>>, Transmit(b, leg)), NEW c \in Brackets
  PROVE  LifeMoves(c)
  <1>1. Transmit(b, leg) \in BOOLEAN
    BY DEF Transmit
  <1>2. /\ Status(b, leg) = "none"
        /\ \A d \in Brackets \ {b}, l \in Legs : Status(d, l)' = Status(d, l)
        /\ PlacedRejected(b, leg) \/ PlacedHeld(b, leg) \/ PlacedActivates(b, leg)
    BY <1>1, PlaceEffect
  <1>3. CASE c # b
    BY <1>2, <1>3, SameMoves
  <1>4. CASE c = b
    <2>1. \A l \in Legs : Status(b, l) \in {"none", "Held", "Rejected"}
      BY DEF BracketOK, HeldTogether
    <2>2. CASE PlacedRejected(b, leg)
      BY <1>2, <1>4, <2>1, <2>2 DEF PlacedRejected, LifeMoves, Phase, ExitCount, Legs
    <2>3. CASE PlacedHeld(b, leg)
      BY <1>2, <1>4, <2>1, <2>3 DEF PlacedHeld, LifeMoves, Phase, ExitCount, Legs
    <2>4. CASE PlacedActivates(b, leg)
      BY <1>2, <1>4, <2>1, <2>4
      DEF PlacedActivates, Before, LifeMoves, Phase, ExitCount, Legs, Exits
    <2> QED
      BY <1>2, <2>2, <2>3, <2>4
  <1> QED
    BY <1>3, <1>4

\* A stop that is hit by a price which leaves its working entry unfilled.
LEMMA ExposedStop ==
  ASSUME TypeOK, NEW b \in Brackets, BracketOK(b), NEW p \in Prices,
         Status(b, "entry") = "Working", ~EntryHit(b, p), StopHit(b, p), Has(b, "sl")
  PROVE  Exposed(b)
  <1>1. /\ params[b].kind \in {"Market", "Limit", "Stop", "StopLimit"}
        /\ orders[<<b, "sl">>].at \in Nat /\ orders[<<b, "entry">>].at \in Nat /\ p \in Nat
    <2>1. /\ params \in [Brackets -> BracketParams] /\ orders \in [Ids -> OrderRecords]
          /\ <<b, "sl">> \in Ids /\ <<b, "entry">> \in Ids
      BY BookTypes DEF Ids, Legs
    <2>2. params[b] \in BracketParams
      BY <2>1
    <2>3. \A i \in Ids : orders[i].at \in Prices \cup {0}
      BY <2>1 DEF OrderRecords
    <2>4. params[b].kind \in {"Market", "Limit", "Stop", "StopLimit"}
      BY <2>2 DEF BracketParams, SlKinds
    <2>5. /\ orders[<<b, "sl">>].at \in Prices \cup {0}
          /\ orders[<<b, "entry">>].at \in Prices \cup {0}
      BY <2>1, <2>3
    <2>6. Prices \subseteq Nat
      BY PricesAssumption
    <2>7. \A x \in Prices \cup {0} : x \in Nat
      BY <2>6
    <2>8. p \in Nat
      BY <2>6
    <2> QED
      BY <2>4, <2>5, <2>7, <2>8
  <1>2. CASE params[b].kind = "Limit"
    <2>1. IF params[b].side = "Buy"
          THEN orders[<<b, "sl">>].at > orders[<<b, "entry">>].at
          ELSE orders[<<b, "sl">>].at < orders[<<b, "entry">>].at
      BY <1>1, <1>2 DEF EntryHit, StopHit
    <2> QED
      BY <1>2, <2>1, Zenon DEF Exposed
  <1>3. CASE params[b].kind = "Market"
    <2>1. config.timing # "instant"
      BY <1>3 DEF BracketOK, EntryFirstOK
    <2> QED
      BY <1>3, <2>1, Zenon DEF Exposed
  <1>4. CASE params[b].kind \notin {"Market", "Limit"}
    BY <1>4, Zenon DEF Exposed
  <1> QED
    BY <1>2, <1>3, <1>4

LEMMA MarketMovesLife ==
  ASSUME TypeOK, NEW b \in Brackets, BracketOK(b), NEW p \in Prices, MarketMovesBracket(b, p)
  PROVE  LifeMoves(b)
  <1>1. PICK hit \in BOOLEAN, fired \in BOOLEAN :
          /\ hit => Status(b, "tp") = "Working"
          /\ fired => SlThen(b, hit) = "Triggered" /\ StopHit(b, p)
          /\ Status(b, "entry")' = IF EntryHit(b, p) THEN "Filled" ELSE Status(b, "entry")
          /\ Status(b, "sl")' \in IF fired THEN {"Filled"}
                                  ELSE {SlThen(b, hit)} \cup
                                       (IF SlThen(b, hit) = "Triggered" THEN {"Working"} ELSE {})
          /\ Status(b, "tp")' = IF /\ fired /\ <<b, "tp">> \in links
                                   /\ IsLive(TpThen(b, hit))
                                THEN "Cancelled" ELSE TpThen(b, hit)
    BY DEF MarketMovesBracket
  <1>2. EntryHit(b, p) => Status(b, "entry") = "Working"
    BY DEF EntryHit
  <1>3. Status(b, "sl") = "Triggered" =>
          /\ Status(b, "tp") # "Filled" /\ <<b, "sl">> \in links /\ Has(b, "sl")
          /\ Status(b, "entry") \in {"Working", "Filled"}
    BY DEF BracketOK, OneExit, LegsPlaced, EntryFirstOK, Exits, Legs, Active, IsLive, Terminal
  <1>4. CASE hit
    <2>1. Status(b, "entry") = "Filled" /\ Status(b, "sl") # "Filled"
      BY <1>1, <1>4 DEF BracketOK, OneExit, EntryFirstOK, Exits, IsLive, Terminal
    <2>2. ~fired
      BY <1>1, <1>3, <1>4 DEF SlThen, IsLive, Terminal
    <2> QED
      BY <1>1, <1>2, <1>4, <2>1, <2>2 DEF LifeMoves, Phase, ExitCount, TpThen, SlThen
  <1>5. CASE ~hit /\ fired
    <2>1. Status(b, "sl") = "Triggered" /\ StopHit(b, p)
      BY <1>1, <1>5 DEF SlThen
    <2>2. Status(b, "entry") = "Filled" \/ EntryHit(b, p) \/ Exposed(b)
      BY <1>3, <2>1, ExposedStop
    <2> QED
      BY <1>1, <1>2, <1>3, <1>5, <2>1, <2>2 DEF LifeMoves, Phase, ExitCount
  <1>6. CASE ~hit /\ ~fired
    BY <1>1, <1>2, <1>6 DEF LifeMoves, Phase, ExitCount, TpThen, SlThen
  <1> QED
    BY <1>4, <1>5, <1>6

LEMMA EveryStepMoves ==
  ASSUME IInv, [Next]_vars, NEW c \in Brackets
  PROVE  LifeMoves(c)
  <1>1. TypeOK /\ \A b \in Brackets : BracketOK(b)
    BY DEF IInv
  <1>2. ASSUME UNCHANGED bookVars PROVE LifeMoves(c)
    <2>1. \A leg \in Legs : Status(c, leg)' = Status(c, leg)
      BY <1>2 DEF bookVars, Status
    <2> QED
      BY <2>1, SameMoves
  <1>3. ASSUME NEW b \in Brackets, Call(b) \/ NoIds(b) \/ StartCancel(b) PROVE LifeMoves(c)
    BY <1>2, <1>3 DEF Call, NoIds, StartCancel
  <1>4. ASSUME NEW b \in Brackets, Place(b) \/ PlaceFails(b) PROVE LifeMoves(c)
    <2>1. PICK leg \in Legs : pc[b] = leg
      BY <1>4 DEF Place, PlaceFails
    <2>2. PlaceOrder(<<b, leg>>, Transmit(b, leg)) \/ UNCHANGED bookVars
      BY <1>4, <2>1 DEF Place, PlaceFails
    <2> QED
      BY <1>1, <1>2, <2>1, <2>2, PlaceMoves
  <1>5. ASSUME NEW b \in Brackets, UndoEntry(b) \/ UndoTp(b) \/ CancelLeg(b) PROVE LifeMoves(c)
    <2>1. PICK leg \in Legs : TryCancel(b, <<b, leg>>)
      BY <1>5 DEF UndoEntry, UndoTp, CancelLeg, Legs
    <2>2. CancelOrder(<<b, leg>>) \/ UNCHANGED bookVars
      BY <2>1 DEF TryCancel
    <2> QED
      BY <1>1, <1>2, <2>2, CancelMoves
  <1>6. ASSUME NEW b \in Brackets, NEW leg \in {"tp", "sl"}, NEW p \in Prices, Drag(b, leg, p)
        PROVE  LifeMoves(c)
    <2>1. orders \in [Ids -> OrderRecords]
      BY <1>1, BookTypes
    <2>2. orders' = [orders EXCEPT ![<<b, leg>>] =
                       [status |-> orders[<<b, leg>>].status, at |-> p]]
      BY <1>6, <2>1 DEF Drag, ModifyOrder
    <2>3. \A l \in Legs : Status(c, l)' = Status(c, l)
      BY <2>1, <2>2 DEF Status, Ids
    <2> QED
      BY <2>3, SameMoves
  <1>7. ASSUME NEW p \in Prices, MarketMoves(p) PROVE LifeMoves(c)
    <2>1. \A b \in Brackets : Status(b, "entry") # "Triggered"
      BY <1>1 DEF BracketOK, EntryFirstOK
    <2>2. SetMarketPrice(p)
      BY <1>7 DEF MarketMoves
    <2>3. \A b \in Brackets : MarketMovesBracket(b, p)
      BY <1>1, <2>1, <2>2, MarketEffect
    <2> QED
      BY <1>1, <2>3, MarketMovesLife
  <1>8. CASE UNCHANGED vars
    BY <1>2, <1>8 DEF vars
  <1> QED
    BY <1>3, <1>4, <1>5, <1>6, <1>7, <1>8 DEF Next

\* Bracket submission keeps the promise of BracketLife: a step of tasks, gateway
\* or market takes every bracket to where BracketLife may take it.
THEOREM ImplementsLife == Spec => ImplementsBracketLife
  <1>1. Init => Life!Init
    <2> SUFFICES ASSUME Init PROVE Life!Init
      OBVIOUS
    <2>1. IInv /\ \A b \in Brackets, leg \in Legs : Status(b, leg) = "none"
      BY InitOK DEF Init, BookInit, Status, Ids
    <2>2. ASSUME NEW b \in Brackets
          PROVE  EntryPhase(b) = "idle" /\ Cardinality(FilledExits(b)) = 0
      BY <2>1, Mapped DEF MappedOK, Phase, ExitCount, Legs
    <2> QED
      BY <2>2 DEF Life!Init
  <1>2. IInv /\ MappedOK /\ MappedOK' /\ [Next]_vars => Life!Next
    <2> SUFFICES ASSUME IInv, MappedOK, MappedOK', [Next]_vars, NEW b \in Brackets
                 PROVE  \/ Life!Unchanged(b) \/ Life!Place(b) \/ Life!Enter(b)
                        \/ Life!Die(b) \/ Life!Exit(b)
      BY DEF Life!Next
    <2>1. /\ EntryPhase(b) = Phase(Status(b, "entry"))
          /\ Cardinality(FilledExits(b)) = ExitCount(Status(b, "tp"), Status(b, "sl"))
          /\ EntryPhase(b)' = Phase(Status(b, "entry"))'
          /\ Cardinality(FilledExits(b))' = ExitCount(Status(b, "tp"), Status(b, "sl"))'
      BY DEF MappedOK
    <2>2. LifeMoves(b)
      BY EveryStepMoves
    <2> QED
      BY <2>1, <2>2
      DEF LifeMoves, Life!Unchanged, Life!Place, Life!Enter, Life!Die, Life!Exit
  <1> QED
    BY <1>1, <1>2, Mapped, Invariant, PTL DEF Spec, ImplementsBracketLife, Life!Spec

=============================================================================
