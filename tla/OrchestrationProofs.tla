------------------------- MODULE OrchestrationProofs -------------------------
(***************************************************************************)
(* For any number of requests, providers and periods: the type of every    *)
(* variable, and that the budget is overspent by one call per request that *)
(* has been in flight, that billing claims no more than was used, and that *)
(* the rows of the runs tell what was tried and said.                      *)
(*                                                                         *)
(* The first part is about the budget.  Its bound is not inductive:        *)
(* nothing in it says why a commit may add a charge.  Reach adds to what   *)
(* is spent the charge of every run that is past the budget gate and may   *)
(* still charge the period.  The gate opens only where the committed spend *)
(* is within the limit; and what may still be charged then is at most one  *)
(* call for each run in flight.                                            *)
(*                                                                         *)
(* The others rest on lemmas about what the code computes by going through *)
(* a list: the chain of providers, the next number of a conversation and   *)
(* the sums of the billing rows.  Induction proves them, on sets of        *)
(* numbers: a set that is not empty has a least number (Least).            *)
(***************************************************************************)
EXTENDS Orchestration, FiniteSetTheorems, SequenceTheorems, WellFoundedInduction, TLAPS

Stages == {"call", "bill", "commit", "end"}

Fields == {"op", "stage", "charge", "period"}

\* What a transaction of a client is, as far as money goes.
Shape ==
  \A p \in Clients : tx[p] # Idle =>
    /\ Fields \subseteq DOMAIN tx[p] /\ tx[p].op = "run" /\ tx[p].stage \in Stages
    /\ tx[p].charge \in 0..MaxCharge
    /\ tx[p].period \in [Kinds -> 1..MaxPeriods]

Money ==
  /\ today \in [Kinds -> 1..MaxPeriods]
  /\ spent \in [Kinds -> [1..MaxPeriods -> Nat]]
  /\ overlap \in Nat
  /\ DOMAIN tx = Clients \union Streamers

\* A run records its usage in a period that has begun; the others are empty.
PastOnly ==
  /\ \A k \in Kinds, i \in 1..MaxPeriods : i > today[k] => spent[k][i] = 0
  /\ \A p \in Clients : \A k \in Kinds :
       (tx[p] # Idle /\ tx[p].stage = "commit") => tx[p].period[k] <= today[k]

Flying == Cardinality(InFlight) <= overlap

Reach ==
  HardStop => \A k \in Kinds : \A i \in 1..MaxPeriods :
    spent[k][i] + Cardinality(MayCharge(k, i)) * MaxCharge <= Limit[k] + overlap * MaxCharge

MoneyInv == Money /\ Shape /\ PastOnly /\ Flying /\ Reach

-----------------------------------------------------------------------------
(* Sets of requests, and products *)

\* The requests in flight are finitely many, and so are those that may charge.
LEMMA Finite ==
  /\ IsFiniteSet(InFlight) /\ Cardinality(InFlight) \in Nat
  /\ \A k, i : /\ IsFiniteSet(MayCharge(k, i)) /\ Cardinality(MayCharge(k, i)) \in Nat
               /\ Cardinality(MayCharge(k, i)) <= Cardinality(InFlight)
<1>1. IsFiniteSet(Clients)
  BY SizesAssumption
<1>2. InFlight \subseteq Clients
  BY DEF InFlight
<1>3. \A k, i : MayCharge(k, i) \subseteq InFlight
  BY DEF MayCharge, InFlight
<1>4. IsFiniteSet(InFlight)
  BY <1>1, <1>2, FS_Subset
<1> QED
  BY <1>3, <1>4, FS_Subset, FS_CardinalityType

\* A larger number of calls costs at least as much.
LEMMA Monotone ==
  ASSUME NEW a \in Nat, NEW b \in Nat, a <= b, NEW c \in Nat
  PROVE  /\ a * c \in Nat /\ b * c \in Nat /\ a * c <= b * c
         /\ (a + 1) * c = a * c + c
  OBVIOUS

-----------------------------------------------------------------------------
(* The invariant holds at first *)

LEMMA MoneyInit == Init => MoneyInv
<1> SUFFICES ASSUME Init PROVE MoneyInv
  OBVIOUS
<1>p. \A p \in Clients : tx[p] = Idle
  BY DEF Init
<1>d. \A k, i : MayCharge(k, i) = {}
  BY <1>p DEF MayCharge
<1>f. InFlight = {}
  BY <1>p DEF InFlight
<1>c. Cardinality({}) = 0
  BY FS_EmptySet
<1>1. Money
  <2>1. today \in [Kinds -> 1..MaxPeriods]
    BY SizesAssumption DEF Init
  <2> QED
    BY <2>1 DEF Init, Money
<1>2. Shape /\ PastOnly
  BY <1>p, <1>1 DEF Init, Shape, PastOnly, Money
<1>3. Flying
  BY <1>f, <1>c DEF Flying, Init
<1>4. Reach
  <2> SUFFICES ASSUME NEW k \in Kinds, NEW i \in 1..MaxPeriods
               PROVE  spent[k][i] + Cardinality(MayCharge(k, i)) * MaxCharge
                        <= Limit[k] + overlap * MaxCharge
    BY DEF Reach
  <2>1. Cardinality(MayCharge(k, i)) = 0 /\ overlap = 0 /\ spent[k][i] = 0
    BY <1>d, <1>c DEF Init
  <2>2. Limit[k] \in Nat /\ MaxCharge \in Nat
    BY SizesAssumption
  <2>3. 0 * MaxCharge = 0
    BY <2>2
  <2> QED
    BY <2>1, <2>2, <2>3
<1> QED
  BY <1>1, <1>2, <1>3, <1>4 DEF MoneyInv

-----------------------------------------------------------------------------
(* Steps that only shorten what may be charged *)

\* Where spend and overlap stand still, it is enough that no run may charge a
\* period that it could not charge before.
LEMMA StillReach ==
  ASSUME MoneyInv, UNCHANGED <<spent, overlap>>,
         \A k \in Kinds, i \in 1..MaxPeriods :
           IsFiniteSet(MayCharge(k, i)') /\ MayCharge(k, i)' \subseteq MayCharge(k, i)
  PROVE  Reach'
<1> SUFFICES ASSUME HardStop, NEW k \in Kinds, NEW i \in 1..MaxPeriods
             PROVE  spent'[k][i] + Cardinality(MayCharge(k, i))' * MaxCharge
                      <= Limit[k] + overlap' * MaxCharge
  BY DEF Reach
<1> DEFINE a == Cardinality(MayCharge(k, i))'
           b == Cardinality(MayCharge(k, i))
           x == a * MaxCharge
           y == b * MaxCharge
           z == overlap * MaxCharge
<1>1. a \in Nat /\ b \in Nat /\ a <= b
  BY Finite, FS_Subset, FS_CardinalityType
<1>2. x <= y /\ x \in Nat /\ y \in Nat
  <2>1. MaxCharge \in Nat
    BY SizesAssumption
  <2> HIDE DEF a, b
  <2> QED
    BY ONLY <1>1, <2>1, Monotone
<1>3. spent[k][i] \in Nat /\ Limit[k] \in Nat /\ z \in Nat
  BY Monotone, SizesAssumption DEF MoneyInv, Money
<1>4. spent[k][i] + y <= Limit[k] + z
  BY DEF MoneyInv, Reach
<1>5. spent' = spent /\ overlap' = overlap
  OBVIOUS
<1>6. spent[k][i] + x <= Limit[k] + z
  <2> HIDE DEF x, y, z
  <2> QED
    BY <1>2, <1>3, <1>4
<1> QED
  BY <1>5, <1>6

\* A step of a client that leaves money and time alone keeps the invariant if
\* the transaction ends, or stays on the same side of the gate.
LEMMA QuietStep ==
  ASSUME MoneyInv, NEW p \in Clients, tx[p] # Idle, NEW t,
         UNCHANGED <<today, spent, overlap>>, tx' = [tx EXCEPT ![p] = t],
         \/ t = Idle
         \/ /\ t # Idle /\ Fields \subseteq DOMAIN t /\ t.op = "run" /\ t.stage \in Stages
            /\ t.charge \in 0..MaxCharge /\ t.period \in [Kinds -> 1..MaxPeriods]
            /\ \/ t.stage = "end"
               \/ t.stage \in {"call", "bill"} /\ tx[p].stage \in {"call", "bill"}
               \/ t.stage = "commit" /\ tx[p].stage \in {"call", "bill"} /\ t.period = today
  PROVE  MoneyInv'
<1>t. /\ tx'[p] = t /\ \A q \in Clients : q # p => tx'[q] = tx[q]
      /\ DOMAIN tx' = DOMAIN tx
  BY DEF MoneyInv, Money
<1>1. Money'
  BY <1>t DEF MoneyInv, Money
<1>2. Shape'
  BY <1>t DEF MoneyInv, Shape
<1>3. PastOnly'
  <2>1. \A k \in Kinds : today[k] \in Nat
    BY DEF MoneyInv, Money
  <2> QED
    BY <1>t, <2>1 DEF MoneyInv, PastOnly
<1>4. Flying'
  <2>1. InFlight' \subseteq InFlight
    BY <1>t DEF InFlight
  <2> QED
    BY <2>1, Finite, FS_Subset, FS_CardinalityType DEF MoneyInv, Flying, Money
<1>5. \A k \in Kinds, i \in 1..MaxPeriods :
        IsFiniteSet(MayCharge(k, i)') /\ MayCharge(k, i)' \subseteq MayCharge(k, i)
  <2> TAKE k \in Kinds, i \in 1..MaxPeriods
  <2>1. MayCharge(k, i)' \subseteq MayCharge(k, i)
    BY <1>t DEF MayCharge, MoneyInv, Money, Shape
  <2> QED
    BY <2>1, Finite, FS_Subset
<1>6. Reach'
  BY <1>5, StillReach
<1> QED
  BY <1>1, <1>2, <1>3, <1>4, <1>6 DEF MoneyInv

-----------------------------------------------------------------------------
(* The gate, the commit, and time *)

\* A run begins: refused, or the committed spend is within the limit.
LEMMA BeginStep ==
  ASSUME MoneyInv, NEW p \in Clients, Begin(p)
  PROVE  MoneyInv'
<1>1. PICK t : /\ tx' = [tx EXCEPT ![p] = t]
               /\ t # Idle /\ Fields \subseteq DOMAIN t /\ t.op = "run" /\ t.stage \in {"call", "end"}
               /\ t.charge = 0 /\ t.period = today
               /\ t.stage = "call" => \E e \in Nat : Allowed(e)
  <2>1. \A q : Charges(q) \subseteq Nat
    BY SizesAssumption DEF Charges
  <2>2. PICK explicit \in BOOLEAN, th \in ThreadFor :
          \E primary \in IF explicit THEN Providers ELSE {ProviderForEmployee} :
            \E e \in {0} \union Charges(primary) :
              tx' = [tx EXCEPT ![p] = Opened(explicit, th, primary, e)]
    BY DEF Begin
  <2>3. PICK primary :
          \E e \in {0} \union Charges(primary) :
            tx' = [tx EXCEPT ![p] = Opened(explicit, th, primary, e)]
    BY <2>2
  <2>5. PICK e \in {0} \union Charges(primary) :
          tx' = [tx EXCEPT ![p] = Opened(explicit, th, primary, e)]
    BY <2>3
  <2>4. e \in Nat
    BY <2>1
  <2> QED
    <3> DEFINE t == Opened(explicit, th, primary, e)
    <3>1. Fields \subseteq DOMAIN t /\ t.op = "run" /\ t.charge = 0 /\ t.period = today
          /\ t.stage \in {"call", "end"} /\ (t.stage = "call" => Allowed(e))
      BY DEF Opened, Fields
    <3>2. t # Idle
      BY <3>1 DEF Idle
    <3>3. tx' = [tx EXCEPT ![p] = t]
      BY <2>5
    <3> HIDE DEF t
    <3> QED
      BY <3>3, <2>4, <3>1, <3>2
<1>2. /\ tx[p] = Idle /\ UNCHANGED <<today, spent>>
      /\ overlap' = IF Cardinality(InFlight) < overlap THEN overlap
                    ELSE Cardinality(InFlight) + 1
  BY DEF Begin, settings, accounts, history
<1>t. /\ tx'[p] = t /\ \A q \in Clients : q # p => tx'[q] = tx[q]
      /\ DOMAIN tx' = DOMAIN tx
  BY <1>1 DEF MoneyInv, Money
<1>c. Cardinality(InFlight) \in Nat /\ overlap \in Nat
  BY Finite DEF MoneyInv, Money
<1>f. IsFiniteSet(InFlight') /\ Cardinality(InFlight') = Cardinality(InFlight) + 1
  <2>1. InFlight' = InFlight \union {p} /\ p \notin InFlight
    BY <1>1, <1>2, <1>t DEF InFlight
  <2> QED
    BY <2>1, Finite, FS_AddElement
<1>3. Money'
  BY <1>t, <1>2, <1>c DEF MoneyInv, Money
<1>4. Shape'
  BY <1>1, <1>t, SizesAssumption DEF MoneyInv, Shape, Stages, Money
<1>5. PastOnly'
  BY <1>1, <1>2, <1>t DEF MoneyInv, PastOnly
<1>o. overlap' \in Nat /\ overlap <= overlap' /\ Cardinality(InFlight') <= overlap'
  BY <1>2, <1>c, <1>f DEF MoneyInv, Flying
<1>6. Flying'
  BY <1>o DEF Flying
<1>7. Reach'
  <2> SUFFICES ASSUME HardStop, NEW k \in Kinds, NEW i \in 1..MaxPeriods
               PROVE  spent[k][i] + Cardinality(MayCharge(k, i)') * MaxCharge
                        <= Limit[k] + overlap' * MaxCharge
    BY <1>2 DEF Reach
  <2> DEFINE a == Cardinality(MayCharge(k, i)')
             x == a * MaxCharge
             z == overlap' * MaxCharge
  <2>1. MayCharge(k, i)' \subseteq InFlight'
    BY DEF MayCharge, InFlight
  <2>2. IsFiniteSet(MayCharge(k, i)') /\ a \in Nat /\ a <= overlap'
    BY <2>1, <1>f, <1>o, FS_Subset, FS_CardinalityType
  <2>3. x \in Nat /\ z \in Nat /\ x <= z
    BY <2>2, <1>o, Monotone, SizesAssumption
  <2>4. spent[k][i] \in Nat /\ Limit[k] \in Nat
    BY SizesAssumption DEF MoneyInv, Money
  <2>5. CASE spent[k][i] <= Limit[k]
    <3>1. spent[k][i] + x <= Limit[k] + z
      <4> HIDE DEF x, z
      <4> QED
        BY <2>3, <2>4, <2>5
    <3> QED
      BY <3>1
  <2>6. CASE ~(spent[k][i] <= Limit[k])
    <3>1. ~(t.stage = "call" /\ today[k] = i)
      <4> SUFFICES ASSUME t.stage = "call", today[k] = i PROVE FALSE
        OBVIOUS
      <4>1. PICK e \in Nat : Allowed(e)
        BY <1>1
      <4>2. spent[k][i] + e <= Limit[k]
        BY <4>1 DEF Allowed
      <4> QED
        BY <4>2, <2>4, <2>6
    <3>2. MayCharge(k, i)' \subseteq MayCharge(k, i)
      BY <3>1, <1>1, <1>2, <1>t DEF MayCharge
    <3> DEFINE b == Cardinality(MayCharge(k, i))
               y == b * MaxCharge
               w == overlap * MaxCharge
    <3>3. b \in Nat /\ a <= b
      BY <3>2, Finite, FS_Subset
    <3>4. x <= y /\ y \in Nat /\ w \in Nat /\ w <= z
      BY <3>3, <2>2, <1>o, <1>c, Monotone, SizesAssumption
    <3>5. spent[k][i] + y <= Limit[k] + w
      BY DEF MoneyInv, Reach
    <3>6. spent[k][i] + x <= Limit[k] + z
      <4> HIDE DEF x, y, z, w
      <4> QED
        BY <2>3, <2>4, <3>4, <3>5
    <3> QED
      BY <3>6
  <2> QED
    BY <2>5, <2>6
<1> QED
  BY <1>3, <1>4, <1>5, <1>6, <1>7 DEF MoneyInv

\* A commit charges its period, and its run may charge it no more.
LEMMA CommitStep ==
  ASSUME MoneyInv, NEW p \in Clients, Commit(p)
  PROVE  MoneyInv'
<1> DEFINE charge == tx[p].charge
           period == tx[p].period
<1>1. /\ tx[p] # Idle /\ tx[p].stage = "commit"
      /\ tx' = [tx EXCEPT ![p] = Idle]
      /\ today' = today /\ overlap' = overlap
      /\ spent' = [k \in Kinds |-> [spent[k] EXCEPT ![period[k]] = @ + charge]]
  BY DEF Commit, Kept, settings, accounts, history
<1>t. /\ tx'[p] = Idle /\ \A q \in Clients : q # p => tx'[q] = tx[q]
      /\ DOMAIN tx' = DOMAIN tx
  BY <1>1 DEF MoneyInv, Money
<1>2. charge \in Nat /\ charge <= MaxCharge /\ period \in [Kinds -> 1..MaxPeriods]
  BY <1>1, SizesAssumption DEF MoneyInv, Shape
<1>s. \A k \in Kinds, i \in 1..MaxPeriods :
        spent'[k][i] = IF period[k] = i THEN spent[k][i] + charge ELSE spent[k][i]
  BY <1>1, <1>2 DEF MoneyInv, Money
<1>3. Money'
  <2>1. spent' \in [Kinds -> [1..MaxPeriods -> Nat]]
    <3>1. \A k \in Kinds : [spent[k] EXCEPT ![period[k]] = @ + charge]
                             \in [1..MaxPeriods -> Nat]
      <4> TAKE k \in Kinds
      <4>1. spent[k] \in [1..MaxPeriods -> Nat] /\ period[k] \in 1..MaxPeriods
        BY <1>2 DEF MoneyInv, Money
      <4> HIDE DEF charge, period
      <4>2. spent[k][period[k]] \in Nat /\ charge \in Nat
        BY <4>1, <1>2
      <4> QED
        BY <4>1, <4>2
    <3> QED
      BY <1>1, <3>1
  <2> QED
    BY <2>1, <1>1, <1>t DEF MoneyInv, Money
<1>4. Shape'
  BY <1>t DEF MoneyInv, Shape
<1>5. PastOnly'
  <2>1. \A k \in Kinds : period[k] <= today[k] /\ today[k] \in Nat /\ period[k] \in Nat
    BY <1>1, <1>2 DEF MoneyInv, PastOnly, Money
  <2>2. \A k \in Kinds, i \in 1..MaxPeriods : i > today[k] => spent'[k][i] = 0
    BY <2>1, <1>s DEF MoneyInv, PastOnly
  <2> QED
    BY <2>2, <1>1, <1>t DEF MoneyInv, PastOnly
<1>6. Flying'
  <2>1. InFlight' \subseteq InFlight
    BY <1>t DEF InFlight
  <2> QED
    BY <2>1, <1>1, Finite, FS_Subset, FS_CardinalityType DEF MoneyInv, Flying, Money
<1>7. Reach'
  <2> SUFFICES ASSUME HardStop, NEW k \in Kinds, NEW i \in 1..MaxPeriods
               PROVE  spent'[k][i] + Cardinality(MayCharge(k, i)') * MaxCharge
                        <= Limit[k] + overlap * MaxCharge
    BY <1>1 DEF Reach
  <2> DEFINE a == Cardinality(MayCharge(k, i)')
             b == Cardinality(MayCharge(k, i))
             x == a * MaxCharge
             y == b * MaxCharge
             z == overlap * MaxCharge
  <2>1. MayCharge(k, i)' = MayCharge(k, i) \ {p}
    BY <1>1, <1>t DEF MayCharge
  <2>2. IsFiniteSet(MayCharge(k, i)) /\ a \in Nat /\ b \in Nat /\ a <= b
    BY <2>1, Finite, FS_Subset, FS_CardinalityType
  <2>3. x \in Nat /\ y \in Nat /\ z \in Nat /\ x <= y
    <3>1. MaxCharge \in Nat /\ overlap \in Nat
      BY SizesAssumption DEF MoneyInv, Money
    <3> HIDE DEF a, b
    <3> QED
      BY ONLY <2>2, <3>1, Monotone
  <2>4. spent[k][i] \in Nat /\ Limit[k] \in Nat /\ spent[k][i] + y <= Limit[k] + z
    BY SizesAssumption DEF MoneyInv, Money, Reach
  <2>5. CASE period[k] = i
    <3>1. p \in MayCharge(k, i)
      BY <1>1, <2>5 DEF MayCharge
    <3>2. b = a + 1
      <4>1. Cardinality(MayCharge(k, i) \ {p}) = b - 1
        BY <3>1, <2>2, FS_RemoveElement
      <4>2. a = b - 1
        BY <4>1, <2>1
      <4> QED
        BY <4>2, <2>2
    <3>3. y = x + MaxCharge
      <4>1. MaxCharge \in Nat
        BY SizesAssumption
      <4> HIDE DEF a, b
      <4> QED
        BY ONLY <3>2, <2>2, <4>1, Monotone
    <3>4. spent'[k][i] = spent[k][i] + charge
      BY <1>s, <2>5
    <3>5. spent'[k][i] + x <= Limit[k] + z
      <4> HIDE DEF x, y, z, charge
      <4> QED
        BY <3>3, <3>4, <2>3, <2>4, <1>2, SizesAssumption
    <3> QED
      BY <3>5
  <2>6. CASE period[k] # i
    <3>1. spent'[k][i] = spent[k][i]
      BY <1>s, <2>6
    <3>2. spent'[k][i] + x <= Limit[k] + z
      <4> HIDE DEF x, y, z
      <4> QED
        BY <3>1, <2>3, <2>4
    <3> QED
      BY <3>2
  <2> QED
    BY <2>5, <2>6
<1> QED
  BY <1>3, <1>4, <1>5, <1>6, <1>7 DEF MoneyInv

\* A new period is empty, and what is in flight may be charged to it.
LEMMA PeriodStep ==
  ASSUME MoneyInv, NEW month \in BOOLEAN, NewPeriod(month)
  PROVE  MoneyInv'
<1>1. /\ UNCHANGED <<spent, overlap, tx>>
      /\ today["day"] < MaxPeriods /\ (month => today["month"] < MaxPeriods)
      /\ today' = [k \in Kinds |-> IF k = "day" \/ month THEN today[k] + 1 ELSE today[k]]
  BY DEF NewPeriod, accounts
<1>t. \A k \in Kinds : today[k] \in Nat /\ today'[k] \in 1..MaxPeriods /\ today[k] <= today'[k]
  <2> SUFFICES ASSUME NEW k \in Kinds
               PROVE  today[k] \in Nat /\ today'[k] \in 1..MaxPeriods /\ today[k] <= today'[k]
    OBVIOUS
  <2>1. today[k] \in 1..MaxPeriods /\ MaxPeriods \in Nat /\ k \in {"day", "month"}
    BY SizesAssumption DEF MoneyInv, Money, Kinds
  <2>2. today'[k] = today[k] \/ (today'[k] = today[k] + 1 /\ today[k] < MaxPeriods)
    BY <1>1, <2>1
  <2> QED
    BY ONLY <2>1, <2>2
<1>2. Money'
  <2>1. today' \in [Kinds -> 1..MaxPeriods]
    BY <1>1, <1>t
  <2> QED
    BY <1>1, <2>1 DEF MoneyInv, Money
<1>3. Shape'
  BY <1>1 DEF MoneyInv, Shape
<1>4. PastOnly'
  <2>1. \A k \in Kinds, i \in 1..MaxPeriods : i > today'[k] => spent'[k][i] = 0
    BY <1>1, <1>t DEF MoneyInv, PastOnly
  <2>2. \A p \in Clients : \A k \in Kinds :
          (tx[p] # Idle /\ tx[p].stage = "commit") => tx[p].period[k] <= today'[k]
    BY <1>t DEF MoneyInv, PastOnly, Shape
  <2> QED
    BY <2>1, <2>2, <1>1 DEF PastOnly
<1>5. Flying'
  BY <1>1 DEF MoneyInv, Flying, InFlight
<1>6. Reach'
  <2> SUFFICES ASSUME HardStop, NEW k \in Kinds, NEW i \in 1..MaxPeriods
               PROVE  spent[k][i] + Cardinality(MayCharge(k, i)') * MaxCharge
                        <= Limit[k] + overlap * MaxCharge
    BY <1>1 DEF Reach
  <2> DEFINE a == Cardinality(MayCharge(k, i)')
             b == Cardinality(MayCharge(k, i))
             x == a * MaxCharge
             y == b * MaxCharge
             z == overlap * MaxCharge
  <2>1. MayCharge(k, i)' \subseteq InFlight
    BY <1>1 DEF MayCharge, InFlight
  <2>2. a \in Nat /\ a <= overlap /\ overlap \in Nat
    BY <2>1, Finite, FS_Subset, FS_CardinalityType DEF MoneyInv, Flying, Money
  <2>3. x \in Nat /\ z \in Nat /\ x <= z
    <3>1. MaxCharge \in Nat
      BY SizesAssumption
    <3> HIDE DEF a
    <3> QED
      BY ONLY <2>2, <3>1, Monotone
  <2>4. spent[k][i] \in Nat /\ Limit[k] \in Nat
    BY SizesAssumption DEF MoneyInv, Money
  <2>5. CASE i > today[k]
    <3>1. spent[k][i] = 0
      BY <2>5 DEF MoneyInv, PastOnly
    <3>2. spent[k][i] + x <= Limit[k] + z
      <4> HIDE DEF x, z
      <4> QED
        BY <3>1, <2>3, <2>4
    <3> QED
      BY <3>2
  <2>6. CASE ~(i > today[k])
    <3>1. today'[k] = i => today[k] = i
      BY <2>6, <1>t
    <3>2. MayCharge(k, i)' \subseteq MayCharge(k, i)
      BY <3>1, <1>1 DEF MayCharge
    <3>3. b \in Nat /\ a <= b
      BY <3>2, Finite, FS_Subset
    <3>4. x <= y /\ y \in Nat
      <4>1. MaxCharge \in Nat
        BY SizesAssumption
      <4> HIDE DEF a, b
      <4> QED
        BY ONLY <3>3, <2>2, <4>1, Monotone
    <3>5. spent[k][i] + y <= Limit[k] + z
      BY DEF MoneyInv, Reach
    <3>6. spent[k][i] + x <= Limit[k] + z
      <4> HIDE DEF x, y, z
      <4> QED
        BY <2>3, <2>4, <3>4, <3>5
    <3> QED
      BY <3>6
  <2> QED
    BY <2>5, <2>6
<1> QED
  BY <1>2, <1>3, <1>4, <1>5, <1>6 DEF MoneyInv

\* Steps of streams, of the settings, and the end of the process: no client
\* gains a transaction.
LEMMA OtherStep ==
  ASSUME MoneyInv, UNCHANGED <<today, spent, overlap>>, DOMAIN tx' = DOMAIN tx,
         \A p \in Clients : tx'[p] = tx[p] \/ tx'[p] = Idle
  PROVE  MoneyInv'
<1>1. Money'
  BY DEF MoneyInv, Money
<1>2. Shape' /\ PastOnly'
  BY DEF MoneyInv, Shape, PastOnly
<1>3. Flying'
  <2>1. InFlight' \subseteq InFlight
    BY DEF InFlight
  <2> QED
    BY <2>1, Finite, FS_Subset, FS_CardinalityType DEF MoneyInv, Flying, Money
<1>4. \A k \in Kinds, i \in 1..MaxPeriods :
        IsFiniteSet(MayCharge(k, i)') /\ MayCharge(k, i)' \subseteq MayCharge(k, i)
  <2> TAKE k \in Kinds, i \in 1..MaxPeriods
  <2>1. MayCharge(k, i)' \subseteq MayCharge(k, i)
    BY DEF MayCharge
  <2> QED
    BY <2>1, Finite, FS_Subset
<1>5. Reach'
  BY <1>4, StillReach
<1> QED
  BY <1>1, <1>2, <1>3, <1>5 DEF MoneyInv

-----------------------------------------------------------------------------
(* Every step *)

LEMMA MoneyStep == MoneyInv /\ [Next]_vars => MoneyInv'
<1> SUFFICES ASSUME MoneyInv, [Next]_vars PROVE MoneyInv'
  OBVIOUS
<1> USE DEF settings, accounts, history
<1>1. ASSUME NEW p \in Clients, Begin(p) PROVE MoneyInv'
  BY <1>1, BeginStep
<1>2. ASSUME NEW p \in Clients, Succeed(p) PROVE MoneyInv'
  <2>1. /\ tx[p] # Idle /\ tx[p].op = "run" /\ tx[p].stage = "call"
        /\ UNCHANGED <<today, spent, overlap>>
    BY <1>2 DEF Succeed
  <2>2. PICK c \in Charges(tx[p].chain[tx[p].at]) :
          tx' = [tx EXCEPT ![p] =
                   [tx[p] EXCEPT !.stage = "bill", !.charge = c,
                                 !.tries = Append(tx[p].tries,
                                                  [provider |-> tx[p].chain[tx[p].at],
                                                   outcome |-> "succeeded"])]]
    BY <1>2 DEF Succeed
  <2> DEFINE t == [tx[p] EXCEPT !.stage = "bill", !.charge = c,
                                !.tries = Append(tx[p].tries,
                                                 [provider |-> tx[p].chain[tx[p].at],
                                                  outcome |-> "succeeded"])]
  <2>3. c \in 0..MaxCharge
    BY SizesAssumption DEF Charges
  <2>4. /\ Fields \subseteq DOMAIN tx[p] /\ tx[p].period \in [Kinds -> 1..MaxPeriods]
    BY <2>1 DEF MoneyInv, Shape
  <2>5. /\ DOMAIN t = DOMAIN tx[p] /\ t.op = "run" /\ t.stage = "bill" /\ t.charge = c
        /\ t.period = tx[p].period
    BY <2>1, <2>4 DEF Fields
  <2>6. t # Idle
    BY <2>5 DEF Idle
  <2>7. tx' = [tx EXCEPT ![p] = t]
    BY <2>2
  <2> HIDE DEF t
  <2> QED
    BY <2>1, <2>3, <2>4, <2>5, <2>6, <2>7, QuietStep DEF Stages
<1>3. ASSUME NEW p \in Clients, NEW outcome, Fail(p, outcome) PROVE MoneyInv'
  <2> DEFINE after == OneMore(tx[p], outcome)
             t == [after EXCEPT !.stage = IF after.at > Len(after.chain) THEN "end" ELSE "call"]
  <2>1. /\ tx[p] # Idle /\ tx[p].op = "run" /\ tx[p].stage = "call"
        /\ tx' = [tx EXCEPT ![p] = t]
        /\ UNCHANGED <<today, spent, overlap>>
    BY <1>3 DEF Fail
  <2>2. /\ Fields \subseteq DOMAIN tx[p] /\ tx[p].period \in [Kinds -> 1..MaxPeriods]
        /\ tx[p].charge \in 0..MaxCharge
    BY <2>1 DEF MoneyInv, Shape
  <2>3. /\ DOMAIN after = DOMAIN tx[p] /\ after.op = "run" /\ after.charge = tx[p].charge
        /\ after.period = tx[p].period
    BY <2>1, <2>2 DEF OneMore, Fields
  <2> HIDE DEF after
  <2>4. /\ DOMAIN t = DOMAIN tx[p] /\ t.op = "run" /\ t.stage \in {"end", "call"}
        /\ t.charge = tx[p].charge /\ t.period = tx[p].period
    BY <2>2, <2>3 DEF Fields
  <2>5. t # Idle
    BY <2>4 DEF Idle
  <2> HIDE DEF t
  <2> QED
    BY <2>1, <2>2, <2>4, <2>5, QuietStep DEF Stages
<1>4. ASSUME NEW p \in Clients, Bill(p) PROVE MoneyInv'
  <2>1. /\ tx[p] # Idle /\ tx[p].op = "run" /\ tx[p].stage = "bill"
        /\ UNCHANGED <<today, spent, overlap>>
    BY <1>4 DEF Bill
  <2>2. PICK r, b : tx' = [tx EXCEPT ![p] = [tx[p] EXCEPT !.stage = "commit", !.period = today,
                                                !.rows = r, !.base = b]]
    BY <1>4 DEF Bill
  <2> DEFINE t == [tx[p] EXCEPT !.stage = "commit", !.period = today, !.rows = r, !.base = b]
  <2>3. /\ Fields \subseteq DOMAIN tx[p] /\ tx[p].charge \in 0..MaxCharge
        /\ today \in [Kinds -> 1..MaxPeriods]
    BY <2>1 DEF MoneyInv, Shape, Money
  <2>4. /\ DOMAIN t = DOMAIN tx[p] /\ t.op = "run" /\ t.stage = "commit"
        /\ t.charge = tx[p].charge /\ t.period = today
    BY <2>1, <2>3 DEF Fields
  <2>5. t # Idle
    BY <2>4 DEF Idle
  <2>6. tx' = [tx EXCEPT ![p] = t]
    BY <2>2
  <2> HIDE DEF t
  <2> QED
    BY <2>1, <2>3, <2>4, <2>5, <2>6, QuietStep DEF Stages
<1>5. ASSUME NEW p \in Clients, Commit(p) PROVE MoneyInv'
  BY <1>5, CommitStep
<1>6. ASSUME NEW p \in Clients, CommitFailed(p) PROVE MoneyInv'
  <2>1. /\ tx[p] # Idle /\ tx' = [tx EXCEPT ![p] = Idle] /\ UNCHANGED <<today, spent, overlap>>
    BY <1>6 DEF CommitFailed, Kept
  <2> QED
    BY <2>1, QuietStep
<1>7. ASSUME NEW s \in Streamers, StreamBegin(s) \/ StreamEnd(s) \/ CancelRun(s)
      PROVE  MoneyInv'
  <2>1. /\ UNCHANGED <<today, spent, overlap>>
        /\ \/ \E t : tx' = [tx EXCEPT ![s] = t]
           \/ tx' = tx
    BY <1>7 DEF StreamBegin, StreamEnd, CancelRun
  <2>2. s \notin Clients
    BY SizesAssumption
  <2>3. DOMAIN tx' = DOMAIN tx /\ \A p \in Clients : tx'[p] = tx[p]
    <3>1. Clients \subseteq DOMAIN tx
      BY DEF MoneyInv, Money
    <3>2. CASE \E t : tx' = [tx EXCEPT ![s] = t]
      BY <3>1, <3>2, <2>2
    <3>3. CASE tx' = tx
      BY <3>3
    <3> QED
      BY <3>2, <3>3, <2>1
  <2> QED
    BY <2>1, <2>3, OtherStep
<1>8. ASSUME Settings PROVE MoneyInv'
  <2>1. UNCHANGED <<today, spent, overlap, tx>>
    BY <1>8 DEF Settings
  <2> QED
    BY <2>1, OtherStep
<1>9. ASSUME Crash PROVE MoneyInv'
  <2>1. /\ UNCHANGED <<today, spent, overlap>>
        /\ tx' = [p \in DOMAIN tx |-> Idle] /\ Clients \subseteq DOMAIN tx
    BY <1>9 DEF Crash, MoneyInv, Money
  <2> QED
    BY <2>1, OtherStep
<1>10. ASSUME NEW month \in BOOLEAN, NewPeriod(month) PROVE MoneyInv'
  BY <1>10, PeriodStep
<1>11. ASSUME UNCHANGED vars PROVE MoneyInv'
  BY <1>11, OtherStep DEF vars
<1> QED
  BY <1>1, <1>2, <1>3, <1>4, <1>5, <1>6, <1>7, <1>8, <1>9, <1>10, <1>11 DEF Next, Stage

\* However many requests there are, the spend of every day and month stays
\* within the limit and one call for each run in flight at once.
THEOREM Overspend == Spec => []OverspendBounded
<1>1. MoneyInv => OverspendBounded
  <2> SUFFICES ASSUME MoneyInv, HardStop, NEW k \in Kinds, NEW i \in 1..MaxPeriods
               PROVE  spent[k][i] <= Limit[k] + overlap * MaxCharge
    BY DEF OverspendBounded
  <2> DEFINE x == Cardinality(MayCharge(k, i)) * MaxCharge
             z == overlap * MaxCharge
  <2>1. x \in Nat /\ z \in Nat
    <3>1. Cardinality(MayCharge(k, i)) \in Nat /\ overlap \in Nat /\ MaxCharge \in Nat
      BY Finite, SizesAssumption DEF MoneyInv, Money
    <3> HIDE DEF MoneyInv
    <3> QED
      BY <3>1, Monotone
  <2>2. spent[k][i] \in Nat /\ Limit[k] \in Nat /\ spent[k][i] + x <= Limit[k] + z
    BY SizesAssumption DEF MoneyInv, Money, Reach
  <2>3. spent[k][i] <= Limit[k] + z
    <3> HIDE DEF x, z
    <3> QED
      BY <2>1, <2>2
  <2> QED
    BY <2>3
<1> QED
  BY MoneyInit, MoneyStep, <1>1, PTL DEF Spec

-----------------------------------------------------------------------------
(* Induction, and what it says of the functions defined by recursion *)

\* A set of numbers has a least one, unless it is empty.
LEMMA Least ==
  ASSUME NEW S, S \subseteq Nat, S # {}
  PROVE  \E n \in S : \A m \in S : n <= m
<1> DEFINE R == {p \in Nat \X Nat : p[1] < p[2]}
<1>1. R = OpToRel(<, Nat)
  BY DEF OpToRel
<1>2. IsWellFoundedOn(R, Nat)
  BY <1>1, NatLessThanWellFounded
<1>3. \A m, n \in Nat : m < n => <<m, n>> \in R
  OBVIOUS
<1> HIDE DEF R
<1>4. PICK n \in S : \A m \in S : <<m, n>> \notin R
  BY <1>2, WFMin
<1>5. ASSUME NEW m \in S PROVE n <= m
  <2>1. m \in Nat /\ n \in Nat /\ <<m, n>> \notin R
    BY <1>4
  <2>2. ~ (m < n)
    BY <2>1, <1>3
  <2> QED
    BY <2>1, <2>2
<1> QED
  BY <1>5

\* A set with 0, and with every number whose predecessor it has, has them all.
LEMMA Induction ==
  ASSUME NEW S, 0 \in S, \A n \in Nat \ {0} : n - 1 \in S => n \in S
  PROVE  \A n \in Nat : n \in S
<1> SUFFICES ASSUME NEW c \in Nat, c \notin S PROVE FALSE
  OBVIOUS
<1> DEFINE T == {n \in Nat : n \notin S}
<1>1. PICK n \in T : \A m \in T : n <= m
  BY Least
<1>2. n # 0 /\ n - 1 \in Nat /\ n - 1 \notin T
  BY <1>1
<1> QED
  BY <1>1, <1>2

\* Each value of f comes from the one before it, by step g[n];
Stepwise(f, g, N) == \A n \in 1..N : f[n] = g[n][f[n - 1]]

\* where f and h agree, they agree on the next value.
InStep(f, h, N) == \A n \in 1..N : f[n - 1] = h[n - 1] => f[n] = h[n]

\* What is defined by recursion from c, step by step, exists;
LEMMA Recursion ==
  ASSUME NEW T, NEW c \in T, NEW N \in Nat, NEW g \in [1..N -> [T -> T]]
  PROVE  \E f \in [0..N -> T] : f[0] = c /\ Stepwise(f, g, N)
<1> DEFINE Upto(n, f) == f[0] = c /\ \A i \in 1..n : f[i] = g[i][f[i - 1]]
           S == {n \in Nat : n <= N => \E f \in [0..n -> T] : Upto(n, f)}
<1>1. 0 \in S
  <2> DEFINE f == [n \in 0..0 |-> c]
  <2>1. f \in [0..0 -> T] /\ Upto(0, f)
    OBVIOUS
  <2> QED
    BY <2>1
<1>2. ASSUME NEW n \in Nat \ {0}, n - 1 \in S PROVE n \in S
  <2> SUFFICES ASSUME n <= N PROVE \E h \in [0..n -> T] : Upto(n, h)
    OBVIOUS
  <2>1. PICK f \in [0..(n - 1) -> T] : Upto(n - 1, f)
    BY <1>2
  <2> DEFINE h == [i \in 0..n |-> IF i = n THEN g[n][f[n - 1]] ELSE f[i]]
  <2>2. n \in 1..N /\ g[n] \in [T -> T] /\ f[n - 1] \in T
    OBVIOUS
  <2>3. h \in [0..n -> T]
    BY <2>2
  <2>4. h[0] = c /\ h[n] = g[n][h[n - 1]]
    BY <2>1
  <2>5. ASSUME NEW i \in 1..(n - 1) PROVE h[i] = g[i][h[i - 1]]
    BY <2>1
  <2>6. \A i \in 1..n : i = n \/ i \in 1..(n - 1)
    OBVIOUS
  <2> HIDE DEF h
  <2>7. Upto(n, h)
    BY <2>4, <2>5, <2>6
  <2> QED
    BY <2>3, <2>7
<1> HIDE DEF S
<1>3. N \in S
  BY <1>1, <1>2, Induction
<1> QED
  BY <1>3 DEF S, Stepwise

\* and it is the only such function.
LEMMA OneRecursion ==
  ASSUME NEW N \in Nat, NEW f, NEW h, f[0] = h[0], InStep(f, h, N)
  PROVE  \A n \in 0..N : f[n] = h[n]
<1> DEFINE S == {n \in Nat : n <= N => f[n] = h[n]}
<1>1. 0 \in S
  OBVIOUS
<1>2. ASSUME NEW n \in Nat \ {0}, n - 1 \in S PROVE n \in S
  BY <1>2 DEF InStep
<1> HIDE DEF S
<1>3. \A n \in Nat : n \in S
  BY <1>1, <1>2, Induction
<1> QED
  BY <1>3 DEF S

\* The partial sums of v.
Adds(s, v, N) ==
  /\ s \in [0..N -> Nat] /\ s[0] = 0
  /\ \A n \in 1..N : s[n] = s[n - 1] + v[n]

\* Total is the last of the partial sums.
LEMMA TotalAdds ==
  ASSUME NEW v \in Seq(Nat)
  PROVE  \E s : Adds(s, v, Len(v)) /\ Total(v) = s[Len(v)]
<1> PICK N \in Nat : N = Len(v)
  OBVIOUS
<1> DEFINE sums(s) == s = [n \in 0..N |-> IF n = 0 THEN 0 ELSE s[n - 1] + v[n]]
           chosen == CHOOSE s : sums(s)
           g == [n \in 1..N |-> [x \in Nat |-> x + v[n]]]
<1>1. \A n \in 1..N : v[n] \in Nat
  OBVIOUS
<1>2. g \in [1..N -> [Nat -> Nat]] /\ \A n \in 1..N, x \in Nat : g[n][x] = x + v[n]
  BY <1>1
<1> HIDE DEF g
<1>3. PICK f \in [0..N -> Nat] : f[0] = 0 /\ Stepwise(f, g, N)
  BY <1>2, Recursion
<1>4. ASSUME NEW n \in 1..N PROVE f[n] = f[n - 1] + v[n]
  <2>1. f[n - 1] \in Nat
    OBVIOUS
  <2> QED
    BY <2>1, <1>2, <1>3 DEF Stepwise
<1>5. sums(f)
  BY <1>3, <1>4
<1>6. sums(chosen)
  BY <1>5
<1>7. Total(v) = chosen[N]
  BY DEF Total
<1>8. \A s : sums(s) => s[0] = 0 /\ \A n \in 1..N : s[n] = s[n - 1] + v[n]
  BY <1>1
<1> HIDE DEF chosen
<1>9. chosen[0] = 0 /\ \A n \in 1..N : chosen[n] = chosen[n - 1] + v[n]
  BY <1>6, <1>8
<1> HIDE DEF sums
<1>10. \A n \in 0..N : chosen[n] = f[n]
  <2>1. InStep(chosen, f, N)
    BY <1>4, <1>9 DEF InStep
  <2>2. chosen[0] = f[0]
    BY <1>3, <1>9
  <2> QED
    BY <2>1, <2>2, OneRecursion
<1>11. chosen[N] = f[N]
  BY <1>10
<1> QED
  BY <1>3, <1>4, <1>7, <1>11 DEF Adds

LEMMA SumsCompare ==
  ASSUME NEW a \in Nat, NEW b \in Nat, NEW u \in Nat, a <= b + u,
         NEW x \in Nat, NEW y \in Nat, NEW z \in Nat, x <= y + z
  PROVE  a + x <= b + y + (u + z)
  OBVIOUS

\* Where one entry grows by at most c and the others do not, so do the sums.
LEMMA AddsCompare ==
  ASSUME NEW N \in Nat, NEW v \in [1..N -> Nat], NEW w, NEW s, NEW t,
         Adds(s, v, N), Adds(t, w, N), NEW m, NEW c \in Nat,
         \A n \in 1..N : w[n] \in Nat /\ w[n] <= v[n] + (IF n = m THEN c ELSE 0)
  PROVE  t[N] <= s[N] + c /\ (m \notin 1..N => t[N] <= s[N])
<1> DEFINE Up(n) == IF m \in 1..n THEN c ELSE 0
           S == {n \in Nat : n <= N => t[n] <= s[n] + Up(n)}
<1>1. 0 \in S
  BY DEF Adds
<1>2. ASSUME NEW n \in Nat \ {0}, n - 1 \in S PROVE n \in S
  <2> SUFFICES ASSUME n <= N PROVE t[n] <= s[n] + Up(n)
    OBVIOUS
  <2>1. /\ n - 1 \in 0..N /\ n \in 1..N /\ s[n - 1] \in Nat /\ t[n - 1] \in Nat
        /\ v[n] \in Nat /\ w[n] \in Nat
    BY DEF Adds
  <2>2. s[n] = s[n - 1] + v[n] /\ t[n] = t[n - 1] + w[n]
    BY <2>1 DEF Adds
  <2>3. t[n - 1] <= s[n - 1] + Up(n - 1)
    BY <1>2, <2>1
  <2>4. w[n] <= v[n] + (IF n = m THEN c ELSE 0)
    BY <2>1
  <2> DEFINE more == IF n = m THEN c ELSE 0
  <2>5. Up(n - 1) \in Nat /\ more \in Nat /\ Up(n) = Up(n - 1) + more
    OBVIOUS
  <2>6. w[n] <= v[n] + more
    BY <2>4
  <2> HIDE DEF Up, more
  <2> QED
    <3>1. t[n - 1] + w[n] <= s[n - 1] + v[n] + (Up(n - 1) + more)
      BY ONLY <2>1, <2>3, <2>5, <2>6, SumsCompare
    <3> QED
      BY ONLY <3>1, <2>2, <2>5
<1> HIDE DEF S
<1>3. N \in S
  BY <1>1, <1>2, Induction
<1>4. s[N] \in Nat /\ t[N] \in Nat /\ t[N] <= s[N] + Up(N)
  BY <1>3 DEF S, Adds
<1> QED
  BY <1>4

\* The total grows by no more than its entries.
LEMMA TotalGrows ==
  ASSUME NEW v \in Seq(Nat), NEW w \in Seq(Nat), Len(w) = Len(v), NEW m, NEW c \in Nat,
         \A n \in 1..Len(v) : w[n] <= v[n] + (IF n = m THEN c ELSE 0)
  PROVE  Total(v) \in Nat /\ Total(w) \in Nat /\ Total(w) <= Total(v) + c
<1> DEFINE N == Len(v)
<1>1. N \in Nat /\ v \in [1..N -> Nat] /\ \A n \in 1..N : w[n] \in Nat
  OBVIOUS
<1>2. PICK s : Adds(s, v, N) /\ Total(v) = s[N]
  BY TotalAdds
<1>3. PICK t : Adds(t, w, N) /\ Total(w) = t[N]
  BY TotalAdds
<1>4. s[N] \in Nat /\ t[N] \in Nat
  BY <1>1, <1>2, <1>3 DEF Adds
<1>5. t[N] <= s[N] + c
  BY <1>1, <1>2, <1>3, AddsCompare
<1> QED
  BY <1>2, <1>3, <1>4, <1>5

LEMMA TotalAppend ==
  ASSUME NEW v \in Seq(Nat), NEW w \in Seq(Nat), Len(w) = Len(v) + 1,
         \A n \in 1..Len(v) : w[n] = v[n]
  PROVE  /\ Total(v) \in Nat /\ Total(w) \in Nat
         /\ Total(w) <= Total(v) + w[Len(v) + 1]
<1> DEFINE N == Len(v)
<1>1. N \in Nat /\ v \in [1..N -> Nat] /\ N + 1 \in 1..Len(w) /\ w[N + 1] \in Nat
  OBVIOUS
<1>2. PICK s : Adds(s, v, N) /\ Total(v) = s[N]
  BY TotalAdds
<1>3. PICK t : Adds(t, w, N + 1) /\ Total(w) = t[N + 1]
  BY TotalAdds
<1> HIDE DEF N
<1>4. t[N + 1] = t[N] + w[N + 1] /\ t[N] \in Nat /\ t[N + 1] \in Nat /\ s[N] \in Nat
  <2>1. N + 1 \in 1..(N + 1) /\ N + 1 - 1 = N /\ N \in 0..(N + 1)
    BY <1>1
  <2> QED
    BY <2>1, <1>1, <1>2, <1>3 DEF Adds
<1> DEFINE u == [n \in 0..N |-> t[n]]
<1>5. Adds(u, w, N)
  <2>1. u \in [0..N -> Nat] /\ u[0] = 0
    BY <1>1, <1>3 DEF Adds
  <2>2. ASSUME NEW n \in 1..N PROVE u[n] = u[n - 1] + w[n]
    <3>1. n \in 1..(N + 1) /\ n - 1 \in 0..N /\ n \in 0..N
      BY <1>1
    <3> QED
      BY <3>1, <1>3 DEF Adds
  <2> HIDE DEF u
  <2> QED
    BY <2>1, <2>2 DEF Adds
<1>6. \A n \in 1..N : w[n] \in Nat /\ w[n] <= v[n] + (IF n = 0 THEN 0 ELSE 0)
  BY <1>1 DEF N
<1>7. u[N] <= s[N] + 0
  <2> HIDE DEF u
  <2> QED
    BY <1>1, <1>2, <1>5, <1>6, AddsCompare
<1>8. t[N] <= s[N]
  BY <1>7, <1>4, <1>1
<1> QED
  BY <1>1, <1>2, <1>3, <1>4, <1>8 DEF N

-----------------------------------------------------------------------------
(* Chains of providers *)

\* A chain has no provider twice.
Distinct(chain) == \A c, d \in DOMAIN chain : chain[c] = chain[d] => c = d

\* What the first n providers of the order make of a chain.
Link(chain, primary, n) ==
  /\ chain \in Seq(Providers) /\ Len(chain) >= 1 /\ Distinct(chain)
  /\ \A c \in 1..Len(chain) :
       chain[c] = primary \/ \E j \in 1..n : chain[c] = Order[j]

LEMMA LinkStep ==
  ASSUME NEW primary \in Providers, NEW n \in 1..Len(Order), NEW chain,
         Link(chain, primary, n - 1)
  PROVE  /\ Link(chain, primary, n)
         /\ Order[n] # primary => Link(Append(chain, Order[n]), primary, n)
<1>1. /\ n - 1 \in Nat /\ \A j \in 1..(n - 1) : j \in 1..n /\ j \in DOMAIN Order /\ j # n
      /\ n \in DOMAIN Order /\ Order[n] \in Providers
  BY OrderAssumption
<1>2. Link(chain, primary, n)
  BY <1>1 DEF Link
<1>3. ASSUME Order[n] # primary PROVE Link(Append(chain, Order[n]), primary, n)
  <2> DEFINE longer == Append(chain, Order[n])
  <2>1. chain \in Seq(Providers) /\ Len(chain) \in Nat /\ Len(chain) >= 1
    BY DEF Link
  <2>2. /\ longer \in Seq(Providers) /\ Len(longer) = Len(chain) + 1
        /\ \A c \in 1..Len(chain) : longer[c] = chain[c]
        /\ longer[Len(chain) + 1] = Order[n]
    BY <1>1, <2>1, AppendProperties
  <2> HIDE DEF longer
  <2>3. \A c \in 1..Len(longer) : c = Len(chain) + 1 \/ c \in 1..Len(chain)
    BY <2>1, <2>2
  <2>4. \A c \in 1..Len(chain) : chain[c] # Order[n]
    BY <1>1, <1>3, OrderAssumption DEF Link
  <2>5. Distinct(longer)
    <3>1. DOMAIN longer = 1..Len(longer) /\ DOMAIN chain = 1..Len(chain)
      BY <2>1, <2>2
    <3> QED
      BY <3>1, <2>2, <2>3, <2>4 DEF Distinct, Link
  <2>6. ASSUME NEW c \in 1..Len(longer)
        PROVE  longer[c] = primary \/ \E j \in 1..n : longer[c] = Order[j]
    BY <1>1, <2>2, <2>3 DEF Link
  <2>7. Link(longer, primary, n)
    BY <2>1, <2>2, <2>5, <2>6 DEF Link
  <2> QED
    BY <2>7 DEF longer
<1> QED
  BY <1>2, <1>3

\* A chain names providers, none of them twice; an explicit one stands alone.
LEMMA ChainIs ==
  ASSUME NEW primary \in Providers, NEW explicit \in BOOLEAN
  PROVE  /\ Chain(primary, explicit) \in Seq(Providers)
         /\ Len(Chain(primary, explicit)) >= 1
         /\ Distinct(Chain(primary, explicit))
         /\ explicit => Len(Chain(primary, explicit)) = 1
<1>1. CASE explicit
  <2>1. Chain(primary, explicit) = <<primary>>
    BY <1>1 DEF Chain
  <2> QED
    BY <2>1 DEF Distinct
<1>2. CASE ~explicit
  <2> PICK N \in Nat : N = Len(Order)
    BY OrderAssumption
  <2> DEFINE Next1(n, x) == IF Order[n] \in enabled \ {primary} THEN Append(x, Order[n]) ELSE x
             links(f) == f = [n \in 0..N |-> IF n = 0 THEN <<primary>> ELSE Next1(n, f[n - 1])]
             chosen == CHOOSE f : links(f)
             g == [n \in 1..N |-> [x \in Seq(Providers) |-> Next1(n, x)]]
  <2>1. \A n \in 1..N : n \in DOMAIN Order /\ Order[n] \in Providers
    BY OrderAssumption
  <2>2. \A n \in 1..N, x \in Seq(Providers) : Next1(n, x) \in Seq(Providers)
    BY <2>1, AppendProperties
  <2> HIDE DEF Next1
  <2>3. /\ g \in [1..N -> [Seq(Providers) -> Seq(Providers)]]
        /\ \A n \in 1..N, x \in Seq(Providers) : g[n][x] = Next1(n, x)
    BY <2>2
  <2> HIDE DEF g
  <2>4. PICK f \in [0..N -> Seq(Providers)] : f[0] = <<primary>> /\ Stepwise(f, g, N)
    <3>1. <<primary>> \in Seq(Providers)
      OBVIOUS
    <3> QED
      BY <3>1, <2>3, Recursion
  <2>5. ASSUME NEW n \in 1..N PROVE n - 1 \in 0..N /\ f[n] = Next1(n, f[n - 1])
    <3>1. n - 1 \in 0..N /\ f[n - 1] \in Seq(Providers)
      OBVIOUS
    <3> QED
      BY <3>1, <2>3, <2>4 DEF Stepwise
  <2>6. links(f)
    <3>1. \A n \in 0..N : n = 0 \/ (n \in 1..N /\ n # 0)
      OBVIOUS
    <3>2. \A n \in 0..N : f[n] = IF n = 0 THEN <<primary>> ELSE Next1(n, f[n - 1])
      BY ONLY <3>1, <2>4, <2>5
    <3> QED
      BY <3>2
  <2>7. links(chosen)
    BY <2>6
  <2>8. Chain(primary, explicit) = chosen[N]
    BY <1>2 DEF Chain, Next1
  <2>9. \A s : links(s) => s[0] = <<primary>> /\ \A n \in 1..N : s[n] = Next1(n, s[n - 1])
    <3>1. 0 \in 0..N /\ \A n \in 1..N : n \in 0..N /\ n # 0
      OBVIOUS
    <3> QED
      BY <3>1
  <2> HIDE DEF chosen
  <2>10. chosen[0] = <<primary>> /\ \A n \in 1..N : chosen[n] = Next1(n, chosen[n - 1])
    BY <2>7, <2>9
  <2> HIDE DEF links
  <2>11. chosen[N] = f[N]
    <3>1. InStep(chosen, f, N)
      BY <2>5, <2>10 DEF InStep
    <3>2. chosen[0] = f[0]
      BY <2>4, <2>10
    <3>3. \A n \in 0..N : chosen[n] = f[n]
      BY <3>1, <3>2, OneRecursion
    <3> QED
      BY <3>3
  <2> DEFINE S == {n \in Nat : n <= N => Link(f[n], primary, n)}
  <2>12. 0 \in S
    <3>1. f[0] \in Seq(Providers) /\ Len(f[0]) = 1 /\ f[0][1] = primary
      BY <2>4
    <3> HIDE DEF S
    <3>2. Link(f[0], primary, 0)
      BY <3>1 DEF Link, Distinct
    <3> QED
      BY <3>2 DEF S
  <2>13. ASSUME NEW n \in Nat \ {0}, n - 1 \in S PROVE n \in S
    <3> SUFFICES ASSUME n <= N PROVE Link(f[n], primary, n)
      OBVIOUS
    <3>1. n \in 1..N /\ Link(f[n - 1], primary, n - 1)
      BY <2>13
    <3> HIDE DEF S
    <3>2. /\ Link(f[n - 1], primary, n)
          /\ Order[n] # primary => Link(Append(f[n - 1], Order[n]), primary, n)
      BY <3>1, LinkStep
    <3> QED
      BY <3>1, <3>2, <2>5 DEF Next1
  <2> HIDE DEF S
  <2>14. N \in S
    BY <2>12, <2>13, Induction
  <2>15. Link(f[N], primary, N)
    BY <2>14 DEF S
  <2> QED
    BY <1>2, <2>8, <2>11, <2>15 DEF Link
<1> QED
  BY <1>1, <1>2

-----------------------------------------------------------------------------
(* Conversations: the messages of a thread and their numbers *)

\* Numbers that are finitely many have a bound.
LEMMA Bounded ==
  ASSUME NEW N \in Nat, NEW v \in [1..N -> Nat]
  PROVE  \E b \in Nat : \A n \in 1..N : v[n] <= b
<1> DEFINE S == {n \in Nat : n <= N => \E b \in Nat : \A i \in 1..n : v[i] <= b}
<1>1. 0 \in S
  <2>1. \A i \in 1..0 : v[i] <= 0
    OBVIOUS
  <2> QED
    BY <2>1
<1>2. ASSUME NEW n \in Nat \ {0}, n - 1 \in S PROVE n \in S
  <2> SUFFICES ASSUME n <= N PROVE \E b \in Nat : \A i \in 1..n : v[i] <= b
    OBVIOUS
  <2>1. PICK b \in Nat : \A i \in 1..(n - 1) : v[i] <= b
    BY <1>2
  <2>2. v[n] \in Nat /\ \A i \in 1..n : (i = n \/ i \in 1..(n - 1)) /\ v[i] \in Nat
    OBVIOUS
  <2>3. \A i \in 1..n : v[i] <= b + v[n]
    BY <2>1, <2>2
  <2> QED
    BY <2>2, <2>3
<1> HIDE DEF S
<1>3. N \in S
  BY <1>1, <1>2, Induction
<1> QED
  BY <1>3 DEF S

Rows ==
  /\ Len(runs) \in Nat /\ DOMAIN runs = 1..Len(runs)
  /\ \A i \in 1..Len(runs) : runs[i].first \in Nat /\ runs[i].last \in Nat

\* The messages of a thread are finitely many, with numbers below a bound.
LEMMA MessagesAre ==
  ASSUME Rows, NEW t
  PROVE  /\ IsFiniteSet(MessagesOf(t))
         /\ \A m \in MessagesOf(t) : m[2] \in Nat
         /\ \E b \in Nat : \A m \in MessagesOf(t) : m[2] < b
         /\ \A i \in 1..Len(runs) :
              (runs[i].thread = t /\ runs[i].first <= runs[i].last)
                => \E m \in MessagesOf(t) : m[2] = runs[i].last
<1> DEFINE last == [i \in 1..Len(runs) |-> runs[i].last]
<1>1. PICK b \in Nat : \A i \in 1..Len(runs) : last[i] <= b
  <2>1. Len(runs) \in Nat /\ last \in [1..Len(runs) -> Nat]
    BY DEF Rows
  <2> HIDE DEF last
  <2> QED
    BY <2>1, Bounded
<1>2. ASSUME NEW m \in MessagesOf(t) PROVE m \in (1..Len(runs)) \X (0..b)
  <2>1. PICK i \in 1..Len(runs) : \E n \in runs[i].first..runs[i].last : m = <<i, n>>
    BY DEF MessagesOf, Rows
  <2>2. PICK n \in runs[i].first..runs[i].last : m = <<i, n>>
    BY <2>1
  <2>3. n \in 0..b
    <3>1. runs[i].first \in Nat /\ runs[i].last \in Nat /\ runs[i].last <= b
      BY <1>1 DEF Rows
    <3> QED
      BY <3>1
  <2> QED
    BY <2>2, <2>3
<1>3. IsFiniteSet((1..Len(runs)) \X (0..b))
  <2>1. IsFiniteSet(1..Len(runs)) /\ IsFiniteSet(0..b)
    BY FS_Interval DEF Rows
  <2> QED
    BY <2>1, FS_Product
<1>4. IsFiniteSet(MessagesOf(t))
  BY <1>2, <1>3, FS_Subset
<1>5. \A m \in MessagesOf(t) : m[2] \in Nat /\ m[2] < b + 1
  BY <1>2
<1>6. ASSUME NEW i \in 1..Len(runs), runs[i].thread = t, runs[i].first <= runs[i].last
      PROVE  \E m \in MessagesOf(t) : m[2] = runs[i].last
  <2>1. runs[i].last \in runs[i].first..runs[i].last /\ i \in DOMAIN runs
    BY <1>6 DEF Rows
  <2>2. <<i, runs[i].last>> \in MessagesOf(t)
    BY <1>6, <2>1 DEF MessagesOf
  <2> QED
    BY <2>2
<1>7. b + 1 \in Nat
  OBVIOUS
<1> QED
  BY <1>4, <1>5, <1>6, <1>7

\* The next number of a thread is above all that are there.
LEMMA NextSeqIs ==
  ASSUME Rows, NEW t
  PROVE  /\ NextSeq(t) \in Nat
         /\ \A i \in 1..Len(runs) :
              (runs[i].thread = t /\ runs[i].first <= runs[i].last)
                => runs[i].last < NextSeq(t)
<1> DEFINE M == MessagesOf(t)
           U == {n \in Nat : \A m \in M : m[2] < n}
           C == {0} \union {m[2] + 1 : m \in M}
<1>1. \A m \in M : m[2] \in Nat
  BY MessagesAre
<1>2. U # {}
  BY MessagesAre
<1>3. PICK n \in U : \A k \in U : n <= k
  BY <1>2, Least
<1>4. n \in C
  <2>1. CASE n = 0
    BY <2>1
  <2>2. CASE n # 0
    <3>1. n - 1 \in Nat /\ n - 1 \notin U
      BY <1>3, <2>2
    <3>2. PICK m \in M : ~(m[2] < n - 1)
      BY <3>1
    <3>3. m[2] \in Nat /\ m[2] < n
      BY <1>1, <1>3
    <3>4. n = m[2] + 1
      BY <3>2, <3>3
    <3> QED
      BY <3>4
  <2> QED
    BY <2>1, <2>2
<1>5. \A m \in M : m[2] < n
  BY <1>3
<1>6. NextSeq(t) \in C /\ \A m \in M : m[2] < NextSeq(t)
  BY <1>4, <1>5 DEF NextSeq
<1>7. \A c \in C : c \in Nat
  BY <1>1
<1> HIDE DEF C
<1>8. NextSeq(t) \in Nat
  BY <1>6, <1>7
<1>9. ASSUME NEW i \in 1..Len(runs), runs[i].thread = t, runs[i].first <= runs[i].last
      PROVE  runs[i].last < NextSeq(t)
  <2>1. PICK m \in M : m[2] = runs[i].last
    BY <1>9, MessagesAre
  <2> QED
    BY <2>1, <1>6
<1> QED
  BY <1>8, <1>9

\* A prompt has at least the message it begins with.
LEMMA PromptIs ==
  ASSUME Rows, NEW t
  PROVE  Prompt(t) \in Nat /\ Prompt(t) >= 1
<1>1. Cardinality(MessagesOf(t)) \in Nat
  BY MessagesAre, FS_CardinalityType
<1>2. Recalled(t) \in Nat
  BY <1>1, SizesAssumption DEF Recalled
<1> QED
  BY <1>2, SizesAssumption DEF Prompt

-----------------------------------------------------------------------------
(* The type invariant *)

RunTx == [op : {"run"}, stage : {"call", "bill", "commit", "end"}, explicit : BOOLEAN,
          thread : Nat, saw : Nat, first : Nat, prompt : Nat, primary : Providers,
          chain : Seq(Providers), at : Nat, tries : Tries, charge : 0..MaxCharge,
          period : [Kinds -> 1..MaxPeriods], rows : Numbers, base : Numbers]

RunRow(n) == [by : Clients, thread : 1..n, first : Nat, last : Nat,
              status : {"completed", "failed"}, provider : Providers,
              explicit : BOOLEAN, chain : Seq(Providers), tries : Tries, saw : Nat]

BillRow == [provider : Providers, period : 1..MaxPeriods, cost : Nat]

\* A run that calls or bills stands at a provider of its chain, in a thread
\* that is there, with a prompt that has a message.
Placed(t) ==
  /\ t.at >= 1 /\ t.prompt >= 1 /\ t.thread <= threads
  /\ t.stage # "end" => t.at <= Len(t.chain)

TypeInv ==
  /\ TypeOK /\ DOMAIN tx = Clients \union Streamers
  /\ \A p \in Clients : tx[p] # Idle => Placed(tx[p])

\* What the type invariant says of the transactions and of the runs.
TxTypes ==
  /\ DOMAIN tx = Clients \union Streamers
  /\ \A p \in Clients : tx[p] # Idle => tx[p] \in RunTx /\ Placed(tx[p])
  /\ \A p \in Streamers : tx[p] \in {Idle, [op |-> "stream", stage |-> "tokens"]}

OtherTypes ==
  /\ enabled \subseteq Providers /\ default \in Providers
  /\ mapped \in Providers \union {NoProvider}
  /\ today \in [Kinds -> 1..MaxPeriods]
  /\ spent \in [Kinds -> [1..MaxPeriods -> Nat]]
  /\ bills \in [Kinds -> Seq(BillRow)]
  /\ runs \in Seq(RunRow(threads))
  /\ {threads, events, overlap} \subseteq Nat
  /\ marks \subseteq Streamers
  /\ streamed \subseteq [by : Streamers, status : {"completed", "failed", "cancelled"}]

LEMMA TypeParts == TypeInv <=> TxTypes /\ OtherTypes
  BY DEF TypeInv, TypeOK, TxTypes, OtherTypes, RunTx, RunRow, BillRow

LEMMA TypeInit == Init => TypeInv
<1> SUFFICES ASSUME Init PROVE TxTypes /\ OtherTypes
  BY TypeParts
<1>1. TxTypes
  BY DEF Init, TxTypes
<1>2. Order[1] \in Providers
  BY OrderAssumption
<1>3. today \in [Kinds -> 1..MaxPeriods]
  BY SizesAssumption DEF Init
<1>4. /\ spent \in [Kinds -> [1..MaxPeriods -> Nat]]
      /\ bills \in [Kinds -> Seq(BillRow)]
      /\ runs \in Seq(RunRow(threads))
  BY DEF Init
<1> QED
  BY <1>1, <1>2, <1>3, <1>4 DEF Init, OtherTypes

LEMMA TypedRows ==
  ASSUME OtherTypes
  PROVE  Rows /\ \A i \in 1..Len(runs) : runs[i] \in RunRow(threads)
<1>1. runs \in Seq(RunRow(threads))
  BY DEF OtherTypes
<1>2. /\ Len(runs) \in Nat /\ DOMAIN runs = 1..Len(runs)
      /\ \A i \in 1..Len(runs) : runs[i] \in RunRow(threads)
  BY <1>1
<1> QED
  BY <1>2 DEF Rows, RunRow

\* A client's transaction is replaced by one of its type, or ends.
LEMMA TxStep ==
  ASSUME TxTypes, NEW p \in Clients, NEW t, tx' = [tx EXCEPT ![p] = t],
         t # Idle => t \in RunTx /\ Placed(t),
         threads \in Nat, NEW n \in Nat, threads' = n, threads <= n
  PROVE  TxTypes'
<1>1. p \notin Streamers /\ p \in DOMAIN tx
  BY SizesAssumption DEF TxTypes
<1>2. tx'[p] = t /\ DOMAIN tx' = DOMAIN tx /\ \A q \in DOMAIN tx : q # p => tx'[q] = tx[q]
  BY <1>1
<1>3. ASSUME NEW q \in Clients, NEW u, u = tx'[q], u # Idle
      PROVE  /\ u \in RunTx /\ u.at >= 1 /\ u.prompt >= 1 /\ u.thread <= n
             /\ u.stage # "end" => u.at <= Len(u.chain)
  <2>1. u \in RunTx /\ u.at >= 1 /\ u.prompt >= 1 /\ u.thread <= threads
        /\ (u.stage # "end" => u.at <= Len(u.chain))
    <3>1. CASE q = p
      BY <1>2, <1>3, <3>1 DEF Placed
    <3>2. CASE q # p
      <4>1. u = tx[q]
        BY <1>2, <1>3, <3>2 DEF TxTypes
      <4> QED
        BY <4>1, <1>3 DEF TxTypes, Placed
    <3> QED
      BY <3>1, <3>2
  <2>2. u.thread \in Nat
    BY <2>1 DEF RunTx
  <2> QED
    BY <2>1, <2>2
<1>4. \A q \in Streamers : tx'[q] \in {Idle, [op |-> "stream", stage |-> "tokens"]}
  BY <1>1, <1>2 DEF TxTypes
<1> QED
  BY <1>2, <1>3, <1>4 DEF TxTypes, Placed

LEMMA TxStill ==
  ASSUME TxTypes, OtherTypes, NEW p \in Clients, NEW t, tx' = [tx EXCEPT ![p] = t],
         t # Idle => t \in RunTx /\ Placed(t), threads' = threads
  PROVE  TxTypes'
<1> PICK n : n = threads
  OBVIOUS
<1>1. n \in Nat /\ threads' = n /\ threads <= n
  BY DEF OtherTypes
<1> QED
  BY <1>1, TxStep

LEMMA BeginTypes ==
  ASSUME TxTypes, OtherTypes, NEW p \in Clients, Begin(p)
  PROVE  TxTypes' /\ OtherTypes'
<1>1. PICK explicit \in BOOLEAN, t \in ThreadFor :
        \E primary \in IF explicit THEN Providers ELSE {ProviderForEmployee} :
          \E estimate \in {0} \union Charges(primary) :
            tx' = [tx EXCEPT ![p] = Opened(explicit, t, primary, estimate)]
  BY DEF Begin
<1>2. PICK primary \in IF explicit THEN Providers ELSE {ProviderForEmployee} :
        \E estimate \in {0} \union Charges(primary) :
          tx' = [tx EXCEPT ![p] = Opened(explicit, t, primary, estimate)]
  BY <1>1
<1>3. PICK estimate : tx' = [tx EXCEPT ![p] = Opened(explicit, t, primary, estimate)]
  BY <1>2
<1>4. primary \in Providers
  BY DEF ProviderForEmployee, OtherTypes
<1>5. t \in Nat /\ t <= threads
  BY DEF ThreadFor, NewThread, OtherTypes
<1>6. /\ Len(runs) \in Nat /\ NextSeq(t) \in Nat
      /\ Prompt(t) \in Nat /\ Prompt(t) >= 1
  BY TypedRows, NextSeqIs, PromptIs DEF Rows
<1>7. /\ Chain(primary, explicit) \in Seq(Providers)
      /\ Len(Chain(primary, explicit)) >= 1
  BY <1>4, ChainIs
<1> DEFINE new == Opened(explicit, t, primary, estimate)
<1>8. new \in RunTx
  <2>1. 0 \in 0..MaxCharge /\ <<>> \in Tries /\ [k \in Kinds |-> 0] \in Numbers
        /\ today \in [Kinds -> 1..MaxPeriods]
    BY SizesAssumption DEF Tries, Numbers, OtherTypes
  <2> QED
    BY <2>1, <1>4, <1>5, <1>6, <1>7 DEF Opened, RunTx, NoRow
<1>9. Placed(new)
  BY <1>5, <1>6, <1>7 DEF Opened, Placed
<1>10. threads' = threads
  BY DEF Begin, history
<1>11. TxTypes'
  BY <1>3, <1>8, <1>9, <1>10, TxStill
<1>12. OtherTypes'
  <2>1. overlap' \in Nat
    BY Finite, FS_CardinalityType DEF Begin, OtherTypes
  <2> QED
    BY <2>1 DEF Begin, OtherTypes, settings, accounts, history
<1> QED
  BY <1>11, <1>12

\* A try at the provider where the run stands is appended to its tries.
LEMMA TryTypes ==
  ASSUME NEW t \in RunTx, Placed(t), t.stage # "end",
         NEW outcome \in {"limited", "error", "succeeded"}
  PROVE  /\ t.chain[t.at] \in Providers
         /\ Append(t.tries, [provider |-> t.chain[t.at], outcome |-> outcome]) \in Tries
<1>1. t.chain \in Seq(Providers) /\ t.at \in 1..Len(t.chain) /\ t.tries \in Tries
  BY DEF RunTx, Placed
<1>2. t.chain[t.at] \in Providers
  BY <1>1
<1> QED
  BY <1>1, <1>2 DEF Tries

LEMMA FailTypes ==
  ASSUME TxTypes, OtherTypes, NEW p \in Clients, NEW outcome \in HttpFailures, Fail(p, outcome)
  PROVE  TxTypes' /\ OtherTypes'
<1> PICK t : t = tx[p]
  OBVIOUS
<1> DEFINE after == OneMore(t, outcome)
           new == [after EXCEPT !.stage = IF after.at > Len(after.chain) THEN "end" ELSE "call"]
<1>1. t \in RunTx /\ Placed(t) /\ t.stage = "call" /\ tx' = [tx EXCEPT ![p] = new]
  BY DEF Fail, TxTypes
<1> DEFINE tries == Append(t.tries, [provider |-> t.chain[t.at], outcome |-> outcome])
<1>2. tries \in Tries
  BY <1>1, TryTypes DEF HttpFailures
<1> HIDE DEF tries
<1>3. PICK at \in {t.at, t.at + 1} : after = [t EXCEPT !.at = at, !.tries = tries]
  BY DEF OneMore, tries
<1>4. PICK stage \in {"end", "call"} :
        /\ new = [t EXCEPT !.at = at, !.tries = tries, !.stage = stage]
        /\ stage # "end" => at <= Len(t.chain)
  <2>1. at \in Nat /\ Len(t.chain) \in Nat /\ after.at = at /\ after.chain = t.chain
    BY <1>1, <1>3 DEF RunTx
  <2>2. new = [t EXCEPT !.at = at, !.tries = tries,
                        !.stage = IF at > Len(t.chain) THEN "end" ELSE "call"]
    BY <1>1, <1>3, <2>1 DEF RunTx
  <2> HIDE DEF after, new
  <2>3. PICK stage : stage = IF at > Len(t.chain) THEN "end" ELSE "call"
    OBVIOUS
  <2>4. stage \in {"end", "call"} /\ (stage # "end" => at <= Len(t.chain))
    BY <2>1, <2>3
  <2>5. new = [t EXCEPT !.at = at, !.tries = tries, !.stage = stage]
    BY <2>2, <2>3
  <2> QED
    BY <2>4, <2>5
<1> HIDE DEF after, new
<1>5. new \in RunTx /\ Placed(new)
  <2>1. at \in Nat /\ at >= 1
    BY <1>1, <1>3 DEF RunTx, Placed
  <2> QED
    BY <1>1, <1>2, <1>4, <2>1 DEF RunTx, Placed
<1>6. TxTypes'
  BY <1>1, <1>5, TxStill DEF Fail, history
<1>7. OtherTypes'
  BY DEF Fail, OtherTypes, settings, accounts, history
<1> QED
  BY <1>6, <1>7

LEMMA SucceedTypes ==
  ASSUME TxTypes, OtherTypes, NEW p \in Clients, Succeed(p)
  PROVE  TxTypes' /\ OtherTypes'
<1> PICK t : t = tx[p]
  OBVIOUS
<1> DEFINE tries == Append(t.tries, [provider |-> t.chain[t.at], outcome |-> "succeeded"])
<1>1. t \in RunTx /\ Placed(t) /\ t.stage = "call"
  BY DEF Succeed, TxTypes
<1>2. PICK charge \in Charges(t.chain[t.at]) :
        tx' = [tx EXCEPT ![p] = [t EXCEPT !.stage = "bill", !.charge = charge, !.tries = tries]]
  BY DEF Succeed
<1>3. tries \in Tries
  BY <1>1, TryTypes
<1>4. charge \in 0..MaxCharge
  BY SizesAssumption DEF Charges
<1> HIDE DEF tries
<1> DEFINE new == [t EXCEPT !.stage = "bill", !.charge = charge, !.tries = tries]
<1>5. new \in RunTx /\ Placed(new)
  BY <1>1, <1>3, <1>4 DEF RunTx, Placed
<1> HIDE DEF new
<1>6. TxTypes'
  BY <1>2, <1>5, TxStill DEF Succeed, history, new
<1>7. OtherTypes'
  BY DEF Succeed, OtherTypes, settings, accounts, history
<1> QED
  BY <1>6, <1>7

\* What Bill reads: today's rows of the provider, or none.
BillRead(p, row, base) ==
  /\ row = [k \in Kinds |-> row[k]] /\ base = [k \in Kinds |-> base[k]]
  /\ \A k \in Kinds :
       IF row[k] = NoRow THEN base[k] = 0
       ELSE /\ row[k] \in DOMAIN bills[k] /\ base[k] = bills[k][row[k]].cost
            /\ bills[k][row[k]].period = today[k]
  /\ tx' = [tx EXCEPT ![p] = [tx[p] EXCEPT !.stage = "commit", !.period = today,
                                           !.rows = row, !.base = base]]

LEMMA BillReads ==
  ASSUME NEW p \in Clients, Bill(p)
  PROVE  \E row, base : BillRead(p, row, base)
<1> DEFINE provider == tx[p].chain[tx[p].at]
           found == [k \in Kinds |-> IF BillingRows(k, provider) = {} THEN {NoRow}
                                     ELSE BillingRows(k, provider)]
           row(d, m) == [k \in Kinds |-> IF k = "day" THEN d ELSE m]
           base(r) == [k \in Kinds |-> IF r[k] = NoRow THEN 0 ELSE bills[k][r[k]].cost]
<1>1. PICK d \in found["day"], m \in found["month"] :
        tx' = [tx EXCEPT ![p] = [tx[p] EXCEPT !.stage = "commit", !.period = today,
                                              !.rows = row(d, m), !.base = base(row(d, m))]]
  BY DEF Bill
<1>2. ASSUME NEW k \in Kinds, row(d, m)[k] # NoRow
      PROVE  row(d, m)[k] \in BillingRows(k, provider)
  <2>1. d \in {NoRow} \union BillingRows("day", provider)
    BY DEF Kinds
  <2>2. m \in {NoRow} \union BillingRows("month", provider)
    BY DEF Kinds
  <2> QED
    BY <1>2, <2>1, <2>2 DEF Kinds
<1> PICK r : r = row(d, m)
  OBVIOUS
<1>3. r = [k \in Kinds |-> r[k]]
  OBVIOUS
<1>4. \A k \in Kinds : r[k] # NoRow => r[k] \in BillingRows(k, provider)
  BY <1>2
<1> HIDE DEF row, provider
<1> PICK b : b = base(r)
  OBVIOUS
<1>5. /\ b = [k \in Kinds |-> b[k]]
      /\ \A k \in Kinds : b[k] = IF r[k] = NoRow THEN 0 ELSE bills[k][r[k]].cost
  OBVIOUS
<1> HIDE DEF base
<1>6. tx' = [tx EXCEPT ![p] = [tx[p] EXCEPT !.stage = "commit", !.period = today,
                                            !.rows = r, !.base = b]]
  BY <1>1
<1>7. ASSUME NEW k \in Kinds
      PROVE  IF r[k] = NoRow THEN b[k] = 0
             ELSE /\ r[k] \in DOMAIN bills[k] /\ b[k] = bills[k][r[k]].cost
                  /\ bills[k][r[k]].period = today[k]
  BY <1>4, <1>5 DEF BillingRows
<1> QED
  BY <1>3, <1>5, <1>6, <1>7 DEF BillRead

LEMMA BillTypes ==
  ASSUME TxTypes, OtherTypes, NEW p \in Clients, Bill(p)
  PROVE  TxTypes' /\ OtherTypes'
<1> PICK t : t = tx[p]
  OBVIOUS
<1>1. t \in RunTx /\ Placed(t) /\ t.stage = "bill"
  BY DEF Bill, TxTypes
<1>2. PICK row, base : BillRead(p, row, base)
  BY BillReads
<1>3. ASSUME NEW k \in Kinds PROVE row[k] \in Nat /\ base[k] \in Nat
  <2>1. bills[k] \in Seq(BillRow)
    BY DEF OtherTypes
  <2>2. CASE row[k] = NoRow
    BY <1>2, <2>2 DEF NoRow, BillRead
  <2>3. CASE row[k] # NoRow
    <3>1. row[k] \in 1..Len(bills[k]) /\ base[k] = bills[k][row[k]].cost
      BY <1>2, <2>1, <2>3 DEF BillRead
    <3>2. bills[k][row[k]] \in BillRow /\ row[k] \in Nat
      BY <2>1, <3>1
    <3> QED
      BY <3>1, <3>2 DEF BillRow
  <2> QED
    BY <2>2, <2>3
<1>4. row \in Numbers /\ base \in Numbers
  BY <1>2, <1>3 DEF Numbers, BillRead
<1> DEFINE new == [t EXCEPT !.stage = "commit", !.period = today, !.rows = row, !.base = base]
<1>5. new \in RunTx /\ Placed(new)
  BY <1>1, <1>4 DEF RunTx, Placed, OtherTypes
<1> HIDE DEF new
<1>6. tx' = [tx EXCEPT ![p] = new]
  BY <1>2 DEF new, BillRead
<1>7. TxTypes'
  BY <1>5, <1>6, TxStill DEF Bill, history
<1>8. OtherTypes'
  BY DEF Bill, OtherTypes, settings, accounts, history
<1> QED
  BY <1>7, <1>8

\* A run is kept: its row is appended, in its thread or in a new one.
LEMMA KeptTypes ==
  ASSUME TxTypes, OtherTypes, NEW p \in Clients, NEW status \in {"completed", "failed"},
         tx[p] # Idle, tx[p].stage = (IF status = "completed" THEN "commit" ELSE "end"),
         Kept(p, status)
  PROVE  TxTypes' /\ threads' \in Nat /\ runs' \in Seq(RunRow(threads'))
<1> PICK t : t = tx[p]
  OBVIOUS
<1> PICK n : n = IF t.thread = NewThread THEN threads + 1 ELSE threads
  OBVIOUS
<1>1. t \in RunTx /\ Placed(t) /\ threads \in Nat
  BY DEF TxTypes, OtherTypes
<1>2. n \in Nat /\ threads <= n /\ threads' = n
  BY <1>1 DEF Kept
<1>3. TxTypes'
  BY <1>1, <1>2, TxStep DEF Kept
<1> PICK row : row = RowOf(p, t, status)
  OBVIOUS
<1>4. row \in RunRow(n)
  <2>1. (IF t.thread = NewThread THEN threads + 1 ELSE t.thread) \in 1..n
    BY <1>1, <1>2 DEF RunTx, Placed, NewThread
  <2>2. t.first + t.prompt - (IF status = "completed" THEN 0 ELSE 1) \in Nat
    BY <1>1 DEF RunTx, Placed
  <2>3. (IF status = "completed" THEN t.chain[t.at] ELSE t.primary) \in Providers
    <3>1. CASE status = "completed"
      BY <1>1, <3>1, TryTypes
    <3>2. CASE status # "completed"
      BY <1>1, <3>2 DEF RunTx
    <3> QED
      BY <3>1, <3>2
  <2>4. /\ t.first \in Nat /\ t.explicit \in BOOLEAN /\ t.chain \in Seq(Providers)
        /\ t.tries \in Tries /\ t.saw \in Nat
    BY <1>1 DEF RunTx
  <2> QED
    BY <2>1, <2>2, <2>3, <2>4 DEF RowOf, RunRow
<1>5. RunRow(threads) \subseteq RunRow(n)
  BY <1>1, <1>2 DEF RunRow
<1>6. runs \in Seq(RunRow(n))
  BY <1>5, SeqMonotonic DEF OtherTypes
<1>7. runs' = Append(runs, row)
  BY DEF Kept
<1>8. runs' \in Seq(RunRow(n))
  BY <1>4, <1>6, <1>7, AppendProperties
<1> QED
  BY <1>2, <1>3, <1>8

LEMMA CommitTypes ==
  ASSUME TxTypes, OtherTypes, NEW p \in Clients, Commit(p)
  PROVE  TxTypes' /\ OtherTypes'
<1> PICK t : t = tx[p]
  OBVIOUS
<1>1. t \in RunTx /\ Placed(t) /\ tx[p] # Idle /\ tx[p].stage = "commit"
  BY DEF Commit, TxTypes
<1>2. TxTypes' /\ threads' \in Nat /\ runs' \in Seq(RunRow(threads'))
  BY <1>1, KeptTypes DEF Commit
<1>3. t.charge \in Nat /\ t.base \in [Kinds -> Nat] /\ t.period \in [Kinds -> 1..MaxPeriods]
  <2>1. t.charge \in 0..MaxCharge /\ t.base \in [Kinds -> Nat]
        /\ t.period \in [Kinds -> 1..MaxPeriods]
    BY <1>1 DEF RunTx, Numbers
  <2>2. MaxCharge \in Nat
    BY SizesAssumption
  <2> QED
    BY ONLY <2>1, <2>2
<1>4. spent' \in [Kinds -> [1..MaxPeriods -> Nat]]
  <2>1. spent' = [k \in Kinds |-> [spent[k] EXCEPT ![t.period[k]] = @ + t.charge]]
    BY DEF Commit
  <2>2. ASSUME NEW k \in Kinds
        PROVE  [spent[k] EXCEPT ![t.period[k]] = @ + t.charge] \in [1..MaxPeriods -> Nat]
    <3>1. spent[k] \in [1..MaxPeriods -> Nat] /\ t.period[k] \in 1..MaxPeriods
      BY <1>3 DEF OtherTypes
    <3>2. spent[k][t.period[k]] + t.charge \in Nat
      <4>1. spent[k][t.period[k]] \in Nat /\ t.charge \in Nat
        BY <1>3, <3>1
      <4> QED
        BY ONLY <4>1
    <3> QED
      BY <3>1, <3>2
  <2> QED
    BY <2>1, <2>2
<1>5. bills' \in [Kinds -> Seq(BillRow)]
  <2> DEFINE row(k) == [provider |-> t.chain[t.at], period |-> t.period[k],
                        cost |-> t.base[k] + t.charge]
  <2>1. bills' = [k \in Kinds |-> IF t.rows[k] = NoRow THEN Append(bills[k], row(k))
                                  ELSE [bills[k] EXCEPT ![t.rows[k]] = row(k)]]
    BY DEF Commit, Rolled
  <2>2. ASSUME NEW k \in Kinds PROVE row(k) \in BillRow
    <3>1. t.base[k] + t.charge \in Nat /\ t.period[k] \in 1..MaxPeriods
      BY <1>3
    <3>2. t.chain[t.at] \in Providers
      BY <1>1, TryTypes
    <3> QED
      BY <3>1, <3>2 DEF BillRow
  <2> HIDE DEF row
  <2>3. ASSUME NEW k \in Kinds
        PROVE  /\ Append(bills[k], row(k)) \in Seq(BillRow)
               /\ [bills[k] EXCEPT ![t.rows[k]] = row(k)] \in Seq(BillRow)
    <3>1. bills[k] \in Seq(BillRow)
      BY DEF OtherTypes
    <3>2. Append(bills[k], row(k)) \in Seq(BillRow)
      BY <3>1, <2>2, AppendProperties
    <3>3. bills[k] \in [1..Len(bills[k]) -> BillRow] /\ Len(bills[k]) \in Nat
      BY <3>1
    <3>4. [bills[k] EXCEPT ![t.rows[k]] = row(k)] \in [1..Len(bills[k]) -> BillRow]
      BY <3>3, <2>2
    <3> QED
      BY <3>2, <3>3, <3>4
  <2> QED
    BY <2>1, <2>3
<1>6. UNCHANGED <<settings, today, marks, streamed, events, overlap>>
  BY DEF Commit, Kept
<1>7. OtherTypes'
  BY <1>2, <1>4, <1>5, <1>6 DEF OtherTypes, settings
<1> QED
  BY <1>2, <1>7

LEMMA CommitFailedTypes ==
  ASSUME TxTypes, OtherTypes, NEW p \in Clients, CommitFailed(p)
  PROVE  TxTypes' /\ OtherTypes'
<1>1. TxTypes' /\ threads' \in Nat /\ runs' \in Seq(RunRow(threads'))
  BY KeptTypes DEF CommitFailed
<1>2. UNCHANGED <<settings, today, accounts, marks, streamed, events, overlap>>
  BY DEF CommitFailed, Kept
<1> QED
  BY <1>1, <1>2 DEF OtherTypes, settings, accounts

\* Streams, settings, midnights and crashes.
LEMMA EventTypes ==
  ASSUME TxTypes, OtherTypes,
         \/ \E p \in Streamers : StreamBegin(p) \/ StreamEnd(p) \/ CancelRun(p)
         \/ Settings \/ Crash \/ \E month \in BOOLEAN : NewPeriod(month)
  PROVE  TxTypes' /\ OtherTypes'
<1> USE DEF settings, accounts, history, Event
<1>e. MaxEvents \in Nat /\ MaxPeriods \in Nat
  BY SizesAssumption
<1>p. \A p \in Streamers : p \notin Clients /\ (TxTypes => p \in DOMAIN tx)
  BY SizesAssumption DEF TxTypes
<1>1. ASSUME NEW p \in Streamers, StreamBegin(p) PROVE TxTypes' /\ OtherTypes'
  <2>1. TxTypes'
    BY <1>1, <1>p DEF StreamBegin, TxTypes, Placed
  <2> QED
    BY <1>1, <2>1 DEF StreamBegin, OtherTypes
<1>2. ASSUME NEW p \in Streamers, StreamEnd(p) PROVE TxTypes' /\ OtherTypes'
  <2>1. TxTypes'
    BY <1>2, <1>p DEF StreamEnd, TxTypes, Placed
  <2>2. marks' \subseteq Streamers
    BY <1>2 DEF StreamEnd, OtherTypes
  <2>3. streamed' \subseteq [by : Streamers, status : {"completed", "failed", "cancelled"}]
    BY <1>2 DEF StreamEnd, OtherTypes
  <2> QED
    BY <1>2, <2>1, <2>2, <2>3 DEF StreamEnd, OtherTypes
<1>3. ASSUME NEW p \in Streamers, CancelRun(p) PROVE TxTypes' /\ OtherTypes'
  BY <1>3 DEF CancelRun, TxTypes, Placed, OtherTypes
<1>4. CASE Settings
  <2>1. PICK q \in Providers : SetEnabled(q) \/ SetDefault(q) \/ MapRole(q)
    BY <1>4 DEF Settings
  <2>2. /\ enabled' \subseteq Providers /\ default' \in Providers
        /\ mapped' \in Providers \union {NoProvider}
    BY <2>1 DEF SetEnabled, SetDefault, MapRole, OtherTypes
  <2> QED
    BY <1>4, <2>2 DEF Settings, TxTypes, Placed, OtherTypes
<1>5. CASE Crash
  BY <1>5 DEF Crash, TxTypes, Placed, OtherTypes
<1>6. ASSUME NEW month \in BOOLEAN, NewPeriod(month) PROVE TxTypes' /\ OtherTypes'
  <2>1. today' \in [Kinds -> 1..MaxPeriods]
    <3>1. ASSUME NEW k \in Kinds
          PROVE  (IF k = "day" \/ month THEN today[k] + 1 ELSE today[k]) \in 1..MaxPeriods
      <4>1. today[k] \in 1..MaxPeriods
        BY DEF OtherTypes
      <4>2. (k = "day" \/ month) => today[k] < MaxPeriods
        BY <1>6 DEF NewPeriod, Kinds
      <4> QED
        BY <4>1, <4>2, <1>e
    <3> QED
      BY <1>6, <3>1 DEF NewPeriod
  <2> QED
    BY <1>6, <2>1 DEF NewPeriod, TxTypes, Placed, OtherTypes
<1> QED
  BY <1>1, <1>2, <1>3, <1>4, <1>5, <1>6

LEMMA TypeStep == TypeInv /\ [Next]_vars => TypeInv'
<1> SUFFICES ASSUME TypeInv, [Next]_vars PROVE TypeInv'
  OBVIOUS
<1>1. TxTypes /\ OtherTypes
  BY TypeParts
<1>2. TxTypes' /\ OtherTypes'
  <2>1. CASE UNCHANGED vars
    BY <2>1, <1>1 DEF vars, settings, accounts, history, TxTypes, OtherTypes, Placed
  <2>2. ASSUME NEW p \in Clients, Stage(p) PROVE TxTypes' /\ OtherTypes'
    BY <2>2, <1>1, BeginTypes, FailTypes, SucceedTypes, BillTypes, CommitTypes,
       CommitFailedTypes DEF Stage
  <2> QED
    BY <1>1, <2>1, <2>2, EventTypes DEF Next
<1> QED
  BY <1>2, TypeParts, PTL

\* Every variable has its type, whatever the requests, the providers and their
\* failures: a run is recorded under a provider of its chain, in a thread that
\* is there, with messages numbered from its first.
THEOREM TypeCorrect == Spec => []TypeOK
<1>1. TypeInv => TypeOK
  BY DEF TypeInv
<1> QED
  BY TypeInit, TypeStep, <1>1, PTL DEF Spec

-----------------------------------------------------------------------------
(***************************************************************************)
(* The retry history and the conversations.  What a run row tells holds    *)
(* because it holds, in a form that counts the tries left, of the run      *)
(* while it is in flight: every provider before the one where it stands    *)
(* has been exhausted, and there only rate limits have been met.           *)
(***************************************************************************)

Exhausted(t, q) ==
  \/ \E a \in TriesWith(t, q) : t.tries[a].outcome = "error"
  \/ Cardinality(TriesWith(t, q)) = MaxAttempts

\* No provider is tried again but after a rate limit.
OnlyLimits(t) ==
  \A a, b \in 1..Len(t.tries) :
    (a < b /\ t.tries[a].provider = t.tries[b].provider) => t.tries[a].outcome = "limited"

\* The run stands at a provider that has only limited it, and may again.
Trying(t) ==
  /\ t.at \in 1..Len(t.chain)
  /\ \A a \in TriesWith(t, t.chain[t.at]) : t.tries[a].outcome = "limited"
  /\ Cardinality(TriesWith(t, t.chain[t.at])) < MaxAttempts

Failed(t) == \A a \in 1..Len(t.tries) : t.tries[a].outcome # "succeeded"

Answered(t) ==
  LET n == Len(t.tries) IN
  /\ n > 0 /\ t.tries[n] = [provider |-> t.chain[t.at], outcome |-> "succeeded"]
  /\ \A a \in 1..n : a # n => t.tries[a].outcome # "succeeded"

Told(t) ==
  /\ Distinct(t.chain) /\ (t.explicit => Len(t.chain) = 1)
  /\ \A a \in 1..Len(t.tries) :
       \E c \in 1..Len(t.chain) : c <= t.at /\ t.tries[a].provider = t.chain[c]
  /\ OnlyLimits(t)
  /\ \A c \in 1..Len(t.chain) : c < t.at => Exhausted(t, t.chain[c])
  /\ t.stage = "call" => Trying(t)
  /\ t.stage \in {"call", "end"} => Failed(t)
  /\ t.stage = "end" => t.tries = <<>> \/ t.at > Len(t.chain)
  /\ t.stage \in {"bill", "commit"} => Answered(t)

\* The numbers of a run begin above those of the runs of its thread it saw.
Follows(t) ==
  /\ t.saw <= Len(runs)
  /\ \A i \in 1..t.saw : runs[i].thread = t.thread => runs[i].last < t.first

\* One row of RunTellsItsAttempts, and one of ConversationOrdered.
RowTells(r) ==
  LET n == Len(r.tries) IN
  /\ r.status = "completed" =>
       n > 0 /\ r.tries[n] = [provider |-> r.provider, outcome |-> "succeeded"]
  /\ \A a \in 1..n : r.tries[a].outcome = "succeeded" => a = n /\ r.status = "completed"
  /\ \A a, b \in 1..n : (a < b /\ r.tries[a].provider = r.tries[b].provider) =>
       r.tries[a].outcome = "limited"
  /\ (r.status = "failed" /\ n > 0) => \A c \in DOMAIN r.chain : Exhausted(r, r.chain[c])
  /\ r.explicit => \A a, b \in 1..n : r.tries[a].provider = r.tries[b].provider

RowFollows(i) ==
  /\ runs[i].first <= runs[i].last /\ runs[i].saw < i
  /\ \A h \in 1..runs[i].saw :
       runs[h].thread = runs[i].thread => runs[h].last < runs[i].first

RecordInv ==
  /\ \A i \in 1..Len(runs) : RowTells(runs[i]) /\ RowFollows(i)
  /\ \A p \in Clients : tx[p] # Idle => Told(tx[p]) /\ Follows(tx[p])

LEMMA RecordInit == Init => RecordInv
  BY DEF Init, RecordInv

LEMMA RecordsTell == ASSUME TypeInv, RecordInv PROVE RunsAreRecorded
<1>1. Rows
  BY TypeParts, TypedRows
<1>2. \A i \in 1..Len(runs) : runs[i].saw \in Nat
  BY TypeParts, TypedRows DEF RunRow
<1>3. RunTellsItsAttempts
  BY <1>1 DEF RecordInv, RowTells, RunTellsItsAttempts, Exhausted, Rows
<1>4. ConversationOrdered
  <2> SUFFICES ASSUME NEW i \in 1..Len(runs), NEW j \in 1..Len(runs), i <= runs[j].saw,
                      runs[i].thread = runs[j].thread
               PROVE  runs[i].last < runs[j].first
    BY <1>1 DEF ConversationOrdered, Rows
  <2>1. i \in 1..runs[j].saw
    BY <1>1, <1>2 DEF Rows
  <2> QED
    BY <2>1 DEF RecordInv, RowFollows
<1> QED
  BY <1>3, <1>4 DEF RunsAreRecorded

\* A transaction is replaced by one that is told, or is given up.
LEMMA RecordStep ==
  ASSUME RecordInv, TxTypes, NEW p, NEW t, tx' = [tx EXCEPT ![p] = t], UNCHANGED runs,
         (p \in Clients /\ t # Idle) => Told(t) /\ Follows(t)
  PROVE  RecordInv'
<1>1. \A q \in Clients : tx'[q] = IF q = p THEN t ELSE tx[q]
  BY DEF TxTypes
<1>2. ASSUME NEW q \in Clients, NEW u, u = tx'[q], u # Idle PROVE Told(u) /\ Follows(u)
  BY <1>1, <1>2 DEF RecordInv
<1>3. ASSUME NEW q \in Clients, tx'[q] # Idle PROVE (Told(tx[q]) /\ Follows(tx[q]))'
  <2> PICK u : u = tx'[q]
    OBVIOUS
  <2>1. Told(u) /\ Follows(u)
    BY <1>2, <1>3
  <2>2. Told(tx[q])'
    BY ONLY <2>1, u = tx'[q] DEF Told, Exhausted, TriesWith, OnlyLimits, Trying, Failed,
       Answered, Distinct
  <2>3. Follows(tx[q])'
    BY ONLY <2>1, u = tx'[q], runs' = runs DEF Follows
  <2> QED
    BY <2>2, <2>3
<1>4. (\A i \in 1..Len(runs) : RowTells(runs[i]) /\ RowFollows(i))'
  BY DEF RecordInv, RowTells, RowFollows, Exhausted, TriesWith
<1> QED
  BY <1>3, <1>4 DEF RecordInv

LEMMA BeginRecords ==
  ASSUME TypeInv, RecordInv, NEW p \in Clients, Begin(p)
  PROVE  RecordInv'
<1>t. TxTypes /\ OtherTypes /\ Rows
  BY TypeParts, TypedRows
<1>1. PICK explicit \in BOOLEAN, t \in ThreadFor :
        \E primary \in IF explicit THEN Providers ELSE {ProviderForEmployee} :
          \E estimate \in {0} \union Charges(primary) :
            tx' = [tx EXCEPT ![p] = Opened(explicit, t, primary, estimate)]
  BY DEF Begin
<1>2. PICK primary \in IF explicit THEN Providers ELSE {ProviderForEmployee} :
        \E estimate \in {0} \union Charges(primary) :
          tx' = [tx EXCEPT ![p] = Opened(explicit, t, primary, estimate)]
  BY <1>1
<1>3. PICK estimate : tx' = [tx EXCEPT ![p] = Opened(explicit, t, primary, estimate)]
  BY <1>2
<1>4. primary \in Providers
  BY <1>t DEF ProviderForEmployee, OtherTypes
<1> PICK new : new = Opened(explicit, t, primary, estimate)
  OBVIOUS
<1>5. /\ new.chain \in Seq(Providers) /\ Len(new.chain) >= 1 /\ Distinct(new.chain)
      /\ new.explicit => Len(new.chain) = 1
  BY <1>4, ChainIs DEF Opened
<1>6. /\ new.at = 1 /\ new.tries = <<>> /\ new.stage \in {"call", "end"}
      /\ new.saw = Len(runs) /\ new.first = NextSeq(t) /\ new.thread = t
  BY DEF Opened
<1>7. \A q : TriesWith(new, q) = {}
  BY <1>6 DEF TriesWith
<1>8. Told(new)
  <2>1. Cardinality({}) < MaxAttempts
    BY FS_EmptySet, SizesAssumption
  <2>2. Len(new.chain) \in Nat /\ Len(new.tries) = 0
    BY <1>5, <1>6
  <2>3. Trying(new)
    <3>1. new.at \in 1..Len(new.chain)
      BY ONLY <2>2, <1>5, <1>6
    <3>2. TriesWith(new, new.chain[new.at]) = {}
      BY <1>7
    <3> QED
      BY ONLY <2>1, <3>1, <3>2 DEF Trying
  <2>4. /\ OnlyLimits(new) /\ Failed(new)
        /\ \A c \in 1..Len(new.chain) : ~(c < new.at)
    BY <2>2, <1>6 DEF OnlyLimits, Failed
  <2> QED
    BY <2>2, <2>3, <2>4, <1>5, <1>6 DEF Told
<1>9. Follows(new)
  <2>1. \A i \in 1..Len(runs) : runs[i].thread = t => runs[i].last < NextSeq(t)
    BY <1>t, NextSeqIs DEF RecordInv, RowFollows
  <2>2. Len(runs) \in Nat
    BY <1>t DEF Rows
  <2> QED
    BY <2>1, <2>2, <1>6 DEF Follows
<1>11. tx' = [tx EXCEPT ![p] = new] /\ UNCHANGED runs
  BY <1>3 DEF Begin, history
<1> QED
  BY <1>t, <1>8, <1>9, <1>11, RecordStep

\* The tries of r are those of t and one more, at provider q.
Tried(t, r, q, outcome) ==
  r.tries = Append(t.tries, [provider |-> q, outcome |-> outcome])

\* It is counted for q, and for no other.
Counted(t, r, q, outcome) ==
  LET n == Len(t.tries) IN
  /\ n \in Nat /\ Len(r.tries) = n + 1
  /\ r.tries[n + 1] = [provider |-> q, outcome |-> outcome]
  /\ \A a \in 1..n : r.tries[a] = t.tries[a]
  /\ \A x : TriesWith(t, x) \subseteq 1..n
  /\ \A x : x # q => TriesWith(r, x) = TriesWith(t, x)
  /\ TriesWith(r, q) = TriesWith(t, q) \union {n + 1}
  /\ Cardinality(TriesWith(t, q)) \in Nat
  /\ Cardinality(TriesWith(r, q)) = Cardinality(TriesWith(t, q)) + 1

LEMMA TryAdds ==
  ASSUME NEW t, t.tries \in Tries, NEW q \in Providers,
         NEW outcome \in {"limited", "error", "succeeded"},
         NEW r, Tried(t, r, q, outcome)
  PROVE  Counted(t, r, q, outcome)
<1> PICK n : n = Len(t.tries)
  OBVIOUS
<1>1. /\ n \in Nat /\ DOMAIN t.tries = 1..n
  BY DEF Tries
<1> DEFINE try == [provider |-> q, outcome |-> outcome]
<1>2. /\ r.tries \in Tries /\ Len(r.tries) = n + 1 /\ r.tries[n + 1] = try
      /\ \A a \in 1..n : r.tries[a] = t.tries[a]
  BY <1>1, AppendProperties DEF Tries, Tried
<1>3. DOMAIN r.tries = 1..(n + 1) /\ try.provider = q
  BY <1>1, <1>2 DEF Tries
<1> HIDE DEF try
<1>4. 1..(n + 1) = 1..n \union {n + 1} /\ n + 1 \notin 1..n
  BY <1>1
<1>5. \A x : TriesWith(t, x) \subseteq 1..n
  BY <1>1 DEF TriesWith
<1>6. \A x : x # q => TriesWith(r, x) = TriesWith(t, x)
  BY ONLY <1>1, <1>2, <1>3, <1>4 DEF TriesWith
<1>7. TriesWith(r, q) = TriesWith(t, q) \union {n + 1}
  BY ONLY <1>1, <1>2, <1>3, <1>4 DEF TriesWith
<1>8. IsFiniteSet(TriesWith(t, q)) /\ n + 1 \notin TriesWith(t, q)
  <2>1. IsFiniteSet(1..n)
    BY <1>1, FS_Interval
  <2>2. TriesWith(t, q) \in SUBSET (1..n)
    BY <1>5
  <2>3. IsFiniteSet(TriesWith(t, q))
    BY ONLY <2>1, <2>2, FS_Subset
  <2> QED
    BY <1>4, <2>2, <2>3
<1>9. Cardinality(TriesWith(t, q)) \in Nat
  BY <1>8, FS_CardinalityType
<1>10. Cardinality(TriesWith(r, q)) = Cardinality(TriesWith(t, q)) + 1
  BY ONLY <1>7, <1>8, FS_AddElement
<1> QED
  BY <1>1, <1>2, <1>5, <1>6, <1>7, <1>9, <1>10 DEF Counted, try

\* A call fails: the provider is tried again, or it is exhausted.
LEMMA FailTold ==
  ASSUME NEW t \in RunTx, Placed(t), Told(t), t.stage = "call",
         NEW outcome \in HttpFailures, NEW new, NEW again \in BOOLEAN,
         again <=> (outcome = "limited"
                    /\ Cardinality(TriesWith(t, t.chain[t.at])) + 1 < MaxAttempts),
         Tried(t, new, t.chain[t.at], outcome),
         new.chain = t.chain, new.explicit = t.explicit,
         new.at = IF again THEN t.at ELSE t.at + 1,
         new.stage = IF new.at > Len(t.chain) THEN "end" ELSE "call"
  PROVE  Told(new)
<1> PICK n : n = Len(t.tries)
  OBVIOUS
<1> PICK q : q = t.chain[t.at]
  OBVIOUS
<1> PICK at : at = t.at
  OBVIOUS
<1> PICK N : N = Len(t.chain)
  OBVIOUS
<1>1. /\ t.chain \in Seq(Providers) /\ N \in Nat /\ DOMAIN t.chain = 1..N
      /\ at \in 1..N /\ at \in Nat /\ t.tries \in Tries /\ q = t.chain[at]
  BY DEF RunTx, Placed
<1>2. q \in Providers /\ outcome \in {"limited", "error", "succeeded"} /\ outcome # "succeeded"
  BY <1>1 DEF HttpFailures
<1>3. new.at \in Nat /\ new.at = (IF again THEN at ELSE at + 1) /\ at <= new.at
  BY <1>1
<1>4. /\ n \in Nat /\ Len(new.tries) = n + 1
      /\ new.tries[n + 1] = [provider |-> q, outcome |-> outcome]
      /\ \A a \in 1..n : new.tries[a] = t.tries[a]
      /\ \A x : TriesWith(t, x) \subseteq 1..n
      /\ \A x : x # q => TriesWith(new, x) = TriesWith(t, x)
      /\ TriesWith(new, q) = TriesWith(t, q) \union {n + 1}
      /\ Cardinality(TriesWith(t, q)) \in Nat
      /\ Cardinality(TriesWith(new, q)) = Cardinality(TriesWith(t, q)) + 1
  <2>1. Tried(t, new, q, outcome)
    OBVIOUS
  <2>2. Counted(t, new, q, outcome)
    BY <2>1, <1>1, <1>2, TryAdds
  <2> QED
    BY ONLY <2>2, n = Len(t.tries) DEF Counted
<1>5. /\ new.tries[n + 1].provider = q /\ new.tries[n + 1].outcome = outcome
      /\ \A a \in 1..(n + 1) : a = n + 1 \/ a \in 1..n
  BY <1>4
<1>6. /\ Distinct(t.chain) /\ (t.explicit => N = 1) /\ OnlyLimits(t) /\ Failed(t)
      /\ \A a \in 1..n : \E c \in 1..N : c <= at /\ t.tries[a].provider = t.chain[c]
      /\ \A c \in 1..N : c < at => Exhausted(t, t.chain[c])
      /\ \A a \in TriesWith(t, q) : t.tries[a].outcome = "limited"
      /\ Cardinality(TriesWith(t, q)) < MaxAttempts
  BY DEF Told, Trying
<1>7. ASSUME NEW a \in 1..(n + 1)
      PROVE  \E c \in 1..N : c <= new.at /\ new.tries[a].provider = t.chain[c]
  <2>1. CASE a = n + 1
    BY ONLY <2>1, <1>1, <1>3, <1>5
  <2>2. CASE a \in 1..n
    <3>1. PICK c \in 1..N : c <= at /\ t.tries[a].provider = t.chain[c]
      BY <2>2, <1>6
    <3>2. c <= new.at
      BY ONLY <3>1, <1>1, <1>3
    <3> QED
      BY <2>2, <3>1, <3>2, <1>4
  <2> QED
    BY <2>1, <2>2, <1>5
<1>8. OnlyLimits(new)
  <2> SUFFICES ASSUME NEW a \in 1..(n + 1), NEW b \in 1..(n + 1), a < b,
                      new.tries[a].provider = new.tries[b].provider
               PROVE  new.tries[a].outcome = "limited"
    BY <1>4 DEF OnlyLimits
  <2>1. a \in 1..n
    BY <1>4
  <2>2. CASE b = n + 1
    <3>1. a \in TriesWith(t, q)
      BY <2>1, <2>2, <1>1, <1>4, <1>5 DEF TriesWith, Tries
    <3> QED
      BY <3>1, <2>1, <1>4, <1>6
  <2>3. CASE b \in 1..n
    BY <2>1, <2>3, <1>4, <1>6 DEF OnlyLimits
  <2> QED
    BY <2>2, <2>3, <1>5
<1>9. ASSUME NEW c \in 1..N, c < new.at PROVE Exhausted(new, t.chain[c])
  <2>1. CASE c = at
    <3>1. ~again
      BY <2>1, <1>9, <1>1, <1>3
    <3>2. t.chain[c] = q
      BY <2>1, <1>1
    <3>3. CASE outcome = "error"
      BY <3>2, <3>3, <1>4, <1>5 DEF Exhausted
    <3>4. CASE outcome = "limited"
      <4>1. ~(Cardinality(TriesWith(t, q)) + 1 < MaxAttempts)
        BY <3>1, <3>4
      <4>2. Cardinality(TriesWith(new, q)) = MaxAttempts
        BY ONLY <4>1, <1>4, <1>6, SizesAssumption
      <4> QED
        BY <3>2, <4>2 DEF Exhausted
    <3> QED
      BY <3>3, <3>4 DEF HttpFailures
  <2>2. CASE c # at
    <3>1. c < at
      BY <2>2, <1>9, <1>1, <1>3
    <3>2. Exhausted(t, t.chain[c]) /\ t.chain[c] # q
      BY <2>2, <3>1, <1>1, <1>6 DEF Distinct
    <3>3. TriesWith(new, t.chain[c]) = TriesWith(t, t.chain[c])
      BY <3>2, <1>4
    <3>4. \A a \in TriesWith(t, t.chain[c]) : new.tries[a] = t.tries[a]
      BY <1>4
    <3> QED
      BY ONLY <3>2, <3>3, <3>4 DEF Exhausted
  <2> QED
    BY <2>1, <2>2
<1>10. ASSUME new.stage = "call" PROVE Trying(new)
  <2>1. new.at \in 1..N
    BY <1>10, <1>1, <1>3
  <2>2. CASE again
    <3>1. new.at = at /\ t.chain[new.at] = q /\ outcome = "limited"
          /\ Cardinality(TriesWith(t, q)) + 1 < MaxAttempts
      BY <2>2, <1>1, <1>3
    <3>2. \A a \in TriesWith(new, q) : new.tries[a].outcome = "limited"
      BY <3>1, <1>4, <1>5, <1>6
    <3> QED
      BY <2>1, <3>1, <3>2, <1>4 DEF Trying
  <2>3. CASE ~again
    <3>1. new.at = at + 1
      BY <2>3, <1>3
    <3>2. \A c \in 1..N : c <= at => t.chain[c] # t.chain[new.at]
      <4>1. \A c \in 1..N : c <= at => c # new.at
        BY ONLY <3>1, <1>1
      <4> QED
        BY ONLY <4>1, <2>1, <1>1, <1>6 DEF Distinct
    <3>3. t.chain[new.at] # q
      BY <3>2, <1>1
    <3>4. \A a \in 1..n : t.tries[a].provider # t.chain[new.at]
      BY ONLY <3>2, <1>6
    <3>5. TriesWith(t, t.chain[new.at]) = {}
      BY <3>4, <1>4 DEF TriesWith
    <3>6. TriesWith(new, t.chain[new.at]) = {}
      BY <3>3, <3>5, <1>4
    <3>7. Cardinality({}) < MaxAttempts
      BY FS_EmptySet, SizesAssumption
    <3> QED
      BY <2>1, <3>6, <3>7 DEF Trying
  <2> QED
    BY <2>2, <2>3
<1>11. Failed(new)
  <2>1. ASSUME NEW a \in 1..(n + 1) PROVE new.tries[a].outcome # "succeeded"
    <3>1. CASE a = n + 1
      BY <3>1, <1>2, <1>5
    <3>2. CASE a \in 1..n
      BY <3>2, <1>4, <1>6 DEF Failed
    <3> QED
      BY <3>1, <3>2, <1>5
  <2> QED
    BY <2>1, <1>4 DEF Failed
<1>12. new.stage \in {"call", "end"} /\ (new.stage = "end" => new.at > N)
  OBVIOUS
<1>13. new.chain = t.chain /\ new.explicit = t.explicit /\ Len(new.chain) = N
  OBVIOUS
<1> QED
  BY ONLY <1>4, <1>6, <1>7, <1>8, <1>9, <1>10, <1>11, <1>12, <1>13 DEF Told

\* A call is answered.
LEMMA SucceedTold ==
  ASSUME NEW t \in RunTx, Placed(t), Told(t), t.stage = "call", NEW new,
         Tried(t, new, t.chain[t.at], "succeeded"),
         new.chain = t.chain, new.explicit = t.explicit, new.at = t.at, new.stage = "bill"
  PROVE  Told(new)
<1> PICK n : n = Len(t.tries)
  OBVIOUS
<1> PICK q : q = t.chain[t.at]
  OBVIOUS
<1> PICK at : at = t.at
  OBVIOUS
<1> PICK N : N = Len(t.chain)
  OBVIOUS
<1>1. /\ t.chain \in Seq(Providers) /\ N \in Nat /\ DOMAIN t.chain = 1..N
      /\ at \in 1..N /\ at \in Nat /\ t.tries \in Tries /\ q = t.chain[at]
  BY DEF RunTx, Placed
<1>2. q \in Providers
  BY <1>1
<1>4. /\ n \in Nat /\ Len(new.tries) = n + 1
      /\ new.tries[n + 1] = [provider |-> q, outcome |-> "succeeded"]
      /\ \A a \in 1..n : new.tries[a] = t.tries[a]
      /\ \A x : TriesWith(t, x) \subseteq 1..n
      /\ \A x : x # q => TriesWith(new, x) = TriesWith(t, x)
  <2>1. Tried(t, new, q, "succeeded")
    OBVIOUS
  <2>2. Counted(t, new, q, "succeeded")
    BY <2>1, <1>1, <1>2, TryAdds
  <2> QED
    BY ONLY <2>2, n = Len(t.tries) DEF Counted
<1>5. /\ new.tries[n + 1].provider = q
      /\ \A a \in 1..(n + 1) : a = n + 1 \/ a \in 1..n
  BY <1>4
<1>6. /\ Distinct(t.chain) /\ (t.explicit => N = 1) /\ OnlyLimits(t) /\ Failed(t)
      /\ \A a \in 1..n : \E c \in 1..N : c <= at /\ t.tries[a].provider = t.chain[c]
      /\ \A c \in 1..N : c < at => Exhausted(t, t.chain[c])
      /\ \A a \in TriesWith(t, q) : t.tries[a].outcome = "limited"
  BY DEF Told, Trying
<1>7. ASSUME NEW a \in 1..(n + 1)
      PROVE  \E c \in 1..N : c <= at /\ new.tries[a].provider = t.chain[c]
  <2>1. CASE a = n + 1
    BY ONLY <2>1, <1>1, <1>5
  <2>2. CASE a \in 1..n
    BY <2>2, <1>1, <1>4, <1>6
  <2> QED
    BY <2>1, <2>2, <1>5
<1>8. OnlyLimits(new)
  <2> SUFFICES ASSUME NEW a \in 1..(n + 1), NEW b \in 1..(n + 1), a < b,
                      new.tries[a].provider = new.tries[b].provider
               PROVE  new.tries[a].outcome = "limited"
    BY <1>4 DEF OnlyLimits
  <2>1. a \in 1..n
    BY <1>4
  <2>2. CASE b = n + 1
    <3>1. a \in TriesWith(t, q)
      BY <2>1, <2>2, <1>1, <1>4, <1>5 DEF TriesWith, Tries
    <3> QED
      BY <3>1, <2>1, <1>4, <1>6
  <2>3. CASE b \in 1..n
    BY <2>1, <2>3, <1>4, <1>6 DEF OnlyLimits
  <2> QED
    BY <2>2, <2>3, <1>5
<1>9. ASSUME NEW c \in 1..N, c < at PROVE Exhausted(new, t.chain[c])
  <2>2. Exhausted(t, t.chain[c]) /\ t.chain[c] # q
    BY <1>9, <1>1, <1>6 DEF Distinct
  <2>3. TriesWith(new, t.chain[c]) = TriesWith(t, t.chain[c])
    BY <2>2, <1>4
  <2>4. \A a \in TriesWith(t, t.chain[c]) : new.tries[a] = t.tries[a]
    BY <1>4
  <2> QED
    BY ONLY <2>2, <2>3, <2>4 DEF Exhausted
<1>10. Answered(new)
  <2>1. \A a \in 1..(n + 1) : a # n + 1 => new.tries[a].outcome # "succeeded"
    BY <1>4, <1>5, <1>6 DEF Failed
  <2>2. n + 1 > 0 /\ new.chain[new.at] = q
    BY <1>1, <1>4
  <2> QED
    BY <1>4, <2>1, <2>2 DEF Answered
<1> QED
  BY <1>4, <1>6, <1>7, <1>8, <1>9, <1>10 DEF Told

LEMMA CallRecords ==
  ASSUME TypeInv, RecordInv, NEW p \in Clients,
         Succeed(p) \/ \E outcome \in HttpFailures : Fail(p, outcome)
  PROVE  RecordInv'
<1> PICK t : t = tx[p]
  OBVIOUS
<1>t. TxTypes /\ Rows
  BY TypeParts, TypedRows
<1>1. /\ t \in RunTx /\ Placed(t) /\ t.stage = "call" /\ Told(t) /\ Follows(t)
      /\ UNCHANGED runs
  BY <1>t DEF Succeed, Fail, TxTypes, RecordInv, history
<1>2. CASE Succeed(p)
  <2> DEFINE tries == Append(t.tries, [provider |-> t.chain[t.at], outcome |-> "succeeded"])
             new(charge) == [t EXCEPT !.stage = "bill", !.charge = charge, !.tries = tries]
  <2>1. PICK charge : tx' = [tx EXCEPT ![p] = new(charge)]
    BY <1>2 DEF Succeed
  <2> HIDE DEF tries
  <2> PICK u : u = new(charge)
    OBVIOUS
  <2>2. /\ u.tries = tries /\ u.chain = t.chain /\ u.explicit = t.explicit /\ u.at = t.at
        /\ u.stage = "bill" /\ u.saw = t.saw /\ u.thread = t.thread /\ u.first = t.first
    BY <1>1 DEF RunTx
  <2>3. tx' = [tx EXCEPT ![p] = u]
    BY <2>1
  <2>4. Tried(t, u, t.chain[t.at], "succeeded")
    BY <2>2 DEF tries, Tried
  <2>5. Told(u)
    BY <1>1, <2>2, <2>4, SucceedTold
  <2>6. Follows(u)
    BY <1>1, <2>2 DEF Follows
  <2> QED
    BY <1>t, <1>1, <2>3, <2>5, <2>6, RecordStep
<1>3. ASSUME NEW outcome \in HttpFailures, Fail(p, outcome) PROVE RecordInv'
  <2> DEFINE after == OneMore(t, outcome)
             new == [after EXCEPT !.stage = IF after.at > Len(after.chain) THEN "end" ELSE "call"]
             tries == Append(t.tries, [provider |-> t.chain[t.at], outcome |-> outcome])
             more == /\ outcome = "limited"
                     /\ Cardinality(TriesWith(t, t.chain[t.at])) + 1 < MaxAttempts
  <2>1. tx' = [tx EXCEPT ![p] = new]
    BY <1>3 DEF Fail
  <2>2. TriesOf(t) = TriesWith(t, t.chain[t.at])
    BY DEF TriesOf, TriesWith
  <2> PICK again \in BOOLEAN : again <=> more
    OBVIOUS
  <2> HIDE DEF tries
  <2>3. after = [t EXCEPT !.at = IF again THEN t.at ELSE t.at + 1, !.tries = tries]
    BY <2>2 DEF OneMore, tries
  <2> PICK a : a = after
    OBVIOUS
  <2>4. /\ a.chain = t.chain /\ a.at = IF again THEN t.at ELSE t.at + 1
        /\ a = [t EXCEPT !.at = IF again THEN t.at ELSE t.at + 1, !.tries = tries]
    BY <1>1, <2>3 DEF RunTx
  <2> HIDE DEF after
  <2> PICK u : u = new
    OBVIOUS
  <2>5. u = [a EXCEPT !.stage = IF a.at > Len(t.chain) THEN "end" ELSE "call"]
    BY <2>4
  <2>6. tx' = [tx EXCEPT ![p] = u]
    BY <2>1
  <2> HIDE DEF new
  <2>7. /\ u.tries = tries /\ u.chain = t.chain /\ u.explicit = t.explicit /\ u.at = a.at
        /\ u.stage = (IF a.at > Len(t.chain) THEN "end" ELSE "call")
        /\ u.saw = t.saw /\ u.thread = t.thread /\ u.first = t.first
    BY ONLY <1>1, <2>4, <2>5 DEF RunTx
  <2>8. Tried(t, u, t.chain[t.at], outcome)
    BY <2>7 DEF tries, Tried
  <2>9. Told(u)
    <3>1. again <=> (outcome = "limited"
                     /\ Cardinality(TriesWith(t, t.chain[t.at])) + 1 < MaxAttempts)
      OBVIOUS
    <3>2. /\ u.at = (IF again THEN t.at ELSE t.at + 1)
          /\ u.stage = (IF u.at > Len(t.chain) THEN "end" ELSE "call")
      BY <2>4, <2>7
    <3> HIDE DEF more
    <3> QED
      BY <1>1, <2>7, <2>8, <3>1, <3>2, FailTold
  <2>10. Follows(u)
    BY <1>1, <2>7 DEF Follows
  <2> QED
    BY <1>t, <1>1, <2>6, <2>9, <2>10, RecordStep
<1> QED
  BY <1>2, <1>3

LEMMA BillRecords ==
  ASSUME TypeInv, RecordInv, NEW p \in Clients, Bill(p)
  PROVE  RecordInv'
<1> PICK t : t = tx[p]
  OBVIOUS
<1>t. TxTypes
  BY TypeParts
<1>1. /\ t \in RunTx /\ t.stage = "bill" /\ Told(t) /\ Follows(t) /\ UNCHANGED runs
  BY <1>t DEF Bill, TxTypes, RecordInv, history
<1>2. PICK row, base : BillRead(p, row, base)
  BY BillReads
<1> PICK u : u = [t EXCEPT !.stage = "commit", !.period = today, !.rows = row, !.base = base]
  OBVIOUS
<1>3. tx' = [tx EXCEPT ![p] = u]
  BY <1>2 DEF BillRead
<1>4. /\ u.tries = t.tries /\ u.chain = t.chain /\ u.explicit = t.explicit /\ u.at = t.at
      /\ u.stage = "commit" /\ u.saw = t.saw /\ u.thread = t.thread /\ u.first = t.first
  BY <1>1 DEF RunTx
<1>5. Told(u)
  BY ONLY <1>1, <1>4 DEF Told, OnlyLimits, Exhausted, TriesWith, Answered
<1>6. Follows(u)
  BY <1>1, <1>4 DEF Follows
<1> QED
  BY <1>t, <1>1, <1>3, <1>5, <1>6, RecordStep

\* The row of a run that ends tells its attempts.
LEMMA RowIsTold ==
  ASSUME NEW p, NEW t \in RunTx, Told(t), NEW status \in {"completed", "failed"},
         t.stage = (IF status = "completed" THEN "commit" ELSE "end"),
         NEW row, row = RowOf(p, t, status)
  PROVE  RowTells(row)
<1> PICK n : n = Len(t.tries)
  OBVIOUS
<1> PICK N : N = Len(t.chain)
  OBVIOUS
<1>1. /\ row.tries = t.tries /\ row.chain = t.chain /\ row.explicit = t.explicit
      /\ row.status = status
      /\ row.provider = IF status = "completed" THEN t.chain[t.at] ELSE t.primary
  BY DEF RowOf
<1>2. n \in Nat /\ N \in Nat /\ DOMAIN t.chain = 1..N /\ (n > 0 => t.tries # <<>>) /\ t.at \in Nat
  BY DEF RunTx, Tries
<1>3. \A q : Exhausted(t, q) => Exhausted(row, q)
  BY <1>1 DEF Exhausted, TriesWith
<1>6. ASSUME row.explicit, NEW a \in 1..n, NEW b \in 1..n
      PROVE  row.tries[a].provider = row.tries[b].provider
  <2>1. \A c \in 1..N : c = 1
    <3>1. N = 1
      BY <1>1, <1>6 DEF Told
    <3> QED
      BY ONLY <3>1
  <2>2. \A c \in 1..n : \E d \in 1..N : t.tries[c].provider = t.chain[d]
    BY DEF Told
  <2>3. \A c \in 1..n : t.tries[c].provider = t.chain[1]
    BY ONLY <2>1, <2>2
  <2> QED
    BY ONLY <2>3, <1>1
<1>4. CASE status = "completed"
  <2>1. Answered(t)
    BY <1>4 DEF Told
  <2> QED
    BY <2>1, <1>1, <1>2, <1>4, <1>6 DEF RowTells, Answered, Told, OnlyLimits
<1>5. CASE status = "failed"
  <2>1. /\ Failed(t) /\ (n > 0 => t.at > N)
        /\ \A c \in 1..N : c < t.at => Exhausted(t, t.chain[c])
    BY <1>2, <1>5 DEF Told
  <2>2. n > 0 => \A c \in 1..N : Exhausted(t, t.chain[c])
    BY <1>2, <2>1
  <2>3. status # "completed"
    BY <1>5
  <2>4. n > 0 => \A c \in 1..N : Exhausted(row, t.chain[c])
    BY <2>2, <1>3
  <2>5. /\ \A a, b \in 1..n : (a < b /\ t.tries[a].provider = t.tries[b].provider) =>
             t.tries[a].outcome = "limited"
        /\ \A a \in 1..n : t.tries[a].outcome # "succeeded"
    BY <2>1 DEF Failed, Told, OnlyLimits
  <2> QED
    BY ONLY <2>3, <2>4, <2>5, <1>1, <1>2, <1>6, n = Len(t.tries) DEF RowTells
<1> QED
  BY <1>4, <1>5

\* The end of a run: its row is appended.
LEMMA KeptRecords ==
  ASSUME TypeInv, RecordInv, NEW p \in Clients, NEW status \in {"completed", "failed"},
         tx[p] # Idle, tx[p].stage = (IF status = "completed" THEN "commit" ELSE "end"),
         Kept(p, status)
  PROVE  RecordInv'
<1> PICK t : t = tx[p]
  OBVIOUS
<1> PICK row : row = RowOf(p, t, status)
  OBVIOUS
<1> PICK L : L = Len(runs)
  OBVIOUS
<1>t. TxTypes /\ OtherTypes /\ Rows /\ \A i \in 1..L : runs[i] \in RunRow(threads)
  BY TypeParts, TypedRows
<1>1. t \in RunTx /\ Placed(t) /\ Told(t) /\ Follows(t)
  BY <1>t DEF TxTypes, RecordInv
<1>2. RowTells(row)
  BY <1>1, RowIsTold
<1>3. /\ L \in Nat /\ Len(runs') = L + 1 /\ runs'[L + 1] = row
      /\ \A i \in 1..L : runs'[i] = runs[i]
      /\ \A i \in 1..(L + 1) : i = L + 1 \/ i \in 1..L
  <2>1. runs \in Seq(RunRow(threads)) /\ runs' = Append(runs, row)
    BY <1>t DEF OtherTypes, Kept
  <2>2. runs \in Seq(RunRow(threads) \union {row})
    BY <2>1, SeqMonotonic
  <2>3. /\ Len(runs') = L + 1 /\ runs'[L + 1] = row
        /\ \A i \in 1..L : runs'[i] = runs[i]
    BY <2>1, <2>2, AppendProperties
  <2> QED
    BY <1>t, <2>3 DEF Rows
<1>4. \A i \in 1..L : runs[i].saw \in Nat /\ runs[i].thread \in 1..threads
  BY <1>t DEF RunRow
<1>5. ASSUME NEW i \in 1..(L + 1) PROVE RowTells(runs'[i]) /\ RowFollows(i)'
  <2>1. CASE i \in 1..L
    <3>1. RowTells(runs[i]) /\ RowFollows(i)
      BY <2>1 DEF RecordInv
    <3>2. runs[i].saw \in Nat /\ runs[i].saw < i /\ i <= L
      BY <2>1, <3>1, <1>3, <1>4 DEF RowFollows
    <3>3. \A h \in 1..runs[i].saw : h \in 1..L
      BY <3>2, <1>3
    <3>4. RowFollows(i)'
      BY <2>1, <3>1, <3>3, <1>3 DEF RowFollows
    <3> QED
      BY <2>1, <3>1, <3>4, <1>3
  <2>2. CASE i = L + 1
    <3>1. /\ row.first = t.first /\ row.saw = t.saw
          /\ row.last = t.first + t.prompt - (IF status = "completed" THEN 0 ELSE 1)
          /\ row.thread = IF t.thread = NewThread THEN threads + 1 ELSE t.thread
      BY DEF RowOf
    <3>2. /\ t.first \in Nat /\ t.prompt \in Nat /\ t.prompt >= 1 /\ t.saw \in Nat
          /\ t.saw <= L /\ threads \in Nat
      BY <1>t, <1>1 DEF RunTx, Placed, Follows, OtherTypes
    <3>3. row.first <= row.last /\ row.saw < L + 1
      BY <3>1, <3>2, <1>3
    <3>4. ASSUME NEW h \in 1..t.saw, runs[h].thread = row.thread
          PROVE  runs[h].last < t.first
      <4>1. h \in 1..L
        BY <3>2, <1>3
      <4>2. t.thread # NewThread
        BY <4>1, <3>1, <3>2, <3>4, <1>4
      <4> QED
        BY <4>1, <4>2, <3>1, <3>4, <1>1 DEF Follows
    <3>5. \A h \in 1..t.saw : runs'[h] = runs[h]
      BY <3>2, <1>3
    <3>6. RowFollows(i)'
      BY <2>2, <3>1, <3>3, <3>4, <3>5, <1>3 DEF RowFollows
    <3> QED
      BY <2>2, <3>6, <1>2, <1>3
  <2> QED
    BY <2>1, <2>2, <1>3
<1>6. ASSUME NEW q \in Clients, NEW u, u = tx'[q], u # Idle
      PROVE  /\ Told(u) /\ u.saw <= L + 1
             /\ \A i \in 1..u.saw : runs'[i].thread = u.thread => runs'[i].last < u.first
  <2>1. tx' = [tx EXCEPT ![p] = Idle] /\ DOMAIN tx = Clients \union Streamers
    BY <1>t DEF Kept, TxTypes
  <2>2. u = tx[q]
    BY <1>6, <2>1
  <2>3. Told(u) /\ Follows(u) /\ u.saw \in Nat
    BY <1>6, <1>t, <2>2 DEF RecordInv, TxTypes, RunTx
  <2>4. u.saw <= L + 1 /\ \A i \in 1..u.saw : i \in 1..L
    BY <2>3, <1>3 DEF Follows
  <2> QED
    BY <2>3, <2>4, <1>3 DEF Follows
<1>7. ASSUME NEW q \in Clients, tx'[q] # Idle PROVE (Told(tx[q]) /\ Follows(tx[q]))'
  <2> PICK u : u = tx'[q]
    OBVIOUS
  <2>1. /\ Told(u) /\ u.saw <= L + 1
        /\ \A i \in 1..u.saw : runs'[i].thread = u.thread => runs'[i].last < u.first
    BY <1>6, <1>7
  <2>2. Told(tx[q])'
    BY ONLY <2>1, u = tx'[q] DEF Told, Exhausted, TriesWith, OnlyLimits, Trying, Failed,
       Answered, Distinct
  <2>3. Follows(tx[q])'
    BY ONLY <2>1, u = tx'[q], <1>3 DEF Follows
  <2> QED
    BY <2>2, <2>3
<1>8. (\A i \in 1..Len(runs) : RowTells(runs[i]) /\ RowFollows(i))'
  <2>1. ASSUME NEW i \in 1..(L + 1) PROVE RowTells(runs[i])'
    <3> PICK r : r = runs'[i]
      OBVIOUS
    <3>1. RowTells(r)
      BY <1>5
    <3> QED
      BY ONLY <3>1, r = runs'[i] DEF RowTells, Exhausted, TriesWith
  <2> QED
    BY <2>1, <1>5, <1>3
<1> QED
  BY <1>7, <1>8 DEF RecordInv

\* A step that begins no run and records none.
LEMMA RecordsStay ==
  ASSUME RecordInv, UNCHANGED runs, \A q \in Clients : tx'[q] = tx[q] \/ tx'[q] = Idle
  PROVE  RecordInv'
<1>1. ASSUME NEW q \in Clients, tx'[q] # Idle PROVE (Told(tx[q]) /\ Follows(tx[q]))'
  <2> PICK u : u = tx'[q]
    OBVIOUS
  <2>1. Told(u) /\ Follows(u)
    BY <1>1 DEF RecordInv
  <2>2. Told(tx[q])'
    BY ONLY <2>1, u = tx'[q] DEF Told, Exhausted, TriesWith, OnlyLimits, Trying, Failed,
       Answered, Distinct
  <2>3. Follows(tx[q])'
    BY ONLY <2>1, u = tx'[q], runs' = runs DEF Follows
  <2> QED
    BY <2>2, <2>3
<1>2. (\A i \in 1..Len(runs) : RowTells(runs[i]) /\ RowFollows(i))'
  BY DEF RecordInv, RowTells, RowFollows, Exhausted, TriesWith
<1> QED
  BY <1>1, <1>2 DEF RecordInv

\* Streams, settings, midnights and crashes.
LEMMA EventRecords ==
  ASSUME TypeInv, RecordInv,
         \/ \E p \in Streamers : StreamBegin(p) \/ StreamEnd(p) \/ CancelRun(p)
         \/ Settings \/ Crash \/ \E month \in BOOLEAN : NewPeriod(month)
  PROVE  RecordInv'
<1>t. TxTypes /\ \A p \in Streamers : p \notin Clients
  BY TypeParts, SizesAssumption
<1>1. runs' = runs
  BY DEF StreamBegin, StreamEnd, CancelRun, Settings, Crash, NewPeriod, history
<1>2. \A q \in Clients : tx'[q] = tx[q] \/ tx'[q] = Idle
  BY <1>t DEF StreamBegin, StreamEnd, CancelRun, Settings, Crash, NewPeriod, TxTypes
<1> QED
  BY <1>1, <1>2, RecordsStay

LEMMA RecordSteps == TypeInv /\ RecordInv /\ [Next]_vars => RecordInv'
<1> SUFFICES ASSUME TypeInv, RecordInv, [Next]_vars PROVE RecordInv'
  OBVIOUS
<1>1. CASE UNCHANGED vars
  BY <1>1, RecordsStay DEF vars, history
<1>2. ASSUME NEW p \in Clients, Stage(p) PROVE RecordInv'
  <2>1. CASE Begin(p)
    BY <2>1, BeginRecords
  <2>2. CASE Succeed(p) \/ \E outcome \in HttpFailures : Fail(p, outcome)
    BY <2>2, CallRecords
  <2>3. CASE Bill(p)
    BY <2>3, BillRecords
  <2>4. CASE Commit(p)
    BY <2>4, KeptRecords DEF Commit
  <2>5. CASE CommitFailed(p)
    BY <2>5, KeptRecords DEF CommitFailed
  <2> QED
    BY <1>2, <2>1, <2>2, <2>3, <2>4, <2>5 DEF Stage
<1> QED
  BY <1>1, <1>2, EventRecords DEF Next

\* The row of a run tells what happened, for any order of providers and any
\* interleaving of requests: who answered it and that nobody did before; that
\* a failed one exhausted its chain; that nobody was tried again but after a
\* rate limit; and that it follows, in its conversation, the runs it saw.
THEOREM RunsAreRecordedCorrect == Spec => []RunsAreRecorded
<1>1. TypeInv /\ RecordInv => RunsAreRecorded
  BY RecordsTell
<1> QED
  BY TypeInit, TypeStep, RecordInit, RecordSteps, <1>1, PTL DEF Spec

-----------------------------------------------------------------------------
(***************************************************************************)
(* The billing rows.  A row that two runs overlap in holds less than both  *)
(* were charged, so what a row holds and what was spent are not steps of   *)
(* the same sum.  Between them stands what has been paid on each row: the  *)
(* sum over the rows of a period is at most the spend of the period, each  *)
(* row holds at most what was paid on it, and what a run has read of its   *)
(* row is at most what has been paid on the row since.                     *)
(***************************************************************************)

\* Rows b hold at most what is paid on them, and s has the spend for it.
Covers(b, s, paid) ==
  /\ paid \in [1..Len(b) -> Nat]
  /\ \A n \in 1..Len(b) : b[n].cost <= paid[n]
  /\ \A i \in 1..MaxPeriods : Total(Part(b, paid, i)) <= s[i]

\* A run that is to commit has read no row, or one of its period and no more
\* than is paid on it.
Reads(t, k, b, paid) ==
  t.stage = "commit" =>
    IF t.rows[k] = NoRow THEN t.base[k] = 0
    ELSE /\ t.rows[k] \in 1..Len(b) /\ b[t.rows[k]].period = t.period[k]
         /\ t.base[k] <= paid[t.rows[k]]

\* Rows b and spend s of period k have been paid.
Backed(k, b, s) ==
  \E paid : /\ Covers(b, s, paid)
            /\ \A p \in Clients : \A t : (t = tx[p] /\ t # Idle) => Reads(t, k, b, paid)

BillInv == \A k \in Kinds : \A b, s : (b = bills[k] /\ s = spent[k]) => Backed(k, b, s)

LEMMA PartIs ==
  ASSUME NEW b \in Seq(BillRow), NEW paid \in [1..Len(b) -> Nat], NEW i
  PROVE  Part(b, paid, i) \in Seq(Nat) /\ Len(Part(b, paid, i)) = Len(b)
  BY DEF Part

\* The rows hold at most what was spent.
LEMMA CoversBills ==
  ASSUME NEW b \in Seq(BillRow), NEW s \in [1..MaxPeriods -> Nat], NEW paid,
         Covers(b, s, paid), NEW i \in 1..MaxPeriods
  PROVE  Total(Part(b, [n \in DOMAIN b |-> b[n].cost], i)) <= s[i]
<1> DEFINE cost == [n \in DOMAIN b |-> b[n].cost]
           v == Part(b, paid, i)
           w == Part(b, cost, i)
<1>1. DOMAIN b = 1..Len(b) /\ Len(b) \in Nat /\ paid \in [1..Len(b) -> Nat]
  BY DEF Covers
<1>2. cost \in [1..Len(b) -> Nat] /\ \A n \in 1..Len(b) : cost[n] <= paid[n]
  <2>1. \A n \in 1..Len(b) : b[n].cost \in Nat
    <3>1. \A n \in 1..Len(b) : b[n] \in BillRow
      OBVIOUS
    <3> QED
      BY ONLY <3>1 DEF BillRow
  <2>2. \A n \in 1..Len(b) : b[n].cost <= paid[n]
    BY DEF Covers
  <2> QED
    BY ONLY <2>1, <2>2, <1>1
<1> HIDE DEF cost
<1>3. /\ v \in Seq(Nat) /\ w \in Seq(Nat) /\ Len(v) = Len(b) /\ Len(w) = Len(b)
  BY <1>1, <1>2, PartIs
<1>4. \A n \in 1..Len(b) : w[n] <= v[n] + (IF n = 0 THEN 0 ELSE 0)
  BY <1>1, <1>2 DEF Part
<1> HIDE DEF v, w
<1>5. Total(v) \in Nat /\ Total(w) \in Nat /\ Total(w) <= Total(v) + 0
  BY <1>3, <1>4, TotalGrows
<1>6. Total(v) <= s[i] /\ s[i] \in Nat
  BY DEF Covers, v
<1>7. Total(w) <= s[i]
  BY ONLY <1>5, <1>6
<1> QED
  BY <1>7 DEF w, cost

\* What a commit makes of the rows and of the spend keeps them covered.
Extends(b, paid, b2, paid2) ==
  /\ Len(b) <= Len(b2)
  /\ \A n \in 1..Len(b) : b2[n].period = b[n].period /\ paid[n] <= paid2[n]

LEMMA NewRow ==
  ASSUME NEW b \in Seq(BillRow), NEW s \in [1..MaxPeriods -> Nat], NEW paid, Covers(b, s, paid),
         NEW row \in BillRow, NEW b2, b2 = Append(b, row),
         NEW s2, s2 = [s EXCEPT ![row.period] = s[row.period] + row.cost]
  PROVE  \E paid2 : Covers(b2, s2, paid2) /\ Extends(b, paid, b2, paid2)
<1> PICK N \in Nat : N = Len(b)
  OBVIOUS
<1> PICK c \in Nat : c = row.cost
  BY DEF BillRow
<1> PICK paid2 : paid2 = [n \in 1..(N + 1) |-> IF n = N + 1 THEN c ELSE paid[n]]
  OBVIOUS
<1>1. /\ paid \in [1..N -> Nat] /\ row.period \in 1..MaxPeriods
      /\ \A n \in 1..N : b[n] \in BillRow
      /\ \A i \in 1..MaxPeriods : s[i] \in Nat
  <2>1. paid \in [1..N -> Nat]
    BY DEF Covers
  <2>2. row.period \in 1..MaxPeriods
    BY DEF BillRow
  <2>3. \A n \in 1..N : b[n] \in BillRow
    BY ONLY b \in Seq(BillRow), N = Len(b)
  <2>4. \A i \in 1..MaxPeriods : s[i] \in Nat
    BY ONLY s \in [1..MaxPeriods -> Nat]
  <2> QED
    BY ONLY <2>1, <2>2, <2>3, <2>4
<1>2. /\ b2 \in Seq(BillRow) /\ Len(b2) = N + 1 /\ b2[N + 1] = row
      /\ \A n \in 1..N : b2[n] = b[n] /\ b2[n].period = b[n].period
  BY AppendProperties
<1>3. /\ paid2 \in [1..(N + 1) -> Nat] /\ paid2[N + 1] = c
      /\ \A n \in 1..N : paid2[n] = paid[n] /\ paid[n] \in Nat
      /\ \A n \in 1..(N + 1) : n = N + 1 \/ n \in 1..N
  <2>1. paid2 \in [1..(N + 1) -> Nat]
    <3>1. ASSUME NEW n \in 1..(N + 1)
          PROVE  (IF n = N + 1 THEN c ELSE paid[n]) \in Nat
      <4>1. n # N + 1 => n \in 1..N
        BY ONLY n \in 1..(N + 1), N \in Nat
      <4> QED
        BY ONLY <4>1, <1>1, c \in Nat
    <3> QED
      BY ONLY <3>1, paid2 = [n \in 1..(N + 1) |-> IF n = N + 1 THEN c ELSE paid[n]]
  <2>2. /\ \A n \in 1..N : n \in 1..(N + 1) /\ n # N + 1
        /\ \A n \in 1..(N + 1) : n = N + 1 \/ n \in 1..N
        /\ N + 1 \in 1..(N + 1)
    BY ONLY N \in Nat
  <2>3. \A n \in 1..N : paid[n] \in Nat
    BY ONLY <1>1
  <2> QED
    BY ONLY <2>1, <2>2, <2>3, paid2 = [n \in 1..(N + 1) |-> IF n = N + 1 THEN c ELSE paid[n]]
<1>4. \A n \in 1..(N + 1) : b2[n].cost <= paid2[n]
  <2>1. row.cost <= c
    OBVIOUS
  <2>2. \A n \in 1..N : b[n].cost <= paid[n]
    BY DEF Covers
  <2> QED
    BY ONLY <1>2, <1>3, <2>1, <2>2
<1>5. ASSUME NEW i \in 1..MaxPeriods PROVE Total(Part(b2, paid2, i)) <= s2[i]
  <2> DEFINE v == Part(b, paid, i)
             w == Part(b2, paid2, i)
             more == IF row.period = i THEN c ELSE 0
  <2>1. v \in Seq(Nat) /\ w \in Seq(Nat) /\ Len(v) = N /\ Len(w) = N + 1
    <3>1. v \in Seq(Nat) /\ Len(v) = N
      BY <1>1, PartIs
    <3>2. paid2 \in [1..Len(b2) -> Nat] /\ b2 \in Seq(BillRow)
      BY ONLY <1>2, <1>3
    <3>3. w \in Seq(Nat) /\ Len(w) = N + 1
      BY ONLY <1>2, <3>2, PartIs
    <3> QED
      BY ONLY <3>1, <3>3
  <2>2. w[N + 1] = more /\ \A n \in 1..N : w[n] = v[n]
    <3>1. N + 1 \in 1..(N + 1) /\ \A n \in 1..N : n \in 1..(N + 1)
      OBVIOUS
    <3>2. w = [n \in 1..(N + 1) |-> IF b2[n].period = i THEN paid2[n] ELSE 0]
      BY ONLY <1>2 DEF Part
    <3>3. v = [n \in 1..N |-> IF b[n].period = i THEN paid[n] ELSE 0]
      BY ONLY N = Len(b) DEF Part
    <3> HIDE DEF v, w
    <3> QED
      BY ONLY <1>2, <1>3, <3>1, <3>2, <3>3
  <2>3. s2[i] = s[i] + more /\ more \in Nat /\ s[i] \in Nat
    BY <1>1
  <2>4. Total(v) <= s[i]
    BY DEF Covers
  <2> HIDE DEF v, w, more
  <2>5. Total(v) \in Nat /\ Total(w) \in Nat /\ Total(w) <= Total(v) + w[N + 1]
    BY <2>1, <2>2, TotalAppend
  <2>6. Total(w) <= s2[i]
    BY ONLY <2>2, <2>3, <2>4, <2>5
  <2> QED
    BY <2>6 DEF w
<1>6. Covers(b2, s2, paid2)
  BY <1>2, <1>3, <1>4, <1>5 DEF Covers
<1>7. Extends(b, paid, b2, paid2)
  <2>1. \A n \in 1..N : paid[n] <= paid2[n]
    BY ONLY <1>3
  <2>2. N <= Len(b2)
    BY <1>2
  <2> QED
    BY ONLY <1>2, <2>1, <2>2, N = Len(b) DEF Extends
<1> QED
  BY <1>6, <1>7

LEMMA OldRow ==
  ASSUME NEW b \in Seq(BillRow), NEW s \in [1..MaxPeriods -> Nat], NEW paid, Covers(b, s, paid),
         NEW row \in BillRow, NEW r \in 1..Len(b), b[r].period = row.period,
         NEW base \in Nat, NEW c \in Nat, row.cost = base + c, base <= paid[r],
         NEW b2, b2 = [b EXCEPT ![r] = row],
         NEW s2, s2 = [s EXCEPT ![row.period] = s[row.period] + c]
  PROVE  \E paid2 : Covers(b2, s2, paid2) /\ Extends(b, paid, b2, paid2)
<1> PICK N \in Nat : N = Len(b)
  OBVIOUS
<1> PICK paid2 : paid2 = [n \in 1..N |-> IF n = r THEN paid[n] + c ELSE paid[n]]
  OBVIOUS
<1>1. /\ paid \in [1..N -> Nat] /\ row.period \in 1..MaxPeriods
      /\ \A i \in 1..MaxPeriods : s[i] \in Nat
      /\ \A n \in 1..N : paid[n] \in Nat
  BY DEF Covers, BillRow
<1>2. /\ b2 \in Seq(BillRow) /\ Len(b2) = N /\ b2[r] = row
      /\ \A n \in 1..N : n # r => b2[n] = b[n]
      /\ \A n \in 1..N : b2[n].period = b[n].period
  <2>1. r \in 1..N /\ b \in [1..N -> BillRow]
    OBVIOUS
  <2>2. b2 \in [1..N -> BillRow] /\ b2[r] = row /\ \A n \in 1..N : n # r => b2[n] = b[n]
    BY <2>1
  <2> QED
    BY <2>1, <2>2
<1>3. /\ paid2 \in [1..N -> Nat] /\ paid2[r] = paid[r] + c
      /\ \A n \in 1..N : n # r => paid2[n] = paid[n]
      /\ \A n \in 1..N : paid[n] <= paid2[n]
  BY <1>1
<1>4. ASSUME NEW n \in 1..N PROVE b2[n].cost <= paid2[n]
  <2>1. CASE n = r
    BY <2>1, <1>1, <1>2, <1>3
  <2>2. CASE n # r
    BY <2>2, <1>2, <1>3 DEF Covers
  <2> QED
    BY <2>1, <2>2
<1>5. ASSUME NEW i \in 1..MaxPeriods PROVE Total(Part(b2, paid2, i)) <= s2[i]
  <2> DEFINE v == Part(b, paid, i)
             w == Part(b2, paid2, i)
             more == IF row.period = i THEN c ELSE 0
  <2>1. v \in Seq(Nat) /\ w \in Seq(Nat) /\ Len(v) = N /\ Len(w) = N
    <3>1. v \in Seq(Nat) /\ Len(v) = N
      BY <1>1, PartIs
    <3>2. paid2 \in [1..Len(b2) -> Nat] /\ b2 \in Seq(BillRow)
      BY ONLY <1>2, <1>3
    <3>3. w \in Seq(Nat) /\ Len(w) = N
      BY ONLY <1>2, <3>2, PartIs
    <3> QED
      BY ONLY <3>1, <3>3
  <2>2. \A n \in 1..N : w[n] <= v[n] + (IF n = r THEN more ELSE 0)
    <3>1. w = [n \in 1..N |-> IF b2[n].period = i THEN paid2[n] ELSE 0]
      BY ONLY <1>2 DEF Part
    <3>2. v = [n \in 1..N |-> IF b[n].period = i THEN paid[n] ELSE 0]
      BY ONLY N = Len(b) DEF Part
    <3> HIDE DEF v, w, more
    <3>3. ASSUME NEW n \in 1..N PROVE w[n] <= v[n] + (IF n = r THEN more ELSE 0)
      <4>1. CASE n # r
        <5>1. w[n] = v[n] /\ v[n] \in Nat
          BY <4>1, <1>1, <1>2, <1>3, <3>1, <3>2
        <5> QED
          BY <4>1, <5>1
      <4>2. CASE n = r
        BY <4>2, <1>1, <1>2, <1>3, <3>1, <3>2 DEF more
      <4> QED
        BY <4>1, <4>2
    <3> QED
      BY <3>3
  <2>3. s2[i] = s[i] + more /\ more \in Nat /\ s[i] \in Nat
    BY <1>1
  <2>4. Total(v) <= s[i]
    BY DEF Covers
  <2> HIDE DEF v, w, more
  <2>5. Total(v) \in Nat /\ Total(w) \in Nat /\ Total(w) <= Total(v) + more
    BY <2>1, <2>2, <2>3, TotalGrows
  <2>6. Total(w) <= s2[i]
    BY ONLY <2>3, <2>4, <2>5
  <2> QED
    BY <2>6 DEF w
<1>6. Covers(b2, s2, paid2)
  BY <1>2, <1>3, <1>4, <1>5 DEF Covers
<1>7. Extends(b, paid, b2, paid2)
  BY <1>2, <1>3 DEF Extends
<1> QED
  BY <1>6, <1>7

LEMMA BillInit == Init => BillInv
<1> SUFFICES ASSUME Init, NEW k \in Kinds, NEW b, NEW s, b = bills[k], s = spent[k]
             PROVE  Backed(k, b, s)
  BY DEF BillInv
<1>1. /\ b = <<>> /\ \A p \in Clients : tx[p] = Idle
      /\ \A i \in 1..MaxPeriods : s[i] = 0
  BY DEF Init
<1>2. ASSUME NEW i \in 1..MaxPeriods PROVE Total(Part(<<>>, <<>>, i)) <= 0
  <2> DEFINE v == Part(<<>>, <<>>, i)
  <2>1. v \in Seq(Nat) /\ Len(v) = 0
    BY DEF Part
  <2> HIDE DEF v
  <2>2. PICK a : Adds(a, v, Len(v)) /\ Total(v) = a[Len(v)]
    BY <2>1, TotalAdds
  <2>3. Total(v) = 0
    BY <2>1, <2>2 DEF Adds
  <2> QED
    BY <2>3 DEF v
<1>3. Covers(b, s, <<>>)
  BY <1>1, <1>2 DEF Covers
<1> QED
  BY <1>1, <1>3 DEF Backed

\* A step that only lets runs begin, go on before they bill, or be given up.
LEMMA BillsStay ==
  ASSUME BillInv, bills' = bills, spent' = spent,
         \A q \in Clients : \/ tx'[q] = tx[q] \/ tx'[q] = Idle
                            \/ tx'[q].stage # "commit"
  PROVE  BillInv'
<1> SUFFICES ASSUME NEW k \in Kinds, NEW b, NEW s, b = bills'[k], s = spent'[k]
             PROVE  Backed(k, b, s)'
  BY DEF BillInv
<1>1. Backed(k, b, s)
  BY DEF BillInv
<1>2. PICK paid : /\ Covers(b, s, paid)
                  /\ \A p \in Clients : \A t : (t = tx[p] /\ t # Idle) => Reads(t, k, b, paid)
  BY <1>1 DEF Backed
<1>3. ASSUME NEW q \in Clients, NEW t, t = tx'[q], t # Idle PROVE Reads(t, k, b, paid)
  BY <1>2, <1>3 DEF Reads
<1> QED
  BY ONLY <1>2, <1>3 DEF Backed

LEMMA BillBills ==
  ASSUME TypeInv, BillInv, NEW p \in Clients, Bill(p)
  PROVE  BillInv'
<1> PICK t : t = tx[p]
  OBVIOUS
<1>t. TxTypes /\ OtherTypes
  BY TypeParts
<1>1. t \in RunTx /\ p \in DOMAIN tx /\ bills' = bills /\ spent' = spent
  BY <1>t DEF Bill, TxTypes, accounts
<1>2. PICK row, base : BillRead(p, row, base)
  BY BillReads
<1> PICK u : u = [t EXCEPT !.stage = "commit", !.period = today, !.rows = row, !.base = base]
  OBVIOUS
<1>3. /\ tx' = [tx EXCEPT ![p] = u] /\ u.period = today /\ u.rows = row /\ u.base = base
  BY <1>1, <1>2 DEF BillRead, RunTx
<1> SUFFICES ASSUME NEW k \in Kinds, NEW b, NEW s, b = bills'[k], s = spent'[k]
             PROVE  Backed(k, b, s)'
  BY DEF BillInv
<1>4. b = bills[k] /\ Backed(k, b, s)
  BY <1>1 DEF BillInv
<1>5. PICK paid : /\ Covers(b, s, paid)
                  /\ \A q \in Clients : \A v : (v = tx[q] /\ v # Idle) => Reads(v, k, b, paid)
  BY <1>4 DEF Backed
<1>6. Reads(u, k, b, paid)
  <2>1. row[k] # NoRow => row[k] \in 1..Len(b)
    BY <1>2, <1>4, <1>t DEF BillRead, OtherTypes
  <2>2. \A n \in 1..Len(b) : b[n].cost <= paid[n]
    BY <1>5 DEF Covers
  <2> QED
    BY <1>2, <1>3, <1>4, <2>1, <2>2 DEF BillRead, Reads
<1>7. ASSUME NEW q \in Clients, NEW v, v = tx'[q], v # Idle PROVE Reads(v, k, b, paid)
  <2>1. v = u \/ v = tx[q]
    BY <1>1, <1>3, <1>7
  <2> QED
    BY <1>5, <1>6, <1>7, <2>1
<1> QED
  BY ONLY <1>5, <1>7 DEF Backed

LEMMA CommitBills ==
  ASSUME TypeInv, BillInv, NEW p \in Clients, Commit(p)
  PROVE  BillInv'
<1> PICK t : t = tx[p]
  OBVIOUS
<1>t. TxTypes /\ OtherTypes
  BY TypeParts
<1>1. /\ t \in RunTx /\ t # Idle /\ t.stage = "commit" /\ Placed(t)
      /\ DOMAIN tx = Clients \union Streamers
  BY <1>t DEF Commit, TxTypes
<1>2. tx' = [tx EXCEPT ![p] = Idle]
  BY DEF Commit, Kept
<1> SUFFICES ASSUME NEW k \in Kinds, NEW b2, NEW s2, b2 = bills'[k], s2 = spent'[k]
             PROVE  Backed(k, b2, s2)'
  BY DEF BillInv
<1> DEFINE row == [provider |-> t.chain[t.at], period |-> t.period[k],
                   cost |-> t.base[k] + t.charge]
<1> PICK b \in Seq(BillRow) : b = bills[k]
  BY <1>t DEF OtherTypes
<1> PICK s \in [1..MaxPeriods -> Nat] : s = spent[k]
  BY <1>t DEF OtherTypes
<1>3. /\ b2 = IF t.rows[k] = NoRow THEN Append(b, row) ELSE [b EXCEPT ![t.rows[k]] = row]
      /\ s2 = [s EXCEPT ![t.period[k]] = s[t.period[k]] + t.charge]
  BY DEF Commit, Rolled
<1>4. /\ t.charge \in Nat /\ t.base[k] \in Nat /\ t.period[k] \in 1..MaxPeriods
      /\ row \in BillRow /\ row.period = t.period[k] /\ row.cost = t.base[k] + t.charge
  <2>1. t.charge \in 0..MaxCharge /\ t.base[k] \in Nat /\ t.period[k] \in 1..MaxPeriods
    BY <1>1 DEF RunTx, Numbers
  <2>2. t.charge \in Nat
    BY <2>1, SizesAssumption
  <2>3. t.chain[t.at] \in Providers
    BY <1>1, TryTypes
  <2>4. t.base[k] + t.charge \in Nat
    BY ONLY <2>1, <2>2
  <2> QED
    BY <2>1, <2>2, <2>3, <2>4 DEF BillRow
<1>5. Backed(k, b, s)
  BY DEF BillInv
<1>6. PICK paid : /\ Covers(b, s, paid)
                  /\ \A q \in Clients : \A v : (v = tx[q] /\ v # Idle) => Reads(v, k, b, paid)
  BY <1>5 DEF Backed
<1>r. Reads(t, k, b, paid)
  BY <1>1, <1>6
<1> PICK new : new = row
  OBVIOUS
<1> PICK r : r = t.rows[k]
  OBVIOUS
<1> PICK base : base = t.base[k]
  OBVIOUS
<1> PICK c : c = t.charge
  OBVIOUS
<1>n. /\ new \in BillRow /\ new.period = t.period[k] /\ new.cost = base + c
      /\ base \in Nat /\ c \in Nat
      /\ b2 = IF r = NoRow THEN Append(b, new) ELSE [b EXCEPT ![r] = new]
      /\ s2 = [s EXCEPT ![new.period] = s[new.period] + c]
  BY <1>3, <1>4
<1> HIDE DEF row
<1>7. \E paid2 : Covers(b2, s2, paid2) /\ Extends(b, paid, b2, paid2)
  <2>1. CASE r = NoRow
    <3>1. base = 0
      BY <1>1, <1>r, <2>1 DEF Reads
    <3>2. new.cost = c
      BY ONLY <1>n, <3>1
    <3>3. b2 = Append(b, new) /\ s2 = [s EXCEPT ![new.period] = s[new.period] + new.cost]
      BY ONLY <1>n, <2>1, <3>2
    <3> QED
      BY ONLY b \in Seq(BillRow), s \in [1..MaxPeriods -> Nat], <1>n, <1>6, <3>3, NewRow
  <2>2. CASE r # NoRow
    <3>1. r \in 1..Len(b) /\ b[r].period = new.period /\ base <= paid[r]
      BY <1>1, <1>n, <1>r, <2>2 DEF Reads
    <3>2. b2 = [b EXCEPT ![r] = new]
      BY ONLY <1>n, <2>2
    <3> QED
      BY ONLY b \in Seq(BillRow), s \in [1..MaxPeriods -> Nat], <1>n, <1>6, <3>1, <3>2, OldRow
  <2> QED
    BY <2>1, <2>2
<1>8. PICK paid2 : Covers(b2, s2, paid2) /\ Extends(b, paid, b2, paid2)
  BY <1>7
<1>9. b2 \in Seq(BillRow)
  <2>1. CASE r = NoRow
    <3>1. Append(b, new) \in Seq(BillRow)
      BY ONLY b \in Seq(BillRow), <1>n, AppendProperties
    <3> QED
      BY ONLY <1>n, <2>1, <3>1
  <2>2. CASE r # NoRow
    <3>1. b \in [1..Len(b) -> BillRow] /\ Len(b) \in Nat
      BY ONLY b \in Seq(BillRow)
    <3>2. [b EXCEPT ![r] = new] \in [1..Len(b) -> BillRow]
      BY ONLY <3>1, <1>n
    <3>3. [b EXCEPT ![r] = new] \in Seq(BillRow)
      BY ONLY <3>1, <3>2
    <3> QED
      BY ONLY <1>n, <2>2, <3>3
  <2> QED
    BY <2>1, <2>2
<1>10. ASSUME NEW q \in Clients, NEW v, v = tx'[q], v # Idle PROVE Reads(v, k, b2, paid2)
  <2>1. v = tx[q]
    BY <1>1, <1>2, <1>10
  <2>2. v \in RunTx /\ Reads(v, k, b, paid)
    BY <1>t, <1>6, <1>10, <2>1 DEF TxTypes
  <2> SUFFICES ASSUME v.stage = "commit", v.rows[k] # NoRow
               PROVE  /\ v.rows[k] \in 1..Len(b2) /\ b2[v.rows[k]].period = v.period[k]
                      /\ v.base[k] <= paid2[v.rows[k]]
    BY <2>2 DEF Reads
  <2> PICK n : n = v.rows[k]
    OBVIOUS
  <2>3. n \in 1..Len(b) /\ b[n].period = v.period[k] /\ v.base[k] <= paid[n]
    BY <2>2 DEF Reads
  <2>4. Len(b) \in Nat /\ Len(b2) \in Nat
    BY ONLY <1>9, b \in Seq(BillRow)
  <2>5. Len(b) <= Len(b2) /\ paid[n] <= paid2[n] /\ b2[n].period = b[n].period
    BY ONLY <1>8, <2>3 DEF Extends
  <2>6. n \in 1..Len(b2)
    BY ONLY <2>3, <2>4, <2>5
  <2>7. v.base[k] \in Nat /\ paid[n] \in Nat /\ paid2[n] \in Nat
    <3>1. v.base[k] \in Nat
      BY <2>2 DEF RunTx, Numbers
    <3>2. paid[n] \in Nat
      BY ONLY <2>3, <1>6 DEF Covers
    <3>3. paid2[n] \in Nat
      BY ONLY <2>6, <1>8 DEF Covers
    <3> QED
      BY <3>1, <3>2, <3>3
  <2>8. v.base[k] <= paid2[n]
    BY ONLY <2>3, <2>5, <2>7
  <2> QED
    BY <2>3, <2>5, <2>6, <2>8
<1> QED
  BY ONLY <1>8, <1>10 DEF Backed

LEMMA BillSteps == TypeInv /\ BillInv /\ [Next]_vars => BillInv'
<1> SUFFICES ASSUME TypeInv, BillInv, [Next]_vars PROVE BillInv'
  OBVIOUS
<1>t. /\ DOMAIN tx = Clients \union Streamers /\ \A p \in Streamers : p \notin Clients
      /\ \A p \in Clients : tx[p] # Idle => tx[p] \in RunTx
  BY TypeParts, SizesAssumption DEF TxTypes
<1>1. CASE UNCHANGED vars
  BY <1>1, BillsStay DEF vars, accounts
<1>2. ASSUME NEW p \in Clients, Stage(p) PROVE BillInv'
  <2>1. CASE Begin(p)
    <3>1. PICK explicit, t, primary, estimate :
            tx' = [tx EXCEPT ![p] = Opened(explicit, t, primary, estimate)]
      BY <2>1 DEF Begin
    <3>2. Opened(explicit, t, primary, estimate).stage # "commit"
      BY DEF Opened
    <3>3. bills' = bills /\ spent' = spent
      BY <2>1 DEF Begin, accounts
    <3>4. \A q \in Clients : tx'[q] = tx[q] \/ tx'[q].stage # "commit"
      BY <1>t, <3>1, <3>2
    <3> QED
      BY <3>3, <3>4, BillsStay
  <2>2. CASE Succeed(p)
    <3>1. \A q \in Clients : tx'[q] = tx[q] \/ tx'[q].stage # "commit"
      BY <1>t, <2>2 DEF Succeed, RunTx
    <3>2. bills' = bills /\ spent' = spent
      BY <2>2 DEF Succeed, accounts
    <3> QED
      BY <3>1, <3>2, BillsStay
  <2>3. ASSUME NEW outcome \in HttpFailures, Fail(p, outcome) PROVE BillInv'
    <3>1. \A q \in Clients : tx'[q] = tx[q] \/ tx'[q].stage # "commit"
      <4> DEFINE after == OneMore(tx[p], outcome)
                 stage == IF after.at > Len(after.chain) THEN "end" ELSE "call"
                 new == [after EXCEPT !.stage = stage]
      <4>1. tx' = [tx EXCEPT ![p] = new] /\ tx[p] \in RunTx
        BY <1>t, <2>3 DEF Fail
      <4>2. after.stage = tx[p].stage /\ DOMAIN after = DOMAIN tx[p] /\ "stage" \in DOMAIN after
        BY <4>1 DEF OneMore, RunTx
      <4>3. new.stage # "commit"
        <5> HIDE DEF after
        <5> QED
          BY <4>2
      <4> HIDE DEF new
      <4> QED
        BY <1>t, <4>1, <4>3
    <3>2. bills' = bills /\ spent' = spent
      BY <2>3 DEF Fail, accounts
    <3> QED
      BY <3>1, <3>2, BillsStay
  <2>4. CASE Bill(p)
    BY <2>4, BillBills
  <2>5. CASE Commit(p)
    BY <2>5, CommitBills
  <2>6. CASE CommitFailed(p)
    <3>1. \A q \in Clients : tx'[q] = tx[q] \/ tx'[q] = Idle
      BY <1>t, <2>6 DEF CommitFailed, Kept
    <3>2. bills' = bills /\ spent' = spent
      BY <2>6 DEF CommitFailed, accounts
    <3> QED
      BY <3>1, <3>2, BillsStay
  <2> QED
    BY <1>2, <2>1, <2>2, <2>3, <2>4, <2>5, <2>6 DEF Stage
<1>3. CASE \/ \E p \in Streamers : StreamBegin(p) \/ StreamEnd(p) \/ CancelRun(p)
           \/ Settings \/ Crash \/ \E month \in BOOLEAN : NewPeriod(month)
  <2>1. \A q \in Clients : tx'[q] = tx[q] \/ tx'[q] = Idle
    BY <1>t, <1>3 DEF StreamBegin, StreamEnd, CancelRun, Settings, Crash, NewPeriod
  <2>2. bills' = bills /\ spent' = spent
    BY <1>3 DEF StreamBegin, StreamEnd, CancelRun, Settings, Crash, NewPeriod, accounts
  <2> QED
    BY <2>1, <2>2, BillsStay
<1> QED
  BY <1>1, <1>2, <1>3 DEF Next

\* What the billing rows of a day or month hold, all providers together, is at
\* most what was spent in it, however many requests overlap in a row and
\* whatever midnight they pass: an increment may be lost, none counts twice.
THEOREM BilledAtMostUsedCorrect == Spec => []BilledAtMostUsed
<1>1. TypeInv /\ BillInv => BilledAtMostUsed
  <2> SUFFICES ASSUME TypeInv, BillInv, NEW k \in Kinds, NEW i \in 1..MaxPeriods
               PROVE  Billed(k, i) <= spent[k][i]
    BY DEF BilledAtMostUsed
  <2>1. bills[k] \in Seq(BillRow) /\ spent[k] \in [1..MaxPeriods -> Nat]
    BY TypeParts DEF OtherTypes
  <2>2. PICK paid : Covers(bills[k], spent[k], paid)
    <3>1. Backed(k, bills[k], spent[k])
      BY DEF BillInv
    <3> QED
      BY <3>1 DEF Backed
  <2>3. Total(Part(bills[k], [n \in DOMAIN bills[k] |-> bills[k][n].cost], i)) <= spent[k][i]
    BY <2>1, <2>2, CoversBills
  <2> QED
    BY <2>3 DEF Billed
<1> QED
  BY TypeInit, TypeStep, BillInit, BillSteps, <1>1, PTL DEF Spec
=============================================================================
