----------------------- MODULE CloudValidationProofs -----------------------
(***************************************************************************)
(* The session budget holds its limit, and covers every bill it has not    *)
(* released; the deployed gateway keeps these promises of the budget,      *)
(* bills nobody by accident, and its paid validation stops in time: for    *)
(* any number of requests and restarts, any environments and any prices.   *)
(***************************************************************************)
EXTENDS CloudValidation, FiniteSetTheorems, TLAPS

(***************************************************************************)
(* Sums as numbers of units: raising a request from nothing adds, lowering *)
(* it to nothing takes away, and a smaller function has a smaller sum.     *)
(***************************************************************************)
Sum(f) == Cardinality(Units(f))

Most == Limit + Overrun

LEMMA UnitsFinite ==
  ASSUME NEW f
  PROVE  IsFiniteSet(Units(f)) /\ Sum(f) \in Nat
PROOF
<1>1. IsFiniteSet(Requests \X (1 .. Most))
  <2>1. IsFiniteSet(1 .. Most)
    BY BudgetAssumption, FS_Interval DEF Most
  <2> QED BY <2>1, BudgetAssumption, FS_Product
<1>2. Units(f) \in SUBSET (Requests \X (1 .. Most))
  BY DEF Units, Most
<1> QED BY <1>1, <1>2, FS_Subset, FS_CardinalityType DEF Sum

LEMMA SumUp ==
  ASSUME NEW f \in [Requests -> Nat], NEW r \in Requests, NEW a \in 0 .. Most,
         f[r] = 0
  PROVE  Sum([f EXCEPT ![r] = a]) = Sum(f) + a
PROOF
<1> DEFINE g == [f EXCEPT ![r] = a]
           new == {r} \X (1 .. a)
<1>1. Units(g) = Units(f) \cup new
  BY BudgetAssumption DEF Units, Most
<1>2. Units(f) \cap new = {}
  BY BudgetAssumption DEF Units
<1>3. IsFiniteSet({r}) /\ Cardinality({r}) = 1
  BY FS_Singleton
<1>4. IsFiniteSet(1 .. a) /\ Cardinality(1 .. a) = a
  <2>1. 1 \in Int /\ a \in Int
    BY BudgetAssumption DEF Most
  <2>2. IsFiniteSet(1 .. a)
        /\ Cardinality(1 .. a) = IF 1 > a THEN 0 ELSE a - 1 + 1
    BY ONLY <2>1, FS_Interval
  <2> QED BY <2>2, BudgetAssumption DEF Most
<1>5. IsFiniteSet(new) /\ Cardinality(new) = a
  <2>1. IsFiniteSet(new)
        /\ Cardinality(new) = Cardinality({r}) * Cardinality(1 .. a)
    BY ONLY <1>3, <1>4, FS_Product
  <2> QED BY <1>3, <1>4, <2>1, BudgetAssumption DEF Most
<1>6. IsFiniteSet(Units(f)) /\ Sum(f) \in Nat
  BY UnitsFinite
<1>7. Cardinality(Units(f) \cup new)
        = Cardinality(Units(f)) + Cardinality(new) - Cardinality(Units(f) \cap new)
  BY <1>5, <1>6, FS_Union
<1>8. Cardinality(Units(f) \cap new) = 0
  BY <1>2, FS_EmptySet
<1> HIDE DEF g, new
<1>9. Sum(g) = Sum(f) + a
  BY <1>1, <1>5, <1>6, <1>7, <1>8, BudgetAssumption DEF Sum, Most
<1> QED BY <1>9 DEF g

LEMMA SumDown ==
  ASSUME NEW f \in [Requests -> Nat], NEW r \in Requests, f[r] \in 0 .. Most
  PROVE  Sum([f EXCEPT ![r] = 0]) = Sum(f) - f[r]
PROOF
<1> DEFINE g == [f EXCEPT ![r] = 0]
<1>1. g \in [Requests -> Nat] /\ g[r] = 0
  OBVIOUS
<1>2. f = [g EXCEPT ![r] = f[r]]
  OBVIOUS
<1> HIDE DEF g
<1>3. Sum(f) = Sum(g) + f[r]
  <2>1. Sum([g EXCEPT ![r] = f[r]]) = Sum(g) + f[r]
    BY <1>1, SumUp
  <2> QED BY <1>2, <2>1
<1>4. Sum(g) \in Nat
  BY UnitsFinite
<1>5. Sum(g) = Sum(f) - f[r]
  BY <1>3, <1>4, BudgetAssumption DEF Most
<1> QED BY <1>5 DEF g

LEMMA SumSmaller ==
  ASSUME NEW f \in [Requests -> Nat], NEW g \in [Requests -> Nat],
         \A r \in Requests : f[r] <= g[r]
  PROVE  Sum(f) <= Sum(g)
PROOF
<1>1. Units(f) \in SUBSET Units(g)
  BY BudgetAssumption DEF Units
<1> QED BY <1>1, UnitsFinite, FS_Subset DEF Sum

\* A sum is that of the requests of this session and of the earlier ones.
LEMMA SumSplit ==
  ASSUME hold \in [Requests -> Nat]
  PROVE  Sum(hold) = Sum(Held) + Sum(HeldBefore)
PROOF
<1>1. Units(hold) = Units(Held) \cup Units(HeldBefore)
  BY BudgetAssumption DEF Units, Held, HeldBefore
<1>2. Units(Held) \cap Units(HeldBefore) = {}
  BY BudgetAssumption DEF Units, Held, HeldBefore
<1>3. /\ IsFiniteSet(Units(Held)) /\ Sum(Held) \in Nat
      /\ IsFiniteSet(Units(HeldBefore)) /\ Sum(HeldBefore) \in Nat
  BY UnitsFinite
<1>4. Cardinality(Units(Held) \cup Units(HeldBefore))
        = Cardinality(Units(Held)) + Cardinality(Units(HeldBefore))
            - Cardinality(Units(Held) \cap Units(HeldBefore))
  BY <1>3, FS_Union
<1>5. Cardinality(Units(Held) \cap Units(HeldBefore)) = 0
  BY <1>2, FS_EmptySet
<1> QED BY <1>1, <1>3, <1>4, <1>5 DEF Sum

-----------------------------------------------------------------------------
(***************************************************************************)
(* The ledger: what is reserved is what the requests hold, whatever the    *)
(* service does.                                                           *)
(***************************************************************************)
LedgerInv ==
  /\ TypeOK
  /\ ReservedIsHeld
  /\ \A r \in Requests : hold[r] <= Limit
  /\ \A r \in Requests : r \notin served => charge[r] = 0

LEMMA LedgerInit == Init => LedgerInv
PROOF
<1> SUFFICES ASSUME Init PROVE LedgerInv
  OBVIOUS
<1>1. Units(Held) = {}
  BY BudgetAssumption DEF Init, Units, Held
<1> QED BY <1>1, FS_EmptySet, BudgetAssumption
        DEF Init, LedgerInv, TypeOK, ReservedIsHeld, Phases

\* The ways to end a reservation: it leaves hold and reserved together.
LEMMA HoldEnds ==
  ASSUME LedgerInv, NEW r \in Requests, NEW next \in Phases,
         At(r, "conversing", next),
         reserved' = reserved - hold[r],
         hold' = [hold EXCEPT ![r] = 0],
         charge' = [charge EXCEPT ![r] = 0],
         spent' \in Nat, billed' \in Nat, unrecorded' \in Nat, served' = served,
         UNCHANGED sessions, next # "lost"
  PROVE  LedgerInv'
PROOF
<1> USE DEF sessions
<1>1. hold \in [Requests -> Nat] /\ hold[r] \in 0 .. Most
  BY BudgetAssumption DEF LedgerInv, TypeOK, Most
<1>2. Sum(Held') = Sum(Held) - hold[r]
  <2>1. Held \in [Requests -> Nat] /\ Held[r] = hold[r]
    BY <1>1 DEF Held, At
  <2>2. Held' = [Held EXCEPT ![r] = 0]
    BY <1>1 DEF Held, At, LedgerInv, TypeOK
  <2> QED BY <1>1, <2>1, <2>2, SumDown
<1>3. Sum(Held') \in Nat
  BY UnitsFinite
<1>4. reserved' = Cardinality(Units(Held'))
  BY <1>2 DEF LedgerInv, ReservedIsHeld, Sum
<1>5. TypeOK'
  BY <1>1, <1>3, <1>4 DEF LedgerInv, TypeOK, At, Sum
<1> QED BY <1>1, <1>4, <1>5, BudgetAssumption
        DEF LedgerInv, ReservedIsHeld, TypeOK, At, Phases

LEMMA LedgerStep == LedgerInv /\ [Next]_vars => LedgerInv'
PROOF
<1> SUFFICES ASSUME LedgerInv, [Next]_vars PROVE LedgerInv'
  OBVIOUS
<1>1. ASSUME UNCHANGED vars
      PROVE  LedgerInv'
  <2>1. Held' = Held
    BY <1>1 DEF vars, Held
  <2> QED BY <1>1, <2>1
          DEF vars, budget, service, sessions, LedgerInv, TypeOK, ReservedIsHeld
<1>2. ASSUME NEW r \in Requests,
             \/ CountTokens(r) \/ CountFails(r) \/ Cancel(r)
             \/ \E a \in Amounts : Refuse(r, a)
      PROVE  LedgerInv'
  <2>1. UNCHANGED <<budget, hold, service, unrecorded, sessions>>
    BY <1>2 DEF CountTokens, CountFails, Cancel, Refuse
  <2>2. PICK here \in {"new", "counting", "conversing"} :
          \E next \in {"counting", "failed", "cancelled"} :
            /\ At(r, here, next)
            /\ here = "conversing" => next = "cancelled"
    BY <1>2 DEF CountTokens, CountFails, Cancel, Refuse
  <2>3. Held' = Held
    BY <2>1, <2>2 DEF Held, At, LedgerInv, TypeOK
  <2> QED BY <2>1, <2>2, <2>3
          DEF budget, service, sessions, LedgerInv, TypeOK, ReservedIsHeld, At,
              Phases
<1>3. ASSUME NEW r \in Requests, NEW a \in Amounts, Reserve(r, a)
      PROVE  LedgerInv'
  <2> USE DEF Reserve, service, sessions
  <2>1. a \in 0 .. Most /\ a <= Limit /\ hold[r] = 0
    BY <1>3, BudgetAssumption
       DEF Fits, At, LedgerInv, TypeOK, ReservedIsHeld, Most
  <2>2. hold \in [Requests -> Nat]
    BY DEF LedgerInv, TypeOK
  <2>3. Sum(Held') = Sum(Held) + a
    <3>1. Held \in [Requests -> Nat] /\ Held[r] = 0
      BY <2>1, <2>2 DEF Held
    <3>2. Held' = [Held EXCEPT ![r] = a]
      BY <1>3, <2>2 DEF Held, At, LedgerInv, TypeOK
    <3> QED BY <2>1, <3>1, <3>2, SumUp
  <2>4. reserved' = Cardinality(Units(Held'))
    BY <1>3, <2>3 DEF LedgerInv, ReservedIsHeld, Sum
  <2>5. TypeOK'
    BY <1>3, <2>1, BudgetAssumption DEF LedgerInv, TypeOK, At, Phases
  <2> QED BY <1>3, <2>1, <2>2, <2>4, <2>5, BudgetAssumption
          DEF LedgerInv, ReservedIsHeld, TypeOK, At
<1>4. ASSUME NEW r \in Requests, NEW cost \in 0 .. (Limit + Overrun), Serve(r, cost)
      PROVE  LedgerInv'
  <2>1. Held' = Held
    BY <1>4 DEF Serve, Held
  <2> QED BY <1>4, <2>1, BudgetAssumption
          DEF Serve, budget, sessions, LedgerInv, TypeOK, ReservedIsHeld
<1>5. ASSUME NEW r \in Requests, Settle(r)
      PROVE  LedgerInv'
  <2>1. /\ "done" \in Phases /\ At(r, "conversing", "done")
        /\ spent' \in Nat /\ billed' \in Nat /\ unrecorded' \in Nat
    BY <1>5 DEF Settle, LedgerInv, TypeOK, Phases
  <2> QED BY <1>5, <2>1, HoldEnds DEF Settle
<1>6. ASSUME NEW r \in Requests, ConverseFails(r) \/ Discard(r)
      PROVE  LedgerInv'
  <2>1. /\ "failed" \in Phases /\ At(r, "conversing", "failed")
        /\ spent' \in Nat /\ billed' \in Nat /\ unrecorded' \in Nat
    BY <1>6 DEF ConverseFails, Discard, Release, LedgerInv, TypeOK, Phases
  <2> QED BY <1>6, <2>1, HoldEnds DEF ConverseFails, Discard, Release
<1>7. ASSUME Restart
      PROVE  LedgerInv'
  <2>1. \A r \in Requests : hold'[r] > 0 => phase'[r] = "lost"
    BY <1>7 DEF Restart, LedgerInv, TypeOK, ReservedIsHeld
  <2>2. hold' \in [Requests -> Nat] /\ phase' \in [Requests -> Phases]
    BY <1>7 DEF Restart, LedgerInv, TypeOK, Phases
  <2>3. Units(Held') = {}
    BY <2>1, <2>2, BudgetAssumption DEF Held, Units
  <2>4. ReservedIsHeld'
    BY <1>7, <2>1, <2>3, FS_EmptySet DEF Restart, ReservedIsHeld
  <2> QED BY <1>7, <2>2, <2>4, BudgetAssumption
          DEF Restart, service, LedgerInv, TypeOK
<1> QED BY <1>1, <1>2, <1>3, <1>4, <1>5, <1>6, <1>7 DEF Next, Handles

LEMMA LedgerInvariant == Spec => []LedgerInv
PROOF BY LedgerInit, LedgerStep, PTL DEF Spec

\* Every reachable state is well typed: in particular reserved_usd never goes
\* below zero, so no reservation is given back twice.
THEOREM BudgetTypeCorrect == Spec => []TypeOK
PROOF BY LedgerInvariant, PTL DEF LedgerInv

\* reserved_usd is the sum of the reservations in use, whatever the service
\* bills or answers.
THEOREM ReservationsAreHeld == Spec => []ReservedIsHeld
PROOF BY LedgerInvariant, PTL DEF LedgerInv

-----------------------------------------------------------------------------
(* The excess of the bills over the reservations                           *)

Over == served \ Outstanding

LEMMA ExcessTyped ==
  ASSUME NEW S \in SUBSET Requests
  PROVE  IsFiniteSet(S) /\ Cardinality(S) \in Nat /\ Excess(S) \in Nat
PROOF
<1>1. IsFiniteSet(S) /\ Cardinality(S) \in Nat
  BY BudgetAssumption, FS_Subset, FS_CardinalityType
<1>2. \A i, j \in Nat : i * j \in Nat
  OBVIOUS
<1> QED BY <1>1, <1>2, BudgetAssumption DEF Excess

\* One request more is one overrun more.
LEMMA ExcessAdds ==
  ASSUME NEW S \in SUBSET Requests, NEW r \in Requests, r \notin S
  PROVE  Excess(S \cup {r}) = Excess(S) + Overrun
PROOF
<1>1. Cardinality(S \cup {r}) = Cardinality(S) + 1 /\ Cardinality(S) \in Nat
  BY ExcessTyped, FS_AddElement
<1>2. \A i, j \in Nat : i * (j + 1) = i * j + i
  OBVIOUS
<1> QED BY <1>1, <1>2, BudgetAssumption DEF Excess

LEMMA ExcessSplit ==
  ASSUME served \in SUBSET Requests
  PROVE  Excess(served) = Excess(Outstanding) + Excess(Over)
PROOF
<1>1. /\ Outstanding \in SUBSET Requests /\ Over \in SUBSET Requests
      /\ Outstanding \cap Over = {} /\ served = Outstanding \cup Over
  BY DEF Outstanding, Over
<1>2. /\ IsFiniteSet(Outstanding) /\ Cardinality(Outstanding) \in Nat
      /\ IsFiniteSet(Over) /\ Cardinality(Over) \in Nat
  BY <1>1, ExcessTyped
<1>3. Cardinality(Outstanding \cap Over) = 0
  BY <1>1, FS_EmptySet
<1>4. Cardinality(Outstanding \cup Over)
        = Cardinality(Outstanding) + Cardinality(Over)
            - Cardinality(Outstanding \cap Over)
  BY <1>2, FS_Union
<1>5. Cardinality(served) = Cardinality(Outstanding) + Cardinality(Over)
  BY <1>1, <1>2, <1>3, <1>4
<1>6. \A i, j, k \in Nat : i * (j + k) = i * j + i * k
  OBVIOUS
<1> QED BY <1>2, <1>5, <1>6, BudgetAssumption DEF Excess

\* What has been billed and not settled is what is held, and an overrun for each
\* of these requests: their units are those of the reservations, and for each
\* as many more as the overrun.
LEMMA ChargesCovered ==
  ASSUME hold \in [Requests -> Nat], charge \in [Requests -> Nat],
         served \in SUBSET Requests,
         \A r \in Requests : charge[r] <= hold[r] + Overrun,
         \A r \in Requests : hold[r] = 0 \/ r \notin served => charge[r] = 0
  PROVE  Sum(charge) <= Sum(hold) + Excess(Outstanding)
PROOF
<1> DEFINE P == Outstanding \X (1 .. Overrun)
           over == [w \in P |-> <<w[1], hold[w[1]] + w[2]>>]
           M == {over[w] : w \in P}
<1>1. Outstanding \in SUBSET Requests /\ Overrun \in Nat
  BY BudgetAssumption DEF Outstanding
<1>2. IsFiniteSet(Outstanding) /\ Cardinality(Outstanding) \in Nat
  BY <1>1, ExcessTyped
<1>3. IsFiniteSet(1 .. Overrun) /\ Cardinality(1 .. Overrun) = Overrun
  <2>1. 1 \in Int /\ Overrun \in Int
    BY <1>1
  <2>2. IsFiniteSet(1 .. Overrun)
        /\ Cardinality(1 .. Overrun) = IF 1 > Overrun THEN 0 ELSE Overrun - 1 + 1
    BY ONLY <2>1, FS_Interval
  <2> QED BY <1>1, <2>2
<1>4. IsFiniteSet(P) /\ Cardinality(P) = Excess(Outstanding)
  <2>1. IsFiniteSet(P)
        /\ Cardinality(P) = Cardinality(Outstanding) * Cardinality(1 .. Overrun)
    BY ONLY <1>2, <1>3, FS_Product
  <2>2. \A i, j \in Nat : i * j = j * i
    OBVIOUS
  <2> QED BY <1>1, <1>2, <1>3, <2>1, <2>2 DEF Excess
<1>5. IsFiniteSet(M) /\ Cardinality(M) <= Cardinality(P)
  <2>1. over \in Surjection(P, M)
    BY DEF Surjection
  <2> HIDE DEF P, over, M
  <2> QED BY <1>4, <2>1, FS_Surjection
<1>6. Units(charge) \in SUBSET (Units(hold) \cup M)
  <2> SUFFICES ASSUME NEW u \in Units(charge), u \notin Units(hold) PROVE u \in M
    OBVIOUS
  <2>1. /\ u = <<u[1], u[2]>> /\ u[1] \in Requests /\ u[2] \in 1 .. Limit + Overrun
        /\ u[2] <= charge[u[1]] /\ hold[u[1]] < u[2]
    BY BudgetAssumption DEF Units
  <2> DEFINE r == u[1]
             k == u[2] - hold[r]
  <2>2. r \in Outstanding /\ k \in 1 .. Overrun
    BY <1>1, <2>1, BudgetAssumption DEF Outstanding
  <2>3. <<r, k>> \in P /\ over[<<r, k>>] = u
    BY <2>1, <2>2, BudgetAssumption
  <2> QED BY <2>3
<1>7. IsFiniteSet(Units(hold)) /\ Sum(hold) \in Nat
      /\ IsFiniteSet(Units(charge)) /\ Sum(charge) \in Nat
  BY UnitsFinite
<1> HIDE DEF M, P
<1>8. /\ IsFiniteSet(Units(hold) \cup M)
      /\ Cardinality(Units(hold) \cup M)
           = Cardinality(Units(hold)) + Cardinality(M) - Cardinality(Units(hold) \cap M)
  BY <1>5, <1>7, FS_Union
<1>9. Cardinality(Units(charge)) <= Cardinality(Units(hold) \cup M)
  BY <1>6, <1>8, FS_Subset
<1>10. Cardinality(M) \in Nat /\ Cardinality(Units(hold) \cap M) \in Nat
  <2>1. Units(hold) \cap M \in SUBSET M
    OBVIOUS
  <2> QED BY <1>5, <2>1, FS_Subset, FS_CardinalityType
<1>11. Excess(Outstanding) \in Nat
  BY <1>1, ExcessTyped
<1> QED BY <1>4, <1>5, <1>7, <1>8, <1>9, <1>10, <1>11 DEF Sum

-----------------------------------------------------------------------------
(***************************************************************************)
(* The limit, whatever the service bills in excess: what earlier sessions  *)
(* spent and still hold is within as many limits, and with what this one   *)
(* has spent and reserved within one more, but for the overruns of the     *)
(* requests that are over.                                                 *)
(***************************************************************************)
Before == earlier + Sum(HeldBefore)

BillInv ==
  /\ WithinLimit
  /\ \A r \in Requests : charge[r] <= hold[r] + Overrun
  /\ \A r \in Requests : hold[r] = 0 => charge[r] = 0
  /\ \A r \in served : phase[r] \notin {"new", "counting"}
  /\ billed = earlier + spent + unrecorded + Sum(charge)
  /\ Before <= restarts * Limit + Excess(Over)
  /\ Before + spent + reserved <= (restarts + 1) * Limit + Excess(Over)

LEMMA BillTyped ==
  ASSUME LedgerInv
  PROVE  /\ spent \in Nat /\ reserved \in Nat /\ billed \in Nat /\ unrecorded \in Nat
         /\ earlier \in Nat /\ restarts \in Nat /\ Sum(HeldBefore) \in Nat
         /\ hold \in [Requests -> Nat] /\ charge \in [Requests -> Nat]
         /\ phase \in [Requests -> Phases] /\ served \in SUBSET Requests
         /\ Sum(charge) \in Nat /\ Before \in Nat /\ Excess(Over) \in Nat
         /\ restarts * Limit \in Nat
         /\ (restarts + 1) * Limit = restarts * Limit + Limit
PROOF
<1>1. /\ spent \in Nat /\ reserved \in Nat /\ billed \in Nat /\ unrecorded \in Nat
      /\ earlier \in Nat /\ restarts \in Nat /\ served \in SUBSET Requests
      /\ hold \in [Requests -> Nat] /\ charge \in [Requests -> Nat]
      /\ phase \in [Requests -> Phases]
  BY DEF LedgerInv, TypeOK
<1>2. Sum(HeldBefore) \in Nat /\ Sum(charge) \in Nat
  BY UnitsFinite
<1>3. Excess(Over) \in Nat
  BY <1>1, ExcessTyped DEF Over
<1>4. restarts * Limit \in Nat /\ (restarts + 1) * Limit = restarts * Limit + Limit
  BY <1>1, BudgetAssumption
<1> QED BY <1>1, <1>2, <1>3, <1>4 DEF Before

LEMMA BillInit == Init => BillInv
PROOF
<1> SUFFICES ASSUME Init PROVE BillInv
  OBVIOUS
<1>1. Units(charge) = {} /\ Units(HeldBefore) = {}
  BY BudgetAssumption DEF Init, Units, HeldBefore
<1>2. Sum(charge) = 0 /\ Sum(HeldBefore) = 0
  BY <1>1, FS_EmptySet DEF Sum
<1>3. Over \in SUBSET Requests /\ served \ Outstanding = Over
  BY DEF Init, Over
<1>4. Excess(Over) \in Nat
  BY <1>3, ExcessTyped
<1>5. 0 * Limit = 0 /\ (0 + 1) * Limit = Limit
  BY BudgetAssumption
<1> QED BY <1>2, <1>3, <1>4, <1>5, BudgetAssumption
        DEF Init, BillInv, WithinLimit, Before

\* A step that ends no reservation and starts none.
LEMMA BillIdle ==
  ASSUME LedgerInv, BillInv, UNCHANGED <<budget, hold, service, unrecorded, sessions>>,
         HeldBefore' = HeldBefore,
         \A r \in Requests : phase'[r] \in {"new", "counting"} =>
                               phase[r] \in {"new", "counting"}
  PROVE  BillInv'
PROOF
<1>1. UNCHANGED <<spent, reserved, hold, served, charge, billed, unrecorded,
                  restarts, earlier>>
  BY DEF budget, service, sessions
<1>2. Outstanding' = Outstanding /\ Over' = Over
  BY <1>1 DEF Outstanding, Over
<1>3. \A r \in served : phase'[r] \notin {"new", "counting"}
  BY BillTyped DEF BillInv
<1> QED BY <1>1, <1>2, <1>3 DEF BillInv, WithinLimit, Before, Sum, Excess

LEMMA BillStep == LedgerInv /\ BillInv /\ [Next]_vars => BillInv'
PROOF
<1> SUFFICES ASSUME LedgerInv, BillInv, [Next]_vars PROVE BillInv'
  OBVIOUS
<1>1. /\ spent \in Nat /\ reserved \in Nat /\ billed \in Nat /\ unrecorded \in Nat
      /\ earlier \in Nat /\ restarts \in Nat /\ Sum(HeldBefore) \in Nat
      /\ hold \in [Requests -> Nat] /\ charge \in [Requests -> Nat]
      /\ phase \in [Requests -> Phases] /\ served \in SUBSET Requests
      /\ Sum(charge) \in Nat /\ Before \in Nat /\ Excess(Over) \in Nat
      /\ restarts * Limit \in Nat
      /\ (restarts + 1) * Limit = restarts * Limit + Limit
  BY BillTyped
<1>2. /\ \A r \in Requests : hold[r] \in 0 .. Most /\ charge[r] \in 0 .. Most
      /\ spent + reserved <= Limit + Excess(Over)
  BY <1>1, BudgetAssumption DEF LedgerInv, BillInv, WithinLimit, Over, Most
<1>3. ASSUME UNCHANGED vars
      PROVE  BillInv'
  <2>1. UNCHANGED <<budget, hold, service, unrecorded, sessions, phase>>
    BY <1>3 DEF vars
  <2>2. HeldBefore' = HeldBefore
    BY <2>1 DEF HeldBefore
  <2> QED BY <2>1, <2>2, BillIdle
<1>4. ASSUME NEW r \in Requests,
             \/ CountTokens(r) \/ CountFails(r) \/ Cancel(r)
             \/ \E a \in Amounts : Refuse(r, a)
      PROVE  BillInv'
  <2>1. /\ UNCHANGED <<budget, hold, service, unrecorded, sessions>>
        /\ \/ At(r, "new", "counting") \/ At(r, "counting", "failed")
           \/ At(r, "counting", "cancelled") \/ At(r, "conversing", "cancelled")
    BY <1>4 DEF CountTokens, CountFails, Cancel, Refuse
  <2>2. HeldBefore' = HeldBefore
    BY <1>1, <2>1 DEF HeldBefore, At
  <2>3. \A q \in Requests : phase'[q] \in {"new", "counting"} =>
                              phase[q] \in {"new", "counting"}
    BY <1>1, <2>1 DEF At
  <2> QED BY <2>1, <2>2, <2>3, BillIdle
<1>5. ASSUME NEW r \in Requests, NEW a \in Amounts, Reserve(r, a)
      PROVE  BillInv'
  <2>1. r \notin served /\ hold[r] = 0
    BY <1>1, <1>5 DEF Reserve, At, LedgerInv, ReservedIsHeld, BillInv
  <2>2. /\ UNCHANGED <<spent, served, charge, billed, unrecorded, restarts, earlier>>
        /\ reserved' = reserved + a /\ hold' = [hold EXCEPT ![r] = a]
        /\ phase' = [phase EXCEPT ![r] = "conversing"] /\ phase[r] = "counting"
        /\ spent + reserved + a <= Limit /\ a \in Nat
    BY <1>5, BudgetAssumption DEF Reserve, At, service, sessions, Fits
  <2>3. Over' = Over /\ (served \ Outstanding)' = Over
    BY <1>1, <2>1, <2>2 DEF Over, Outstanding
  <2>4. HeldBefore' = HeldBefore
    BY <1>1, <2>2 DEF HeldBefore
  <2>5. Before' = Before /\ Sum(charge)' = Sum(charge)
    BY <2>2, <2>4 DEF Before, Sum
  <2>6. WithinLimit'
    <3>1. spent' + reserved' <= Limit + Excess(Over)
      <4>1. /\ spent \in Nat /\ reserved \in Nat /\ Excess(Over) \in Nat
            /\ spent' + reserved' = spent + reserved + a
        BY <1>1, <2>2
      <4> QED BY <2>2, <4>1, BudgetAssumption
    <3>2. Excess(served \ Outstanding)' = Excess(Over)
      BY <2>3 DEF Excess
    <3> QED BY <3>1, <3>2 DEF WithinLimit
  <2>7. \A q \in Requests : /\ charge'[q] <= hold'[q] + Overrun
                            /\ hold'[q] = 0 => charge'[q] = 0
    BY <1>1, <2>1, <2>2, BudgetAssumption DEF BillInv
  <2>8. \A q \in served' : phase'[q] \notin {"new", "counting"}
    BY <1>1, <2>2 DEF BillInv
  <2>9. Before' + spent' + reserved' <= (restarts' + 1) * Limit + Excess(Over)
    <3>1. Before <= restarts * Limit + Excess(Over)
      BY DEF BillInv
    <3> QED BY <1>1, <2>2, <2>5, <3>1, BudgetAssumption
  <2> QED BY <2>2, <2>3, <2>5, <2>6, <2>7, <2>8, <2>9 DEF BillInv, Excess
<1>6. ASSUME NEW r \in Requests, NEW cost \in 0 .. (Limit + Overrun), Serve(r, cost)
      PROVE  BillInv'
  <2>1. /\ UNCHANGED <<spent, reserved, phase, hold, unrecorded, restarts, earlier>>
        /\ hold[r] > 0 /\ r \notin served /\ cost <= hold[r] + Overrun
        /\ phase[r] \in {"conversing", "cancelled", "lost"}
        /\ served' = served \cup {r} /\ charge' = [charge EXCEPT ![r] = cost]
        /\ billed' = billed + cost
    BY <1>6 DEF Serve, budget, sessions
  <2>2. cost \in 0 .. Most /\ charge[r] = 0
    BY <1>1, <2>1 DEF Most, LedgerInv
  <2>3. Sum(charge)' = Sum(charge) + cost
    BY <1>1, <2>1, <2>2, SumUp DEF Sum
  <2>4. Over' = Over /\ (served \ Outstanding)' = Over
    BY <1>1, <2>1 DEF Over, Outstanding
  <2>5. HeldBefore' = HeldBefore
    BY <2>1 DEF HeldBefore
  <2>6. Before' = Before
    BY <2>1, <2>5 DEF Before, Sum
  <2>7. WithinLimit'
    BY <1>2, <2>1, <2>4 DEF WithinLimit, Excess
  <2>8. \A q \in Requests : /\ charge'[q] <= hold'[q] + Overrun
                            /\ hold'[q] = 0 => charge'[q] = 0
    BY <1>1, <2>1 DEF BillInv
  <2>9. \A q \in served' : phase'[q] \notin {"new", "counting"}
    BY <1>1, <2>1 DEF BillInv
  <2>10. billed' = earlier' + spent' + unrecorded' + Sum(charge)'
    BY <1>1, <2>1, <2>2, <2>3 DEF BillInv
  <2> QED BY <2>1, <2>4, <2>6, <2>7, <2>8, <2>9, <2>10 DEF BillInv, Excess
<1>7. ASSUME NEW r \in Requests,
             Settle(r) \/ ConverseFails(r) \/ Discard(r)
      PROVE  BillInv'
  <2>1. /\ reserved' = reserved - hold[r]
        /\ UNCHANGED <<served, billed, restarts, earlier>>
        /\ hold' = [hold EXCEPT ![r] = 0] /\ charge' = [charge EXCEPT ![r] = 0]
        /\ phase[r] = "conversing"
        /\ \E next \in {"done", "failed"} : phase' = [phase EXCEPT ![r] = next]
        /\ \/ r \in served /\ spent' = spent + charge[r] /\ unrecorded' = unrecorded
           \/ spent' = spent /\ unrecorded' = unrecorded + charge[r]
    BY <1>7 DEF Settle, ConverseFails, Discard, Release, At, sessions
  <2>2. Sum(charge)' = Sum(charge) - charge[r]
    BY <1>1, <1>2, <2>1, SumDown DEF Sum
  <2>3. HeldBefore' = HeldBefore
    BY <1>1, <2>1 DEF HeldBefore
  <2>4. Before' = Before
    BY <2>1, <2>3 DEF Before, Sum
  <2>5. \A q \in Requests : /\ charge'[q] <= hold'[q] + Overrun
                            /\ hold'[q] = 0 => charge'[q] = 0
    BY <1>1, <2>1, BudgetAssumption DEF BillInv
  <2>6. \A q \in served' : phase'[q] \notin {"new", "counting"}
    BY <1>1, <2>1 DEF BillInv
  <2>7. billed' = earlier' + spent' + unrecorded' + Sum(charge)'
    BY <1>1, <2>1, <2>2 DEF BillInv
  <2>8. /\ charge[r] \in Nat /\ hold[r] \in Nat /\ reserved' \in Nat /\ Overrun \in Nat
        /\ charge[r] <= hold[r] + Overrun /\ (hold[r] = 0 => charge[r] = 0)
    <3>1. reserved' \in Nat
      BY LedgerStep DEF LedgerInv, TypeOK
    <3> QED BY <1>1, <3>1, BudgetAssumption DEF BillInv
  <2>9. /\ Excess(Over)' \in Nat
        /\ spent' + reserved' + Excess(Over) <= spent + reserved + Excess(Over)'
        /\ Excess(Over) <= Excess(Over)'
    <3>1. Over' = IF r \in served /\ hold[r] > 0 THEN Over \cup {r} ELSE Over
      BY <1>1, <2>1 DEF Over, Outstanding
    <3>2. CASE r \in served /\ hold[r] > 0
      <4>1. Over \in SUBSET Requests /\ r \notin Over
        BY <1>1, <3>2 DEF Over, Outstanding
      <4>2. Excess(Over)' = Excess(Over) + Overrun
        BY <3>1, <3>2, <4>1, ExcessAdds DEF Excess
      <4> QED BY <1>1, <2>1, <2>8, <4>2
    <3>3. CASE ~(r \in served /\ hold[r] > 0)
      <4>1. Excess(Over)' = Excess(Over)
        BY <3>1, <3>3 DEF Excess
      <4> QED BY <1>1, <2>1, <2>8, <3>3, <4>1
    <3> QED BY <3>2, <3>3
  <2>10. spent' \in Nat
    BY <1>1, <2>1, <2>8
  <2>11. WithinLimit'
    <3>1. spent' + reserved' <= Limit + Excess(Over)'
      BY <1>1, <1>2, <2>8, <2>9, <2>10, BudgetAssumption
    <3> QED BY <3>1 DEF WithinLimit, Excess, Over
  <2>12. /\ Before' <= restarts' * Limit + Excess(Over)'
         /\ Before' + spent' + reserved' <= (restarts' + 1) * Limit + Excess(Over)'
    <3>1. /\ Before <= restarts * Limit + Excess(Over)
          /\ Before + spent + reserved <= (restarts * Limit + Limit) + Excess(Over)
      BY <1>1 DEF BillInv
    <3>2. restarts' * Limit = restarts * Limit
          /\ (restarts' + 1) * Limit = restarts * Limit + Limit
      BY <1>1, <2>1
    <3> DEFINE l == restarts * Limit
    <3> HIDE DEF l
    <3>3. /\ Before' <= l + Excess(Over)'
          /\ Before' + spent' + reserved' <= (l + Limit) + Excess(Over)'
      BY <1>1, <2>4, <2>8, <2>9, <2>10, <3>1, BudgetAssumption DEF l
    <3> QED BY <3>2, <3>3 DEF l
  <2> QED BY <2>5, <2>6, <2>7, <2>11, <2>12 DEF BillInv, Excess
<1>8. ASSUME Restart
      PROVE  BillInv'
  <2>1. /\ UNCHANGED <<hold, served, charge, billed, unrecorded>>
        /\ spent' = 0 /\ reserved' = 0
        /\ earlier' = earlier + spent /\ restarts' = restarts + 1
        /\ phase' = [r \in Requests |->
                       IF phase[r] \in {"counting", "conversing", "cancelled"}
                       THEN "lost" ELSE phase[r]]
    BY <1>8 DEF Restart, service
  <2>2. HeldBefore' = hold
    <3>1. \A r \in Requests : hold[r] > 0 => phase'[r] = "lost"
      BY <1>1, <2>1 DEF LedgerInv, ReservedIsHeld
    <3>2. \A r \in Requests : HeldBefore'[r] = hold[r]
      BY <1>1, <2>1, <3>1 DEF HeldBefore
    <3> QED BY <1>1, <3>2 DEF HeldBefore
  <2>3. Sum(HeldBefore)' = reserved + Sum(HeldBefore)
    BY <1>1, <2>2, SumSplit DEF LedgerInv, ReservedIsHeld, Sum
  <2>4. Over' = Over /\ (served \ Outstanding)' = Over
    BY <2>1 DEF Over, Outstanding
  <2>5. Before' = Before + spent + reserved
    BY <1>1, <2>1, <2>3 DEF Before
  <2>6. Sum(charge)' = Sum(charge)
    BY <2>1 DEF Sum
  <2>7. WithinLimit'
    <3>1. spent' + reserved' <= Limit + Excess(Over)
      BY <1>1, <2>1, BudgetAssumption
    <3>2. Excess(served \ Outstanding)' = Excess(Over)
      BY <2>4 DEF Excess
    <3> QED BY <3>1, <3>2 DEF WithinLimit
  <2>8. /\ Before' <= restarts' * Limit + Excess(Over)'
        /\ Before' + spent' + reserved' <= (restarts' + 1) * Limit + Excess(Over)'
    <3>1. Before' <= (restarts * Limit + Limit) + Excess(Over)
      BY <1>1, <2>5 DEF BillInv
    <3>2. restarts' * Limit = restarts * Limit + Limit
          /\ (restarts' + 1) * Limit = (restarts * Limit + Limit) + Limit
      <4>1. \A n \in Nat : (n + 1) * Limit = n * Limit + Limit
        BY BudgetAssumption
      <4> QED BY <1>1, <2>1, <4>1
    <3> DEFINE l == restarts * Limit
    <3>3. l \in Nat /\ Before' \in Nat
      BY <1>1, <2>5
    <3> HIDE DEF l
    <3>4. /\ Before' <= (l + Limit) + Excess(Over)'
          /\ Before' + spent' + reserved' <= ((l + Limit) + Limit) + Excess(Over)'
      BY <1>1, <2>1, <2>4, <3>1, <3>3, BudgetAssumption DEF l, Excess
    <3> QED BY <3>2, <3>4 DEF l
  <2>9. \A r \in served' : phase'[r] \notin {"new", "counting"}
    BY <1>1, <2>1 DEF BillInv
  <2>10. billed' = earlier' + spent' + unrecorded' + Sum(charge)'
    BY <1>1, <2>1, <2>6 DEF BillInv
  <2> QED BY <2>1, <2>7, <2>8, <2>9, <2>10 DEF BillInv, Excess
<1> QED BY <1>3, <1>4, <1>5, <1>6, <1>7, <1>8 DEF Next, Handles

LEMMA BillInvariant == Spec => []BillInv
PROOF BY LedgerInvariant, BillInit, BillStep, PTL DEF Spec

\* SessionBudget.reserve counts what is reserved for others: what is spent and
\* reserved exceeds the limit only by what bills exceed their reservations.
THEOREM LimitHolds == Spec => []WithinLimit
PROOF
<1>1. BillInv => WithinLimit
  BY DEF BillInv
<1> QED BY <1>1, BillInvariant, PTL

\* What was billed and is not settled is covered by what is held for it.
LEMMA ChargesHeld ==
  ASSUME LedgerInv, BillInv
  PROVE  Sum(charge) <= reserved + Sum(HeldBefore) + Excess(Outstanding)
PROOF
<1>1. Sum(charge) <= Sum(hold) + Excess(Outstanding)
  BY BillTyped, ChargesCovered DEF LedgerInv, BillInv
<1>2. Sum(hold) = reserved + Sum(HeldBefore)
  BY BillTyped, SumSplit DEF LedgerInv, ReservedIsHeld, Sum
<1> QED BY <1>1, <1>2

\* The guard covers every bill but the released ones and the overruns of the
\* requests in progress.
THEOREM BillsAreCovered == Spec => []BillCovered
PROOF
<1>1. LedgerInv /\ BillInv => BillCovered
  <2> SUFFICES ASSUME LedgerInv, BillInv PROVE BillCovered
    OBVIOUS
  <2>1. Excess(Outstanding) \in Nat
    BY BillTyped, ExcessTyped DEF Outstanding
  <2> QED BY <2>1, BillTyped, ChargesHeld DEF BillInv, BillCovered, Sum
<1> QED BY <1>1, LedgerInvariant, BillInvariant, PTL

\* Over all restarts the account is billed at most once the limit for each
\* session and an overrun for each answer, released work apart, whatever the
\* service still does for the requests a restart has lost.
THEOREM SessionsBoundTheBill == Spec => []BillBySessions
PROOF
<1>1. LedgerInv /\ BillInv => BillBySessions
  <2> SUFFICES ASSUME LedgerInv, BillInv PROVE BillBySessions
    OBVIOUS
  <2>1. Excess(Outstanding) \in Nat
    BY BillTyped, ExcessTyped DEF Outstanding
  <2>2. Excess(served) = Excess(Outstanding) + Excess(Over)
    BY BillTyped, ExcessSplit
  <2> DEFINE l == (restarts + 1) * Limit
  <2>3. /\ Before + spent + reserved <= l + Excess(Over) /\ l \in Nat
        /\ billed - unrecorded <= Before + spent + reserved + Excess(Outstanding)
    BY <2>1, BillTyped, ChargesHeld, BudgetAssumption DEF BillInv, Before
  <2> HIDE DEF l
  <2>4. billed - unrecorded <= l + Excess(served)
    BY <2>1, <2>2, <2>3, BillTyped
  <2> QED BY <2>4 DEF BillBySessions, l
<1> QED BY <1>1, LedgerInvariant, BillInvariant, PTL

\* SessionBudget implements SpendCeiling: a reservation never raises the exposure
\* past the limit, nothing else raises it but a bill above its reservation, and
\* spending only grows.
THEOREM BudgetKeepsCeiling == Spec => KeepsCeiling
PROOF
<1>1. Init => Ceiling!Init
  BY DEF Init, Ceiling!Init
<1>2. LedgerInv /\ LedgerInv' /\ BillInv /\ [Next]_vars
        => [Ceiling!Next]_Ceiling!ceiling
  <2> SUFFICES ASSUME LedgerInv, LedgerInv', BillInv, [Next]_vars
               PROVE  Ceiling!Next \/ UNCHANGED Ceiling!ceiling
    OBVIOUS
  <2>1. /\ spent \in Nat /\ reserved \in Nat /\ spent' \in Nat /\ reserved' \in Nat
    BY DEF LedgerInv, TypeOK
  <2>2. ASSUME UNCHANGED budget
        PROVE  UNCHANGED Ceiling!ceiling
    BY <2>2 DEF budget, Ceiling!ceiling
  <2>3. ASSUME NEW r \in Requests, NEW a \in Amounts, Reserve(r, a)
        PROVE  Ceiling!LetThrough
    <3>1. /\ (spent + reserved) + a <= Limit
          /\ spent' + reserved' = (spent + reserved) + a
          /\ spent' = spent
      BY <2>1, <2>3, BudgetAssumption DEF Reserve, Fits
    <3> QED BY <3>1 DEF Ceiling!LetThrough
  <2>4. ASSUME NEW r \in Requests,
               Settle(r) \/ ConverseFails(r) \/ Discard(r)
        PROVE  Ceiling!Conclude
    <3>1. /\ reserved' = reserved - hold[r]
          /\ spent' = spent + charge[r] \/ spent' = spent
          /\ charge[r] <= hold[r] + Overrun /\ charge[r] \in Nat /\ hold[r] \in Nat
      BY <2>4 DEF Settle, ConverseFails, Discard, Release, BillInv,
                  LedgerInv, TypeOK
    <3>2. spent' \in spent .. ((spent + reserved) + Overrun)
          /\ (spent' + reserved') \in spent' .. ((spent + reserved) + Overrun)
      BY <2>1, <3>1, BudgetAssumption
    <3> QED BY <3>2 DEF Ceiling!Conclude
  <2>5. ASSUME Restart
        PROVE  Ceiling!NewSession
    BY <2>5 DEF Restart, Ceiling!NewSession
  <2> QED BY <2>2, <2>3, <2>4, <2>5
          DEF Next, Handles, vars, budget, Ceiling!Next, CountTokens, CountFails,
              Refuse, Serve, Cancel
<1> QED BY <1>1, <1>2, LedgerInvariant, BillInvariant, PTL
        DEF Spec, KeepsCeiling, Ceiling!Spec

-----------------------------------------------------------------------------
(* The deployed gateway, its scripts and its other clients                 *)

(***************************************************************************)
(* The composition implements the budget: all its theorems carry over.     *)
(***************************************************************************)
LEMMA StepRefines == [CloudNext]_all => [Next]_vars
PROOF
<1> SUFFICES ASSUME [CloudNext]_all PROVE Next \/ UNCHANGED vars
  OBVIOUS
<1>1. ASSUME NEW r \in Requests, Work(r)
      PROVE  Next
  BY <1>1 DEF Work, Next
<1>2. ASSUME Converse
      PROVE  Next
  BY <1>2 DEF Converse, Next
<1>3. ASSUME Replace
      PROVE  Next
  BY <1>3 DEF Replace, Next
<1>4. ASSUME Check \/ Post \/ Report \/ Answer \/ Expire
      PROVE  UNCHANGED vars
  BY <1>4 DEF Check, Post, Report, Expire, Answer, AnswerFree, AnswerFromCache,
              TurnAway, AnswerServed, AnswerFailed, Receive
<1> QED BY <1>1, <1>2, <1>3, <1>4 DEF CloudNext, all

\* The gateway among its clients and scripts is a behaviour of the session
\* budget.
THEOREM CloudKeepsBudget == CloudSpec => Spec
PROOF
<1>1. CloudInit => Init
  BY DEF CloudInit
<1> QED BY <1>1, StepRefines, PTL DEF CloudSpec, Spec

\* So whatever is validated, and whatever the other clients ask: the limit
\* holds, and the bills of all sessions stay within as many limits.
THEOREM CloudWithinBudget ==
  CloudSpec => [](WithinLimit /\ BillCovered /\ BillBySessions)
PROOF
BY CloudKeepsBudget, LimitHolds, BillsAreCovered, SessionsBoundTheBill, PTL

-----------------------------------------------------------------------------
(***************************************************************************)
(* Nothing is billed by accident.                                          *)
(***************************************************************************)

\* Only the switch registers Bedrock.
LEMMA BedrockIsSwitchedOn ==
  ASSUME NEW e, NEW m, Resolve(e, m) = "aws-bedrock"
  PROVE  Settings(e).bedrock
PROOF
<1> DEFINE s == Settings(e)
           mocks == IF s.mock
                    THEN <<Mock("mock-economy"), Mock("mock-fast"),
                           Mock("mock-quality")>>
                    ELSE <<>>
           local == IF s.ollama
                    THEN <<[provider |-> "ollama-local",
                            model |-> s.ollamaAlias]>>
                    ELSE <<>>
           Names == {"mock-economy", "mock-fast", "mock-quality",
                     "ollama-local"}
           P == [provider : Names, model : {"mock-economy", "mock-fast",
                                            "mock-quality", s.ollamaAlias}]
<1> SUFFICES ASSUME ~s.bedrock PROVE FALSE
  OBVIOUS
<1>1. mocks \in Seq(P)
  <2>1. \A n \in {"mock-economy", "mock-fast", "mock-quality"} : Mock(n) \in P
    BY DEF Mock
  <2> HIDE DEF P
  <2>2. <<Mock("mock-economy"), Mock("mock-fast"), Mock("mock-quality")>> \in Seq(P)
    BY <2>1
  <2> QED BY <2>2
<1>2. local \in Seq(P)
  <2>1. [provider |-> "ollama-local", model |-> s.ollamaAlias] \in P
    OBVIOUS
  <2> HIDE DEF P
  <2> QED BY <2>1
<1>3. BuildProviders(s) = mocks \o local \o <<>>
  BY DEF BuildProviders
<1> HIDE DEF mocks, local, P
<1>4. BuildProviders(s) \in Seq(P)
  BY <1>1, <1>2, <1>3
<1>5. \A x \in P : x.provider # "aws-bedrock"
  BY DEF P
<1>6. \A i \in 1 .. Len(BuildProviders(s)) : BuildProviders(s)[i] \in P
  BY <1>4
<1> HIDE DEF s
<1>7. PICK i \in 1 .. Len(BuildProviders(s)) :
        BuildProviders(s)[i].provider = "aws-bedrock"
  BY DEF Resolve, s
<1> QED BY <1>5, <1>6, <1>7

PurposeInv ==
  /\ gateway = CreateApp(env)
  /\ client \notin {"idle", "refused"} =>
       gateway.serves /\ (kind = "free" => ~gateway.bedrock)
  /\ billed > 0 \/ (\E r \in Requests : hold[r] > 0 \/ phase[r] = "counting") =>
       gateway.serves /\ gateway.bedrock

LEMMA PurposeInit == CloudInit => PurposeInv
PROOF BY DEF CloudInit, Init, PurposeInv

LEMMA PurposeStep ==
  LedgerInv /\ PurposeInv /\ [CloudNext]_all => PurposeInv'
PROOF
<1> SUFFICES ASSUME LedgerInv, PurposeInv, [CloudNext]_all PROVE PurposeInv'
  OBVIOUS
<1> USE DEF deployment, books, validation
<1>1. ASSUME UNCHANGED all
      PROVE  PurposeInv'
  BY <1>1 DEF all, vars, service, PurposeInv
<1>2. ASSUME Check
      PROVE  PurposeInv'
  <2>1. gateway = CreateApp(env) /\ UNCHANGED <<vars, env, gateway, kind>>
    BY <1>2 DEF Check, PurposeInv
  <2>2. Accepts => gateway.serves /\ (kind = "free" => ~gateway.bedrock)
    BY DEF Accepts
  <2> QED BY <1>2, <2>1, <2>2 DEF Check, PurposeInv, vars, service
<1>3. ASSUME Post \/ Report \/ Answer \/ Expire
      PROVE  PurposeInv'
  <2>1. UNCHANGED <<vars, env, gateway, kind>>
    BY <1>3 DEF Post, Report, Expire, Answer, AnswerFree, AnswerFromCache,
                TurnAway, AnswerServed, AnswerFailed, Receive
  <2>2. client' = client \/ client \notin {"idle", "refused"}
    BY <1>3 DEF Post, Report, Expire, Answer, AnswerFree, AnswerFromCache,
                TurnAway, AnswerServed, AnswerFailed, Waiting, Paying
  <2> QED BY <2>1, <2>2 DEF PurposeInv, vars, service
<1>4. ASSUME NEW r \in Requests, Work(r)
      PROVE  PurposeInv'
  <2>1. gateway.serves /\ gateway.bedrock
    <3>1. CASE r \in Range(Trial)
      <4>1. /\ client = "waiting" /\ gateway.models[Model] = "aws-bedrock"
            /\ gateway = CreateApp(env)
            /\ Model \in {"mock-fast", "bedrock-primary"}
        BY <1>4, <3>1 DEF Work, Turn, Paying, Waiting, PurposeInv, Model
      <4>2. Resolve(env, Model) = "aws-bedrock"
        BY <4>1 DEF CreateApp
      <4>3. Settings(env).bedrock
        BY <4>2, BedrockIsSwitchedOn
      <4> QED BY <4>1, <4>3 DEF CreateApp, PurposeInv
    <3>2. CASE r \notin Range(Trial)
      BY <1>4, <3>2 DEF Work, Turn
    <3> QED BY <3>1, <3>2
  <2> QED BY <1>4, <2>1 DEF Work, PurposeInv
<1>5. ASSUME Converse
      PROVE  PurposeInv'
  BY <1>5 DEF Converse, Serve, PurposeInv
<1>6. ASSUME Replace
      PROVE  PurposeInv'
  <2>1. /\ UNCHANGED <<env, gateway, kind, hold, billed>>
        /\ client' = client \/ client = "waiting"
    BY <1>6 DEF Replace, Restart, Waiting, service
  <2>2. \A r \in Requests : phase'[r] = "counting" => phase[r] = "counting"
    BY <1>6 DEF Replace, Restart, LedgerInv, TypeOK
  <2> QED BY <2>1, <2>2 DEF PurposeInv
<1> QED BY <1>1, <1>2, <1>3, <1>4, <1>5, <1>6 DEF CloudNext

\* Nothing is billed but on purpose: a variable that is left out, misspelt or
\* nought never leads to a bill, and neither does the free validation.
THEOREM BillsArePurposeful == CloudSpec => []BilledOnPurpose
PROOF
<1>1. PurposeInv => BilledOnPurpose
  <2> SUFFICES ASSUME PurposeInv, billed > 0 PROVE BilledOnPurpose
    BY DEF BilledOnPurpose
  <2>1. /\ Starts(env) /\ Settings(env).bedrock
        /\ kind = "free" => client \in {"idle", "refused"}
    BY DEF PurposeInv, CreateApp
  <2>2. Parses(env) /\ Valid(Settings(env))
    BY <2>1 DEF Starts
  <2>3. env["AWS_BEDROCK_ENABLED"] \in Yes
    BY <2>1 DEF Settings, Word, Default, Yes
  <2>4. env["AWS_BEDROCK_MODEL_ID"] # Unset
    BY <2>1, <2>2 DEF Valid, Settings, Word, Default
  <2>5. ASSUME NEW name \in {"INPUT_COST", "OUTPUT_COST", "AWS_SESSION_BUDGET_USD"}
        PROVE  env[name] \notin {Unset, Junk, 0}
    <3> DEFINE w == Word(env, name)
    <3>1. w # Junk
      BY <2>2 DEF Parses, ParsesDecimal
    <3>2. w > 0
      <4>1. /\ Settings(env).input > 0 /\ Settings(env).output > 0
            /\ Settings(env).budget > 0
        BY <2>1, <2>2 DEF Valid
      <4>2. /\ Settings(env).input = Word(env, "INPUT_COST")
            /\ Settings(env).output = Word(env, "OUTPUT_COST")
            /\ Settings(env).budget = Word(env, "AWS_SESSION_BUDGET_USD")
        BY DEF Settings
      <4> QED BY <4>1, <4>2
    <3>3. w = IF env[name] = Unset THEN 0 ELSE env[name]
      <4>1. /\ Default["INPUT_COST"] = 0 /\ Default["OUTPUT_COST"] = 0
            /\ Default["AWS_SESSION_BUDGET_USD"] = 0
        BY DEF Default
      <4>2. Default[name] = 0
        BY <4>1
      <4> QED BY <4>2 DEF Word
    <3> HIDE DEF w
    <3>4. w # 0
      BY <3>2
    <3> QED BY <3>1, <3>3, <3>4
  <2> QED BY <2>1, <2>3, <2>4, <2>5 DEF BilledOnPurpose
<1> QED BY <1>1, PurposeInit, PurposeStep, CloudKeepsBudget, LedgerInvariant, PTL
        DEF CloudSpec

-----------------------------------------------------------------------------
(***************************************************************************)
(* The paid validation stops in time: it asks only below its ceiling, and  *)
(* a request that is being answered was asked below it.                    *)
(***************************************************************************)
BooksInv ==
  /\ counted \in Int /\ stored \in Int /\ price \in [Requests -> Nat]
  /\ asked \in 0 .. Len(Trial)
  /\ samples \in Seq([status : Int, cost : Int])
  /\ client = "waiting" =>
       asked > 0 /\ (kind = "paid" => counted < CostCeiling)
  /\ CeilingPassedOnce

LEMMA BooksInit == CloudInit => BooksInv
PROOF BY TrialAssumption DEF CloudInit, BooksInv, CeilingPassedOnce, NoCost

LEMMA ReceiveKeepsBooks ==
  ASSUME BooksInv, NEW status \in Int, NEW cost \in Int,
         client = "waiting", Receive(status, cost), stored' \in Int
  PROVE  BooksInv'
PROOF
<1> DEFINE sample == [status |-> status, cost |-> cost]
<1>1. /\ samples' = Append(samples, sample) /\ counted' = counted + cost
      /\ client' = "asking" /\ UNCHANGED <<kind, asked, price>>
  BY DEF Receive, deployment
<1>2. samples' \in Seq([status : Int, cost : Int])
  BY <1>1 DEF BooksInv
<1>3. Last(samples') = sample
  BY <1>1 DEF Last, BooksInv
<1>4. CeilingPassedOnce'
  <2>1. Last(samples').cost = cost
    BY <1>3
  <2>2. kind = "paid" => counted < CostCeiling
    BY DEF BooksInv
  <2>3. counted' - cost = counted
    BY <1>1 DEF BooksInv
  <2> QED BY <1>1, <2>1, <2>2, <2>3 DEF CeilingPassedOnce
<1> QED BY <1>1, <1>2, <1>4 DEF BooksInv

LEMMA BooksStep == LedgerInv /\ BooksInv /\ [CloudNext]_all => BooksInv'
PROOF
<1> SUFFICES ASSUME LedgerInv, BooksInv, [CloudNext]_all PROVE BooksInv'
  OBVIOUS
<1> USE DEF books, deployment, validation
<1>1. ASSUME UNCHANGED <<kind, client, books, stored, price>>
      PROVE  BooksInv'
  BY <1>1 DEF BooksInv, CeilingPassedOnce
<1>2. ASSUME Check \/ Report
      PROVE  BooksInv'
  BY <1>2 DEF Check, Report, BooksInv, CeilingPassedOnce
<1>3. ASSUME Post
      PROVE  BooksInv'
  BY <1>3, TrialAssumption DEF Post, MoreToAsk, BooksInv, CeilingPassedOnce
<1>4. ASSUME Answer
      PROVE  BooksInv'
  <2>1. client = "waiting" /\ asked \in 1 .. Len(Trial)
    BY <1>4 DEF Answer, AnswerFree, AnswerFromCache, TurnAway, AnswerServed,
                AnswerFailed, Paying, Waiting, BooksInv
  <2>2. price[Current] \in Int
    BY <2>1, TrialAssumption DEF Current, BooksInv
  <2>3. PICK status \in Int, cost \in Int : Receive(status, cost)
    BY <1>4, <2>2 DEF Answer, AnswerFree, AnswerFromCache, TurnAway,
                      AnswerServed, AnswerFailed, BooksInv
  <2>4. stored' \in Int
    BY <1>4, <2>2 DEF Answer, AnswerFree, AnswerFromCache, TurnAway,
                      AnswerServed, AnswerFailed, BooksInv, NoCost
  <2> QED BY <2>1, <2>3, <2>4, ReceiveKeepsBooks
<1>5. ASSUME Expire
      PROVE  BooksInv'
  BY <1>5 DEF Expire, BooksInv, CeilingPassedOnce, NoCost
<1>6. ASSUME NEW r \in Requests, Work(r)
      PROVE  BooksInv'
  <2>1. price' \in [Requests -> Nat]
    BY <1>6 DEF Work, BooksInv, LedgerInv, TypeOK
  <2> QED BY <1>6, <2>1 DEF Work, BooksInv, CeilingPassedOnce
<1>7. ASSUME Converse
      PROVE  BooksInv'
  BY <1>1, <1>7 DEF Converse
<1>8. ASSUME Replace
      PROVE  BooksInv'
  BY <1>8 DEF Replace, Waiting, BooksInv, CeilingPassedOnce, NoCost
<1>9. ASSUME UNCHANGED all
      PROVE  BooksInv'
  BY <1>1, <1>9 DEF all
<1> QED BY <1>2, <1>3, <1>4, <1>5, <1>6, <1>7, <1>8, <1>9 DEF CloudNext

\* The client's ceiling is passed by the cost of one answer at most, whatever
\* restarts, caching and the other clients do.
THEOREM ClientStopsInTime == CloudSpec => []CeilingPassedOnce
PROOF
<1>1. BooksInv => CeilingPassedOnce
  BY DEF BooksInv
<1> QED BY <1>1, BooksInit, BooksStep, CloudKeepsBudget, LedgerInvariant, PTL
        DEF CloudSpec

-----------------------------------------------------------------------------
(***************************************************************************)
(* The client's books do not fall behind: a request of the validation is   *)
(* settled only while it is the one being waited for, and its price comes  *)
(* with its answer.                                                        *)
(***************************************************************************)
Priced(f, S) == UNION {{r} \X (1 .. f[r]) : r \in S}

LEMMA PricedFinite ==
  ASSUME NEW S, IsFiniteSet(S), NEW f, \A r \in S : f[r] \in Nat
  PROVE  IsFiniteSet(Priced(f, S))
PROOF
<1> DEFINE g == [r \in S |-> {r} \X (1 .. f[r])]
           T == {g[r] : r \in S}
<1>1. g \in Surjection(S, T)
  BY DEF Surjection
<1>2. \A U \in T : IsFiniteSet(U)
  <2> SUFFICES ASSUME NEW r \in S PROVE IsFiniteSet({r} \X (1 .. f[r]))
    OBVIOUS
  <2>0. f[r] \in Int
    OBVIOUS
  <2>1. IsFiniteSet({r})
    BY FS_Singleton
  <2>2. IsFiniteSet(1 .. f[r])
    BY <2>0, FS_Interval
  <2> QED BY <2>1, <2>2, FS_Product
<1>3. Priced(f, S) = UNION T
  BY DEF Priced
<1> HIDE DEF g, T
<1>4. IsFiniteSet(T)
  BY <1>1, FS_Surjection
<1> QED BY <1>2, <1>3, <1>4, FS_UNION

\* One more request adds its price.
LEMMA PricedAdds ==
  ASSUME NEW S, IsFiniteSet(S), NEW r, r \notin S,
         NEW f, \A s \in S \cup {r} : f[s] \in Nat
  PROVE  /\ Cardinality(Priced(f, S)) \in Nat
         /\ Cardinality(Priced(f, S \cup {r})) = Cardinality(Priced(f, S)) + f[r]
PROOF
<1> DEFINE own == {r} \X (1 .. f[r])
<1>1. IsFiniteSet(Priced(f, S)) /\ Cardinality(Priced(f, S)) \in Nat
  BY PricedFinite, FS_CardinalityType
<1>2. IsFiniteSet(own) /\ Cardinality(own) = f[r]
  <2>1. IsFiniteSet({r}) /\ Cardinality({r}) = 1
    BY FS_Singleton
  <2>2. IsFiniteSet(1 .. f[r]) /\ Cardinality(1 .. f[r]) = f[r]
    BY FS_Interval
  <2> QED BY <2>1, <2>2, FS_Product
<1>3. Priced(f, S \cup {r}) = Priced(f, S) \cup own
  BY DEF Priced
<1>4. Priced(f, S) \cap own = {}
  BY DEF Priced
<1> HIDE DEF own
<1>5. Cardinality(Priced(f, S) \cap own) = 0
  BY <1>4, FS_EmptySet
<1>6. f[r] \in Nat
  OBVIOUS
<1>7. Cardinality(Priced(f, S) \cup own)
        = Cardinality(Priced(f, S)) + Cardinality(own) - 0
  BY <1>1, <1>2, <1>5, FS_Union, Zenon
<1>8. Cardinality(Priced(f, S \cup {r})) = Cardinality(Priced(f, S)) + f[r] - 0
  BY <1>2, <1>3, <1>7, Zenon
<1> DEFINE a == Cardinality(Priced(f, S))
           b == f[r]
           c == Cardinality(Priced(f, S \cup {r}))
<1>9. a \in Nat /\ b \in Nat /\ c = a + b - 0
  BY <1>1, <1>6, <1>8
<1> HIDE DEF a, b, c
<1>10. a \in Nat /\ c = a + b
  BY <1>9
<1> QED BY <1>10 DEF a, b, c

Open == IF client \in {"waiting", "broken"} THEN {Current} ELSE {}

\* Only what is done has a price, and nothing that was not asked yet; where
\* Bedrock does not serve the model nothing has.
PriceInv ==
  /\ \A r \in Requests : price[r] # 0 => phase[r] = "done"
  /\ \A i \in 1 .. Len(Trial) : i > asked => price[Trial[i]] = 0
  /\ gateway.models[Model] # "aws-bedrock" =>
       \A r \in Range(Trial) : price[r] = 0
  /\ stored \in Nat \cup {NoCost} /\ counted \in Nat
  /\ ~gateway.cache => stored = NoCost
  /\ client \in {"waiting", "broken"} => asked \in 1 .. Len(Trial)
  /\ BooksAgree

LEMMA TrialTyped ==
  /\ \A i \in 1 .. Len(Trial) : Trial[i] \in Range(Trial)
  /\ Range(Trial) \subseteq Requests /\ IsFiniteSet(Range(Trial))
  /\ \A i, j \in 1 .. Len(Trial) : Trial[i] = Trial[j] => i = j
PROOF
<1>1. DOMAIN Trial = 1 .. Len(Trial)
  BY TrialAssumption
<1>2. Range(Trial) \subseteq Requests
  BY <1>1, TrialAssumption DEF Range
<1> QED BY <1>1, <1>2, TrialAssumption, BudgetAssumption, FS_Subset
        DEF Range, IsInjective

LEMMA PriceInit == CloudInit => PriceInv
PROOF
<1> SUFFICES ASSUME CloudInit PROVE PriceInv
  OBVIOUS
<1>1. /\ client = "idle" /\ counted = 0 /\ stored = NoCost
      /\ \A r \in Requests : price[r] = 0
  BY DEF CloudInit
<1>2. UNION {{r} \X (1 .. price[r]) : r \in Range(Trial)} = {}
  BY <1>1, TrialTyped
<1>3. TotalPrice(Range(Trial) \ {}) = 0
  BY <1>2, FS_EmptySet DEF TotalPrice
<1>4. BooksAgree
  BY <1>1, <1>3 DEF BooksAgree
<1> QED BY <1>1, <1>4, TrialTyped DEF PriceInv

\* The books agree for as long as the same requests have their prices.
LEMMA SamePrices ==
  ASSUME BooksAgree, UNCHANGED <<gateway, kind, counted>>, Open' = Open,
         \A r \in Range(Trial) \ Open : price'[r] = price[r]
  PROVE  BooksAgree'
PROOF
<1> DEFINE S == Range(Trial) \ Open
<1>1. {{r} \X (1 .. price'[r]) : r \in S} = {{r} \X (1 .. price[r]) : r \in S}
  OBVIOUS
<1>2. Cardinality(UNION {{r} \X (1 .. price'[r]) : r \in Range(Trial) \ Open'})
        = TotalPrice(S)
  BY <1>1 DEF TotalPrice
<1> QED BY <1>2 DEF BooksAgree, TotalPrice, Open

\* An answer is counted, and the price of its request with it.
LEMMA AnswerCounted ==
  ASSUME LedgerInv, BooksInv, PriceInv, NEW cost \in Nat, NEW status,
         client = "waiting", Receive(status, cost),
         price[Current] <= cost,
         ~gateway.cache => price[Current] = cost
  PROVE  BooksAgree'
PROOF
<1> DEFINE S == Range(Trial) \ {Current}
<1>1. /\ client' = "asking" /\ counted' = counted + cost
      /\ price' = price /\ kind' = kind /\ gateway' = gateway
  BY DEF Receive, deployment
<1>2. /\ Current \in Range(Trial) /\ IsFiniteSet(S) /\ Current \notin S
      /\ S \cup {Current} = Range(Trial) /\ S \subseteq Requests
  BY TrialTyped, FS_RemoveElement DEF PriceInv, Current
<1>3. \A r \in S \cup {Current} : price[r] \in Nat
  BY <1>2, TrialTyped DEF BooksInv
<1> HIDE DEF S
<1>4. /\ Cardinality(Priced(price, S)) \in Nat
      /\ Cardinality(Priced(price, Range(Trial)))
           = Cardinality(Priced(price, S)) + price[Current]
  BY <1>2, <1>3, PricedAdds
<1>5. /\ TotalPrice(S) \in Nat
      /\ TotalPrice(Range(Trial)) = TotalPrice(S) + price[Current]
  BY <1>4 DEF Priced, TotalPrice
<1>6. kind = "paid" => /\ TotalPrice(S) <= counted
                       /\ ~gateway.cache => counted = TotalPrice(S)
  BY DEF PriceInv, BooksAgree, S
<1>7. Range(Trial) \ {} = Range(Trial) /\ TotalPrice(Range(Trial))' = TotalPrice(Range(Trial))
  BY <1>1 DEF TotalPrice
<1>8. price[Current] \in Nat /\ counted \in Nat
  BY <1>2, <1>3 DEF PriceInv
<1> QED BY <1>1, <1>5, <1>6, <1>7, <1>8 DEF BooksAgree

LEMMA PriceStep ==
  LedgerInv /\ BooksInv /\ PriceInv /\ [CloudNext]_all => PriceInv'
PROOF
<1> SUFFICES ASSUME LedgerInv, BooksInv, PriceInv, [CloudNext]_all
             PROVE  PriceInv'
  OBVIOUS
<1> USE DEF books, deployment, validation
<1>1. ASSUME UNCHANGED <<vars, deployment, books, price>>,
             stored' = stored \/ stored' = NoCost,
             client' = client \/ {client, client'} \cap {"waiting", "broken"} = {}
      PROVE  PriceInv'
  <2>1. Open' = Open
    BY <1>1 DEF Open, Current
  <2>2. BooksAgree'
    BY <1>1, <2>1, SamePrices DEF PriceInv
  <2> QED BY <1>1, <2>2 DEF PriceInv, vars, service, Model
<1>2. ASSUME Check \/ Report \/ Expire \/ UNCHANGED all
      PROVE  PriceInv'
  BY <1>1, <1>2 DEF Check, Report, Expire, all
<1>3. ASSUME Post
      PROVE  PriceInv'
  <2>1. /\ client = "asking" /\ client' = "waiting" /\ asked' = asked + 1
        /\ asked' \in 1 .. Len(Trial) /\ asked \in Nat
        /\ UNCHANGED <<vars, env, gateway, kind, counted, stored, price>>
    BY <1>3, TrialAssumption DEF Post, MoreToAsk, BooksInv
  <2>2. price[Trial[asked']] = 0
    BY <2>1 DEF PriceInv
  <2> DEFINE c == Trial[asked']
             S == Range(Trial) \ {c}
  <2>3. UNION {{r} \X (1 .. price[r]) : r \in S}
          = UNION {{r} \X (1 .. price[r]) : r \in Range(Trial)}
    <3>1. {c} \X (1 .. price[c]) = {}
      BY <2>2
    <3>2. \A u : u \in UNION {{r} \X (1 .. price[r]) : r \in Range(Trial)}
                  => u \in UNION {{r} \X (1 .. price[r]) : r \in S}
      <4> SUFFICES ASSUME NEW r \in Range(Trial), NEW u \in {r} \X (1 .. price[r])
                   PROVE  u \in UNION {{s} \X (1 .. price[s]) : s \in S}
        OBVIOUS
      <4>1. r \in S
        BY <3>1
      <4> QED BY <4>1
    <3> QED BY <3>2
  <2>4. TotalPrice(S) = TotalPrice(Range(Trial) \ {})
    BY <2>3 DEF TotalPrice
  <2>5. BooksAgree'
    BY <2>1, <2>4 DEF PriceInv, BooksAgree, TotalPrice, Current
  <2> QED BY <2>1, <2>5 DEF PriceInv, vars, Model
<1>4. ASSUME Answer
      PROVE  PriceInv'
  <2>1. /\ client = "waiting" /\ asked \in 1 .. Len(Trial)
        /\ Current \in Range(Trial) /\ Current \in Requests
        /\ price[Current] \in Nat
    BY <1>4, TrialTyped DEF Answer, AnswerFree, AnswerFromCache, TurnAway,
         AnswerServed, AnswerFailed, Paying, Waiting, PriceInv, Current, BooksInv
  <2>2. phase[Current] \in {"new", "failed", "cancelled"} => price[Current] = 0
    BY <2>1 DEF PriceInv
  <2>3. PICK status, cost \in Nat :
          /\ Receive(status, cost)
          /\ price[Current] <= cost
          /\ ~gateway.cache => price[Current] = cost
    <3>1. CASE AnswerFree
      BY <2>1, <3>1 DEF AnswerFree, PriceInv
    <3>2. CASE AnswerFromCache
      BY <2>1, <2>2, <3>2 DEF AnswerFromCache, PriceInv
    <3>3. CASE TurnAway \/ AnswerFailed
      BY <2>1, <2>2, <3>3 DEF TurnAway, AnswerFailed
    <3>4. CASE AnswerServed
      BY <2>1, <3>4 DEF AnswerServed
    <3> QED BY <1>4, <3>1, <3>2, <3>3, <3>4 DEF Answer
  <2>4. BooksAgree'
    BY <2>1, <2>3, AnswerCounted
  <2>5. stored' \in Nat \cup {NoCost} /\ (~gateway.cache => stored' = NoCost)
    BY <1>4, <2>1 DEF Answer, AnswerFree, AnswerFromCache, TurnAway,
         AnswerServed, AnswerFailed, PriceInv
  <2>6. /\ client' = "asking" /\ counted' = counted + cost
        /\ UNCHANGED <<vars, env, gateway, kind, asked, price>>
    BY <2>3 DEF Receive
  <2> QED BY <2>4, <2>5, <2>6 DEF PriceInv, vars, Model
<1>5. ASSUME NEW r \in Requests, Work(r)
      PROVE  PriceInv'
  <2>1. /\ UNCHANGED <<env, gateway, kind, client, books, stored>>
        /\ price' = IF phase'[r] = "done" THEN [price EXCEPT ![r] = charge[r]]
                    ELSE price
    BY <1>5 DEF Work
  <2>2. /\ phase[r] # "done"
        /\ \A s \in Requests : s # r => phase'[s] = phase[s]
    BY <1>5 DEF Work, Handles, CountTokens, CountFails, Reserve, Refuse, Settle,
         ConverseFails, Discard, Cancel, At, Release, LedgerInv, TypeOK
  <2>3. price[r] = 0 /\ charge[r] \in Nat /\ price \in [Requests -> Nat]
    BY <2>2 DEF PriceInv, LedgerInv, TypeOK, BooksInv
  <2>4. \A s \in Requests : price'[s] # 0 => phase'[s] = "done"
    BY <2>1, <2>2, <2>3 DEF PriceInv
  <2>5. r \in Range(Trial) =>
          /\ client = "waiting" /\ r = Current
          /\ gateway.models[Model] = "aws-bedrock"
    BY <1>5 DEF Work, Turn, Paying, Waiting
  <2>6. \A s \in Requests : s # r => price'[s] = price[s]
    BY <2>1, <2>3
  <2>7. Open' = Open
    BY <2>1 DEF Open, Current
  <2>8. BooksAgree'
    <3>1. \A s \in Range(Trial) \ Open : price'[s] = price[s]
      BY <2>5, <2>6, TrialTyped DEF Open
    <3> QED BY <2>1, <2>7, <3>1, SamePrices DEF PriceInv
  <2>9. \A i \in 1 .. Len(Trial) : i > asked => price'[Trial[i]] = 0
    <3> SUFFICES ASSUME NEW i \in 1 .. Len(Trial), i > asked
                 PROVE  price'[Trial[i]] = 0
      OBVIOUS
    <3>1. Trial[i] # r
      BY <2>5, TrialTyped DEF Current, PriceInv
    <3> QED BY <2>6, <3>1, TrialTyped DEF PriceInv
  <2>10. gateway.models[Model] # "aws-bedrock" =>
           \A s \in Range(Trial) : price'[s] = 0
    BY <2>5, <2>6, TrialTyped DEF PriceInv
  <2> QED BY <2>1, <2>4, <2>8, <2>9, <2>10 DEF PriceInv, Model
<1>6. ASSUME Converse
      PROVE  PriceInv'
  <2>1. UNCHANGED validation /\ phase' = phase
    BY <1>6 DEF Converse, Serve
  <2>2. BooksAgree'
    BY <2>1, SamePrices DEF PriceInv, Open, Current
  <2> QED BY <2>1, <2>2 DEF PriceInv, Model
<1>7. ASSUME Replace
      PROVE  PriceInv'
  <2>1. /\ UNCHANGED <<env, gateway, kind, books, price>> /\ stored' \in {stored, NoCost}
        /\ client' = IF client = "waiting" THEN "broken" ELSE client
    BY <1>7 DEF Replace, Waiting
  <2>2. \A r \in Requests : phase[r] = "done" => phase'[r] = "done"
    BY <1>7 DEF Replace, Restart
  <2>3. Open' = Open
    BY <2>1 DEF Open, Current
  <2>4. BooksAgree'
    BY <2>1, <2>3, SamePrices DEF PriceInv
  <2> QED BY <2>1, <2>2, <2>4 DEF PriceInv, Model
<1> QED BY <1>2, <1>3, <1>4, <1>5, <1>6, <1>7 DEF CloudNext

\* Whatever was settled for the validation's requests the client has counted,
\* but for the request whose answer is still on its way or was lost; without a
\* cache it has counted nothing else.
THEOREM ClientKeepsBooks == CloudSpec => []BooksAgree
PROOF
<1>1. PriceInv => BooksAgree
  BY DEF PriceInv
<1> QED BY <1>1, BooksInit, BooksStep, PriceInit, PriceStep, CloudKeepsBudget,
           LedgerInvariant, PTL
        DEF CloudSpec
=============================================================================
