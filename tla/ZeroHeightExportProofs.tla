----------------------- MODULE ZeroHeightExportProofs -----------------------
(***************************************************************************)
(* What TLAPS proves of the zero-height export: it conserves money, pays   *)
(* what is owed and no more, keeps the reference counts of the             *)
(* distribution module exact, leaves no height behind, exports as bonded   *)
(* whom the new chain bonds, and fails only for the reasons it names.      *)
(***************************************************************************)
EXTENDS ZeroHeightExport, FiniteSetTheorems, WellFoundedInduction, TLAPS

---------------------------------------------------------------------------
(* Sums over finite sets.  Induction is stated over sets, not predicates:  *)
(* a set that holds the first case and is closed under the step holds all. *)

\* A set with zero that is closed under adding one holds the naturals.
LEMMA NatSteps ==
    ASSUME NEW T, 0 \in T, \A n \in Nat : n \in T => n + 1 \in T
    PROVE  Nat \subseteq T
<1> SUFFICES ASSUME NEW B, B = Nat \ T, B # {} PROVE FALSE
  OBVIOUS
<1>1. PICK n \in B : \A m \in B : <<m, n>> \notin OpToRel(<, Nat)
  BY WFMin, NatLessThanWellFounded
<1>2. \A m \in B : ~(m < n)
  BY <1>1, Zenon DEF OpToRel
<1>3. n # 0 /\ n \in Nat
  OBVIOUS
<1>4. n - 1 \in T
  BY <1>2, <1>3
<1> QED
  BY <1>3, <1>4

\* The element the community modules' folds take first.
Some(s) == CHOOSE x \in s : TRUE

\* F sums f over every subset of S, element by element.
IsFold(F, f, S) ==
    F = [s \in SUBSET S |-> IF s = {} THEN 0 ELSE f[Some(s)] + F[s \ {Some(s)}]]

\* Sum is a CHOOSE: it is the fold, once there is one.
LEMMA SumIs == ASSUME NEW f, NEW S, \E F : IsFold(F, f, S)
  PROVE \E F : IsFold(F, f, S) /\ Sum(f, S) = F[S]
<1> DEFINE G == CHOOSE F : IsFold(F, f, S)
<1>1. IsFold(G, f, S)
  OBVIOUS
<1>2. Sum(f, S) = G[S]
  BY DEF Sum, MapThenSumSet, MapThenFoldSet, IsFold, Some
<1> QED BY <1>1, <1>2

\* There is one for every finite set, by induction on its cardinality.
LEMMA FoldExists == ASSUME NEW f, NEW S, IsFiniteSet(S) PROVE \E F : IsFold(F, f, S)
<1> DEFINE Small(n) == {s \in SUBSET S : Cardinality(s) <= n}
           Upto(F, n) == F = [s \in Small(n) |-> IF s = {} THEN 0
                                                 ELSE f[Some(s)] + F[s \ {Some(s)}]]
           T == {n \in Nat : \E F : Upto(F, n)}
<1>1. \A s \in SUBSET S : /\ IsFiniteSet(s) /\ Cardinality(s) \in Nat
                          /\ Cardinality(s) = 0 <=> s = {}
  BY FS_Subset, FS_CardinalityType, FS_EmptySet
<1>2. \A s \in SUBSET S : s # {} => /\ Some(s) \in s /\ s \ {Some(s)} \in SUBSET S
                                    /\ Cardinality(s \ {Some(s)}) = Cardinality(s) - 1
  BY <1>1, FS_RemoveElement DEF Some
<1>3. 0 \in T
  <2>1. \A s \in Small(0) : s = {}
    BY <1>1
  <2> DEFINE F == [s \in Small(0) |-> 0]
  <2>2. Upto(F, 0)
    BY <2>1
  <2> QED
    BY <2>2
<1>4. \A n \in Nat : n \in T => n + 1 \in T
  <2> SUFFICES ASSUME NEW n \in Nat, n \in T PROVE n + 1 \in T
    OBVIOUS
  <2>1. PICK F : Upto(F, n)
    OBVIOUS
  <2> DEFINE G == [s \in Small(n + 1) |-> IF s = {} THEN 0
                                          ELSE f[Some(s)] + F[s \ {Some(s)}]]
  <2>2. \A s \in Small(n) : F[s] = G[s]
    <3> SUFFICES ASSUME NEW s \in Small(n) PROVE F[s] = G[s]
      OBVIOUS
    <3>1. s \in Small(n + 1)
      BY <1>1
    <3>2. F[s] = IF s = {} THEN 0 ELSE f[Some(s)] + F[s \ {Some(s)}]
      BY <2>1
    <3> QED
      BY <3>1, <3>2
  <2>3. \A s \in Small(n + 1) : s # {} => s \ {Some(s)} \in Small(n)
    BY <1>1, <1>2
  <2>4. Upto(G, n + 1)
    BY <2>2, <2>3
  <2> HIDE DEF Upto, G
  <2> QED
    BY <2>4
<1>5. Cardinality(S) \in T
  BY <1>1, <1>3, <1>4, NatSteps
<1>6. Small(Cardinality(S)) = SUBSET S
  BY <1>1, FS_Subset
<1> QED
  BY <1>5, <1>6 DEF IsFold

\* Induction over the subsets of a finite set, one element at a time.
LEMMA SubsetSteps ==
    ASSUME NEW S, IsFiniteSet(S), NEW T, {} \in T,
           \A s \in SUBSET S : s # {} /\ s \ {Some(s)} \in T => s \in T
    PROVE  S \in T
<1> DEFINE U == {n \in Nat : \A s \in SUBSET S : Cardinality(s) = n => s \in T}
<1>1. \A s \in SUBSET S : /\ IsFiniteSet(s) /\ Cardinality(s) \in Nat
                          /\ Cardinality(s) = 0 <=> s = {}
  BY FS_Subset, FS_CardinalityType, FS_EmptySet
<1>2. 0 \in U
  BY <1>1
<1>3. \A n \in Nat : n \in U => n + 1 \in U
  <2> SUFFICES ASSUME NEW n \in Nat, n \in U, NEW s \in SUBSET S, Cardinality(s) = n + 1
               PROVE  s \in T
    OBVIOUS
  <2>1. s # {} /\ Some(s) \in s
    BY <1>1 DEF Some
  <2>2. s \ {Some(s)} \in SUBSET S /\ Cardinality(s \ {Some(s)}) = n
    BY <1>1, <2>1, FS_RemoveElement
  <2> QED
    BY <2>1, <2>2
<1> QED
  BY <1>1, <1>2, <1>3, NatSteps

\* Changing a function at one place changes its sum by as much.
LEMMA SumUpdate ==
    ASSUME NEW S, IsFiniteSet(S), NEW f, NEW g, NEW y,
           \A x \in S : f[x] \in Int /\ g[x] \in Int,
           \A x \in S \ {y} : g[x] = f[x]
    PROVE  /\ Sum(f, S) \in Int /\ Sum(g, S) \in Int
           /\ Sum(g, S) = Sum(f, S) + (IF y \in S THEN g[y] - f[y] ELSE 0)
<1>1. PICK F : IsFold(F, f, S) /\ Sum(f, S) = F[S]
  BY FoldExists, SumIs
<1>2. PICK G : IsFold(G, g, S) /\ Sum(g, S) = G[S]
  BY FoldExists, SumIs
<1> DEFINE T == {s \in SUBSET S : /\ F[s] \in Int /\ G[s] \in Int
                                  /\ G[s] = F[s] + (IF y \in s THEN g[y] - f[y] ELSE 0)}
<1>3. {} \in T
  BY <1>1, <1>2 DEF IsFold
<1>4. \A s \in SUBSET S : s # {} /\ s \ {Some(s)} \in T => s \in T
  <2> SUFFICES ASSUME NEW s \in SUBSET S, s # {}, s \ {Some(s)} \in T PROVE s \in T
    OBVIOUS
  <2> DEFINE x == Some(s)
  <2>1. x \in s
    BY DEF Some
  <2>2. F[s] = f[x] + F[s \ {x}] /\ G[s] = g[x] + G[s \ {x}]
    BY <1>1, <1>2 DEF IsFold
  <2> HIDE DEF x
  <2>3. s \ {x} \in T
    BY DEF x
  <2> QED
    BY <2>1, <2>2, <2>3
<1> HIDE DEF T
<1>5. S \in T
  BY <1>3, <1>4, SubsetSteps
<1> QED
  BY <1>1, <1>2, <1>5 DEF T

\* A sum of zeros.
LEMMA SumZero == ASSUME NEW S, IsFiniteSet(S), NEW f, \A x \in S : f[x] = 0
  PROVE Sum(f, S) = 0
<1>1. PICK F : IsFold(F, f, S) /\ Sum(f, S) = F[S]
  BY FoldExists, SumIs
<1> DEFINE T == {s \in SUBSET S : F[s] = 0}
<1>2. {} \in T
  BY <1>1 DEF IsFold
<1>3. \A s \in SUBSET S : s # {} /\ s \ {Some(s)} \in T => s \in T
  BY <1>1 DEF IsFold, Some
<1> HIDE DEF T
<1>4. S \in T
  BY <1>2, <1>3, SubsetSteps
<1> QED
  BY <1>1, <1>4 DEF T

\* A sum of integers.
LEMMA SumInt == ASSUME NEW S, IsFiniteSet(S), NEW f, \A x \in S : f[x] \in Int
  PROVE Sum(f, S) \in Int
BY SumUpdate
---------------------------------------------------------------------------
(* The inductive invariant, part by part. *)

\* Types, and what a loop has still to visit.
TypeInv ==
    /\ stage \in Stages
    /\ stage \in {"commissions", "validators", "bonds"} => todo \subseteq Validator
    /\ stage \in {"rewards", "delegations"} => todo \subseteq dels
    /\ dels \subseteq Delegation
    /\ outstanding \in [Validator -> Int] /\ commission \in [Validator -> Nat]
    /\ reward \in [dels -> Nat] /\ pool \in Int /\ paid \in Int
    /\ period \in [Validator -> Nat \ {0}] /\ refs \in [Validator -> [Period -> Int]]
    /\ info \in [dels -> [period : Nat, height : Nat]]
    /\ slashes \in [Validator -> SUBSET Nat]
    /\ unbonding \in [Validator -> Nat] /\ signing \in [Validator -> Nat]
    /\ power \in [Validator -> Nat]

Early == {"start", "commissions", "rewards", "clear"}
Late  == {"entries", "bonds", "updates", "signing", "done"}

\* Until its scraps are donated, a validator's outstanding rewards are what its
\* commission and its delegations are owed; what an account got was whole coins,
\* and the pool less than a coin of each reward and of each validator's scraps.
OwedInv ==
    /\ \A v \in Validator :
        /\ stage \in Early \/ (stage = "validators" /\ v \in todo) =>
              outstanding[v] = commission[v] + Sum(reward, DelsOf(v))
        /\ stage \in {"delegations"} \cup Late \/ (stage = "validators" /\ v \notin todo) =>
              outstanding[v] = 0 /\ commission[v] = 0
        /\ stage \in {"rewards", "clear", "validators"} \/ (stage = "commissions" /\ v \notin todo) =>
              commission[v] < Unit
    /\ \A d \in dels :
          stage \in {"clear", "validators"} \/ (stage = "rewards" /\ d \notin todo) => reward[d] = 0
PaidInv ==
    /\ \E k \in Int : paid = k * Unit
    /\ stage \in {"start", "commissions"} => pool = 0
    /\ stage = "rewards" => pool <= (Unit - 1) * Cardinality(dels \ todo)
    /\ stage = "clear" => pool <= (Unit - 1) * Cardinality(dels)
    /\ stage = "validators" =>
          pool <= (Unit - 1) * (Cardinality(Validator \ todo) + Cardinality(dels))
    /\ stage \in {"delegations"} \cup Late => pool <= (Unit - 1) * (N + Cardinality(dels))

\* The delegations that the books know of.
Started == CASE stage = "delegations" -> dels \ todo
             [] stage = "validators" -> {}
             [] OTHER -> dels

\* What the books refer to lies in the past of the current period, so that the
\* period a delegation starts at is one nothing refers to yet.
PastInv ==
    /\ stage \in {"start", "commissions", "rewards", "clear", "delegations"} =>
          \A d \in Started : info[d].period < period[d.val]
    /\ \A v \in Validator : \A p \in slashes[v] : p < period[v]
    /\ stage \in {"validators", "delegations"} => \A v \in Validator : slashes[v] = {}

\* Between the clearing of the books and AfterValidatorCreated they are empty.
RefsInv ==
    /\ ReferencesExact
    /\ stage = "validators" => \A v \in todo : refs[v] = [p \in Period |-> 0]

ZeroInv ==
    /\ \A d \in dels :
          stage \in Late \/ (stage = "delegations" /\ d \notin todo) => info[d].height = 0
    /\ stage \in {"bonds", "updates", "signing", "done"} => entries = 0
    /\ \A v \in Validator :
          stage \in {"updates", "signing", "done"} \/ (stage = "bonds" /\ v \notin todo) =>
              unbonding[v] = 0
    /\ stage = "done" => \A v \in Validator : signing[v] = 0

JailInv ==
    /\ indexed \subseteq Validator /\ jailed \subseteq Validator
    /\ stage \in Early \cup {"validators", "delegations", "entries"} =>
          indexed = Validator \ jailed
    /\ stage \in {"signing", "done"} => \A v \in jailed : ~Reached(v)
    /\ stage \in {"bonds", "updates", "signing", "done"} =>
        \A v \in Validator :
          /\ v \in indexed \cup jailed
          /\ v \in indexed \cap jailed => allowed # {} /\ v \notin allowed
          /\ allowed = {} \/ v \in allowed \cup jailed \/ (stage = "bonds" /\ v \in todo)

\* Each delegation adds at most one period while rewards are withdrawn, and one
\* when the books are rebuilt.
RangeInv ==
    \A v \in Validator :
        /\ stage \in {"start", "commissions", "fatal", "panic"} => period[v] <= DelCount(v) + 2
        /\ stage = "rewards" => period[v] <= DelCount(v) + 2 + Cardinality(DelsOf(v) \ todo)
        /\ stage = "clear" \/ (stage = "validators" /\ v \in todo) =>
              period[v] <= 2 * DelCount(v) + 2
        /\ stage = "validators" /\ v \notin todo => period[v] = 1
        /\ stage = "delegations" => period[v] <= 1 + Cardinality(DelsOf(v) \ todo)
        /\ stage \in Late => period[v] <= 1 + DelCount(v)

\* The model's Period has room for all of them: no count is ever dropped.
PeriodsFit == \A v \in Validator : period[v] - 1 \in Period

---------------------------------------------------------------------------
\* Validators and delegations are finitely many.
LEMMA Finite ==
    ASSUME dels \subseteq Delegation
    PROVE  /\ IsFiniteSet(dels) /\ Cardinality(dels) \in Nat
           /\ \A S \in SUBSET dels : IsFiniteSet(S) /\ Cardinality(S) \in Nat
           /\ \A v \in Validator : IsFiniteSet(DelsOf(v)) /\ DelCount(v) \in Nat
           /\ IsFiniteSet(Validator) /\ Cardinality(Validator) = N
<1>1. IsFiniteSet(Validator) /\ Cardinality(Validator) = N
  BY ExportAssumption, FS_Interval DEF Validator
<1>2. IsFiniteSet(Delegator)
  BY ExportAssumption
<1>3. IsFiniteSet(Delegation)
  <2> DEFINE Of(v) == {[val |-> v, del |-> e] : e \in Delegator}
  <2>1. \A v \in Validator : IsFiniteSet(Of(v))
    <3> SUFFICES ASSUME NEW v \in Validator PROVE IsFiniteSet(Of(v))
      OBVIOUS
    <3> DEFINE h == [e \in Delegator |-> [val |-> v, del |-> e]]
    <3>1. h \in Surjection(Delegator, Of(v))
      BY DEF Surjection
    <3> QED
      BY <1>2, <3>1, FS_Surjection
  <2> DEFINE All == {Of(v) : v \in Validator}
             h == [v \in Validator |-> Of(v)]
  <2>2. h \in Surjection(Validator, All)
    BY DEF Surjection
  <2>3. IsFiniteSet(All)
    BY <1>1, <2>2, FS_Surjection
  <2>4. IsFiniteSet(UNION All)
    BY <2>1, <2>3, FS_UNION
  <2>5. Delegation \subseteq UNION All
    BY DEF Delegation
  <2> QED
    BY <2>4, <2>5, FS_Subset
<1>4. \A S \in SUBSET Delegation : IsFiniteSet(S) /\ Cardinality(S) \in Nat
  BY <1>3, FS_Subset, FS_CardinalityType
<1> QED
  BY <1>1, <1>4 DEF DelsOf, DelCount

\* Whole coins are paid: less than a coin is left.
LEMMA CoinsFact ==
    ASSUME NEW x \in Nat
    PROVE  /\ Coins(x) \in Nat /\ x - Coins(x) \in Nat /\ x - Coins(x) <= Unit - 1
           /\ \E k \in Int : Coins(x) = k * Unit
<1>1. Unit \in Nat \ {0}
  BY ExportAssumption
<1>2. /\ x % Unit \in 0 .. Unit - 1 /\ x \div Unit \in Int
      /\ x = Unit * (x \div Unit) + (x % Unit)
  <2>1. x % Unit \in 0 .. Unit - 1
    BY <1>1
  <2>2. x \div Unit \in Int
    BY <1>1
  <2>3. x = Unit * (x \div Unit) + (x % Unit)
    BY <1>1
  <2> QED
    BY <2>1, <2>2, <2>3
<1>3. Coins(x) = (x \div Unit) * Unit
  BY <1>1, <1>2 DEF Coins
<1>4. Coins(x) \in Int /\ x - Coins(x) = x % Unit
  BY <1>1, <1>2 DEF Coins
<1>5. Coins(x) >= 0
  <2> DEFINE q == x \div Unit
  <2>1. q \in Int /\ x = Unit * q + (x % Unit) /\ Coins(x) = q * Unit
    BY <1>2, <1>3
  <2> HIDE DEF q
  <2>2. q >= 0
    <3> SUFFICES ASSUME q <= -1 PROVE FALSE
      BY <2>1
    <3>1. Unit * q <= -Unit
      BY <1>1, <2>1
    <3> QED
      BY <1>1, <1>2, <2>1, <3>1
  <2> QED
    BY <1>1, <2>1, <2>2
<1>6. x - Coins(x) \in Nat /\ x - Coins(x) <= Unit - 1
  BY <1>1, <1>2, <1>4
<1>7. \E k \in Int : Coins(x) = k * Unit
  BY <1>2, <1>3
<1> QED
  BY <1>4, <1>5, <1>6, <1>7

\* AfterValidatorCreated writes one count.
LEMMA SetAt ==
    ASSUME NEW r \in [Period -> Int]
    PROVE  /\ [r EXCEPT ![0] = 1] \in [Period -> Int]
           /\ \A p \in Period : [r EXCEPT ![0] = 1][p] = IF p = 0 THEN 1 ELSE r[p]
<1> HIDE DEF Period
<1>1. \A p \in Period : [r EXCEPT ![0] = 1][p] = IF p = 0 THEN 1 ELSE r[p]
  OBVIOUS
<1>2. [r EXCEPT ![0] = 1] = [p \in Period |-> [r EXCEPT ![0] = 1][p]]
  OBVIOUS
<1>3. \A p \in Period : [r EXCEPT ![0] = 1][p] \in Int
  BY <1>1
<1> QED
  BY <1>1, <1>2, <1>3

\* IncrementValidatorPeriod, period by period.
LEMMA IncrementedAt ==
    ASSUME NEW r \in [Period -> Int], NEW cur \in Nat \ {0}
    PROVE  /\ Incremented(r, cur) \in [Period -> Int]
           /\ \A p \in Period :
                 Incremented(r, cur)[p] = IF p = cur THEN 1 ELSE r[p] - One(p = cur - 1)
<1>1. Period \subseteq Int
  BY DEF Period
<1> HIDE DEF Period
<1>2. \A p \in Period :
         Incremented(r, cur)[p] = IF p = cur THEN 1 ELSE IF p = cur - 1 THEN r[p] - 1 ELSE r[p]
  BY <1>1 DEF Incremented
<1>3. \A p \in Period : Incremented(r, cur)[p] \in Int
  BY <1>2
<1>4. Incremented(r, cur) = [p \in Period |-> Incremented(r, cur)[p]]
  BY DEF Incremented
<1> QED
  BY <1>2, <1>3, <1>4 DEF One

\* initializeDelegation keeps the books well typed.
LEMMA InitializeType ==
    ASSUME TypeInv, NEW d \in dels, d.val \in Validator, NEW h \in Nat, NEW P,
           InitializeDelegation(d, h, P)
    PROVE  /\ period' \in [Validator -> Nat \ {0}] /\ refs' \in [Validator -> [Period -> Int]]
           /\ info' \in [dels -> [period : Nat, height : Nat]]
<1> DEFINE v == d.val
           r == [p \in Period |-> Incremented(refs[v], period[v])[p]
                                      + One(p = period[v]) - One(p \in P)]
<1>1. Incremented(refs[v], period[v]) \in [Period -> Int]
  BY IncrementedAt DEF TypeInv
<1>2. r \in [Period -> Int]
  BY <1>1 DEF One
<1>3. refs' = [refs EXCEPT ![v] = r]
  BY DEF InitializeDelegation
<1>4. refs' \in [Validator -> [Period -> Int]]
  BY <1>2, <1>3 DEF TypeInv
<1> QED
  BY <1>4 DEF InitializeDelegation, TypeInv

\* The chain that is exported is well typed.
LEMMA TypeInit == Init => TypeInv
<1> SUFFICES ASSUME Init PROVE TypeInv
  OBVIOUS
<1>1. dels \subseteq Delegation
  BY DEF Init
<1>2. /\ IsFiniteSet(dels)
      /\ \A S \in SUBSET dels : IsFiniteSet(S) /\ Cardinality(S) \in Nat
      /\ \A v \in Validator : IsFiniteSet(DelsOf(v)) /\ DelCount(v) \in Nat
  BY <1>1, Finite
<1>3. commission \in [Validator -> Nat] /\ reward \in [dels -> Nat]
  BY ExportAssumption DEF Init
<1>4. \A v \in Validator : Sum(reward, DelsOf(v)) \in Int
  <2> SUFFICES ASSUME NEW v \in Validator PROVE Sum(reward, DelsOf(v)) \in Int
    OBVIOUS
  <2>1. \A d \in DelsOf(v) : reward[d] \in Int
    BY <1>3 DEF DelsOf
  <2> QED
    BY <1>2, <2>1, SumInt
<1>5. outstanding \in [Validator -> Int]
  BY <1>3, <1>4 DEF Init
<1>6. period \in [Validator -> Nat \ {0}] /\ slashes \in [Validator -> SUBSET Nat]
  BY <1>2 DEF Init, One
<1>7. info \in [dels -> [period : Nat, height : Nat]]
  <2>1. \A d \in dels : {e \in DelsOf(d.val) : e.del <= d.del} \in SUBSET dels
    BY DEF DelsOf
  <2>2. \A d \in dels : Cardinality({e \in DelsOf(d.val) : e.del <= d.del}) \in Nat
    BY <1>2, <2>1
  <2>3. \A d \in dels : d.del \in Nat
    BY <1>1, ExportAssumption DEF Delegation
  <2> QED
    BY <2>2, <2>3 DEF Init
<1>8. refs \in [Validator -> [Period -> Int]]
  <2>1. \A v, p : {d \in dels : d.val = v /\ info[d].period = p} \in SUBSET dels
    OBVIOUS
  <2>2. \A v, p : References(v, p, dels) \in Int
    BY <1>2, <2>1 DEF References, One
  <2> QED
    BY <2>2 DEF Init
<1>9. power \in [Validator -> Nat]
  BY ExportAssumption DEF Init
<1>10. unbonding \in [Validator -> Nat] /\ signing \in [Validator -> Nat]
  BY DEF Init
<1>11. stage = "start" /\ pool \in Int /\ paid \in Int
  BY DEF Init
<1> QED
  BY <1>1, <1>3, <1>5, <1>6, <1>7, <1>8, <1>9, <1>10, <1>11 DEF TypeInv, Stages

\* So is what every step of the export leaves.
LEMMA TypeStep == TypeInv /\ [Next]_vars => TypeInv'
<1> SUFFICES ASSUME TypeInv, [Next]_vars PROVE TypeInv'
  OBVIOUS
<1> USE DEF TypeInv, Stages
<1>1. CASE ReadAllowed
  BY <1>1 DEF ReadAllowed, money, book, stake
<1>2. CASE \E v \in Validator : WithdrawCommission(v)
  <2> SUFFICES ASSUME NEW v \in Validator, WithdrawCommission(v) PROVE TypeInv'
    BY <1>2
  <2>1. CASE commission[v] # 0
    <3>1. /\ Coins(commission[v]) \in Int
          /\ commission[v] - Coins(commission[v]) \in Nat
      BY CoinsFact
    <3>2. /\ paid' = paid + Coins(commission[v]) /\ pool' = pool /\ reward' = reward
          /\ outstanding' = [outstanding EXCEPT ![v] = @ - Coins(commission[v])]
          /\ commission' = [commission EXCEPT ![v] = @ - Coins(@)]
          /\ Visit(v, "commissions", "rewards", dels) /\ UNCHANGED <<dels, book, stake>>
      BY <2>1 DEF WithdrawCommission
    <3>3. outstanding' \in [Validator -> Int] /\ paid' \in Int /\ commission' \in [Validator -> Nat]
      BY <3>1, <3>2
    <3> QED
      BY <3>2, <3>3 DEF Visit, book, stake
  <2>2. CASE commission[v] = 0
    BY <2>2 DEF WithdrawCommission, Panic, money, book, stake
  <2> QED
    BY <2>1, <2>2
<1>3. CASE \E d \in dels : WithdrawRewards(d)
  <2> SUFFICES ASSUME NEW d \in dels, WithdrawRewards(d) PROVE TypeInv'
    BY <1>3
  <2>1. Coins(reward[d]) \in Int /\ d.val \in Validator
    BY CoinsFact DEF Delegation
  <2>2. reward' \in [dels -> Nat] /\ paid' \in Int /\ pool' \in Int
          /\ outstanding' \in [Validator -> Int]
    BY <2>1 DEF WithdrawRewards
  <2>3. InitializeDelegation(d, Height, {info[d].period})
    BY DEF WithdrawRewards
  <2>4. /\ period' \in [Validator -> Nat \ {0}] /\ refs' \in [Validator -> [Period -> Int]]
        /\ info' \in [dels -> [period : Nat, height : Nat]]
    BY <2>1, <2>3, InitializeType DEF Height
  <2> QED
    BY <2>2, <2>4 DEF WithdrawRewards, Visit, stake
<1>4. CASE Clear
  BY <1>4 DEF Clear, Step, money, stake
<1>5. CASE \E v \in Validator : ReinitValidator(v)
  <2> SUFFICES ASSUME NEW v \in Validator, ReinitValidator(v) PROVE TypeInv'
    BY <1>5
  <2>1. refs' \in [Validator -> [Period -> Int]]
    <3>1. [refs[v] EXCEPT ![0] = 1] \in [Period -> Int]
      <4>1. refs[v] \in [Period -> Int]
        OBVIOUS
      <4> QED
        BY <4>1, SetAt
    <3>2. refs' = [refs EXCEPT ![v] = [refs[v] EXCEPT ![0] = 1]]
      BY DEF ReinitValidator
    <3> QED
      BY <3>1, <3>2
  <2> QED
    BY <2>1 DEF ReinitValidator, Visit, stake
<1>6. CASE \E d \in dels : ReinitDelegation(d)
  <2> SUFFICES ASSUME NEW d \in dels, ReinitDelegation(d) PROVE TypeInv'
    BY <1>6
  <2>1. d.val \in Validator /\ InitializeDelegation(d, 0, {})
    BY DEF Delegation, ReinitDelegation
  <2>2. /\ period' \in [Validator -> Nat \ {0}] /\ refs' \in [Validator -> [Period -> Int]]
        /\ info' \in [dels -> [period : Nat, height : Nat]]
    BY <2>1, InitializeType
  <2> QED
    BY <2>2 DEF ReinitDelegation, Visit, stake, money
<1>7. CASE ResetEntries
  BY <1>7 DEF ResetEntries, Step, money, book
<1>8. CASE \E v \in Validator : ResetBond(v)
  <2> SUFFICES ASSUME NEW v \in Validator, ResetBond(v) PROVE TypeInv'
    BY <1>8
  <2>1. CASE LengthPrefixed
    BY <2>1 DEF ResetBond, Panic, money, book, stake
  <2>2. CASE ~LengthPrefixed
    <3>1. unbonding' \in [Validator -> Nat]
      BY <2>2 DEF ResetBond
    <3> QED
      BY <2>2, <3>1 DEF ResetBond, Visit, money, book
  <2> QED
    BY <2>1, <2>2
<1>9. CASE ApplyUpdates
  BY <1>9 DEF ApplyUpdates, Panic, money, book, stake
<1>10. CASE ResetSigning
  BY <1>10 DEF ResetSigning, Step, money, book
<1>11. CASE UNCHANGED vars
  BY <1>11 DEF vars, money, book, stake
<1> QED
  BY <1>1, <1>2, <1>3, <1>4, <1>5, <1>6, <1>7, <1>8, <1>9, <1>10, <1>11 DEF Next, Terminated

---------------------------------------------------------------------------
(* Money. *)

\* At first distribution owes what commission and rewards come to.
LEMMA OwedInit == Init => OwedInv
BY DEF Init, OwedInv, Early, Late

\* And so it does until a validator's scraps are donated.
LEMMA OwedStep == TypeInv /\ OwedInv /\ [Next]_vars => OwedInv'
<1> SUFFICES ASSUME TypeInv, OwedInv, [Next]_vars PROVE OwedInv'
  OBVIOUS
<1> DEFINE Owed(v) == Sum(reward, DelsOf(v))
<1>0. ASSUME dels' = dels, reward' = reward
      PROVE  \A v \in Validator : Owed(v)' = Owed(v)
  BY <1>0 DEF DelsOf
<1>a. \A v \in Validator : Owed(v) \in Int
  <2> SUFFICES ASSUME NEW v \in Validator PROVE Owed(v) \in Int
    OBVIOUS
  <2>1. IsFiniteSet(DelsOf(v)) /\ \A d \in DelsOf(v) : reward[d] \in Int
    BY Finite DEF TypeInv, DelsOf
  <2> QED
    BY <2>1, SumInt
<1> HIDE DEF Owed
<1> USE DEF OwedInv, Early, Late
<1>1. CASE ReadAllowed
  BY <1>0, <1>1 DEF ReadAllowed, money, Owed
<1>2. CASE \E v \in Validator : WithdrawCommission(v)
  <2> SUFFICES ASSUME NEW v \in Validator, WithdrawCommission(v) PROVE OwedInv'
    BY <1>2
  <2>1. CASE commission[v] # 0
    <3>1. /\ Coins(commission[v]) \in Int
          /\ commission[v] - Coins(commission[v]) <= Unit - 1
      BY CoinsFact DEF TypeInv
    <3>2. /\ reward' = reward /\ dels' = dels
          /\ outstanding' = [outstanding EXCEPT ![v] = @ - Coins(commission[v])]
          /\ commission' = [commission EXCEPT ![v] = @ - Coins(@)]
          /\ Visit(v, "commissions", "rewards", dels)
      BY <2>1 DEF WithdrawCommission
    <3>3. \A u \in Validator : outstanding'[u] = commission'[u] + Owed(u)'
      BY <1>0, <1>a, <3>1, <3>2 DEF Visit, TypeInv, Owed
    <3>4. \A u \in Validator : u = v \/ u \notin todo => commission'[u] < Unit
      BY <3>1, <3>2, ExportAssumption DEF Visit, TypeInv
    <3> QED
      BY <3>2, <3>3, <3>4 DEF Visit, Owed
  <2>2. CASE commission[v] = 0
    BY <1>0, <2>2 DEF WithdrawCommission, Panic, money, Owed
  <2> QED
    BY <2>1, <2>2
<1>3. CASE \E d \in dels : WithdrawRewards(d)
  <2> SUFFICES ASSUME NEW d \in dels, WithdrawRewards(d) PROVE OwedInv'
    BY <1>3
  <2>1. /\ Visit(d, "rewards", "clear", {}) /\ UNCHANGED <<dels, commission>>
        /\ outstanding' = [outstanding EXCEPT ![d.val] = @ - reward[d]]
        /\ reward' = [reward EXCEPT ![d] = 0]
    BY DEF WithdrawRewards
  <2>2. \A v \in Validator : Owed(v)' = Owed(v) - (IF v = d.val THEN reward[d] ELSE 0)
    <3> SUFFICES ASSUME NEW v \in Validator
                 PROVE  Owed(v)' = Owed(v) - (IF v = d.val THEN reward[d] ELSE 0)
      OBVIOUS
    <3>1. IsFiniteSet(DelsOf(v)) /\ DelsOf(v) \subseteq dels /\ (d \in DelsOf(v) <=> v = d.val)
      BY Finite DEF TypeInv, DelsOf
    <3>2. \A e \in DelsOf(v) : reward[e] \in Int /\ reward'[e] \in Int
      BY <2>1, <3>1 DEF TypeInv
    <3>3. \A e \in DelsOf(v) \ {d} : reward'[e] = reward[e]
      BY <2>1, <3>1 DEF TypeInv
    <3>4. /\ Sum(reward, DelsOf(v)) \in Int
          /\ Sum(reward', DelsOf(v)) = Sum(reward, DelsOf(v))
                 + (IF d \in DelsOf(v) THEN reward'[d] - reward[d] ELSE 0)
      <4> DEFINE S == DelsOf(v) r == reward q == reward'
      <4>1. IsFiniteSet(S) /\ (\A e \in S : r[e] \in Int /\ q[e] \in Int)
              /\ (\A e \in S \ {d} : q[e] = r[e])
        BY <3>1, <3>2, <3>3
      <4> HIDE DEF S, r, q
      <4>2. /\ Sum(r, S) \in Int
            /\ Sum(q, S) = Sum(r, S) + (IF d \in S THEN q[d] - r[d] ELSE 0)
        BY <4>1, SumUpdate
      <4> QED
        BY <4>2 DEF S, r, q
    <3>5. Owed(v)' = Sum(reward', DelsOf(v))
      BY <2>1 DEF Owed, DelsOf
    <3>6. reward'[d] = 0 /\ reward[d] \in Int
      BY <2>1 DEF TypeInv
    <3> QED
      BY <3>1, <3>4, <3>5, <3>6 DEF Owed
  <2>3. \A v \in Validator : outstanding'[v] = commission'[v] + Owed(v)'
    <3> SUFFICES ASSUME NEW v \in Validator
                 PROVE  outstanding'[v] = commission'[v] + Owed(v)'
      OBVIOUS
    <3>1. outstanding[v] = commission[v] + Owed(v) /\ outstanding[v] \in Int
      BY <2>1 DEF Visit, Owed, TypeInv
    <3>2. outstanding'[v] = outstanding[v] - (IF v = d.val THEN reward[d] ELSE 0)
      BY <2>1 DEF TypeInv
    <3>3. reward[d] \in Int /\ commission[v] \in Int /\ commission'[v] = commission[v]
      BY <2>1 DEF TypeInv
    <3> QED
      BY <1>a, <2>2, <3>1, <3>2, <3>3
  <2>4. \A e \in dels : e = d \/ e \notin todo => reward'[e] = 0
    BY <2>1 DEF Visit, TypeInv
  <2> QED
    BY <2>1, <2>3, <2>4 DEF Visit, Owed
<1>4. CASE Clear
  BY <1>0, <1>4 DEF Clear, Step, money, Owed
<1>5. CASE \E v \in Validator : ReinitValidator(v)
  <2> SUFFICES ASSUME NEW v \in Validator, ReinitValidator(v) PROVE OwedInv'
    BY <1>5
  <2>1. /\ Visit(v, "validators", "delegations", dels) /\ UNCHANGED <<dels, reward>>
        /\ outstanding' = [outstanding EXCEPT ![v] = 0]
        /\ commission' = [commission EXCEPT ![v] = 0]
    BY DEF ReinitValidator
  <2>2. \A u \in Validator :
           IF u = v THEN outstanding'[u] = 0 /\ commission'[u] = 0
                    ELSE outstanding'[u] = outstanding[u] /\ commission'[u] = commission[u]
    BY <2>1 DEF TypeInv
  <2> QED
    BY <1>0, <2>1, <2>2, ExportAssumption DEF Visit, Owed
<1>6. CASE \E d \in dels : ReinitDelegation(d)
  BY <1>6 DEF ReinitDelegation, Visit, money
<1>7. CASE ResetEntries
  BY <1>7 DEF ResetEntries, Step, money
<1>8. CASE \E v \in Validator : ResetBond(v)
  BY <1>8 DEF ResetBond, Visit, Panic, money
<1>9. CASE ApplyUpdates
  BY <1>9 DEF ApplyUpdates, Panic, money
<1>10. CASE ResetSigning
  BY <1>10 DEF ResetSigning, Step, money
<1>11. CASE UNCHANGED vars
  BY <1>0, <1>11 DEF vars, money, Owed
<1> QED
  BY <1>1, <1>2, <1>3, <1>4, <1>5, <1>6, <1>7, <1>8, <1>9, <1>10, <1>11 DEF Next, Terminated

\* Less than a coin more is one visit more.
LEMMA Less ==
    ASSUME NEW a \in Int, NEW b \in Int, NEW c \in Int, NEW x \in Int,
           a <= (Unit - 1) * c, x <= Unit - 1, b = a + x
    PROVE  b <= (Unit - 1) * (c + 1)
<1>1. Unit \in Int
  BY ExportAssumption
<1>2. (Unit - 1) * (c + 1) = (Unit - 1) * c + (Unit - 1)
  BY <1>1
<1> DEFINE u == Unit - 1
<1>3. u \in Int /\ u * c \in Int
  BY <1>1
<1> HIDE DEF u
<1>4. b <= u * c + u
  BY <1>3 DEF u
<1> QED
  BY <1>2, <1>4 DEF u

\* Nothing is paid at first.
LEMMA PaidInit == Init => PaidInv
<1> SUFFICES ASSUME Init PROVE PaidInv
  OBVIOUS
<1>1. 0 \in Int /\ paid = 0 * Unit
  BY ExportAssumption DEF Init
<1> QED
  BY <1>1 DEF Init, PaidInv, Late

\* Each payment is of whole coins, each donation of less than one.
LEMMA PaidStep == TypeInv /\ OwedInv /\ PaidInv /\ [Next]_vars => PaidInv'
<1> SUFFICES ASSUME TypeInv, OwedInv, PaidInv, [Next]_vars PROVE PaidInv'
  OBVIOUS
<1>0. Unit \in Nat \ {0} /\ N \in Nat \ {0} /\ Unit - 1 \in Nat
  BY ExportAssumption
<1>a. IsFiniteSet(dels) /\ Cardinality(dels) \in Nat
        /\ IsFiniteSet(Validator) /\ Cardinality(Validator) = N
        /\ (\A S \in SUBSET dels : IsFiniteSet(S) /\ Cardinality(S) \in Nat)
        /\ (\A v \in Validator : IsFiniteSet(DelsOf(v)))
  BY Finite DEF TypeInv
<1>b. \A S \in SUBSET Validator : IsFiniteSet(S) /\ Cardinality(S) \in Nat
  BY <1>a, FS_Subset, FS_CardinalityType
<1>c. ASSUME NEW x \in Nat, paid' = paid + Coins(x)
      PROVE  \E k \in Int : paid' = k * Unit
  <2>1. PICK j \in Int : paid = j * Unit
    BY DEF PaidInv
  <2>2. PICK k \in Int : Coins(x) = k * Unit
    BY CoinsFact
  <2>3. paid' = (j + k) * Unit
    BY <1>0, <1>c, <2>1, <2>2
  <2> QED
    BY <2>3
<1>1. CASE ReadAllowed
  BY <1>1 DEF ReadAllowed, money, PaidInv, Late
<1>2. CASE \E v \in Validator : WithdrawCommission(v)
  <2> SUFFICES ASSUME NEW v \in Validator, WithdrawCommission(v) PROVE PaidInv'
    BY <1>2
  <2>1. CASE commission[v] # 0
    <3>1. /\ Visit(v, "commissions", "rewards", dels) /\ paid' = paid + Coins(commission[v])
          /\ UNCHANGED <<pool, dels>>
      BY <2>1 DEF WithdrawCommission
    <3>2. \E k \in Int : paid' = k * Unit
      BY <1>c, <3>1 DEF TypeInv
    <3>3. pool = 0
      BY <3>1 DEF Visit, PaidInv
    <3>4. Cardinality(dels \ dels) = 0 /\ (Unit - 1) * 0 = 0
      BY <1>0, FS_EmptySet
    <3>5. stage' = "rewards" => pool' <= (Unit - 1) * Cardinality(dels' \ todo')
      <4>1. stage' = "rewards" => dels' \ todo' = dels \ dels
        BY <3>1 DEF Visit
      <4> QED
        BY <3>1, <3>3, <3>4, <4>1
    <3> QED
      BY <3>1, <3>2, <3>3, <3>5 DEF Visit, PaidInv, Late
  <2>2. CASE commission[v] = 0
    BY <2>2 DEF WithdrawCommission, Panic, money, PaidInv, Late
  <2> QED
    BY <2>1, <2>2
<1>3. CASE \E d \in dels : WithdrawRewards(d)
  <2> SUFFICES ASSUME NEW d \in dels, WithdrawRewards(d) PROVE PaidInv'
    BY <1>3
  <2>1. /\ Visit(d, "rewards", "clear", {}) /\ UNCHANGED dels
        /\ paid' = paid + Coins(reward[d])
        /\ pool' = pool + reward[d] - Coins(reward[d])
    BY DEF WithdrawRewards
  <2>2. \E k \in Int : paid' = k * Unit
    BY <1>c DEF TypeInv, WithdrawRewards
  <2>3. /\ reward[d] - Coins(reward[d]) \in Int /\ reward[d] - Coins(reward[d]) <= Unit - 1
        /\ pool \in Int /\ pool' \in Int /\ pool' = pool + (reward[d] - Coins(reward[d]))
    BY <2>1, CoinsFact DEF TypeInv
  <2>4. /\ d \in todo /\ Cardinality(dels \ todo) \in Nat
        /\ pool <= (Unit - 1) * Cardinality(dels \ todo)
    BY <1>a, <2>1 DEF Visit, PaidInv
  <2>5. (dels \ todo) \cup {d} = dels \ (todo \ {d})
    OBVIOUS
  <2>6. Cardinality(dels \ (todo \ {d})) = Cardinality(dels \ todo) + 1
    BY <1>a, <2>4, <2>5, FS_AddElement
  <2>7. pool' <= (Unit - 1) * Cardinality(dels \ (todo \ {d}))
    BY <2>3, <2>4, <2>6, Less
  <2>8. todo = {d} => dels \ (todo \ {d}) = dels
    OBVIOUS
  <2> QED
    BY <2>1, <2>2, <2>7, <2>8 DEF Visit, PaidInv, Late
<1>4. CASE Clear
  <2>1. Cardinality(Validator \ Validator) + Cardinality(dels) = Cardinality(dels)
    BY <1>a, FS_EmptySet
  <2> QED
    BY <1>4, <2>1 DEF Clear, Step, money, PaidInv, Late
<1>5. CASE \E v \in Validator : ReinitValidator(v)
  <2> SUFFICES ASSUME NEW v \in Validator, ReinitValidator(v) PROVE PaidInv'
    BY <1>5
  <2>1. /\ Visit(v, "validators", "delegations", dels) /\ UNCHANGED <<dels, paid>>
        /\ pool' = pool + outstanding[v]
    BY DEF ReinitValidator
  <2>2. Sum(reward, DelsOf(v)) = 0
    <3>1. \A d \in DelsOf(v) : reward[d] = 0
      BY <2>1 DEF Visit, OwedInv, DelsOf
    <3> QED
      BY <1>a, <3>1, SumZero
  <2>3. /\ outstanding[v] \in Int /\ outstanding[v] <= Unit - 1
        /\ pool \in Int /\ pool' \in Int
    <3>1. outstanding[v] = commission[v] + 0 /\ commission[v] < Unit
      BY <2>1, <2>2 DEF Visit, OwedInv
    <3> QED
      BY <1>0, <2>1, <3>1 DEF TypeInv
  <2> DEFINE c == Cardinality(Validator \ todo)
  <2>4. /\ v \in todo /\ c \in Nat /\ pool <= (Unit - 1) * (c + Cardinality(dels))
    BY <1>b, <2>1 DEF Visit, PaidInv
  <2>5. (Validator \ todo) \cup {v} = Validator \ (todo \ {v})
    OBVIOUS
  <2>6. Cardinality(Validator \ (todo \ {v})) = c + 1
    BY <1>b, <2>4, <2>5, FS_AddElement
  <2>7. pool' <= (Unit - 1) * (Cardinality(Validator \ (todo \ {v})) + Cardinality(dels))
    <3> HIDE DEF c
    <3>1. pool' <= (Unit - 1) * ((c + Cardinality(dels)) + 1)
      BY <1>a, <2>1, <2>3, <2>4, Less
    <3>2. (c + Cardinality(dels)) + 1 = (c + 1) + Cardinality(dels)
      BY <1>a, <2>4
    <3> QED
      BY <2>6, <3>1, <3>2
  <2>8. todo = {v} => Validator \ (todo \ {v}) = Validator
    OBVIOUS
  <2> QED
    BY <1>a, <2>1, <2>7, <2>8 DEF Visit, PaidInv, Late
<1>6. CASE \E d \in dels : ReinitDelegation(d)
  BY <1>6 DEF ReinitDelegation, Visit, money, PaidInv, Late
<1>7. CASE ResetEntries
  BY <1>7 DEF ResetEntries, Step, money, PaidInv, Late
<1>8. CASE \E v \in Validator : ResetBond(v)
  BY <1>8 DEF ResetBond, Visit, Panic, money, PaidInv, Late
<1>9. CASE ApplyUpdates
  BY <1>9 DEF ApplyUpdates, Panic, money, PaidInv, Late
<1>10. CASE ResetSigning
  BY <1>10 DEF ResetSigning, Step, money, PaidInv, Late
<1>11. CASE UNCHANGED vars
  BY <1>11 DEF vars, money, PaidInv, Late
<1> QED
  BY <1>1, <1>2, <1>3, <1>4, <1>5, <1>6, <1>7, <1>8, <1>9, <1>10, <1>11 DEF Next, Terminated

\* The sum over the validators moves with the one entry a step changes.
LEMMA OutstandingUpdate ==
    ASSUME TypeInv, TypeInv', NEW v \in Validator,
           \A u \in Validator \ {v} : outstanding'[u] = outstanding[u]
    PROVE  /\ Sum(outstanding, Validator) \in Int /\ Sum(outstanding', Validator) \in Int
           /\ Sum(outstanding', Validator)
                 = Sum(outstanding, Validator) + (outstanding'[v] - outstanding[v])
<1> DEFINE f == outstanding g == outstanding'
<1>1. /\ IsFiniteSet(Validator)
      /\ \A u \in Validator : f[u] \in Int /\ g[u] \in Int
      /\ \A u \in Validator \ {v} : g[u] = f[u]
  BY Finite DEF TypeInv
<1> HIDE DEF f, g
<1>2. /\ Sum(f, Validator) \in Int /\ Sum(g, Validator) \in Int
      /\ Sum(g, Validator) = Sum(f, Validator) + (IF v \in Validator THEN g[v] - f[v] ELSE 0)
  BY <1>1, SumUpdate
<1> QED
  BY <1>1, <1>2 DEF f, g

---------------------------------------------------------------------------
(* The books of the distribution module. *)

\* The delegations of S that start at period p of v, when i says where they start.
Starts(v, p, S, i) == {d \in S : d.val = v /\ i[d].period = p}

\* initializeDelegation, entry by entry.
LEMMA InitializeFacts ==
    ASSUME TypeInv, NEW d \in dels, NEW h \in Nat, NEW P, InitializeDelegation(d, h, P)
    PROVE  /\ d.val \in Validator
           /\ \A e \in dels : info'[e].period = IF e = d THEN period[d.val] ELSE info[e].period
           /\ \A e \in dels : info'[e].height = IF e = d THEN h ELSE info[e].height
           /\ \A u \in Validator : period'[u] = IF u = d.val THEN period[u] + 1 ELSE period[u]
           /\ \A u \in Validator : u # d.val => refs'[u] = refs[u]
           /\ \A p \in Period :
                 refs'[d.val][p] = (IF p = period[d.val] THEN 2
                                    ELSE refs[d.val][p] - One(p = period[d.val] - 1))
                                   - One(p \in P)
<1> DEFINE v == d.val
           r == [p \in Period |-> Incremented(refs[v], period[v])[p]
                                      + One(p = period[v]) - One(p \in P)]
<1>1. v \in Validator
  BY DEF TypeInv, Delegation
<1>2. refs' = [refs EXCEPT ![v] = r]
  BY DEF InitializeDelegation
<1>3. refs'[v] = r /\ \A u \in Validator : u # v => refs'[u] = refs[u]
  BY <1>1, <1>2 DEF TypeInv
<1>4. \A p \in Period : Incremented(refs[v], period[v])[p] =
           IF p = period[v] THEN 1 ELSE refs[v][p] - One(p = period[v] - 1)
  <2>1. refs[v] \in [Period -> Int] /\ period[v] \in Nat \ {0}
    BY <1>1 DEF TypeInv
  <2> QED
    BY <2>1, IncrementedAt
<1>5. \A p \in Period : refs[v][p] \in Int
  BY <1>1 DEF TypeInv
<1>6. \A p \in Period :
         refs'[v][p] = (IF p = period[v] THEN 2 ELSE refs[v][p] - One(p = period[v] - 1))
                          - One(p \in P)
  BY <1>3, <1>4, <1>5 DEF One
<1>7. \A e \in dels : info'[e] = IF e = d THEN [period |-> period[v], height |-> h] ELSE info[e]
  BY DEF InitializeDelegation, TypeInv
<1>8. \A u \in Validator : period'[u] = IF u = v THEN period[u] + 1 ELSE period[u]
  BY DEF InitializeDelegation, TypeInv
<1> QED
  BY <1>1, <1>3, <1>6, <1>7, <1>8

\* A delegation that starts anew moves one reference and leaves the counts exact.
LEMMA InitializeCounts ==
    ASSUME TypeInv, NEW d \in dels, NEW h \in Nat, NEW S \in SUBSET dels, NEW P,
           InitializeDelegation(d, h, P),
           P = IF d \in S THEN {info[d].period} ELSE {},
           \A e \in S : info[e].period < period[e.val],
           \A u \in Validator : \A p \in slashes[u] : p < period[u],
           \A u \in Validator : \A p \in Period : refs[u][p] = References(u, p, S)
    PROVE  \A u \in Validator : \A p \in Period :
              refs'[u][p] = Cardinality(Starts(u, p, S \cup {d}, info'))
                               + One(p = period'[u] - 1) + One(p \in slashes[u])
<1> SUFFICES ASSUME NEW u \in Validator, NEW p \in Period
             PROVE  refs'[u][p] = Cardinality(Starts(u, p, S \cup {d}, info'))
                                     + One(p = period'[u] - 1) + One(p \in slashes[u])
  OBVIOUS
<1> DEFINE v == d.val A == Starts(u, p, S, info) B == Starts(u, p, S \cup {d}, info')
<1>1. /\ v \in Validator
      /\ \A e \in dels : info'[e].period = IF e = d THEN period[v] ELSE info[e].period
      /\ period'[u] = IF u = v THEN period[u] + 1 ELSE period[u]
      /\ u # v => refs'[u] = refs[u]
      /\ refs'[v][p] = (IF p = period[v] THEN 2 ELSE refs[v][p] - One(p = period[v] - 1))
                          - One(p \in P)
  BY InitializeFacts
<1>2. /\ A \in SUBSET dels /\ IsFiniteSet(A) /\ Cardinality(A) \in Nat
      /\ period[u] \in Nat /\ p \in Int
  BY Finite DEF Starts, TypeInv, Period
<1>3. refs[u][p] = Cardinality(A) + One(p = period[u] - 1) + One(p \in slashes[u])
  BY DEF References, Starts
<1>4. CASE u # v
  <2>1. A = B
    BY <1>1, <1>4 DEF Starts
  <2> QED
    BY <1>1, <1>3, <1>4, <2>1
<1>5. CASE u = v /\ p = period[v]
  <2>1. B = {d}
    <3>1. \A e \in S : e.val = u => info[e].period \in Nat /\ info[e].period < p
      BY <1>5 DEF TypeInv
    <3>2. \A e \in S : e # d /\ e.val = u => info'[e].period # p
      BY <1>1, <1>2, <3>1
    <3>3. info'[d].period = p
      BY <1>1, <1>5
    <3> QED
      BY <1>5, <3>2, <3>3 DEF Starts
  <2>2. Cardinality(B) = 1
    BY <2>1, FS_Singleton
  <2>3. p \notin P /\ p \notin slashes[u]
    BY <1>2, <1>5
  <2>4. refs'[u][p] = 2
    BY <1>1, <1>5, <2>3 DEF One
  <2>5. One(p = period'[u] - 1) = 1 /\ One(p \in slashes[u]) = 0
    BY <1>1, <1>2, <1>5, <2>3 DEF One
  <2> HIDE DEF B
  <2> QED
    BY <2>2, <2>4, <2>5 DEF B
<1>6. CASE u = v /\ p # period[v]
  <2>1. refs'[u][p] = Cardinality(A) + One(p \in slashes[u]) - One(p \in P)
    BY <1>1, <1>2, <1>3, <1>6 DEF One
  <2>2. One(p = period'[u] - 1) = 0
    BY <1>1, <1>2, <1>6 DEF One
  <2>3. Cardinality(B) = Cardinality(A) - One(p \in P)
    <3>1. CASE d \in A
      <4>1. p \in P
        BY <3>1 DEF Starts
      <4>2. B = A \ {d}
        BY <1>1, <1>6, <3>1 DEF Starts
      <4> HIDE DEF A, B
      <4>3. Cardinality(B) = Cardinality(A) - 1
        BY <1>2, <3>1, <4>2, FS_RemoveElement
      <4> QED
        BY <4>1, <4>3 DEF One
    <3>2. CASE d \notin A
      <4>1. p \notin P
        BY <1>6, <3>2 DEF Starts
      <4>2. B = A
        BY <1>1, <1>6, <3>2 DEF Starts
      <4> HIDE DEF A, B
      <4> QED
        BY <1>2, <4>1, <4>2 DEF One
    <3> QED
      BY <3>1, <3>2
  <2> HIDE DEF A, B
  <2>4. refs'[u][p] = Cardinality(B) + One(p = period'[u] - 1) + One(p \in slashes[u])
    BY <1>2, <2>1, <2>2, <2>3 DEF One
  <2> QED
    BY <2>4 DEF B
<1> QED
  BY <1>4, <1>5, <1>6

\* At first every delegation and slash lies before the current period.
LEMMA PastInit == Init => PastInv
<1> SUFFICES ASSUME Init PROVE PastInv
  OBVIOUS
<1>1. dels \subseteq Delegation /\ Started = dels /\ stage = "start"
  BY DEF Init, Started
<1>2. \A v \in Validator : IsFiniteSet(DelsOf(v)) /\ DelCount(v) \in Nat
  BY <1>1, Finite
<1>3. \A v \in Validator : /\ period[v] = DelCount(v) + 1 + (IF slashes[v] # {} THEN 1 ELSE 0)
                           /\ slashes[v] = {} \/ slashes[v] = {DelCount(v) + 1}
  BY DEF Init, One
<1>4. \A v \in Validator : \A p \in slashes[v] : p < period[v]
  BY <1>2, <1>3
<1>5. \A d \in dels : info[d].period < period[d.val]
  <2> SUFFICES ASSUME NEW d \in dels PROVE info[d].period < period[d.val]
    OBVIOUS
  <2> DEFINE E == {e \in DelsOf(d.val) : e.del <= d.del}
  <2>1. d.val \in Validator /\ info[d].period = Cardinality(E)
    BY <1>1 DEF Init, Delegation
  <2>2. Cardinality(E) <= DelCount(d.val) /\ Cardinality(E) \in Nat
    BY <1>2, <2>1, FS_Subset, FS_CardinalityType DEF DelCount
  <2> QED
    BY <1>2, <1>3, <2>1, <2>2
<1> QED
  BY <1>1, <1>4, <1>5 DEF PastInv

\* A period ends before anything refers to it.
LEMMA PastStep == TypeInv /\ PastInv /\ [Next]_vars => PastInv'
<1> SUFFICES ASSUME TypeInv, PastInv, [Next]_vars PROVE PastInv'
  OBVIOUS
<1>1. CASE ReadAllowed
  BY <1>1 DEF ReadAllowed, book, PastInv, Started
<1>2. CASE \E v \in Validator : WithdrawCommission(v)
  BY <1>2 DEF WithdrawCommission, Visit, Panic, book, PastInv, Started
<1>3. CASE \E d \in dels : WithdrawRewards(d)
  <2> SUFFICES ASSUME NEW d \in dels, WithdrawRewards(d) PROVE PastInv'
    BY <1>3
  <2>1. /\ stage = "rewards" /\ stage' \in {"rewards", "clear"} /\ UNCHANGED <<dels, slashes>>
        /\ InitializeDelegation(d, Height, {info[d].period})
    BY DEF WithdrawRewards, Visit
  <2>2. /\ \A e \in dels : info'[e].period = IF e = d THEN period[d.val] ELSE info[e].period
        /\ \A u \in Validator : period'[u] = IF u = d.val THEN period[u] + 1 ELSE period[u]
    BY <2>1, InitializeFacts DEF Height
  <2>3. Started = dels /\ Started' = dels
    BY <2>1 DEF Started
  <2>4. \A e \in dels : /\ info[e].period < period[e.val] /\ e.val \in Validator
                        /\ info[e].period \in Nat /\ period[e.val] \in Nat
    BY <2>1, <2>3 DEF PastInv, TypeInv, Delegation
  <2>5. \A e \in dels : info'[e].period < period'[e.val]
    BY <2>2, <2>4
  <2>6. \A u \in Validator : \A p \in slashes[u] : p < period'[u]
    <3> SUFFICES ASSUME NEW u \in Validator, NEW p \in slashes[u] PROVE p < period'[u]
      OBVIOUS
    <3>1. p \in Nat /\ period[u] \in Nat /\ p < period[u]
      BY DEF PastInv, TypeInv
    <3>2. period'[u] = period[u] \/ period'[u] = period[u] + 1
      BY <2>2
    <3> QED
      BY <3>1, <3>2
  <2> QED
    BY <2>1, <2>3, <2>5, <2>6 DEF PastInv
<1>4. CASE Clear
  BY <1>4 DEF Clear, Step, PastInv, Started
<1>5. CASE \E v \in Validator : ReinitValidator(v)
  <2> SUFFICES ASSUME NEW v \in Validator, ReinitValidator(v) PROVE PastInv'
    BY <1>5
  <2>1. /\ stage = "validators" /\ stage' \in {"validators", "delegations"}
        /\ stage' = "delegations" => todo' = dels
        /\ UNCHANGED <<dels, slashes>>
    BY DEF ReinitValidator, Visit
  <2>2. \A u \in Validator : slashes'[u] = {}
    BY <2>1 DEF PastInv
  <2>3. stage' = "delegations" => Started' = {}
    BY <2>1 DEF Started
  <2> QED
    BY <2>1, <2>2, <2>3 DEF PastInv
<1>6. CASE \E d \in dels : ReinitDelegation(d)
  <2> SUFFICES ASSUME NEW d \in dels, ReinitDelegation(d) PROVE PastInv'
    BY <1>6
  <2>1. /\ stage = "delegations" /\ stage' \in {"delegations", "entries"}
        /\ stage' = "delegations" => todo' = todo \ {d}
        /\ UNCHANGED <<dels, slashes>> /\ InitializeDelegation(d, 0, {})
    BY DEF ReinitDelegation, Visit
  <2>2. /\ \A e \in dels : info'[e].period = IF e = d THEN period[d.val] ELSE info[e].period
        /\ \A u \in Validator : period'[u] = IF u = d.val THEN period[u] + 1 ELSE period[u]
    BY <2>1, InitializeFacts
  <2>3. /\ Started = dels \ todo
        /\ stage' = "delegations" => Started' = dels \ (todo \ {d})
    BY <2>1 DEF Started
  <2>4. \A e \in dels \ todo : info[e].period < period[e.val]
    BY <2>1, <2>3 DEF PastInv
  <2>5. \A e \in dels : /\ e.val \in Validator
                        /\ info[e].period \in Nat /\ period[e.val] \in Nat
    BY DEF TypeInv, Delegation
  <2>6. \A e \in dels \ (todo \ {d}) : info'[e].period < period'[e.val]
    BY <2>2, <2>4, <2>5
  <2>7. \A u \in Validator : slashes'[u] = {}
    BY <2>1 DEF PastInv
  <2> QED
    BY <2>1, <2>3, <2>6, <2>7 DEF PastInv
<1>7. CASE ResetEntries
  BY <1>7 DEF ResetEntries, Step, book, PastInv
<1>8. CASE \E v \in Validator : ResetBond(v)
  BY <1>8 DEF ResetBond, Visit, Panic, book, PastInv
<1>9. CASE ApplyUpdates
  BY <1>9 DEF ApplyUpdates, Panic, book, PastInv
<1>10. CASE ResetSigning
  BY <1>10 DEF ResetSigning, Step, book, PastInv
<1>11. CASE UNCHANGED vars
  BY <1>11 DEF vars, book, PastInv, Started
<1> QED
  BY <1>1, <1>2, <1>3, <1>4, <1>5, <1>6, <1>7, <1>8, <1>9, <1>10, <1>11 DEF Next, Terminated

\* The chain's own counts are exact.
LEMMA RefsInit == Init => RefsInv
<1> SUFFICES ASSUME Init PROVE RefsInv
  OBVIOUS
<1>1. \A v \in Validator : \A p \in Period : refs[v][p] = References(v, p, dels)
  BY DEF Init
<1> QED
  BY <1>1 DEF Init, RefsInv, ReferencesExact

\* They stay so but while the books are cleared and not yet rebuilt.
LEMMA RefsStep == TypeInv /\ PastInv /\ RefsInv /\ [Next]_vars => RefsInv'
<1> SUFFICES ASSUME TypeInv, PastInv, RefsInv, [Next]_vars PROVE RefsInv'
  OBVIOUS
<1>0. ASSUME UNCHANGED <<dels, book>>, stage \notin {"clear", "validators", "delegations"},
             stage' \notin {"validators", "delegations"}
      PROVE  RefsInv'
  <2>1. \A v \in Validator : \A p \in Period : refs[v][p] = References(v, p, dels)
    BY <1>0 DEF RefsInv, ReferencesExact
  <2>2. \A v \in Validator : \A p \in Period : refs'[v][p] = References(v, p, dels)'
    BY <1>0, <2>1 DEF References, book
  <2> QED
    BY <1>0, <2>2 DEF RefsInv, ReferencesExact
<1>1. CASE ReadAllowed
  BY <1>0, <1>1 DEF ReadAllowed
<1>2. CASE \E v \in Validator : WithdrawCommission(v)
  BY <1>0, <1>2 DEF WithdrawCommission, Visit, Panic
<1>3. CASE \E d \in dels : WithdrawRewards(d)
  <2> SUFFICES ASSUME NEW d \in dels, WithdrawRewards(d) PROVE RefsInv'
    BY <1>3
  <2>1. /\ stage = "rewards" /\ stage' \in {"rewards", "clear"} /\ UNCHANGED <<dels, slashes>>
        /\ InitializeDelegation(d, Height, {info[d].period})
    BY DEF WithdrawRewards, Visit
  <2>2. \A e \in dels : info[e].period < period[e.val]
    BY <2>1 DEF PastInv, Started
  <2>3. \A u \in Validator : \A p \in slashes[u] : p < period[u]
    BY DEF PastInv
  <2>4. \A u \in Validator : \A p \in Period : refs[u][p] = References(u, p, dels)
    BY <2>1 DEF RefsInv, ReferencesExact
  <2>5. {info[d].period} = IF d \in dels THEN {info[d].period} ELSE {}
    OBVIOUS
  <2>6. \A u \in Validator : \A p \in Period :
           refs'[u][p] = Cardinality(Starts(u, p, dels \cup {d}, info'))
                            + One(p = period'[u] - 1) + One(p \in slashes[u])
    BY <2>1, <2>2, <2>3, <2>4, <2>5, InitializeCounts DEF Height
  <2>7. dels \cup {d} = dels
    OBVIOUS
  <2>8. \A u \in Validator : \A p \in Period : refs'[u][p] = References(u, p, dels)'
    BY <2>1, <2>6, <2>7 DEF References, Starts
  <2> QED
    BY <2>1, <2>8 DEF RefsInv, ReferencesExact
<1>4. CASE Clear
  BY <1>4 DEF Clear, Step, RefsInv, ReferencesExact
<1>5. CASE \E v \in Validator : ReinitValidator(v)
  <2> SUFFICES ASSUME NEW v \in Validator, ReinitValidator(v) PROVE RefsInv'
    BY <1>5
  <2>1. /\ stage = "validators" /\ v \in todo /\ todo \subseteq Validator
        /\ \/ stage' = "validators" /\ todo' = todo \ {v}
           \/ stage' = "delegations" /\ todo' = dels /\ todo = {v}
        /\ UNCHANGED <<dels, slashes, info>>
        /\ period' = [period EXCEPT ![v] = 1]
        /\ refs' = [refs EXCEPT ![v] = [refs[v] EXCEPT ![0] = 1]]
    BY DEF ReinitValidator, Visit, TypeInv
  <2>2. /\ \A u \in Validator : period'[u] = IF u = v THEN 1 ELSE period[u]
        /\ \A u \in Validator : refs'[u] = IF u = v THEN [refs[v] EXCEPT ![0] = 1] ELSE refs[u]
    BY <2>1 DEF TypeInv
  <2>3. \A p \in Period : refs'[v][p] = IF p = 0 THEN 1 ELSE 0
    <3>1. refs[v] \in [Period -> Int] /\ refs[v] = [p \in Period |-> 0]
      BY <2>1 DEF RefsInv, TypeInv
    <3> QED
      BY <2>2, <3>1, SetAt
  <2>4. \A u \in Validator : slashes'[u] = {}
    BY <2>1 DEF PastInv
  <2>5. \A u, p : Cardinality({d \in {} : d.val = u /\ info'[d].period = p}) = 0
    <3>1. \A u, p : {d \in {} : d.val = u /\ info'[d].period = p} = {}
      OBVIOUS
    <3> QED
      BY <3>1, FS_EmptySet
  <2>6. \A p \in Period : refs'[v][p] = References(v, p, {})'
    BY <2>1, <2>2, <2>3, <2>4, <2>5 DEF References, One
  <2>7. \A u \in Validator \ todo : \A p \in Period : refs'[u][p] = References(u, p, {})'
    <3>1. \A u \in Validator \ todo : \A p \in Period : refs[u][p] = References(u, p, {})
      BY <2>1 DEF RefsInv, ReferencesExact
    <3>2. \A u \in Validator \ todo : refs'[u] = refs[u] /\ period'[u] = period[u]
      BY <2>1, <2>2
    <3> QED
      BY <2>1, <3>1, <3>2 DEF References
  <2>8. \A u \in Validator \ (todo \ {v}) : \A p \in Period : refs'[u][p] = References(u, p, {})'
    BY <2>6, <2>7
  <2>9. CASE stage' = "validators"
    <3>1. \A u \in todo' : refs'[u] = [p \in Period |-> 0]
      BY <2>1, <2>2, <2>9 DEF RefsInv
    <3> QED
      BY <2>1, <2>8, <2>9, <3>1 DEF RefsInv, ReferencesExact
  <2>10. CASE stage' = "delegations"
    <3>1. dels' \ todo' = {} /\ Validator \ (todo \ {v}) = Validator
      BY <2>1, <2>10
    <3> QED
      BY <2>8, <2>10, <3>1 DEF RefsInv, ReferencesExact
  <2> QED
    BY <2>1, <2>9, <2>10
<1>6. CASE \E d \in dels : ReinitDelegation(d)
  <2> SUFFICES ASSUME NEW d \in dels, ReinitDelegation(d) PROVE RefsInv'
    BY <1>6
  <2>1. /\ stage = "delegations" /\ d \in todo /\ todo \subseteq dels
        /\ \/ stage' = "delegations" /\ todo' = todo \ {d}
           \/ stage' = "entries" /\ todo = {d}
        /\ UNCHANGED <<dels, slashes>> /\ InitializeDelegation(d, 0, {})
    BY DEF ReinitDelegation, Visit, TypeInv
  <2> DEFINE S == dels \ todo
  <2>2. \A e \in S : info[e].period < period[e.val]
    BY <2>1 DEF PastInv, Started
  <2>3. \A u \in Validator : \A p \in slashes[u] : p < period[u]
    BY DEF PastInv
  <2>4. \A u \in Validator : \A p \in Period : refs[u][p] = References(u, p, S)
    BY <2>1 DEF RefsInv, ReferencesExact
  <2>5. S \in SUBSET dels /\ {} = IF d \in S THEN {info[d].period} ELSE {}
    BY <2>1
  <2> HIDE DEF S
  <2>6. \A u \in Validator : \A p \in Period :
           refs'[u][p] = Cardinality(Starts(u, p, S \cup {d}, info'))
                            + One(p = period'[u] - 1) + One(p \in slashes[u])
    BY <2>1, <2>2, <2>3, <2>4, <2>5, InitializeCounts
  <2>7. S \cup {d} = IF stage' = "delegations" THEN dels' \ todo' ELSE dels'
    BY <2>1 DEF S
  <2>8. \A u \in Validator : \A p \in Period :
           refs'[u][p] = Cardinality({e \in S \cup {d} : e.val = u /\ info'[e].period = p})
                            + One(p = period'[u] - 1) + One(p \in slashes'[u])
    BY <2>1, <2>6 DEF Starts
  <2>9. CASE stage' = "delegations"
    BY <2>7, <2>8, <2>9 DEF RefsInv, ReferencesExact, References
  <2>10. CASE stage' = "entries"
    BY <2>7, <2>8, <2>10 DEF RefsInv, ReferencesExact, References
  <2> QED
    BY <2>1, <2>9, <2>10
<1>7. CASE ResetEntries
  BY <1>0, <1>7 DEF ResetEntries, Step
<1>8. CASE \E v \in Validator : ResetBond(v)
  BY <1>0, <1>8 DEF ResetBond, Visit, Panic
<1>9. CASE ApplyUpdates
  BY <1>0, <1>9 DEF ApplyUpdates, Panic
<1>10. CASE ResetSigning
  BY <1>0, <1>10 DEF ResetSigning, Step
<1>11. CASE UNCHANGED vars
  BY <1>11 DEF vars, book, RefsInv, ReferencesExact, References
<1> QED
  BY <1>1, <1>2, <1>3, <1>4, <1>5, <1>6, <1>7, <1>8, <1>9, <1>10, <1>11 DEF Next, Terminated

---------------------------------------------------------------------------
(* Heights, and the jail. *)

\* Each loop of the second half zeroes the heights it visits.
LEMMA ZeroStep == TypeInv /\ ZeroInv /\ [Next]_vars => ZeroInv'
<1> SUFFICES ASSUME TypeInv, ZeroInv, [Next]_vars PROVE ZeroInv'
  OBVIOUS
<1> USE DEF ZeroInv, Late
<1>1. CASE ReadAllowed
  BY <1>1 DEF ReadAllowed
<1>2. CASE \E v \in Validator : WithdrawCommission(v)
  BY <1>2 DEF WithdrawCommission, Visit, Panic
<1>3. CASE \E d \in dels : WithdrawRewards(d)
  BY <1>3 DEF WithdrawRewards, Visit
<1>4. CASE Clear
  BY <1>4 DEF Clear, Step
<1>5. CASE \E v \in Validator : ReinitValidator(v)
  BY <1>5 DEF ReinitValidator, Visit
<1>6. CASE \E d \in dels : ReinitDelegation(d)
  <2> SUFFICES ASSUME NEW d \in dels, ReinitDelegation(d) PROVE ZeroInv'
    BY <1>6
  <2>1. /\ Visit(d, "delegations", "entries", {}) /\ UNCHANGED dels
        /\ InitializeDelegation(d, 0, {})
    BY DEF ReinitDelegation
  <2>2. \A e \in dels : info'[e].height = IF e = d THEN 0 ELSE info[e].height
    BY <2>1, InitializeFacts
  <2> QED
    BY <2>1, <2>2 DEF Visit
<1>7. CASE ResetEntries
  BY <1>7 DEF ResetEntries, Step, book
<1>8. CASE \E v \in Validator : ResetBond(v)
  BY <1>8 DEF ResetBond, Visit, Panic, book, TypeInv
<1>9. CASE ApplyUpdates
  BY <1>9 DEF ApplyUpdates, Panic, book, stake
<1>10. CASE ResetSigning
  BY <1>10 DEF ResetSigning, Step, book
<1>11. CASE UNCHANGED vars
  BY <1>11 DEF vars, book, stake
<1> QED
  BY <1>1, <1>2, <1>3, <1>4, <1>5, <1>6, <1>7, <1>8, <1>9, <1>10, <1>11 DEF Next, Terminated

\* Validators are finitely many.
LEMMA ValidatorsFinite == \A S \in SUBSET Validator : IsFiniteSet(S)
<1>1. IsFiniteSet(Validator)
  BY ExportAssumption, FS_Interval DEF Validator
<1> QED
  BY <1>1, FS_Subset

\* How far the update gets depends on the index and the powers only.
LEMMA ReachedKept ==
    ASSUME UNCHANGED <<indexed, power>> PROVE \A v : Reached(v)' <=> Reached(v)
<1>1. \A u, v : Ahead(u, v)' <=> Ahead(u, v)
  BY DEF Ahead
<1>2. \A v : {u \in indexed : Ahead(u, v)}' = {u \in indexed : Ahead(u, v)}
  BY <1>1
<1> QED
  BY <1>2 DEF Reached

\* The bond loop jails who is not on the list and never touches the power index.
LEMMA JailStep == TypeInv /\ JailInv /\ [Next]_vars => JailInv'
<1> SUFFICES ASSUME TypeInv, JailInv, [Next]_vars PROVE JailInv'
  OBVIOUS
<1> USE DEF JailInv, Early
<1>1. CASE ReadAllowed
  BY <1>1 DEF ReadAllowed, stake
<1>2. CASE \E v \in Validator : WithdrawCommission(v)
  BY <1>2 DEF WithdrawCommission, Visit, Panic, stake
<1>3. CASE \E d \in dels : WithdrawRewards(d)
  BY <1>3 DEF WithdrawRewards, Visit, stake
<1>4. CASE Clear
  BY <1>4 DEF Clear, Step, stake
<1>5. CASE \E v \in Validator : ReinitValidator(v)
  BY <1>5 DEF ReinitValidator, Visit, stake
<1>6. CASE \E d \in dels : ReinitDelegation(d)
  BY <1>6 DEF ReinitDelegation, Visit, stake
<1>7. CASE ResetEntries
  BY <1>7 DEF ResetEntries, Step
<1>8. CASE \E v \in Validator : ResetBond(v)
  BY <1>8 DEF ResetBond, Visit, Panic, stake
<1>9. CASE ApplyUpdates
  <2>1. UNCHANGED <<indexed, power, jailed, allowed>> /\ \A v : Reached(v)' <=> Reached(v)
    BY <1>9, ReachedKept DEF ApplyUpdates, Panic, stake
  <2> QED
    BY <1>9, <2>1 DEF ApplyUpdates, Panic
<1>10. CASE ResetSigning
  <2>1. UNCHANGED <<indexed, power, jailed, allowed>> /\ \A v : Reached(v)' <=> Reached(v)
    BY <1>10, ReachedKept DEF ResetSigning
  <2> QED
    BY <1>10, <2>1 DEF ResetSigning, Step
<1>11. CASE UNCHANGED vars
  <2>1. UNCHANGED <<stage, todo, indexed, power, jailed, allowed>>
        /\ \A v : Reached(v)' <=> Reached(v)
    BY <1>11, ReachedKept DEF vars, stake
  <2> QED
    BY <2>1
<1> QED
  BY <1>1, <1>2, <1>3, <1>4, <1>5, <1>6, <1>7, <1>8, <1>9, <1>10, <1>11 DEF Next, Terminated

\* The power index is a strict order.
LEMMA AheadOrder ==
    ASSUME TypeInv, NEW u \in Validator, NEW v \in Validator, NEW w \in Validator
    PROVE  ~Ahead(u, u) /\ (Ahead(u, v) /\ Ahead(v, w) => Ahead(u, w))
<1>1. power[u] \in Int /\ power[v] \in Int /\ power[w] \in Int
  BY DEF TypeInv
<1>2. u \in Int /\ v \in Int /\ w \in Int
  BY ExportAssumption DEF Validator
<1> QED
  BY <1>1, <1>2 DEF Ahead

\* Of the validators of a set one is first: the one with the fewest ahead of it.
LEMMA FirstOf ==
    ASSUME TypeInv, NEW S \in SUBSET Validator, NEW K \in SUBSET S, K # {}
    PROVE  \E w \in K : \A x \in K : ~Ahead(x, w)
<1> DEFINE before(v) == {u \in S : Ahead(u, v)}
           r(v) == Cardinality(before(v))
           Ranks == {r(v) : v \in K}
<1>1. \A v \in Validator : IsFiniteSet(before(v)) /\ r(v) \in Nat
  BY ValidatorsFinite, FS_Subset, FS_CardinalityType
<1>2. \A x, w \in K : Ahead(x, w) => r(x) < r(w)
  <2> SUFFICES ASSUME NEW x \in K, NEW w \in K, Ahead(x, w) PROVE r(x) < r(w)
    OBVIOUS
  <2>1. before(x) \subseteq before(w) /\ x \in before(w) /\ x \notin before(x)
    BY AheadOrder
  <2>2. r(x) <= r(w) /\ (r(x) = r(w) => before(x) = before(w))
    BY <1>1, <2>1, FS_Subset
  <2> HIDE DEF before
  <2> QED
    BY <1>1, <2>1, <2>2
<1>3. Ranks # {} /\ Ranks \subseteq Nat
  BY <1>1
<1> HIDE DEF Ranks, r, before
<1>4. PICK n \in Ranks : \A m \in Ranks : <<m, n>> \notin OpToRel(<, Nat)
  BY <1>3, WFMin, NatLessThanWellFounded
<1>5. \A m \in Ranks : ~(m < n)
  BY <1>3, <1>4, Zenon DEF OpToRel
<1>6. PICK w \in K : n = r(w)
  BY DEF Ranks
<1>7. \A x \in K : r(x) \in Ranks
  BY DEF Ranks
<1> QED
  BY <1>2, <1>5, <1>6, <1>7

\* Of a set of validators below the bound each subset is below it.
LEMMA Fewer ==
    ASSUME NEW S \in SUBSET Validator, NEW T \in SUBSET S, Cardinality(S) < MaxValidators
    PROVE  Cardinality(T) < MaxValidators
<1>1. /\ Cardinality(T) <= Cardinality(S)
      /\ Cardinality(T) \in Int /\ Cardinality(S) \in Int
  BY ValidatorsFinite, FS_Subset, FS_CardinalityType
<1> QED
  BY <1>1, ExportAssumption

\* If the update reaches no jailed validator, none that has power and is ahead of
\* somebody it bonds is jailed: with the jailed ones or without, it bonds the same.
LEMMA JailedBehind ==
    ASSUME TypeInv, indexed \subseteq Validator, jailed \subseteq Validator,
           Validator \ jailed \subseteq indexed, \A v \in jailed : ~Reached(v)
    PROVE  Bonded(indexed) = Bonded(Validator \ jailed)
<1> DEFINE U == Validator \ jailed
           before(S, v) == {u \in S : Ahead(u, v)}
<1>1. \A v \in Validator : \A u \in before(indexed, v) : power[v] > 0 => power[u] > 0
  BY DEF Ahead, TypeInv
<1>2. ASSUME NEW v \in Bonded(indexed) PROVE v \in Bonded(U)
  <2>1. /\ v \in indexed /\ v \in Validator /\ power[v] > 0
        /\ Cardinality(before(indexed, v)) < MaxValidators
    BY <1>2 DEF Bonded
  <2>2. v \in U
    BY <1>1, <2>1 DEF Reached
  <2>3. before(U, v) \subseteq before(indexed, v)
    OBVIOUS
  <2>4. Cardinality(before(U, v)) < MaxValidators
    BY <2>1, <2>3, Fewer
  <2> QED
    BY <2>1, <2>2, <2>4 DEF Bonded
<1>3. ASSUME NEW v \in Bonded(U) PROVE v \in Bonded(indexed)
  <2>1. /\ v \in indexed /\ v \in Validator /\ power[v] > 0
        /\ Cardinality(before(U, v)) < MaxValidators
    BY <1>3 DEF Bonded
  <2> DEFINE K == before(indexed, v) \cap jailed
  <2>2. K = {}
    <3> SUFFICES ASSUME K # {} PROVE FALSE
      OBVIOUS
    <3>1. PICK w \in K : \A x \in K : ~Ahead(x, w)
      BY FirstOf
    <3>2. w \in Validator /\ w \in indexed /\ w \in jailed /\ Ahead(w, v)
      BY <3>1
    <3>3. before(indexed, w) \subseteq before(indexed, v)
      BY <2>1, <3>2, AheadOrder
    <3>4. before(indexed, w) \subseteq before(U, v)
      BY <3>1, <3>3
    <3>5. Cardinality(before(indexed, w)) < MaxValidators
      BY <2>1, <3>4, Fewer
    <3>6. \A u \in before(indexed, w) : power[u] > 0
      BY <1>1, <2>1, <3>3
    <3> QED
      BY <3>2, <3>5, <3>6 DEF Reached
  <2>3. before(indexed, v) \subseteq before(U, v)
    BY <2>2
  <2>4. Cardinality(before(indexed, v)) < MaxValidators
    BY <2>1, <2>3, Fewer
  <2> QED
    BY <2>1, <2>4 DEF Bonded
<1> QED
  BY <1>2, <1>3

\* The three panics, each with its cause.
LEMMA FailStep == TypeInv /\ JailInv /\ FailsOnlyFor /\ [Next]_vars => FailsOnlyFor'
<1> SUFFICES ASSUME TypeInv, JailInv, FailsOnlyFor, [Next]_vars PROVE FailsOnlyFor'
  OBVIOUS
<1>1. CASE \E v \in Validator : WithdrawCommission(v)
  BY <1>1 DEF WithdrawCommission, Visit, Panic, FailsOnlyFor, money
<1>2. CASE \E v \in Validator : ResetBond(v)
  BY <1>2 DEF ResetBond, Visit, Panic, FailsOnlyFor
<1>3. CASE ApplyUpdates
  <2>1. ASSUME NEW v \in jailed, Reached(v)
        PROVE  allowed # {} /\ \E u \in indexed \ allowed : Reached(u)
    BY <1>3, <2>1 DEF ApplyUpdates, JailInv, Reached
  <2>2. UNCHANGED <<allowed, commission, indexed, power>> /\ \A u : Reached(u)' <=> Reached(u)
    BY <1>3, ReachedKept DEF ApplyUpdates, Panic, stake, money
  <2> QED
    BY <1>3, <2>1, <2>2 DEF ApplyUpdates, Panic, FailsOnlyFor
<1>4. CASE UNCHANGED vars
  <2>1. /\ UNCHANGED <<stage, why, commission, indexed, power, allowed>>
        /\ \A v : Reached(v)' <=> Reached(v)
    BY <1>4, ReachedKept DEF vars, money, stake
  <2> QED
    BY <2>1 DEF FailsOnlyFor
<1>5. CASE \/ ReadAllowed \/ Clear \/ ResetEntries \/ ResetSigning
           \/ \E d \in dels : WithdrawRewards(d) \/ ReinitDelegation(d)
           \/ \E v \in Validator : ReinitValidator(v)
  <2>1. stage' # "panic"
    BY <1>5 DEF ReadAllowed, Clear, ResetEntries, ResetSigning, WithdrawRewards, ReinitDelegation,
                ReinitValidator, Step, Visit
  <2> QED
    BY <2>1 DEF FailsOnlyFor
<1> QED
  BY <1>1, <1>2, <1>3, <1>4, <1>5 DEF Next, Terminated

---------------------------------------------------------------------------
(* The periods a run reaches. *)

\* A validator has at most one delegation of each delegator.
LEMMA DelBound ==
    ASSUME TypeInv, NEW v \in Validator
    PROVE  DelCount(v) <= Cardinality(Delegator) /\ Cardinality(Delegator) \in Nat
<1> DEFINE f == [d \in DelsOf(v) |-> d.del]
<1>1. IsFiniteSet(Delegator) /\ Cardinality(Delegator) \in Nat
  BY ExportAssumption, FS_CardinalityType
<1>2. f \in Injection(DelsOf(v), Delegator)
  <2>1. \A d \in DelsOf(v) : d.val = v /\ d.del \in Delegator /\ d = [val |-> v, del |-> d.del]
    BY DEF DelsOf, TypeInv, Delegation
  <2>2. f \in [DelsOf(v) -> Delegator]
    BY <2>1
  <2>3. \A d, e \in DelsOf(v) : f[d] = f[e] => d = e
    BY <2>1
  <2> HIDE DEF f
  <2> QED
    BY <2>2, <2>3 DEF Injection, IsInjective
<1> HIDE DEF f
<1> QED
  BY <1>1, <1>2, FS_Injection DEF DelCount

\* One period for each delegation, one for a slash, and the current one.
LEMMA RangeInit == Init => RangeInv
<1> SUFFICES ASSUME Init, NEW v \in Validator PROVE period[v] <= DelCount(v) + 2
  BY DEF Init, RangeInv, Late
<1>1. DelCount(v) \in Nat
  BY Finite DEF Init
<1> QED
  BY <1>1 DEF Init, One

\* Visiting d adds one to the visited delegations of its validator, to no other's.
LEMMA VisitCounts ==
    ASSUME TypeInv, todo \subseteq dels, NEW d \in todo, NEW v \in Validator
    PROVE  /\ Cardinality(DelsOf(v) \ todo) \in Nat /\ DelCount(v) \in Nat
           /\ Cardinality(DelsOf(v) \ (todo \ {d})) =
                 Cardinality(DelsOf(v) \ todo) + (IF v = d.val THEN 1 ELSE 0)
           /\ Cardinality(DelsOf(v) \ todo) <= DelCount(v)
<1>1. /\ DelsOf(v) \ todo \in SUBSET dels /\ IsFiniteSet(DelsOf(v) \ todo)
      /\ Cardinality(DelsOf(v) \ todo) \in Nat
      /\ IsFiniteSet(DelsOf(v)) /\ DelCount(v) \in Nat
  BY Finite DEF TypeInv, DelsOf
<1>2. Cardinality(DelsOf(v) \ todo) <= DelCount(v)
  BY <1>1, FS_Subset DEF DelCount
<1>3. CASE v = d.val
  <2>1. DelsOf(v) \ (todo \ {d}) = (DelsOf(v) \ todo) \cup {d} /\ d \notin DelsOf(v) \ todo
    BY <1>3 DEF DelsOf
  <2> QED
    BY <1>1, <1>2, <1>3, <2>1, FS_AddElement
<1>4. CASE v # d.val
  <2>1. DelsOf(v) \ (todo \ {d}) = DelsOf(v) \ todo
    BY <1>4 DEF DelsOf
  <2> QED
    BY <1>1, <1>2, <1>4, <2>1
<1> QED
  BY <1>3, <1>4

\* No step leaves its stage's bound.
LEMMA RangeStep == TypeInv /\ RangeInv /\ [Next]_vars => RangeInv'
<1> SUFFICES ASSUME TypeInv, RangeInv, [Next]_vars PROVE RangeInv'
  OBVIOUS
<1>0. /\ dels' = dels
      /\ \A v \in Validator : DelsOf(v)' = DelsOf(v) /\ DelCount(v)' = DelCount(v) /\ DelCount(v) \in Nat
  <2>1. dels' = dels
    BY DEF Next, Terminated, vars, ReadAllowed, WithdrawCommission, WithdrawRewards, Clear,
           ReinitValidator, ReinitDelegation, ResetEntries, ResetBond, ApplyUpdates, ResetSigning,
           Panic
  <2>2. \A v \in Validator : DelsOf(v)' = DelsOf(v)
    BY <2>1 DEF DelsOf
  <2> QED
    BY <2>1, <2>2, Finite DEF DelCount, TypeInv
<1>1. CASE ReadAllowed
  BY <1>0, <1>1 DEF ReadAllowed, book, RangeInv, Late
<1>2. CASE \E v \in Validator : WithdrawCommission(v)
  <2>1. /\ stage = "commissions" /\ stage' \in {"commissions", "rewards", "panic"}
        /\ stage' = "rewards" => todo' = dels
        /\ period' = period
    BY <1>2 DEF WithdrawCommission, Visit, Panic, book
  <2>2. ASSUME NEW v \in Validator
        PROVE  Cardinality(DelsOf(v) \ dels) = 0
    <3>1. DelsOf(v) \ dels = {}
      BY DEF DelsOf
    <3> QED
      BY <3>1, FS_EmptySet
  <2>3. \A v \in Validator : period[v] <= DelCount(v) + 2
    BY <2>1 DEF RangeInv
  <2>4. stage' = "rewards" => \A v \in Validator : Cardinality(DelsOf(v)' \ todo') = 0
    BY <1>0, <2>1, <2>2
  <2>5. \A v \in Validator : period'[v] <= DelCount(v)' + 2 + 0
    BY <1>0, <2>1, <2>3 DEF TypeInv
  <2> QED
    BY <1>0, <2>1, <2>3, <2>4, <2>5 DEF RangeInv, Late
<1>3. CASE \E d \in dels : WithdrawRewards(d)
  <2> SUFFICES ASSUME NEW d \in dels, WithdrawRewards(d), NEW v \in Validator
               PROVE  /\ stage' \in {"rewards", "clear"}
                      /\ stage' = "rewards" =>
                            period'[v] <= DelCount(v)' + 2 + Cardinality(DelsOf(v)' \ todo')
                      /\ stage' = "clear" => period'[v] <= 2 * DelCount(v)' + 2
    BY <1>3 DEF RangeInv, Late
  <2>1. /\ stage = "rewards" /\ d \in todo /\ todo \subseteq dels
        /\ \/ stage' = "rewards" /\ todo' = todo \ {d}
           \/ stage' = "clear" /\ todo = {d}
        /\ InitializeDelegation(d, Height, {info[d].period})
    BY DEF WithdrawRewards, Visit, TypeInv
  <2>2. period'[v] = IF v = d.val THEN period[v] + 1 ELSE period[v]
    BY <2>1, InitializeFacts DEF Height
  <2>3. period[v] <= DelCount(v) + 2 + Cardinality(DelsOf(v) \ todo) /\ period[v] \in Nat
    BY <2>1 DEF RangeInv, TypeInv
  <2>4. period'[v] <= DelCount(v) + 2 + Cardinality(DelsOf(v) \ (todo \ {d}))
    <3> DEFINE before == Cardinality(DelsOf(v) \ todo)
               after == Cardinality(DelsOf(v) \ (todo \ {d}))
               count == DelCount(v)
    <3>1. before \in Nat /\ count \in Nat /\ after = before + (IF v = d.val THEN 1 ELSE 0)
      BY <2>1, VisitCounts
    <3>2. period[v] <= count + 2 + before /\ period[v] \in Nat
      BY <2>3
    <3> HIDE DEF before, after, count
    <3>3. period'[v] <= count + 2 + after
      BY <2>2, <3>1, <3>2
    <3> QED
      BY <3>3 DEF after, count
  <2>5. CASE stage' = "rewards"
    BY <1>0, <2>1, <2>4, <2>5
  <2>6. CASE stage' = "clear"
    <3>1. DelsOf(v) \ (todo \ {d}) = DelsOf(v)
      BY <2>1, <2>6
    <3>2. period'[v] <= DelCount(v) + 2 + DelCount(v)
      BY <2>4, <3>1 DEF DelCount
    <3> QED
      BY <1>0, <2>2, <2>3, <2>6, <3>2
  <2> QED
    BY <2>1, <2>5, <2>6
<1>4. CASE Clear
  BY <1>0, <1>4 DEF Clear, Step, RangeInv, Late
<1>5. CASE \E v \in Validator : ReinitValidator(v)
  <2> SUFFICES ASSUME NEW v \in Validator, ReinitValidator(v) PROVE RangeInv'
    BY <1>5
  <2>1. /\ stage = "validators" /\ v \in todo /\ todo \subseteq Validator
        /\ \/ stage' = "validators" /\ todo' = todo \ {v}
           \/ stage' = "delegations" /\ todo' = dels /\ todo = {v}
        /\ \A u \in Validator : period'[u] = IF u = v THEN 1 ELSE period[u]
    BY DEF ReinitValidator, Visit, TypeInv
  <2>2. CASE stage' = "validators"
    BY <1>0, <2>1, <2>2 DEF RangeInv, Late
  <2>3. CASE stage' = "delegations"
    <3>1. \A u \in Validator : period'[u] = 1
      BY <2>1, <2>3 DEF RangeInv
    <3>2. \A u \in Validator : Cardinality(DelsOf(u)' \ todo') = 0
      <4>1. \A u \in Validator : DelsOf(u)' \ todo' = {}
        BY <1>0, <2>1, <2>3 DEF DelsOf
      <4> QED
        BY <4>1, FS_EmptySet
    <3> QED
      BY <2>3, <3>1, <3>2 DEF RangeInv, Late
  <2> QED
    BY <2>1, <2>2, <2>3
<1>6. CASE \E d \in dels : ReinitDelegation(d)
  <2> SUFFICES ASSUME NEW d \in dels, ReinitDelegation(d), NEW v \in Validator
               PROVE  /\ stage' \in {"delegations", "entries"}
                      /\ stage' = "delegations" =>
                            period'[v] <= 1 + Cardinality(DelsOf(v)' \ todo')
                      /\ stage' = "entries" => period'[v] <= 1 + DelCount(v)'
    BY <1>6 DEF RangeInv, Late
  <2>1. /\ stage = "delegations" /\ d \in todo /\ todo \subseteq dels
        /\ \/ stage' = "delegations" /\ todo' = todo \ {d}
           \/ stage' = "entries" /\ todo = {d}
        /\ InitializeDelegation(d, 0, {})
    BY DEF ReinitDelegation, Visit, TypeInv
  <2>2. period'[v] = IF v = d.val THEN period[v] + 1 ELSE period[v]
    BY <2>1, InitializeFacts
  <2>3. period[v] <= 1 + Cardinality(DelsOf(v) \ todo) /\ period[v] \in Nat
    BY <2>1 DEF RangeInv, TypeInv
  <2>4. period'[v] <= 1 + Cardinality(DelsOf(v) \ (todo \ {d}))
    <3>1. /\ Cardinality(DelsOf(v) \ todo) \in Nat
          /\ Cardinality(DelsOf(v) \ (todo \ {d})) =
                Cardinality(DelsOf(v) \ todo) + (IF v = d.val THEN 1 ELSE 0)
      BY <2>1, VisitCounts
    <3> QED
      BY <2>2, <2>3, <3>1
  <2>5. CASE stage' = "delegations"
    BY <1>0, <2>1, <2>4, <2>5
  <2>6. CASE stage' = "entries"
    <3>1. DelsOf(v) \ (todo \ {d}) = DelsOf(v)
      BY <2>1, <2>6
    <3> QED
      BY <1>0, <2>4, <2>6, <3>1 DEF DelCount
  <2> QED
    BY <2>1, <2>5, <2>6
<1>7. CASE ResetEntries
  BY <1>0, <1>7 DEF ResetEntries, Step, book, RangeInv, Late
<1>8. CASE \E v \in Validator : ResetBond(v)
  <2>1. stage = "bonds" /\ stage' \in {"bonds", "updates", "panic"} /\ period' = period
    BY <1>8 DEF ResetBond, Visit, Panic, book
  <2> QED
    BY <1>0, <2>1 DEF RangeInv, Late, TypeInv
<1>9. CASE ApplyUpdates
  <2>1. stage = "updates" /\ stage' \in {"signing", "panic"} /\ period' = period
    BY <1>9 DEF ApplyUpdates, Panic, book
  <2> QED
    BY <1>0, <2>1 DEF RangeInv, Late, TypeInv
<1>10. CASE ResetSigning
  BY <1>0, <1>10 DEF ResetSigning, Step, book, RangeInv, Late
<1>11. CASE UNCHANGED vars
  BY <1>0, <1>11 DEF vars, book, RangeInv, Late
<1> QED
  BY <1>1, <1>2, <1>3, <1>4, <1>5, <1>6, <1>7, <1>8, <1>9, <1>10, <1>11 DEF Next, Terminated

---------------------------------------------------------------------------
(* The theorems. *)

\* Inductive: each of its parts is preserved with the help of those before it.
IInv ==
    /\ TypeInv /\ OwedInv /\ PaidInv /\ PastInv /\ RefsInv /\ RangeInv
    /\ ZeroInv /\ JailInv /\ FailsOnlyFor

\* The parts together are inductive.
LEMMA Inductive == Spec => []IInv
<1>1. Init => IInv
  <2>1. Init => ZeroInv /\ JailInv /\ FailsOnlyFor
    BY DEF Init, ZeroInv, JailInv, FailsOnlyFor, Early, Late
  <2> QED
    BY <2>1, TypeInit, OwedInit, PaidInit, PastInit, RefsInit, RangeInit DEF IInv
<1>2. IInv /\ [Next]_vars => IInv'
  BY TypeStep, OwedStep, PaidStep, PastStep, RefsStep, RangeStep, ZeroStep, JailStep, FailStep
  DEF IInv
<1> QED
  BY <1>1, <1>2, PTL DEF Spec

\* At the end nobody is owed anything, accounts got whole coins, and the pool
\* less than a coin for each commission and each reward.
THEOREM Settlement == Spec => []SettledUp
<1>1. IInv => SettledUp
  <2> SUFFICES ASSUME IInv, stage = "done"
               PROVE  /\ \A v \in Validator : outstanding[v] = 0 /\ commission[v] = 0
                      /\ paid % Unit = 0
                      /\ pool <= (Unit - 1) * (N + Cardinality(dels))
    BY DEF SettledUp
  <2>1. \A v \in Validator : outstanding[v] = 0 /\ commission[v] = 0
    BY DEF IInv, OwedInv, Late
  <2>2. paid % Unit = 0
    <3>1. PICK k \in Int : paid = k * Unit
      BY DEF IInv, PaidInv
    <3>2. Unit \in Nat \ {0}
      BY ExportAssumption
    <3> QED
      BY <3>1, <3>2
  <2>3. pool <= (Unit - 1) * (N + Cardinality(dels))
    BY DEF IInv, PaidInv, Late
  <2> QED
    BY <2>1, <2>2, <2>3
<1> QED
  BY <1>1, Inductive, PTL

\* Each historical period is counted as often as it is referred to.
THEOREM CountsAreExact == Spec => []ReferencesExact
<1>1. IInv => ReferencesExact
  BY DEF IInv, RefsInv
<1> QED
  BY <1>1, Inductive, PTL

\* The bound the model puts on periods is never reached, so that the theorem
\* above speaks of every period there is.
THEOREM PeriodsInRange == Spec => []PeriodsFit
<1>1. IInv => PeriodsFit
  <2> SUFFICES ASSUME IInv, NEW v \in Validator PROVE period[v] - 1 \in Period
    BY DEF PeriodsFit
  <2>1. /\ DelCount(v) \in Nat /\ DelCount(v) <= Cardinality(Delegator)
        /\ Cardinality(Delegator) \in Nat
    BY DelBound, Finite DEF IInv, TypeInv
  <2>2. Cardinality(DelsOf(v) \ todo) <= DelCount(v) /\ Cardinality(DelsOf(v) \ todo) \in Nat
    <3>1. IsFiniteSet(DelsOf(v)) /\ DelsOf(v) \ todo \in SUBSET dels
      BY Finite DEF IInv, TypeInv, DelsOf
    <3> QED
      BY <3>1, Finite, FS_Subset DEF IInv, TypeInv, DelCount
  <2>3. period[v] \in Nat \ {0} /\ stage \in Stages
    BY DEF IInv, TypeInv
  <2>4. period[v] <= 2 * DelCount(v) + 2
    <3>1. CASE stage \in {"start", "commissions", "fatal", "panic"}
      BY <2>1, <2>2, <2>3, <3>1 DEF IInv, RangeInv
    <3>2. CASE stage \in {"rewards", "delegations"}
      BY <2>1, <2>2, <2>3, <3>2 DEF IInv, RangeInv
    <3>3. CASE stage \in {"clear", "validators"}
      BY <2>1, <2>2, <2>3, <3>3 DEF IInv, RangeInv
    <3>4. CASE stage \in Late
      BY <2>1, <2>2, <2>3, <3>4 DEF IInv, RangeInv
    <3> QED
      BY <2>3, <3>1, <3>2, <3>3, <3>4 DEF Stages, Late
  <2>5. period[v] - 1 \in Nat /\ period[v] - 1 <= 3 + 2 * Cardinality(Delegator)
    <3> DEFINE p == DelCount(v) n == Cardinality(Delegator) q == period[v]
    <3>1. p \in Nat /\ n \in Nat /\ p <= n /\ q \in Nat \ {0} /\ q <= 2 * p + 2
      BY <2>1, <2>3, <2>4
    <3> HIDE DEF p, n, q
    <3>2. q - 1 \in Nat /\ q - 1 <= 3 + 2 * n
      BY <3>1
    <3> QED
      BY <3>2 DEF n, q
  <2> QED
    BY <2>1, <2>5 DEF Period
<1> QED
  BY <1>1, Inductive, PTL

\* No height of the old chain is left.
THEOREM HeightsAreZero == Spec => []StartsAtZero
<1>1. IInv => StartsAtZero
  BY DEF IInv, ZeroInv, StartsAtZero, Late
<1> QED
  BY <1>1, Inductive, PTL

\* Whom the export names as bonded the new chain would bond, though a jailed
\* validator may still be indexed, and the list is honoured.
THEOREM BondedStaysBonded == Spec => []SameBonded
<1>1. IInv => SameBonded
  <2> SUFFICES ASSUME IInv, stage = "done"
               PROVE  /\ Bonded(indexed) = Bonded(Validator \ jailed)
                      /\ allowed # {} => Validator \ jailed \subseteq allowed
    BY DEF SameBonded
  <2>1. Bonded(indexed) = Bonded(Validator \ jailed)
    BY JailedBehind DEF IInv, JailInv
  <2>2. allowed # {} => Validator \ jailed \subseteq allowed
    BY DEF IInv, JailInv
  <2> QED
    BY <2>1, <2>2
<1> QED
  BY <1>1, Inductive, PTL

\* An export that panics does so for a reason the properties name.
THEOREM FailureCauses == Spec => []FailsOnlyFor
<1>1. IInv => FailsOnlyFor
  BY DEF IInv
<1> QED
  BY <1>1, Inductive, PTL

\* No step makes or loses money.
THEOREM Conservation == Spec => MoneyConserved
<1> DEFINE Total == pool + paid + Sum(outstanding, Validator)
           Kept == pool' + paid' + Sum(outstanding', Validator) = Total
<1>1. IInv /\ [Next]_vars => [Kept]_vars
  <2> SUFFICES ASSUME TypeInv, TypeInv', Next PROVE Kept
    BY TypeStep DEF IInv
  <2>0. Sum(outstanding, Validator) \in Int /\ pool \in Int /\ paid \in Int
    <3>1. IsFiniteSet(Validator) /\ \A v \in Validator : outstanding[v] \in Int
      BY Finite DEF TypeInv
    <3>2. Sum(outstanding, Validator) \in Int
      BY <3>1, SumInt
    <3> QED
      BY <3>2 DEF TypeInv
  <2>1. CASE \E v \in Validator : WithdrawCommission(v)
    <3> SUFFICES ASSUME NEW v \in Validator, WithdrawCommission(v) PROVE Kept
      BY <2>1
    <3>1. CASE commission[v] # 0
      <4> DEFINE c == Coins(commission[v])
      <4>1. c \in Int /\ outstanding[v] \in Int
        BY CoinsFact DEF TypeInv
      <4>2. /\ paid' = paid + c /\ pool' = pool /\ outstanding'[v] = outstanding[v] - c
            /\ \A u \in Validator \ {v} : outstanding'[u] = outstanding[u]
        BY <3>1 DEF WithdrawCommission, TypeInv
      <4> HIDE DEF c
      <4> QED
        BY <2>0, <4>1, <4>2, OutstandingUpdate
    <3>2. CASE commission[v] = 0
      BY <3>2 DEF WithdrawCommission, Panic, money
    <3> QED
      BY <3>1, <3>2
  <2>2. CASE \E d \in dels : WithdrawRewards(d)
    <3> SUFFICES ASSUME NEW d \in dels, WithdrawRewards(d) PROVE Kept
      BY <2>2
    <3> DEFINE c == Coins(reward[d]) v == d.val
    <3>1. c \in Int /\ reward[d] \in Int /\ v \in Validator /\ outstanding[v] \in Int
      BY CoinsFact DEF TypeInv, Delegation
    <3>2. /\ paid' = paid + c /\ pool' = pool + reward[d] - c
          /\ outstanding'[v] = outstanding[v] - reward[d]
          /\ \A u \in Validator \ {v} : outstanding'[u] = outstanding[u]
      BY <3>1 DEF WithdrawRewards, TypeInv
    <3> HIDE DEF c, v
    <3> QED
      BY <2>0, <3>1, <3>2, OutstandingUpdate
  <2>3. CASE \E v \in Validator : ReinitValidator(v)
    <3> SUFFICES ASSUME NEW v \in Validator, ReinitValidator(v) PROVE Kept
      BY <2>3
    <3>1. /\ outstanding'[v] = 0 /\ outstanding[v] \in Int
          /\ \A u \in Validator \ {v} : outstanding'[u] = outstanding[u]
          /\ pool' = pool + outstanding[v] /\ paid' = paid
      BY DEF ReinitValidator, TypeInv
    <3> QED
      BY <2>0, <3>1, OutstandingUpdate
  <2>4. CASE UNCHANGED money
    BY <2>4 DEF money
  <2>5. CASE \/ ReadAllowed \/ Clear \/ ResetEntries \/ ApplyUpdates \/ ResetSigning \/ Terminated
             \/ \E d \in dels : ReinitDelegation(d)
             \/ \E v \in Validator : ResetBond(v)
    BY <2>4, <2>5 DEF ReadAllowed, Clear, ResetEntries, ApplyUpdates, ResetSigning, Terminated,
                      ReinitDelegation, ResetBond, Panic, vars, money
  <2> QED
    BY <2>1, <2>2, <2>3, <2>5 DEF Next
<1> QED
  BY <1>1, Inductive, PTL DEF Spec, MoneyConserved
=============================================================================
