------------------------- MODULE ZeroHeightExport -------------------------
(***************************************************************************)
(* `mandelbotd export --for-zero-height`: app/export.go prepares a state    *)
(* for a chain that starts again at height zero.  It settles what the       *)
(* distribution module owes, rebuilds that module's periods and reference   *)
(* counts from nothing, and resets the heights kept by staking and          *)
(* slashing.  The keepers are the Cosmos SDK's; what the steps below do to  *)
(* their stores is taken from the calls export.go makes.                    *)
(***************************************************************************)
EXTENDS Integers, Sequences, FiniteSetsExt

CONSTANTS
    N,              \* validators, numbered in the order of their addresses
    Delegator,      \* who may delegate to them, numbered from 1
    Amount,         \* what a validator or a delegator may be owed at first
    Unit,           \* sub-units of a coin; accounts are paid whole coins
    Powers,         \* what consensus power a validator may have
    MaxValidators,  \* how many of them staking bonds
    LengthPrefixed  \* does a validator's store key hold its address' length?

ASSUME ExportAssumption ==
    /\ N \in Nat \ {0} /\ Unit \in Nat \ {0} /\ Amount \subseteq Nat
    /\ Delegator \subseteq Nat /\ IsFiniteSet(Delegator) /\ LengthPrefixed \in BOOLEAN
    /\ Powers \subseteq Nat /\ MaxValidators \in Nat \ {0}

Validator  == 1 .. N
Delegation == [val : Validator, del : Delegator]
Height     == 9                              \* of the block exported
Period     == 0 .. 3 + 2 * Cardinality(Delegator)

Stages == {"start", "commissions", "rewards", "clear", "validators", "delegations",
           "entries", "bonds", "updates", "signing", "done", "fatal", "panic"}

VARIABLES
    stage,       \* where export.go is
    todo,        \* what the loop it is in has still to visit
    why,         \* what it panicked about
    allowed,     \* jailAllowedAddrs; 0 is no operator's address
    dels,        \* the delegations
    jailed,      \* validators in jail
    indexed,     \* validators in the power index
    power,       \* consensus power of each validator
    outstanding, \* what distribution still owes through each validator
    commission,  \* accumulated commission of each validator
    reward,      \* unpaid reward of each delegation
    pool,        \* community pool
    paid,        \* paid out to accounts
    period,      \* current period of each validator
    refs,        \* reference counts of its historical periods
    info,        \* starting period and height of each delegation
    slashes,     \* periods of each validator's slash events
    unbonding,   \* unbonding height of each validator
    entries,     \* creation height of redelegation and unbonding entries
    signing      \* start height of each validator's signing info

money == <<outstanding, commission, reward, pool, paid>>
book  == <<period, refs, info, slashes>>
stake == <<jailed, indexed, power, unbonding, entries, signing>>
vars  == <<stage, todo, why, allowed, dels, money, book, stake>>

Coins(x)  == x - (x % Unit)
Sum(f, S) == MapThenSumSet(LAMBDA x : f[x], S)
DelsOf(v) == {d \in dels : d.val = v}
DelCount(v)  == Cardinality(DelsOf(v))
One(b)    == IF b THEN 1 ELSE 0

\* What a period is referred to by: delegations that started there, the
\* current period that follows it, and a slash.
References(v, p, started) ==
    Cardinality({d \in started : d.val = v /\ info[d].period = p})
        + One(p = period[v] - 1) + One(p \in slashes[v])

\* A chain whose delegations came one after the other, and then the slashes.
Init ==
    /\ stage = "start" /\ todo = {} /\ why = "none"
    /\ allowed \in SUBSET (Validator \cup {0})
    /\ dels \in SUBSET Delegation /\ \A v \in Validator : DelsOf(v) # {}
    /\ jailed \in SUBSET Validator /\ indexed = Validator \ jailed
    /\ power \in [Validator -> Powers]
    /\ commission \in [Validator -> Amount]
    /\ reward \in [dels -> Amount]
    /\ outstanding = [v \in Validator |-> commission[v] + Sum(reward, DelsOf(v))]
    /\ pool = 0 /\ paid = 0
    /\ \E slashed \in SUBSET Validator :
          /\ slashes = [v \in Validator |-> IF v \in slashed THEN {DelCount(v) + 1} ELSE {}]
          /\ period = [v \in Validator |-> DelCount(v) + 1 + One(v \in slashed)]
    /\ info = [d \in dels |-> [height |-> d.del, period |->
                  Cardinality({e \in DelsOf(d.val) : e.del <= d.del})]]
    /\ refs = [v \in Validator |-> [p \in Period |-> References(v, p, dels)]]
    /\ unbonding = [v \in Validator |-> IF v \in jailed THEN 3 ELSE 0]
    /\ entries = 3 /\ signing = [v \in Validator |-> 1]

---------------------------------------------------------------------------
(* What the SDK's distribution keeper does in the calls made below. *)

\* IncrementValidatorPeriod: the current period becomes a historical one.
Incremented(r, cur) ==
    [r EXCEPT ![cur - 1] = @ - 1, ![cur] = 1]

IncrementValidatorPeriod(v) ==
    /\ refs' = [refs EXCEPT ![v] = Incremented(@, period[v])]
    /\ period' = [period EXCEPT ![v] = @ + 1]

\* initializeDelegation, right after an increment of the validator's period:
\* the delegation starts at the period that just ended.
InitializeDelegation(d, height, released) ==
    LET v == d.val cur == period[v]
    IN  /\ info' = [info EXCEPT ![d] = [period |-> cur, height |-> height]]
        /\ period' = [period EXCEPT ![v] = @ + 1]
        /\ refs' = [refs EXCEPT ![v] =
              [p \in Period |-> Incremented(@, cur)[p] + One(p = cur) - One(p \in released)]]

---------------------------------------------------------------------------
(* prepForZeroHeightGenesis. *)

Step(from, to) == stage = from /\ stage' = to

\* A loop: visit an element, and go on to the next stage after the last.
Visit(x, from, to, next) ==
    /\ stage = from /\ x \in todo
    /\ stage' = IF todo = {x} THEN to ELSE from
    /\ todo' = IF todo = {x} THEN next ELSE todo \ {x}

Panic(reason) ==
    /\ stage' = "panic" /\ why' = reason
    /\ UNCHANGED <<todo, allowed, dels, money, book, stake>>

\* An address that does not parse ends the program.
ReadAllowed ==
    /\ stage = "start"
    /\ IF 0 \in allowed THEN stage' = "fatal" /\ UNCHANGED todo
                        ELSE stage' = "commissions" /\ todo' = Validator
    /\ UNCHANGED <<why, allowed, dels, money, book, stake>>

\* Defect: commissions are left for the scraps.
WithdrawCommission_Skips(v) ==
    /\ Visit(v, "commissions", "rewards", dels)
    /\ UNCHANGED <<why, allowed, dels, money, book, stake>>

\* A validator without commission makes the keeper return an error.
WithdrawCommission(v) ==
    \/ /\ commission[v] # 0
       /\ Visit(v, "commissions", "rewards", dels)
       /\ paid' = paid + Coins(commission[v])
       /\ outstanding' = [outstanding EXCEPT ![v] = @ - Coins(commission[v])]
       /\ commission' = [commission EXCEPT ![v] = @ - Coins(@)]
       /\ UNCHANGED <<why, allowed, dels, reward, pool, book, stake>>
    \/ /\ stage = "commissions" /\ v \in todo /\ commission[v] = 0
       /\ Panic("no validator commission to withdraw")

\* What is no whole coin goes to the pool; the delegation starts again, and no
\* longer refers to the period where it started before.
WithdrawRewards(d) ==
    /\ Visit(d, "rewards", "clear", {})
    /\ reward' = [reward EXCEPT ![d] = 0]
    /\ paid' = paid + Coins(reward[d])
    /\ pool' = pool + reward[d] - Coins(reward[d])
    /\ outstanding' = [outstanding EXCEPT ![d.val] = @ - reward[d]]
    /\ InitializeDelegation(d, Height, {info[d].period})
    /\ UNCHANGED <<why, allowed, dels, commission, slashes, stake>>

\* Defect: the slash events stay.
Clear_KeepsSlashes ==
    /\ Step("clear", "validators") /\ todo' = Validator
    /\ refs' = [v \in Validator |-> [p \in Period |-> 0]]
    /\ UNCHANGED <<why, allowed, dels, money, period, info, slashes, stake>>

\* DeleteAllValidatorSlashEvents, DeleteAllValidatorHistoricalRewards.
Clear ==
    /\ Step("clear", "validators") /\ todo' = Validator
    /\ slashes' = [v \in Validator |-> {}]
    /\ refs' = [v \in Validator |-> [p \in Period |-> 0]]
    /\ UNCHANGED <<why, allowed, dels, money, period, info, stake>>

\* Defect: the hook runs before the scraps are read.
ReinitValidator_HookFirst(v) ==
    /\ Visit(v, "validators", "delegations", dels)
    /\ outstanding' = [outstanding EXCEPT ![v] = 0]
    /\ commission' = [commission EXCEPT ![v] = 0]
    /\ period' = [period EXCEPT ![v] = 1]
    /\ refs' = [refs EXCEPT ![v][0] = 1]
    /\ UNCHANGED <<why, allowed, dels, pool, reward, paid, info, slashes, stake>>

\* The scraps are donated, then AfterValidatorCreated starts the books afresh.
ReinitValidator(v) ==
    /\ Visit(v, "validators", "delegations", dels)
    /\ pool' = pool + outstanding[v]
    /\ outstanding' = [outstanding EXCEPT ![v] = 0]
    /\ commission' = [commission EXCEPT ![v] = 0]
    /\ period' = [period EXCEPT ![v] = 1]
    /\ refs' = [refs EXCEPT ![v][0] = 1]
    /\ UNCHANGED <<why, allowed, dels, reward, paid, info, slashes, stake>>

\* Defect: the height of the context is not set to zero.
ReinitDelegation_AtHeight(d) ==
    /\ Visit(d, "delegations", "entries", {})
    /\ InitializeDelegation(d, Height, {})
    /\ UNCHANGED <<why, allowed, dels, money, slashes, stake>>

\* BeforeDelegationCreated and AfterDelegationModified, at height zero.
ReinitDelegation(d) ==
    /\ Visit(d, "delegations", "entries", {})
    /\ InitializeDelegation(d, 0, {})
    /\ UNCHANGED <<why, allowed, dels, money, slashes, stake>>

\* The creation heights of redelegations and unbonding delegations.
ResetEntries ==
    /\ Step("entries", "bonds") /\ todo' = Validator
    /\ entries' = 0
    /\ UNCHANGED <<why, allowed, dels, money, book, jailed, indexed, power, unbonding,
                   signing>>

\* Defect: who is allowed out of jail is let out.
ResetBond_Unjails(v) ==
    /\ stage = "bonds" /\ v = Max(todo) /\ Visit(v, "bonds", "updates", {})
    /\ unbonding' = [unbonding EXCEPT ![v] = 0]
    /\ jailed' = IF allowed = {} THEN jailed
                 ELSE IF v \in allowed THEN jailed \ {v} ELSE jailed \cup {v}
    /\ UNCHANGED <<why, allowed, dels, money, book, indexed, power, entries, signing>>

\* Defect: an absent list is taken for a list of nobody.
ResetBond_NoList(v) ==
    /\ stage = "bonds" /\ v = Max(todo) /\ Visit(v, "bonds", "updates", {})
    /\ unbonding' = [unbonding EXCEPT ![v] = 0]
    /\ jailed' = IF v \notin allowed THEN jailed \cup {v} ELSE jailed
    /\ UNCHANGED <<why, allowed, dels, money, book, indexed, power, entries, signing>>

\* From the last key back.  The address is the key without its first byte: if
\* the key has a length there too, no validator is found.
ResetBond(v) ==
    /\ stage = "bonds" /\ v = Max(todo)
    /\ IF LengthPrefixed
       THEN Panic("expected validator, not found")
       ELSE /\ Visit(v, "bonds", "updates", {})
            /\ unbonding' = [unbonding EXCEPT ![v] = 0]
            /\ jailed' = IF allowed # {} /\ v \notin allowed THEN jailed \cup {v} ELSE jailed
            /\ UNCHANGED <<why, allowed, dels, money, book, indexed, power, entries, signing>>

\* The order of the power index: by power, and then by address.
Ahead(u, v) == power[u] > power[v] \/ (power[u] = power[v] /\ u < v)

\* ApplyAndReturnValidatorSetUpdates goes through the index until it has bonded
\* MaxValidators or has met one without power: does it get as far as v?
Reached(v) ==
    LET before == {u \in indexed : Ahead(u, v)}
    IN  v \in indexed /\ Cardinality(before) < MaxValidators /\ \A u \in before : power[u] > 0

\* It takes every validator it reaches for unjailed.  Whom it bonds was bonded
\* before, since index and powers are those of the last commit, so that no
\* validator changes its status and the keeper returns no error.
ApplyUpdates ==
    /\ stage = "updates"
    /\ IF \E v \in jailed : Reached(v)
       THEN Panic("should never retrieve a jailed validator from the power store")
       ELSE /\ stage' = "signing"
            /\ UNCHANGED <<todo, why, allowed, dels, money, book, stake>>

ResetSigning ==
    /\ Step("signing", "done")
    /\ signing' = [v \in Validator |-> 0]
    /\ UNCHANGED <<todo, why, allowed, dels, money, book, jailed, indexed, power, unbonding,
                   entries>>

Terminated == stage \in {"done", "fatal", "panic"} /\ UNCHANGED vars

Next ==
    \/ ReadAllowed
    \/ \E v \in Validator : WithdrawCommission(v)
    \/ \E d \in dels : WithdrawRewards(d)
    \/ Clear
    \/ \E v \in Validator : ReinitValidator(v)
    \/ \E d \in dels : ReinitDelegation(d)
    \/ ResetEntries
    \/ \E v \in Validator : ResetBond(v)
    \/ ApplyUpdates
    \/ ResetSigning
    \/ Terminated

Spec == Init /\ [][Next]_vars

---------------------------------------------------------------------------
(* Properties. *)

\* Money is neither made nor lost: what leaves a validator's outstanding rewards
\* is paid out or donated to the community pool, whatever the order of the loops.
MoneyConserved ==
    [][pool' + paid' + Sum(outstanding', Validator)
          = pool + paid + Sum(outstanding, Validator)]_vars

\* At the end nobody is owed anything, accounts were paid whole coins, and the
\* pool got of each commission and each reward less than a coin.
SettledUp ==
    stage = "done" =>
        /\ \A v \in Validator : outstanding[v] = 0 /\ commission[v] = 0
        /\ paid % Unit = 0
        /\ pool <= (Unit - 1) * (N + Cardinality(dels))

\* The SDK's reference-count invariant, period by period: each historical period
\* is counted exactly as often as delegations, slashes and the current period
\* refer to it - while rewards are withdrawn, and again as the books are rebuilt.
ReferencesExact ==
    LET started == CASE stage = "delegations" -> dels \ todo
                     [] stage = "validators" -> {}
                     [] OTHER -> dels
    IN  \A v \in Validator :
            stage = "clear" \/ (stage = "validators" /\ v \in todo)
                \/ \A p \in Period : refs[v][p] = References(v, p, started)

\* At the end the delegations' starting heights, the validators' unbonding heights,
\* the entries' creation heights and the start heights of signing are all zero.
StartsAtZero ==
    stage = "done" =>
        /\ \A d \in dels : info[d].height = 0
        /\ \A v \in Validator : unbonding[v] = 0 /\ signing[v] = 0
        /\ entries = 0

\* The first MaxValidators of S with power.
Bonded(S) ==
    {v \in S : power[v] > 0 /\ Cardinality({u \in S : Ahead(u, v)}) < MaxValidators}

\* The validators exported as bonded, which are those of the old power index, are
\* the ones that the new chain, which indexes whom it finds out of jail, would bond;
\* and if a list was given only those on it are out of jail.  A validator that was
\* jailed further down the index than the update looks is no exception.
SameBonded ==
    stage = "done" =>
        /\ Bonded(indexed) = Bonded(Validator \ jailed)
        /\ allowed # {} => Validator \ jailed \subseteq allowed

\* The export fails for two reasons only: a validator has no commission, or the
\* list leaves out a validator that is not in jail and that the update reaches -
\* and, with keys that hold a length, for a third, that the bond loop finds no
\* validator.
FailsOnlyFor ==
    stage = "panic" =>
        \/ why = "no validator commission to withdraw"
           /\ \E v \in Validator : commission[v] = 0
        \/ why = "should never retrieve a jailed validator from the power store"
           /\ allowed # {} /\ \E v \in indexed \ allowed : Reached(v)
        \/ why = "expected validator, not found" /\ LengthPrefixed

---------------------------------------------------------------------------
(* What comments and assertions of app/export.go say. *)

\* "withdraw all validator commission": that step does not fail an export.
CommissionNeverFails == why # "no validator commission to withdraw"

\* "expected validator, not found" is an assertion: the bond loop finds them all.
ValidatorFound == why # "expected validator, not found"
=============================================================================
