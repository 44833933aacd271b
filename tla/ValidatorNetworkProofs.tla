---------------------- MODULE ValidatorNetworkProofs ----------------------
(***************************************************************************)
(* What ValidatorNetwork promises for every number of validators, edits    *)
(* and faults.  First type correctness; then the order of configuration    *)
(* and ceremony (PhaseInv), on which the key invariant (KeyInv) and the    *)
(* action property WipeQuiescent rest; then what the hosts' documents can  *)
(* be (DocInv), what a ceremony collects and delivers (GentxInv,           *)
(* CeremonyInv) and when a daemon starts (StartInv), from which it follows *)
(* that the daemons agree, and that the deployment implements              *)
(* GenesisSource.                                                          *)
(***************************************************************************)
EXTENDS ValidatorNetwork, TLAPS

\* Empty homes and absent genesis files are of their types.
LEMMA EmptyTypes == NoGenesis \in Genesis /\ EmptyHome \in Home
BY DEF NoGenesis, EmptyHome, Genesis, Home

\* A home with a new key and genesis file is a home.
LEMMA HomeInit ==
    ASSUME NEW h \in Home, NEW k \in Nat, NEW g \in Genesis
    PROVE  [h EXCEPT !.key = k, !.genesis = g] \in Home
BY DEF Home

\* So is one whose genesis file holds other genesis transactions.
LEMMA HomeCollected ==
    ASSUME NEW h \in Home, NEW txs \in SUBSET Gentx
    PROVE  [h EXCEPT !.genesis.txs = txs] \in Home
<1>1. [h.genesis EXCEPT !.txs = txs] \in Genesis
  BY DEF Home, Genesis
<1> QED
  BY <1>1 DEF Home

\* The primary and every member are nodes.
LEMMA MembersAreNodes ==
    ASSUME size \in 0 .. MaxValidators
    PROVE  Members \subseteq Node /\ Secondaries \subseteq Members /\ Primary \in Node
BY ValidatorAssumption DEF Members, Secondaries, Node, Primary

---------------------------------------------------------------------------
\* Types are right initially.
LEMMA TypeInit == Init => TypeOK
<1> SUFFICES ASSUME Init PROVE TypeOK
  OBVIOUS
<1>1. size \in 0 .. MaxValidators /\ version \in 0 .. MaxVersion
  BY ValidatorAssumption DEF Init
<1>2. /\ cfg \in [Node -> Settled \cup ConfigSteps]
      /\ start \in [Node -> Settled \cup StartSteps]
      /\ unit \in [Node -> UnitStates]
      /\ gen \in Settled \cup CeremonySteps
  BY DEF Init, Settled, UnitStates
<1>3. home \in [Node -> Home] /\ daemon \in [Node -> Genesis] /\ staged \in Genesis
  BY EmptyTypes DEF Init
<1>4. ran \in SUBSET (Nat \X Genesis) /\ gathered \in SUBSET Gentx
  BY DEF Init
<1> QED
  BY <1>1, <1>2, <1>3, <1>4 DEF Init, TypeOK

\* Every step keeps them so.
LEMMA TypeStep == TypeOK /\ [Next]_vars => TypeOK'
<1> SUFFICES ASSUME TypeOK, [Next]_vars PROVE TypeOK'
  OBVIOUS
<1> USE EmptyTypes, ValidatorAssumption, MembersAreNodes
<1>1. ASSUME NEW k \in Counts \cup {size}, NEW v \in {version, version + 1},
             v <= MaxVersion, Apply(k, v)
      PROVE  TypeOK'
  <2>1. size' \in 0 .. MaxValidators /\ version' \in 0 .. MaxVersion /\ applying' \in BOOLEAN
    <3>1. size' = k /\ version' = v /\ applying' = TRUE
      BY <1>1 DEF Apply
    <3>2. k \in 0 .. MaxValidators
      BY DEF TypeOK
    <3>3. v \in 0 .. MaxVersion
      BY <1>1 DEF TypeOK
    <3> QED
      BY <3>1, <3>2, <3>3
  <2>2. /\ cfg' \in [Node -> Settled \cup ConfigSteps]
        /\ start' \in [Node -> Settled \cup StartSteps]
        /\ gen' \in Settled \cup CeremonySteps
    BY <1>1 DEF Apply, TypeOK, Settled
  <2> QED
    BY <1>1, <2>1, <2>2 DEF Apply, TypeOK, copyVars, hostVars
<1>2. CASE EndApply
  BY <1>2 DEF EndApply, TypeOK, copyVars, hostVars
<1>3. ASSUME NEW n \in Node, Terminate(n) PROVE TypeOK'
  BY <1>3 DEF Terminate, TypeOK, tfVars, copyVars, UnitStates
<1>4. ASSUME NEW n \in Node, Configure(n) PROVE TypeOK'
  <2>1. CASE Upload(n)
    BY <2>1 DEF Upload, ConfigStep, TypeOK, copyVars, hostVars, ConfigSteps
  <2>2. CASE StopService(n)
    BY <2>2 DEF StopService, ConfigStep, TypeOK, copyVars, ConfigSteps, UnitStates
  <2>3. CASE KillDaemon(n)
    BY <2>3 DEF KillDaemon, ConfigStep, TypeOK, copyVars, ConfigSteps, UnitStates,
                UnitWithoutDaemon
  <2>4. CASE Wipe(n)
    BY <2>4 DEF Wipe, ConfigStep, TypeOK, copyVars, ConfigSteps
  <2>5. CASE InitHome(n)
    <3>1. home' \in [Node -> Home]
      <4> DEFINE g == [base |-> lastKey + 1, txs |-> {}]
      <4>1. g \in Genesis /\ lastKey + 1 \in Nat
        BY DEF TypeOK, Genesis
      <4>2. [home[n] EXCEPT !.key = lastKey + 1, !.genesis = g] \in Home
        BY <4>1, HomeInit DEF TypeOK
      <4> QED
        BY <2>5, <4>2 DEF InitHome, TypeOK
    <3> QED
      BY <2>5, <3>1 DEF InitHome, ConfigStep, TypeOK, copyVars, ConfigSteps
  <2>6. CASE InstallUnit(n)
    BY <2>6 DEF InstallUnit, ConfigStep, TypeOK, copyVars, ConfigSteps, UnitStates
  <2>7. CASE GenerateGentx(n)
    BY <2>7 DEF GenerateGentx, ConfigStep, TypeOK, copyVars, Settled, Home, Gentx
  <2> QED
    BY <1>4, <2>1, <2>2, <2>3, <2>4, <2>5, <2>6, <2>7 DEF Configure
<1>5. CASE BeginCeremony
  BY <1>5 DEF BeginCeremony, CeremonyAt, TypeOK, hostVars, CeremonySteps
<1>6. ASSUME NEW ok \in BOOLEAN, Gather(ok) PROVE TypeOK'
  BY <1>6 DEF Gather, CeremonyAt, TypeOK, hostVars, CeremonySteps, Fault, Home
<1>7. ASSUME NEW arrived \in SUBSET gathered, Push(arrived) PROVE TypeOK'
  <2>1. home' \in [Node -> Home]
    <3>1. /\ home[Primary] \in Home
          /\ Overlay(home[Primary].gentx, arrived) \in SUBSET Gentx
      BY <1>7 DEF TypeOK, Home, Overlay
    <3>2. [home[Primary] EXCEPT !.gentx = Overlay(@, arrived)] \in Home
      BY <3>1 DEF Home
    <3> QED
      BY <1>7, <3>2 DEF Push, SetPrimary, TypeOK
  <2>2. gen' \in Settled \cup CeremonySteps /\ faults' \in Nat
    BY <1>7 DEF Push, CeremonyAt, Fault, TypeOK, CeremonySteps, Settled
  <2>3. UNCHANGED <<unit, enabled, daemon, lastKey, booted, survivors, ran, copyVars>>
    BY <1>7 DEF Push, SetPrimary
  <2> QED
    BY <1>7, <2>1, <2>2, <2>3 DEF Push, CeremonyAt, TypeOK, copyVars
<1>8. CASE Collect
  BY <1>8 DEF Collect, CeremonyAt, TypeOK, copyVars, CeremonySteps, Settled,
              SetPrimary, Home, Genesis
<1>9. ASSUME NEW done \in BOOLEAN, DropCollect(done) PROVE TypeOK'
  <2>1. home' \in [Node -> Home]
    <3>1. home[Primary] \in Home /\ home[Primary].gentx \in SUBSET Gentx
      BY DEF TypeOK, Home
    <3>2. [home[Primary] EXCEPT !.genesis.txs = home[Primary].gentx] \in Home
      BY <3>1, HomeCollected
    <3> QED
      BY <1>9, <3>2 DEF DropCollect, SetPrimary, hostVars, TypeOK
  <2>2. gen' = "tainted" /\ faults' \in Nat
    BY <1>9 DEF DropCollect, CeremonyAt, Fault, TypeOK
  <2>3. UNCHANGED <<unit, enabled, daemon, lastKey, booted, survivors, ran>>
    BY <1>9 DEF DropCollect, SetPrimary, hostVars
  <2> QED
    BY <1>9, <2>1, <2>2, <2>3 DEF DropCollect, CeremonyAt, TypeOK, copyVars, Settled
<1>10. CASE Fetch
  BY <1>10 DEF Fetch, CeremonyAt, TypeOK, hostVars, CeremonySteps, Home
<1>11. ASSUME NEW ok \in BOOLEAN, Distribute(ok) PROVE TypeOK'
  <2>1. next \in Node
    BY <1>11 DEF Distribute, TypeOK
  <2>2. home' \in [Node -> Home]
    <3>1. home[next] \in Home /\ staged \in Genesis
      BY <2>1 DEF TypeOK
    <3>2. [home[next] EXCEPT !.genesis = staged] \in Home
      BY <3>1 DEF Home
    <3> QED
      BY <1>11, <2>1, <3>2 DEF Distribute, TypeOK
  <2>3. undelivered' \in SUBSET Node
    BY <1>11, <2>1 DEF Distribute, TypeOK
  <2>4. faults' \in Nat
    BY <1>11 DEF Distribute, TypeOK, Fault
  <2> QED
    BY <1>11, <2>2, <2>3, <2>4 DEF Distribute, CeremonyAt, TypeOK, CeremonySteps, Settled
<1>12. ASSUME NEW n \in Node, StartValidator(n) PROVE TypeOK'
  BY <1>12 DEF StartValidator, RestartService, EnableService, StartStep, TypeOK,
               copyVars, StartSteps, Settled, UnitStates
<1>13. ASSUME NEW n \in Node, Launch(n) PROVE TypeOK'
  <2> DEFINE g == Effective(home[n])
  <2>1. g \in Genesis /\ home[n].key \in Nat
    BY DEF Effective, TypeOK, Home
  <2>2. home' \in [Node -> Home]
    BY <1>13, <2>1 DEF Launch, TypeOK, Home
  <2>3. unit' \in [Node -> UnitStates] /\ daemon' \in [Node -> Genesis]
    BY <1>13, <2>1, EmptyTypes DEF Launch, TypeOK, UnitStates
  <2>4. ran' \in SUBSET (Nat \X Genesis)
    BY <1>13, <2>1 DEF Launch, TypeOK
  <2> QED
    BY <1>13, <2>2, <2>3, <2>4 DEF Launch, TypeOK, tfVars, copyVars
<1>14. ASSUME NEW n \in Node, RestartAfterFailure(n) PROVE TypeOK'
  BY <1>14 DEF RestartAfterFailure, TypeOK, tfVars, copyVars, UnitStates
<1>15. ASSUME NEW n \in Node, SkipKill(n) \/ DropConfigure(n) \/ DropStart(n) PROVE TypeOK'
  BY <1>15 DEF SkipKill, DropConfigure, DropStart, StartStep, Fault, TypeOK, copyVars,
               hostVars, Settled, ConfigSteps
<1>16. ASSUME NEW n \in Node, Crash(n) PROVE TypeOK'
  BY <1>16 DEF Crash, Fault, TypeOK, tfVars, copyVars, UnitStates, UnitWithoutDaemon
<1>17. ASSUME NEW n \in Node, Reboot(n) PROVE TypeOK'
  BY <1>17 DEF Reboot, Fault, TypeOK, copyVars, UnitStates, Settled
<1>18. CASE UNCHANGED vars
  BY <1>18 DEF vars, tfVars, copyVars, hostVars, TypeOK
<1> QED
  BY <1>1, <1>2, <1>3, <1>4, <1>5, <1>6, <1>7, <1>8, <1>9, <1>10, <1>11, <1>12,
     <1>13, <1>14, <1>15, <1>16, <1>17, <1>18
  DEF Next, Operator, Ceremony, Mishap, Systemd

\* Every reachable state is well typed.
THEOREM TypeCorrect == Spec => []TypeOK
BY TypeInit, TypeStep, PTL DEF Spec

---------------------------------------------------------------------------
\* The order of the phases: the ceremony runs only over configured members, a
\* home past its init has a key, and what configure_client is about to wipe is
\* at rest.
PhaseInv ==
    /\ gen \in CeremonySteps \cup {"created"} => size > 0 /\ AllConfigured
    /\ \A n \in Node \ Members : cfg[n] = "absent"
    /\ \A n \in Node : cfg[n] \in {"unit", "gentx", "created"} => home[n].key # 0
    /\ \A n \in Node : home[n].key = 0 => home[n] = EmptyHome
    /\ \A n \in Node : cfg[n] \in {"kill", "wipe", "init", "unit", "gentx"} =>
                           unit[n] \in {"none", "inactive"}
    /\ \A n \in Node \ survivors : cfg[n] \in {"wipe", "init", "unit", "gentx"} => ~Live(n)

\* No two homes share a key, and what ran with the key of a home is what the
\* database of that home keeps.
KeyInv ==
    /\ \A n \in Node : home[n].key <= lastKey
    /\ \A m, n \in Node : m # n /\ home[m].key = home[n].key => home[m].key = 0
    /\ \A p \in ran : p[1] # 0 /\ p[1] <= lastKey /\ p[2] # NoGenesis
    /\ \A p \in ran, n \in Node : p[1] = home[n].key => p[2] = home[n].pinned
    /\ KeyOneGenesis

---------------------------------------------------------------------------
\* The phases are in order initially.
LEMMA PhaseInit == Init => PhaseInv
BY DEF Init, PhaseInv, CeremonySteps, Live

\* Every step keeps them in order.
LEMMA PhaseStep == TypeOK /\ PhaseInv /\ [Next]_vars => PhaseInv'
<1> SUFFICES ASSUME TypeOK, PhaseInv, [Next]_vars PROVE PhaseInv'
  OBVIOUS
<1> USE ValidatorAssumption, MembersAreNodes
<1>1. ASSUME NEW k \in Counts \cup {size}, NEW v \in {version, version + 1},
             v <= MaxVersion, Apply(k, v)
      PROVE  PhaseInv'
  <2>1. k \in 0 .. MaxValidators
    BY DEF TypeOK
  <2>2. \A n \in Node : cfg'[n] \in {cfg[n], "absent"}
    BY <1>1 DEF Apply
  <2>3. \A n \in Node \ Members' : cfg'[n] = "absent"
    BY <1>1, <2>1 DEF Apply, Members, Node
  <2>4. gen' \in CeremonySteps \cup {"created"} => size' > 0 /\ AllConfigured'
    <3> SUFFICES ASSUME gen' # "absent"
                 PROVE  size' > 0 /\ \A n \in Members' : cfg'[n] = "created"
      BY DEF AllConfigured, CeremonySteps
    <3>1. k # 0 /\ {n \in 0 .. k - 1 : cfg[n] # "created" \/ cfgVersion[n] # v} = {}
      BY <1>1 DEF Apply
    <3>2. \A n \in 0 .. k - 1 : n \in Node /\ cfg'[n] = "created"
      BY <1>1, <2>1, <3>1 DEF Apply, Node
    <3> QED
      BY <1>1, <2>1, <3>1, <3>2 DEF Apply, Members
  <2> QED
    BY <1>1, <2>2, <2>3, <2>4 DEF Apply, PhaseInv, Live, hostVars
<1>2. CASE EndApply
  BY <1>2 DEF EndApply, PhaseInv, Live, hostVars, AllConfigured, Members
<1>3. ASSUME NEW n \in Node, Terminate(n) PROVE PhaseInv'
  BY <1>3 DEF Terminate, Doomed, PhaseInv, Live, tfVars, AllConfigured, Members, TypeOK,
              EmptyHome
<1>4. ASSUME NEW n \in Node, Configure(n) PROVE PhaseInv'
  <2>1. CASE Upload(n)
    BY <2>1 DEF Upload, ConfigStep, PhaseInv, TypeOK, hostVars, AllConfigured, Members, Live
  <2>2. CASE StopService(n)
    BY <2>2 DEF StopService, ConfigStep, PhaseInv, TypeOK, AllConfigured, Members, Live,
                UnitStates
  <2>3. CASE KillDaemon(n)
    BY <2>3 DEF KillDaemon, ConfigStep, PhaseInv, TypeOK, AllConfigured, Members, Live,
                UnitWithoutDaemon
  <2>4. CASE Wipe(n)
    BY <2>4 DEF Wipe, ConfigStep, PhaseInv, TypeOK, AllConfigured, Members, Live, EmptyHome
  <2>5. CASE InitHome(n)
    BY <2>5 DEF InitHome, ConfigStep, PhaseInv, TypeOK, AllConfigured, Members, Live, Home
  <2>6. CASE InstallUnit(n)
    BY <2>6 DEF InstallUnit, ConfigStep, PhaseInv, TypeOK, AllConfigured, Members, Live
  <2>7. CASE GenerateGentx(n)
    BY <2>7 DEF GenerateGentx, ConfigStep, PhaseInv, TypeOK, AllConfigured, Members, Live,
                Home
  <2> QED
    BY <1>4, <2>1, <2>2, <2>3, <2>4, <2>5, <2>6, <2>7 DEF Configure
<1>5. CASE BeginCeremony
  BY <1>5 DEF BeginCeremony, CeremonyAt, PhaseInv, hostVars, AllConfigured, Members, Live
<1>6. ASSUME NEW ok \in BOOLEAN, Gather(ok) PROVE PhaseInv'
  BY <1>6 DEF Gather, CeremonyAt, PhaseInv, hostVars, AllConfigured, Members, Live,
              CeremonySteps
<1>7. ASSUME NEW arrived \in SUBSET gathered, Push(arrived) PROVE PhaseInv'
  BY <1>7 DEF Push, CeremonyAt, SetPrimary, PhaseInv, TypeOK, AllConfigured, Members, Live,
              CeremonySteps, Home, Primary
<1>8. CASE Collect
  BY <1>8 DEF Collect, CeremonyAt, SetPrimary, PhaseInv, TypeOK, AllConfigured, Members,
              Live, CeremonySteps, Home, Primary
<1>9. ASSUME NEW done \in BOOLEAN, DropCollect(done) PROVE PhaseInv'
  <2>1. gen' = "tainted" /\ UNCHANGED <<size, cfg, unit, daemon, survivors>>
    BY <1>9 DEF DropCollect, CeremonyAt, SetPrimary, hostVars
  <2>2. \A n \in Node : home'[n].key = home[n].key /\ (home[n].key = 0 => home'[n] = home[n])
    <3>1. CASE done
      <4>1. /\ home' = [home EXCEPT ![Primary] =
                          [home[Primary] EXCEPT !.genesis.txs = home[Primary].gentx]]
            /\ gen = "collect"
        BY <1>9, <3>1 DEF DropCollect, SetPrimary, CeremonyAt
      <4>2. home[Primary].key # 0
        BY <4>1, ValidatorAssumption
           DEF PhaseInv, TypeOK, AllConfigured, Members, CeremonySteps, Primary
      <4> QED
        BY <4>1, <4>2 DEF TypeOK, Home
    <3>2. CASE ~done
      BY <1>9, <3>2 DEF DropCollect, hostVars
    <3> QED
      BY <3>1, <3>2
  <2> QED
    BY <2>1, <2>2 DEF PhaseInv, AllConfigured, Members, Live, CeremonySteps
<1>10. CASE Fetch
  BY <1>10 DEF Fetch, CeremonyAt, PhaseInv, hostVars, AllConfigured, Members, Live,
              CeremonySteps
<1>11. ASSUME NEW ok \in BOOLEAN, Distribute(ok) PROVE PhaseInv'
  <2>1. next \in Node /\ home[next].key # 0
    BY <1>11 DEF Distribute, CeremonyAt, PhaseInv, TypeOK, AllConfigured, CeremonySteps
  <2>2. \A n \in Node : home'[n].key = home[n].key /\ (n # next => home'[n] = home[n])
    BY <1>11, <2>1 DEF Distribute, TypeOK, Home
  <2>3. gen' \in CeremonySteps \cup {"created"} => size' > 0 /\ AllConfigured'
    BY <1>11 DEF Distribute, CeremonyAt, PhaseInv, AllConfigured, Members, CeremonySteps
  <2> QED
    BY <1>11, <2>1, <2>2, <2>3 DEF Distribute, CeremonyAt, PhaseInv, Members, Live
<1>12. ASSUME NEW n \in Node, StartValidator(n) PROVE PhaseInv'
  BY <1>12 DEF StartValidator, RestartService, EnableService, StartStep, PhaseInv, TypeOK,
               AllConfigured, Members, Live
<1>13. ASSUME NEW n \in Node, Launch(n) PROVE PhaseInv'
  <2>1. \A m \in Node : home'[m].key = home[m].key /\ (m # n => home'[m] = home[m])
    BY <1>13 DEF Launch, TypeOK, Home
  <2>2. home[n].key = 0 => home'[n] = EmptyHome
    <3> SUFFICES ASSUME home[n].key = 0 PROVE home'[n] = EmptyHome
      OBVIOUS
    <3>1. home[n] = EmptyHome
      BY DEF PhaseInv
    <3>2. Effective(EmptyHome) = NoGenesis
      BY DEF Effective, EmptyHome
    <3>3. home'[n] = [EmptyHome EXCEPT !.pinned = NoGenesis]
      BY <1>13, <3>1, <3>2 DEF Launch, TypeOK
    <3> QED
      BY <3>3 DEF EmptyHome
  <2>3. cfg[n] \notin {"kill", "wipe", "init", "unit", "gentx"}
    BY <1>13 DEF Launch, PhaseInv
  <2> QED
    BY <1>13, <2>1, <2>2, <2>3 DEF Launch, PhaseInv, TypeOK, tfVars, AllConfigured, Members,
                                   Live
<1>14. ASSUME NEW n \in Node, RestartAfterFailure(n) PROVE PhaseInv'
  BY <1>14 DEF RestartAfterFailure, PhaseInv, TypeOK, tfVars, AllConfigured, Members, Live
<1>15. ASSUME NEW n \in Node, SkipKill(n) \/ DropConfigure(n) \/ DropStart(n)
       PROVE  PhaseInv'
  BY <1>15 DEF SkipKill, DropConfigure, DropStart, StartStep, PhaseInv, TypeOK, hostVars,
               AllConfigured, Members, Live, ConfigSteps
<1>16. ASSUME NEW n \in Node, Crash(n) PROVE PhaseInv'
  BY <1>16 DEF Crash, PhaseInv, TypeOK, tfVars, AllConfigured, Members, Live,
               UnitWithoutDaemon
<1>17. ASSUME NEW n \in Node, Reboot(n) PROVE PhaseInv'
  BY <1>17 DEF Reboot, PhaseInv, TypeOK, AllConfigured, Members, Live, ConfigSteps,
               CeremonySteps
<1>18. CASE UNCHANGED vars
  BY <1>18 DEF vars, tfVars, copyVars, hostVars, PhaseInv, AllConfigured, Members, Live
<1> QED
  BY <1>1, <1>2, <1>3, <1>4, <1>5, <1>6, <1>7, <1>8, <1>9, <1>10, <1>11, <1>12,
     <1>13, <1>14, <1>15, <1>16, <1>17, <1>18
  DEF Next, Operator, Ceremony, Mishap, Systemd

---------------------------------------------------------------------------
\* Keys are in order initially.
LEMMA KeyInit == Init => KeyInv
BY DEF Init, KeyInv, KeyOneGenesis, EmptyHome

\* What a step must do to homes for the keys to stay in order: keep keys and
\* pinned genesis files, and run nothing new.
LEMMA KeyFrame ==
    ASSUME TypeOK, KeyInv, UNCHANGED <<lastKey, ran>>,
           \A n \in Node : home'[n].key = home[n].key /\ home'[n].pinned = home[n].pinned
    PROVE  KeyInv'
BY DEF KeyInv, KeyOneGenesis

\* Every step keeps the keys in order.
LEMMA KeyStep == TypeOK /\ PhaseInv /\ KeyInv /\ [Next]_vars => KeyInv'
<1> SUFFICES ASSUME TypeOK, PhaseInv, KeyInv, [Next]_vars PROVE KeyInv'
  OBVIOUS
<1> USE ValidatorAssumption, MembersAreNodes
<1>1. CASE UNCHANGED <<home, lastKey, ran>>
  BY <1>1, KeyFrame
<1>2. ASSUME NEW n \in Node, home' = [home EXCEPT ![n] = EmptyHome], UNCHANGED <<lastKey, ran>>
      PROVE  KeyInv'
  BY <1>2 DEF KeyInv, KeyOneGenesis, TypeOK, EmptyHome, Home
<1>3. ASSUME NEW n \in Node, InitHome(n) PROVE KeyInv'
  <2>1. home'[n].key = lastKey + 1 /\ home'[n].pinned = home[n].pinned
    BY <1>3 DEF InitHome, TypeOK, Home
  <2>2. \A m \in Node \ {n} : home'[m] = home[m]
    BY <1>3 DEF InitHome, TypeOK
  <2>3. lastKey' = lastKey + 1 /\ ran' = ran /\ lastKey \in Nat
    BY <1>3 DEF InitHome, TypeOK
  <2>4. \A m \in Node : home[m].key \in Nat
    BY DEF TypeOK, Home
  <2>5. \A p \in ran : p[1] \in Nat
    BY DEF TypeOK
  <2> QED
    BY <2>1, <2>2, <2>3, <2>4, <2>5 DEF KeyInv, KeyOneGenesis
<1>4. ASSUME NEW n \in Node, GenerateGentx(n) PROVE KeyInv'
  BY <1>4, KeyFrame DEF GenerateGentx, TypeOK, Home
<1>5. ASSUME NEW arrived \in SUBSET gathered, Push(arrived) PROVE KeyInv'
  BY <1>5, KeyFrame DEF Push, SetPrimary, TypeOK, Home
<1>6. CASE Collect
  BY <1>6, KeyFrame DEF Collect, SetPrimary, TypeOK, Home
<1>7. ASSUME NEW done \in BOOLEAN, DropCollect(done) PROVE KeyInv'
  BY <1>7, KeyFrame DEF DropCollect, SetPrimary, hostVars, TypeOK, Home
<1>8. ASSUME NEW ok \in BOOLEAN, Distribute(ok) PROVE KeyInv'
  BY <1>8, KeyFrame DEF Distribute, TypeOK, Home
<1>9. ASSUME NEW n \in Node, Launch(n) PROVE KeyInv'
  <2> DEFINE g == Effective(home[n])
  <2>1. \A m \in Node : home'[m].key = home[m].key
    BY <1>9 DEF Launch, TypeOK, Home
  <2>2. home'[n].pinned = g /\ \A m \in Node \ {n} : home'[m].pinned = home[m].pinned
    BY <1>9 DEF Launch, TypeOK, Home
  <2>3. home[n].pinned # NoGenesis => home'[n].pinned = home[n].pinned
    BY <2>2 DEF Effective
  <2>4. CASE g.txs = {}
    <3>1. UNCHANGED <<lastKey, ran>>
      BY <1>9, <2>4 DEF Launch
    <3> QED
      BY <2>1, <2>2, <2>3, <3>1 DEF KeyInv, KeyOneGenesis
  <2>5. CASE g.txs # {}
    <3>1. lastKey' = lastKey /\ ran' = ran \cup {<<home[n].key, g>>}
      BY <1>9, <2>5 DEF Launch
    <3>2. home[n].key # 0 /\ g # NoGenesis
      BY <2>5 DEF PhaseInv, EmptyHome, Effective, NoGenesis
    <3>3. \A p \in ran : p[1] = home[n].key => p[2] = g
      BY <2>2, <2>3 DEF KeyInv
    <3> QED
      BY <2>1, <2>2, <2>3, <3>1, <3>2, <3>3 DEF KeyInv, KeyOneGenesis
  <2> QED
    BY <2>4, <2>5
<1>10. ASSUME NEW n \in Node, Configure(n) PROVE KeyInv'
  BY <1>1, <1>2, <1>3, <1>4, <1>10
     DEF Configure, Upload, StopService, KillDaemon, Wipe, InstallUnit, hostVars
<1>11. ASSUME NEW n \in Node, Terminate(n) PROVE KeyInv'
  BY <1>2, <1>11 DEF Terminate
<1>12. ASSUME NEW n \in Node,
             \/ StartValidator(n) \/ RestartAfterFailure(n) \/ SkipKill(n)
             \/ DropConfigure(n) \/ DropStart(n) \/ Crash(n) \/ Reboot(n)
       PROVE KeyInv'
  BY <1>1, <1>12 DEF StartValidator, RestartService, EnableService, RestartAfterFailure,
                     SkipKill, DropConfigure, DropStart, Crash, Reboot, hostVars
<1>13. CASE Operator \/ EndApply \/ BeginCeremony \/ Fetch \/ UNCHANGED vars
  BY <1>1, <1>13 DEF Operator, Apply, EndApply, BeginCeremony, Fetch, vars, hostVars
<1>14. ASSUME NEW ok \in BOOLEAN, Gather(ok) PROVE KeyInv'
  BY <1>1, <1>14 DEF Gather, hostVars
<1> QED
  BY <1>5, <1>6, <1>7, <1>8, <1>9, <1>10, <1>11, <1>12, <1>13, <1>14
  DEF Next, Ceremony, Mishap, Systemd

---------------------------------------------------------------------------
\* What the steps that write into a home leave of it.

\* The gentx of this home, and the two genesis documents a host holds.
Own(n)  == [node |-> n, key |-> home[n].key]
Docs(n) == {home[n].genesis, home[n].pinned}

\* The host is past the wipe of the configuration under way, or configured.
Configured(n) == cfg[n] \in {"init", "unit", "gentx", "created"}

\* Nothing but config/gentx/ of home n is touched.
OnlyGentx(n) ==
    /\ \A m \in Node : /\ home'[m].key = home[m].key
                       /\ home'[m].genesis = home[m].genesis
                       /\ home'[m].pinned = home[m].pinned
    /\ \A m \in Node \ {n} : home'[m] = home[m]

\* Nothing but config/genesis.json of home n is touched.
OnlyGenesis(n) ==
    /\ \A m \in Node : /\ home'[m].key = home[m].key
                       /\ home'[m].gentx = home[m].gentx
                       /\ home'[m].pinned = home[m].pinned
    /\ \A m \in Node \ {n} : home'[m] = home[m]

\* configure-validator.sh and generate-gentx.sh.
LEMMA ShapeConfigure ==
    ASSUME TypeOK, NEW n \in Node
    PROVE  /\ InitHome(n) =>
                /\ home'[n].genesis = [base |-> lastKey + 1, txs |-> {}]
                /\ home'[n].pinned = home[n].pinned
                /\ \A m \in Node \ {n} : home'[m] = home[m]
           /\ GenerateGentx(n) =>
                OnlyGentx(n) /\ home'[n].gentx = {Own(n)}
<1>1. InitHome(n) => /\ home'[n].genesis = [base |-> lastKey + 1, txs |-> {}]
                     /\ home'[n].pinned = home[n].pinned
                     /\ \A m \in Node \ {n} : home'[m] = home[m]
  BY DEF InitHome, TypeOK, Home
<1>2. GenerateGentx(n) => OnlyGentx(n) /\ home'[n].gentx = {Own(n)}
  BY DEF GenerateGentx, TypeOK, Home, OnlyGentx, Own
<1> QED
  BY <1>1, <1>2

\* The copy to the primary, and the collection there.
LEMMA ShapePrimary ==
    ASSUME TypeOK
    PROVE  /\ \A arrived \in SUBSET gathered : Push(arrived) =>
                /\ OnlyGentx(Primary)
                /\ home'[Primary].gentx = Overlay(home[Primary].gentx, arrived)
           /\ \A done \in BOOLEAN : Collect \/ DropCollect(done) =>
                /\ OnlyGenesis(Primary)
                /\ home'[Primary].genesis.base = home[Primary].genesis.base
           /\ Collect => home'[Primary].genesis.txs = home[Primary].gentx
<1> USE MembersAreNodes DEF TypeOK
<1>1. ASSUME NEW arrived \in SUBSET gathered, Push(arrived)
      PROVE  /\ OnlyGentx(Primary)
             /\ home'[Primary].gentx = Overlay(home[Primary].gentx, arrived)
  BY <1>1 DEF Push, SetPrimary, Home, OnlyGentx
<1>2. ASSUME home' = [home EXCEPT ![Primary] =
                        [home[Primary] EXCEPT !.genesis.txs = home[Primary].gentx]]
      PROVE  /\ OnlyGenesis(Primary)
             /\ home'[Primary].genesis.base = home[Primary].genesis.base
             /\ home'[Primary].genesis.txs = home[Primary].gentx
  BY <1>2 DEF Home, Genesis, OnlyGenesis
<1>3. ASSUME home' = home
      PROVE  OnlyGenesis(Primary) /\ home'[Primary].genesis.base = home[Primary].genesis.base
  BY <1>3 DEF OnlyGenesis
<1>4. ASSUME NEW done \in BOOLEAN, DropCollect(done)
      PROVE  \/ home' = home
             \/ home' = [home EXCEPT ![Primary] =
                           [home[Primary] EXCEPT !.genesis.txs = home[Primary].gentx]]
  BY <1>4 DEF DropCollect, SetPrimary, hostVars
<1>5. Collect => home' = [home EXCEPT ![Primary] =
                            [home[Primary] EXCEPT !.genesis.txs = home[Primary].gentx]]
  BY DEF Collect, SetPrimary
<1> QED
  BY <1>1, <1>2, <1>3, <1>4, <1>5

\* The copies to the secondaries, and the start of a daemon.
LEMMA ShapeOthers ==
    ASSUME TypeOK
    PROVE  /\ \A ok \in BOOLEAN : Distribute(ok) =>
                /\ next \in Node /\ next # Primary /\ OnlyGenesis(next)
                /\ home'[next].genesis = IF ok THEN staged ELSE home[next].genesis
           /\ \A n \in Node : Launch(n) =>
                /\ \A m \in Node : /\ home'[m].key = home[m].key
                                   /\ home'[m].gentx = home[m].gentx
                                   /\ home'[m].genesis = home[m].genesis
                /\ \A m \in Node \ {n} : home'[m] = home[m]
                /\ home'[n].pinned = Effective(home[n])
<1>1. ASSUME NEW ok \in BOOLEAN, Distribute(ok)
      PROVE  /\ next \in Node /\ next # Primary /\ OnlyGenesis(next)
             /\ home'[next].genesis = IF ok THEN staged ELSE home[next].genesis
  <2>1. next \in Node /\ next # Primary
    BY <1>1, MembersAreNodes DEF Distribute, Secondaries, Primary, TypeOK
  <2> QED
    BY <1>1, <2>1 DEF Distribute, TypeOK, Home, OnlyGenesis
<1>2. ASSUME NEW n \in Node, Launch(n)
      PROVE  /\ \A m \in Node : /\ home'[m].key = home[m].key
                                /\ home'[m].gentx = home[m].gentx
                                /\ home'[m].genesis = home[m].genesis
             /\ \A m \in Node \ {n} : home'[m] = home[m]
             /\ home'[n].pinned = Effective(home[n])
  BY <1>2 DEF Launch, TypeOK, Home
<1> QED
  BY <1>1, <1>2

---------------------------------------------------------------------------
\* A daemon runs the genesis its home keeps, which names validators, unless a
\* failed script left it on a home that is not its own; and there is none on a
\* host without the unit.
LiveInv ==
    /\ \A n \in Node \ survivors : Live(n) => daemon[n] = home[n].pinned /\ daemon[n].txs # {}
    /\ \A n \in Node : unit[n] = "none" => ~Live(n)

\* The resources that stand are of the configuration applied last, and between
\* two applies a host that is not wanted is empty.
VersionInv ==
    /\ \A n \in Node : cfgVersion[n] <= version
    /\ \A n \in Members : cfg[n] \in ConfigSteps \cup {"created"} => cfgVersion[n] = version
    /\ ~applying => \A n \in Node \ Members : unit[n] = "none" /\ home[n] = EmptyHome

\* Initially both hold.
LEMMA LiveInit == Init => LiveInv /\ VersionInv
<1>1. Init => LiveInv
  BY DEF Init, LiveInv, Live
<1>2. Init => VersionInv
  BY ValidatorAssumption, MembersAreNodes DEF Init, VersionInv, ConfigSteps
<1> QED
  BY <1>1, <1>2

\* Steps that touch neither daemons, units nor what a database keeps.
LEMMA LiveFrame ==
    ASSUME TypeOK, LiveInv, UNCHANGED <<daemon, unit, survivors>>,
           \A n \in Node : home'[n].pinned = home[n].pinned
    PROVE  LiveInv'
BY DEF LiveInv, Live

\* Every step keeps the daemons on what their homes keep.
LEMMA LiveStep == TypeOK /\ PhaseInv /\ LiveInv /\ [Next]_vars => LiveInv'
<1> SUFFICES ASSUME TypeOK, PhaseInv, LiveInv, [Next]_vars PROVE LiveInv'
  OBVIOUS
<1> USE ValidatorAssumption, MembersAreNodes
<1>1. CASE UNCHANGED <<home, daemon, unit, survivors>>
  BY <1>1, LiveFrame
<1>2. ASSUME NEW n \in Node, Terminate(n) PROVE LiveInv'
  BY <1>2 DEF Terminate, LiveInv, Live, TypeOK
<1>3. ASSUME NEW n \in Node, Configure(n) PROVE LiveInv'
  <2>1. CASE Upload(n)
    BY <1>1, <2>1 DEF Upload, hostVars
  <2>2. CASE StopService(n)
    BY <2>2 DEF StopService, LiveInv, Live, TypeOK
  <2>3. CASE KillDaemon(n)
    BY <2>3 DEF KillDaemon, UnitWithoutDaemon, LiveInv, Live, TypeOK
  <2>4. CASE Wipe(n)
    BY <2>4 DEF Wipe, ConfigStep, PhaseInv, LiveInv, Live, TypeOK
  <2>5. CASE InitHome(n)
    <3>1. \A m \in Node : home'[m].pinned = home[m].pinned
      BY <2>5, ShapeConfigure
    <3> QED
      BY <2>5, <3>1, LiveFrame DEF InitHome
  <2>6. CASE InstallUnit(n)
    BY <2>6 DEF InstallUnit, ConfigStep, PhaseInv, LiveInv, Live, TypeOK
  <2>7. CASE GenerateGentx(n)
    BY <2>7, ShapeConfigure, LiveFrame DEF GenerateGentx, OnlyGentx
  <2> QED
    BY <1>3, <2>1, <2>2, <2>3, <2>4, <2>5, <2>6, <2>7 DEF Configure
<1>4. ASSUME NEW arrived \in SUBSET gathered, Push(arrived) PROVE LiveInv'
  BY <1>4, ShapePrimary, LiveFrame DEF Push, SetPrimary, OnlyGentx
<1>5. ASSUME NEW done \in BOOLEAN, Collect \/ DropCollect(done) PROVE LiveInv'
  BY <1>5, ShapePrimary, LiveFrame DEF Collect, DropCollect, SetPrimary, hostVars, OnlyGenesis
<1>6. ASSUME NEW ok \in BOOLEAN, Distribute(ok) PROVE LiveInv'
  BY <1>6, ShapeOthers, LiveFrame DEF Distribute, OnlyGenesis
<1>7. ASSUME NEW n \in Node, StartValidator(n) PROVE LiveInv'
  BY <1>7 DEF StartValidator, RestartService, EnableService, LiveInv, Live, TypeOK
<1>8. ASSUME NEW n \in Node, Launch(n) PROVE LiveInv'
  <2>1. daemon' = [daemon EXCEPT ![n] = IF Effective(home[n]).txs # {}
                                        THEN Effective(home[n]) ELSE NoGenesis]
    BY <1>8 DEF Launch
  <2>2. /\ unit'[n] # "none" /\ \A m \in Node \ {n} : unit'[m] = unit[m]
        /\ survivors' = survivors \ {n}
    BY <1>8 DEF Launch, TypeOK
  <2> QED
    BY <1>8, <2>1, <2>2, ShapeOthers DEF LiveInv, Live, TypeOK
<1>9. ASSUME NEW n \in Node, RestartAfterFailure(n) \/ Crash(n) \/ Reboot(n) PROVE LiveInv'
  BY <1>9 DEF RestartAfterFailure, Crash, Reboot, UnitWithoutDaemon, LiveInv, Live, TypeOK
<1>10. CASE Operator \/ EndApply \/ BeginCeremony \/ Fetch \/ UNCHANGED vars
  BY <1>1, <1>10 DEF Operator, Apply, EndApply, BeginCeremony, Fetch, vars, hostVars
<1>11. ASSUME NEW ok \in BOOLEAN, Gather(ok) PROVE LiveInv'
  BY <1>1, <1>11 DEF Gather, hostVars
<1>12. ASSUME NEW n \in Node, DropConfigure(n) \/ DropStart(n) PROVE LiveInv'
  BY <1>1, <1>12 DEF DropConfigure, DropStart, hostVars
<1>13. ASSUME NEW n \in Node, SkipKill(n) PROVE LiveInv'
  BY <1>13 DEF SkipKill, LiveInv, Live
<1> QED
  BY <1>2, <1>3, <1>4, <1>5, <1>6, <1>7, <1>8, <1>9, <1>10, <1>11, <1>12, <1>13
  DEF Next, Ceremony, Mishap, Systemd

\* Steps of a ceremony, or of a host, that leave the configurations alone and,
\* between two applies, touch only hosts with a unit.
LEMMA VersionFrame ==
    ASSUME TypeOK, VersionInv, UNCHANGED <<size, version, applying, cfgVersion>>,
           \A n \in Node : cfg'[n] \in {cfg[n], "tainted"},
           ~applying => \A n \in Node : unit[n] = "none" =>
                            unit'[n] = "none" /\ home'[n] = home[n]
    PROVE  VersionInv'
<1>1. Members' = Members /\ Members \subseteq Node
  BY MembersAreNodes DEF Members, TypeOK
<1>2. \A n \in Node : cfgVersion'[n] <= version'
  BY DEF VersionInv
<1>3. \A n \in Members : cfg'[n] \in ConfigSteps \cup {"created"} => cfgVersion'[n] = version'
  BY <1>1 DEF VersionInv, ConfigSteps
<1>4. ~applying' => \A n \in Node \ Members : unit'[n] = "none" /\ home'[n] = EmptyHome
  BY DEF VersionInv
<1> QED
  BY <1>1, <1>2, <1>3, <1>4 DEF VersionInv

\* Every step keeps the resources to their version.
LEMMA VersionStep == TypeOK /\ PhaseInv /\ VersionInv /\ [Next]_vars => VersionInv'
<1> SUFFICES ASSUME TypeOK, PhaseInv, VersionInv, [Next]_vars PROVE VersionInv'
  OBVIOUS
<1> USE ValidatorAssumption, MembersAreNodes
<1>1. ASSUME NEW k \in Counts \cup {size}, NEW v \in {version, version + 1},
             v <= MaxVersion, Apply(k, v)
      PROVE  VersionInv'
  <2>1. k \in 0 .. MaxValidators /\ version \in Nat /\ cfgVersion \in [Node -> Nat]
    BY DEF TypeOK
  <2>2. size' = k /\ version' = v /\ applying' = TRUE /\ cfgVersion' = cfgVersion
    BY <1>1 DEF Apply
  <2>3. \A n \in 0 .. k - 1 : n \in Node /\ (cfg'[n] # "absent" => cfgVersion[n] = v)
    BY <1>1, <2>1 DEF Apply, Node
  <2> QED
    BY <2>1, <2>2, <2>3 DEF VersionInv, Members, ConfigSteps
<1>2. CASE EndApply
  BY <1>2 DEF EndApply, Doomed, VersionInv, Members, hostVars
<1>3. ASSUME NEW n \in Node, Terminate(n) PROVE VersionInv'
  BY <1>3, VersionFrame DEF Terminate, tfVars
<1>4. ASSUME NEW n \in Node, Configure(n) PROVE VersionInv'
  <2>1. CASE Upload(n)
    BY <2>1 DEF Upload, ConfigStep, VersionInv, TypeOK, Members
  <2>2. ASSUME NEW from \in ConfigSteps, NEW to \in ConfigSteps \cup {"created"},
               ConfigStep(n, from, to), cfgVersion' = cfgVersion
        PROVE  VersionInv'
    BY <2>2 DEF ConfigStep, VersionInv, TypeOK, Members
  <2> QED
    BY <1>4, <2>1, <2>2 DEF Configure, StopService, KillDaemon, Wipe, InitHome, InstallUnit,
                            GenerateGentx, ConfigSteps
<1>5. CASE Ceremony
  BY <1>5, VersionFrame DEF Ceremony, BeginCeremony, Gather, Push, Collect, Fetch, Distribute,
                            CeremonyAt
<1>6. ASSUME NEW n \in Node, StartValidator(n) \/ DropStart(n) PROVE VersionInv'
  BY <1>6, VersionFrame DEF StartValidator, RestartService, EnableService, DropStart, StartStep
<1>7. ASSUME NEW n \in Node, Launch(n) PROVE VersionInv'
  <2>1. \A m \in Node : unit[m] = "none" => unit'[m] = "none" /\ home'[m] = home[m]
    BY <1>7, ShapeOthers DEF Launch, TypeOK
  <2> QED
    BY <1>7, <2>1, VersionFrame DEF Launch, tfVars
<1>8. ASSUME NEW n \in Node, RestartAfterFailure(n) \/ Crash(n) PROVE VersionInv'
  BY <1>8, VersionFrame DEF RestartAfterFailure, Crash, UnitWithoutDaemon, tfVars, TypeOK
<1>9. ASSUME NEW n \in Node, Reboot(n) PROVE VersionInv'
  BY <1>9, VersionFrame DEF Reboot, TypeOK
<1>10. ASSUME NEW n \in Node, DropConfigure(n) PROVE VersionInv'
  BY <1>10, VersionFrame DEF DropConfigure, hostVars, TypeOK
<1>11. ASSUME NEW ok \in BOOLEAN, NEW arrived \in SUBSET gathered,
              Gather(ok) \/ Distribute(ok) \/ Push(arrived) \/ DropCollect(ok)
       PROVE  VersionInv'
  BY <1>11, VersionFrame DEF Gather, Distribute, Push, DropCollect, CeremonyAt
<1>12. CASE UNCHANGED vars
  BY <1>12, VersionFrame DEF vars, tfVars, hostVars
<1>13. ASSUME NEW n \in Node, SkipKill(n) PROVE VersionInv'
  BY <1>13 DEF SkipKill, ConfigSteps, VersionInv, TypeOK, Members
<1> QED
  BY <1>1, <1>2, <1>3, <1>4, <1>5, <1>6, <1>7, <1>8, <1>9, <1>10, <1>11, <1>12, <1>13
  DEF Next, Operator, Mishap, Systemd

---------------------------------------------------------------------------
\* A document with genesis transactions that a host past its wipe holds is of
\* the primary's present genesis, made when all members were configured; and no
\* two members hold documents of two networks.
DocInv ==
    /\ \A n \in Node : cfg[n] = "init" => home[n] = EmptyHome
    /\ \A n \in Members : Configured(n) => \A d \in Docs(n) : d.txs # {} =>
           /\ AllConfigured /\ d.base = home[Primary].genesis.base
           /\ n = Primary \/ ~SkipsExchange(size)
    /\ \A m, n \in Members : \A d \in Docs(m), e \in Docs(n) :
           d.txs # {} /\ e.txs # {} => d.base = e.base

\* The gentx directories of configured members: a secondary's own gentx, and
\* on the primary gentxs of keys that members have now.
GentxInv ==
    /\ \A n \in Secondaries : cfg[n] = "created" => home[n].gentx = {Own(n)}
    /\ size > 0 /\ cfg[Primary] = "created" =>
           /\ Own(Primary) \in home[Primary].gentx
           /\ \A t \in home[Primary].gentx :
                  /\ t.node \in Members /\ t.key = home[t.node].key
                  /\ t.node # Primary => AllConfigured

\* How far the ceremony is: what was gathered, collected and distributed.
CeremonyInv ==
    /\ gen \in {"gather", "push", "fetch", "distribute"} => ~SkipsExchange(size)
    /\ gen \in {"gather", "distribute"} => next \in Secondaries
    /\ gen = "push" => next = size
    /\ gen \in {"gather", "push"} =>
           /\ \A t \in gathered : t.node \in Secondaries /\ t = Own(t.node)
           /\ \A n \in Secondaries \ lost : n < next => Own(n) \in gathered
    /\ gen \in {"collect", "fetch", "distribute", "created"} /\ Exchanges =>
           \A n \in Members \ lost : Own(n) \in home[Primary].gentx
    /\ gen \in {"fetch", "distribute", "created"} =>
           home[Primary].genesis.txs = home[Primary].gentx
    /\ gen = "distribute" =>
           /\ staged = home[Primary].genesis
           /\ \A n \in Secondaries \ undelivered :
                  n < next => home[n].genesis = home[Primary].genesis
    /\ gen = "created" => \A n \in Members \ undelivered :
           \/ home[n].genesis = home[Primary].genesis
           \/ ~Exchanges /\ home[n].genesis.txs = {}

\* Initially there is nothing to say.
LEMMA CeremonyInit == Init => DocInv /\ GentxInv /\ CeremonyInv
<1> SUFFICES ASSUME Init PROVE DocInv /\ GentxInv /\ CeremonyInv
  OBVIOUS
<1>1. Members \subseteq Node /\ Secondaries \subseteq Node /\ Primary \in Node
  BY ValidatorAssumption, MembersAreNodes DEF Init
<1>2. DocInv
  BY <1>1 DEF Init, DocInv, Configured, Docs, EmptyHome, NoGenesis
<1>3. GentxInv
  BY <1>1 DEF Init, GentxInv
<1>4. CeremonyInv
  BY DEF Init, CeremonyInv
<1> QED
  BY <1>2, <1>3, <1>4

\* While a member is being configured there is no ceremony, nor a result of one.
LEMMA NotYet ==
    ASSUME TypeOK, PhaseInv, NEW n \in Node, cfg[n] # "created",
           n \in Members \/ cfg[n] # "absent"
    PROVE  n \in Members /\ ~AllConfigured /\ gen \in {"absent", "tainted"}
BY DEF PhaseInv, AllConfigured, TypeOK, Settled

\* So no step of configure_client meets a ceremony, and each is about one host.
LEMMA ConfigureAlone ==
    ASSUME TypeOK, PhaseInv, NEW n \in Node, Configure(n)
    PROVE  /\ applying /\ UNCHANGED <<applying, size, gen>>
           /\ n \in Members /\ cfg[n] # "created" /\ ~AllConfigured
           /\ gen \in {"absent", "tainted"}
           /\ \A m \in Node \ {n} : cfg'[m] = cfg[m] /\ home'[m] = home[m]
<1>1. \E from \in ConfigSteps \cup {"absent"}, to \in ConfigSteps \cup {"created"} :
          (from = "absent" => n \in Members) /\ ConfigStep(n, from, to)
  BY DEF Configure, Upload, StopService, KillDaemon, Wipe, InitHome, InstallUnit,
         GenerateGentx, ConfigSteps
<1>2. /\ applying /\ UNCHANGED <<applying, size, gen>>
      /\ cfg[n] # "created" /\ (n \in Members \/ cfg[n] # "absent")
      /\ \A m \in Node \ {n} : cfg'[m] = cfg[m]
  BY <1>1 DEF ConfigStep, ConfigSteps, TypeOK
<1>3. \A m \in Node \ {n} : home'[m] = home[m]
  BY DEF Configure, Upload, StopService, KillDaemon, Wipe, InitHome, InstallUnit,
         GenerateGentx, hostVars, TypeOK
<1> QED
  BY <1>2, <1>3, NotYet

\* A plan: an edit replaces everything, and nothing is replaced that stands
\* configured when there is none.
LEMMA Plans ==
    ASSUME TypeOK, PhaseInv, VersionInv,
           NEW k \in Counts \cup {size}, NEW v \in {version, version + 1}, Apply(k, v)
    PROVE  /\ v # version => gen' = "absent" /\ \A n \in Members' : cfg'[n] = "absent"
           /\ v = version => /\ size' = size
                             /\ AllConfigured => \A n \in Members : cfg'[n] = "created"
                             /\ gen = "created" => gen' = "created"
           /\ gen' # "absent" => v = version /\ gen = "created" /\ gen' = "created"
           /\ \A n \in Node : cfg'[n] \in {cfg[n], "absent"}
           /\ Members' \subseteq Node
<1> USE ValidatorAssumption DEF TypeOK
<1>1. k \in 0 .. MaxValidators /\ size' = k
  BY DEF Apply
<1>2. Members' \subseteq Node /\ \A n \in Members' : n \in 0 .. k - 1
  BY <1>1 DEF Members, Node
<1>3. v # version => \A n \in 0 .. k - 1 : cfg[n] # "created" \/ cfgVersion[n] # v
  BY <1>1, <1>2 DEF VersionInv, Members, Node
<1>4. v # version => gen' = "absent" /\ \A n \in Members' : cfg'[n] = "absent"
  <2> SUFFICES ASSUME v # version PROVE gen' = "absent" /\ \A n \in Members' : cfg'[n] = "absent"
    OBVIOUS
  <2>1. \A n \in Members' : cfg'[n] = "absent"
    BY <1>2, <1>3 DEF Apply
  <2>2. k = 0 \/ 0 \in {n \in 0 .. k - 1 : cfg[n] # "created" \/ cfgVersion[n] # v}
    BY <1>1, <1>3
  <2> QED
    BY <2>1, <2>2 DEF Apply
<1>5. v = version /\ AllConfigured =>
        {n \in 0 .. k - 1 : cfg[n] # "created" \/ cfgVersion[n] # v} = {}
  BY <1>1, <1>2 DEF Apply, AllConfigured, VersionInv, Members
<1>6. v = version => /\ size' = size
                     /\ AllConfigured => \A n \in Members : cfg'[n] = "created"
                     /\ gen = "created" => gen' = "created"
  <2> SUFFICES ASSUME v = version
               PROVE  /\ size' = size
                      /\ AllConfigured => \A n \in Members : cfg'[n] = "created"
                      /\ gen = "created" => gen' = "created"
    OBVIOUS
  <2>1. size' = size /\ k = size
    BY DEF Apply
  <2>2. AllConfigured => \A n \in Members : cfg'[n] = "created"
    BY <1>1, <1>2, <1>5, <2>1 DEF Apply, AllConfigured, Members
  <2>3. gen = "created" => k # 0 /\ AllConfigured
    BY <2>1 DEF PhaseInv
  <2>4. gen = "created" => gen' = "created"
    BY <1>5, <2>3 DEF Apply
  <2> QED
    BY <2>1, <2>2, <2>4
<1>7. gen' # "absent" => gen = "created" /\ gen' = "created"
  BY DEF Apply
<1>8. \A n \in Node : cfg'[n] \in {cfg[n], "absent"}
  BY DEF Apply
<1> QED
  BY <1>2, <1>4, <1>6, <1>7, <1>8

\* What a step must do for the documents to stay in order: configure nobody who
\* holds a document, and give nobody a document with genesis transactions.
LEMMA DocFrame ==
    ASSUME TypeOK, DocInv, UNCHANGED size,
           \A n \in Node : cfg'[n] = "init" => home'[n] = EmptyHome,
           \A n \in Members : \/ Configured(n)' => Configured(n)
                              \/ \A d \in Docs(n)' : d.txs = {},
           AllConfigured =>
               /\ AllConfigured'
               /\ size > 0 => home'[Primary].genesis.base = home[Primary].genesis.base,
           \A n \in Members : \A d \in Docs(n)' : d.txs = {} \/ d \in Docs(n)
    PROVE  DocInv'
<1>1. Members' = Members /\ \A n \in Members : size > 0
  BY DEF Members, TypeOK
<1>2. ASSUME NEW n \in Members, Configured(n)', NEW d \in Docs(n)', d.txs # {}
      PROVE  /\ AllConfigured' /\ d.base = home'[Primary].genesis.base
             /\ n = Primary \/ ~SkipsExchange(size)
  <2>1. Configured(n) /\ d \in Docs(n)
    BY <1>2
  <2>2. AllConfigured /\ d.base = home[Primary].genesis.base
        /\ (n = Primary \/ ~SkipsExchange(size))
    BY <1>2, <2>1 DEF DocInv
  <2> QED
    BY <1>1, <2>2
<1>3. ASSUME NEW m \in Members, NEW n \in Members, NEW d \in Docs(m)', NEW e \in Docs(n)',
             d.txs # {}, e.txs # {}
      PROVE  d.base = e.base
  BY <1>3 DEF DocInv
<1>4. \A n \in Node : cfg'[n] = "init" => home'[n] = EmptyHome
  OBVIOUS
<1>5. SkipsExchange(size)' = SkipsExchange(size)
  BY DEF SkipsExchange
<1> QED
  BY <1>1, <1>2, <1>3, <1>4, <1>5 DEF DocInv

\* Every step keeps them in order.
LEMMA DocStep ==
    TypeOK /\ PhaseInv /\ VersionInv /\ DocInv /\ CeremonyInv /\ [Next]_vars => DocInv'
<1> SUFFICES ASSUME TypeOK, PhaseInv, VersionInv, DocInv, CeremonyInv, [Next]_vars
             PROVE  DocInv'
  OBVIOUS
<1>0. Members \subseteq Node /\ (size > 0 => Primary \in Members) /\ Primary \in Node
  BY ValidatorAssumption, MembersAreNodes DEF TypeOK, Members, Primary
<1>1. ASSUME NEW k \in Counts \cup {size}, NEW v \in {version, version + 1},
             v <= MaxVersion, Apply(k, v)
      PROVE  DocInv'
  <2>1. home' = home /\ ~applying
    BY <1>1 DEF Apply, hostVars
  <2>2. \A n \in Node : cfg'[n] = "init" => home'[n] = EmptyHome
    BY <1>1, <2>1, Plans DEF DocInv
  <2>3. \A m, n \in Members' : \A d \in Docs(m)', e \in Docs(n)' :
            d.txs # {} /\ e.txs # {} => d.base = e.base
    <3>1. \A n \in Members' : \A d \in Docs(n)' : d \in Docs(n) /\ (n \notin Members => d.txs = {})
      BY <1>1, <2>1, Plans DEF Docs, VersionInv, EmptyHome, NoGenesis
    <3> QED
      BY <3>1 DEF DocInv
  <2>4. ASSUME NEW n \in Members', Configured(n)', NEW d \in Docs(n)', d.txs # {}
        PROVE  /\ AllConfigured' /\ d.base = home'[Primary].genesis.base
               /\ n = Primary \/ ~SkipsExchange(size')
    <3>1. v = version /\ size' = size /\ Members' = Members /\ Configured(n)
      BY <1>1, <2>4, Plans DEF Configured, Members
    <3>2. d \in Docs(n)
      BY <2>1, <2>4 DEF Docs
    <3>3. /\ AllConfigured /\ d.base = home[Primary].genesis.base
          /\ n = Primary \/ ~SkipsExchange(size)
      BY <2>4, <3>1, <3>2 DEF DocInv
    <3>4. AllConfigured'
      BY <1>1, <3>1, <3>3, Plans DEF AllConfigured
    <3> QED
      BY <2>1, <3>1, <3>3, <3>4
  <2> QED
    BY <2>2, <2>3, <2>4 DEF DocInv, SkipsExchange
<1>2. ASSUME NEW n \in Node, Terminate(n) PROVE DocInv'
  <2>1. n \notin Members /\ UNCHANGED <<size, cfg>>
    BY <1>2 DEF Terminate, Doomed, tfVars
  <2>2. \A m \in Node \ {n} : home'[m] = home[m]
    BY <1>2 DEF Terminate, TypeOK
  <2>3. cfg[n] = "absent"
    BY <2>1 DEF PhaseInv
  <2> QED
    BY <1>0, <2>1, <2>2, <2>3, DocFrame
       DEF Docs, Configured, AllConfigured, Members, DocInv
<1>3. ASSUME NEW n \in Node, Configure(n) PROVE DocInv'
  <2>1. /\ UNCHANGED size /\ ~AllConfigured
        /\ \A m \in Node \ {n} : cfg'[m] = cfg[m] /\ home'[m] = home[m]
    BY <1>3, ConfigureAlone
  <2>2. CASE Wipe(n) \/ InitHome(n)
    <3>1. \A d \in Docs(n)' : d.txs = {}
      <4>1. CASE Wipe(n)
        BY <4>1 DEF Wipe, Docs, EmptyHome, NoGenesis, TypeOK
      <4>2. CASE InitHome(n)
        <5>1. home[n] = EmptyHome
          BY <4>2 DEF InitHome, ConfigStep, DocInv
        <5>2. home'[n].genesis.txs = {} /\ home'[n].pinned.txs = {}
          BY <4>2, <5>1, ShapeConfigure DEF EmptyHome, NoGenesis
        <5> QED
          BY <5>2 DEF Docs
      <4> QED
        BY <2>2, <4>1, <4>2
    <3>2. cfg'[n] = "init" => home'[n] = EmptyHome
      BY <2>2 DEF Wipe, InitHome, ConfigStep, TypeOK
    <3>3. \A m \in Node : cfg'[m] = "init" => home'[m] = EmptyHome
      BY <2>1, <3>2 DEF DocInv
    <3>4. \A m \in Members : \/ Configured(m)' => Configured(m)
                             \/ \A d \in Docs(m)' : d.txs = {}
      BY <1>0, <2>1, <3>1 DEF Configured
    <3>5. \A m \in Members : \A d \in Docs(m)' : d.txs = {} \/ d \in Docs(m)
      BY <1>0, <2>1, <3>1 DEF Docs
    <3> QED
      BY <2>1, <3>3, <3>4, <3>5, DocFrame
  <2>3. CASE ~Wipe(n) /\ ~InitHome(n)
    <3>1. home'[n].genesis = home[n].genesis /\ home'[n].pinned = home[n].pinned
      BY <1>3, <2>3, ShapeConfigure
         DEF Configure, Upload, StopService, KillDaemon, InstallUnit, hostVars, OnlyGentx
    <3>2. (Configured(n)' => Configured(n)) /\ cfg'[n] # "init"
      BY <1>3, <2>3 DEF Configure, Upload, StopService, KillDaemon, InstallUnit, GenerateGentx,
                        ConfigStep, Configured, TypeOK
    <3>3. \A m \in Node : cfg'[m] = "init" => home'[m] = EmptyHome
      BY <2>1, <3>2 DEF DocInv
    <3>4. \A m \in Members : Configured(m)' => Configured(m)
      BY <1>0, <2>1, <3>2 DEF Configured
    <3>5. \A m \in Members : \A d \in Docs(m)' : d \in Docs(m)
      BY <1>0, <2>1, <3>1 DEF Docs
    <3> QED
      BY <2>1, <3>3, <3>4, <3>5, DocFrame
  <2> QED
    BY <2>2, <2>3
<1>4. ASSUME UNCHANGED <<size, cfg, home>> PROVE DocInv'
  BY <1>4, DocFrame DEF DocInv, Docs, Configured, AllConfigured, Members
<1>5. ASSUME NEW arrived \in SUBSET gathered, Push(arrived) PROVE DocInv'
  <2>1. /\ UNCHANGED <<size, cfg>> /\ AllConfigured
        /\ \A n \in Node : /\ home'[n].genesis = home[n].genesis
                           /\ home'[n].pinned = home[n].pinned
    BY <1>5, ShapePrimary DEF Push, CeremonyAt, PhaseInv, CeremonySteps, OnlyGentx
  <2>2. \A n \in Node : cfg'[n] # "init"
    BY <2>1 DEF PhaseInv, AllConfigured
  <2> QED
    BY <1>0, <2>1, <2>2, DocFrame DEF Docs, Configured, AllConfigured, Members
<1>6. ASSUME NEW n \in Node, UNCHANGED <<size, cfg>>, AllConfigured, OnlyGenesis(n),
             home'[Primary].genesis.base = home[Primary].genesis.base,
             \/ home'[n].genesis.base = home[Primary].genesis.base
             \/ home'[n].genesis = home[n].genesis,
             n = Primary \/ ~SkipsExchange(size)
      PROVE  DocInv'
  <2>1. Members' = Members
    BY <1>6 DEF Members
  <2>2. \A m \in Node : cfg'[m] # "init"
    BY <1>6 DEF PhaseInv, AllConfigured
  <2>3. ASSUME NEW m \in Members, NEW d \in Docs(m)', d.txs # {}
        PROVE  /\ d.base = home'[Primary].genesis.base
               /\ m = Primary \/ ~SkipsExchange(size)
    <3>1. CASE d \in Docs(m)
      BY <1>6, <2>3, <3>1 DEF DocInv, Configured, AllConfigured
    <3>2. CASE m = n /\ d = home'[n].genesis /\ d \notin Docs(m)
      BY <1>6, <3>2 DEF Docs
    <3> QED
      BY <1>0, <1>6, <2>3, <3>1, <3>2 DEF Docs, OnlyGenesis
  <2>4. AllConfigured' /\ SkipsExchange(size)' = SkipsExchange(size)
    BY <1>6 DEF AllConfigured, Members, SkipsExchange
  <2> QED
    BY <2>1, <2>2, <2>3, <2>4 DEF DocInv
<1>7. ASSUME NEW done \in BOOLEAN, Collect \/ DropCollect(done) PROVE DocInv'
  <2>1. UNCHANGED <<size, cfg>> /\ AllConfigured
    BY <1>7 DEF Collect, DropCollect, CeremonyAt, PhaseInv, CeremonySteps
  <2>2. OnlyGenesis(Primary) /\ home'[Primary].genesis.base = home[Primary].genesis.base
    BY <1>7, ShapePrimary
  <2> QED
    BY <1>0, <1>6, <2>1, <2>2
<1>8. ASSUME NEW ok \in BOOLEAN, Distribute(ok) PROVE DocInv'
  <2>1. UNCHANGED <<size, cfg>> /\ AllConfigured /\ gen = "distribute"
    BY <1>8 DEF Distribute, CeremonyAt, PhaseInv, CeremonySteps
  <2>2. staged = home[Primary].genesis /\ ~SkipsExchange(size)
    BY <2>1 DEF CeremonyInv
  <2>3. /\ next \in Node /\ next # Primary /\ OnlyGenesis(next)
        /\ home'[next].genesis = IF ok THEN staged ELSE home[next].genesis
    BY <1>8, ShapeOthers
  <2>4. home'[Primary] = home[Primary]
    BY <1>0, <2>3 DEF OnlyGenesis
  <2> QED
    BY <1>6, <2>1, <2>2, <2>3, <2>4
<1>9. ASSUME NEW n \in Node, Launch(n) PROVE DocInv'
  <2>1. UNCHANGED <<size, cfg>>
    BY <1>9 DEF Launch, tfVars
  <2>2. \A m \in Node : Docs(m)' \subseteq Docs(m) /\ home'[m].genesis = home[m].genesis
    BY <1>9, ShapeOthers DEF Docs, Effective
  <2>3. \A m \in Node : cfg'[m] = "init" => home'[m] = home[m]
    BY <1>9, <2>1, ShapeOthers DEF Launch, PhaseInv
  <2> QED
    BY <1>0, <2>1, <2>2, <2>3, DocFrame DEF DocInv, Configured, AllConfigured, Members
<1>10. ASSUME NEW n \in Node, SkipKill(n) \/ DropConfigure(n) \/ Reboot(n) PROVE DocInv'
  <2>1. UNCHANGED <<size, home>>
    BY <1>10 DEF SkipKill, DropConfigure, Reboot, hostVars
  <2>2. \A m \in Node : \/ cfg'[m] = cfg[m]
                        \/ cfg'[m] \in {"tainted", "wipe"} /\ cfg[m] \in ConfigSteps
    <3>1. CASE SkipKill(n)
      BY <3>1 DEF SkipKill, TypeOK, ConfigSteps
    <3>2. CASE DropConfigure(n) \/ Reboot(n)
      BY <3>2 DEF DropConfigure, Reboot, TypeOK
    <3> QED
      BY <1>10, <3>1, <3>2
  <2>3. AllConfigured => \A m \in Node : cfg'[m] = cfg[m]
    BY <2>2, NotYet DEF ConfigSteps
  <2> QED
    BY <1>0, <2>1, <2>2, <2>3, DocFrame DEF DocInv, Docs, Configured, AllConfigured, Members
<1>11. ASSUME NEW n \in Node,
              StartValidator(n) \/ RestartAfterFailure(n) \/ DropStart(n) \/ Crash(n)
       PROVE  DocInv'
  BY <1>4, <1>11 DEF StartValidator, RestartService, EnableService, StartStep,
                     RestartAfterFailure, DropStart, Crash, tfVars, hostVars
<1>12. CASE EndApply \/ BeginCeremony \/ Fetch \/ UNCHANGED vars
  BY <1>4, <1>12 DEF EndApply, BeginCeremony, Fetch, CeremonyAt, vars, tfVars, hostVars
<1>13. ASSUME NEW ok \in BOOLEAN, Gather(ok) PROVE DocInv'
  BY <1>4, <1>13 DEF Gather, CeremonyAt, hostVars
<1> QED
  BY <1>1, <1>2, <1>3, <1>5, <1>7, <1>8, <1>9, <1>10, <1>11, <1>12, <1>13
  DEF Next, Operator, Ceremony, Mishap, Systemd

\* What a step must do for the gentxs of configured members to stay: keep their
\* keys and directories, and leave no member unconfigured that was configured.
LEMMA GentxFrame ==
    ASSUME TypeOK, PhaseInv, GentxInv, UNCHANGED size,
           \A n \in Members : cfg'[n] = "created" =>
               cfg[n] = "created" /\ home'[n].gentx = home[n].gentx,
           \A n \in Members : cfg[n] = "created" => home'[n].key = home[n].key,
           AllConfigured => AllConfigured'
    PROVE  GentxInv'
<1>1. /\ Members' = Members /\ Secondaries' = Secondaries /\ Secondaries \subseteq Members
      /\ size > 0 => Primary \in Members
  BY MembersAreNodes DEF Members, Secondaries, Primary, TypeOK
<1>2. \A n \in Secondaries : cfg'[n] = "created" => home'[n].gentx = {Own(n)'}
  BY <1>1 DEF GentxInv, Own
<1>3. ASSUME size > 0, cfg'[Primary] = "created"
      PROVE  /\ Own(Primary)' \in home'[Primary].gentx
             /\ \A t \in home'[Primary].gentx :
                    /\ t.node \in Members /\ t.key = home'[t.node].key
                    /\ t.node # Primary => AllConfigured'
  <2>1. cfg[Primary] = "created" /\ home'[Primary].gentx = home[Primary].gentx
        /\ home'[Primary].key = home[Primary].key
    BY <1>1, <1>3
  <2>2. Own(Primary)' \in home'[Primary].gentx
    BY <1>3, <2>1 DEF GentxInv, Own
  <2>3. ASSUME NEW t \in home[Primary].gentx
        PROVE  /\ t.node \in Members /\ t.key = home'[t.node].key
               /\ t.node # Primary => AllConfigured'
    <3>1. t.node \in Members /\ t.key = home[t.node].key /\ (t.node # Primary => AllConfigured)
      BY <1>3, <2>1 DEF GentxInv
    <3>2. cfg[t.node] = "created"
      BY <2>1, <3>1 DEF AllConfigured
    <3> QED
      BY <3>1, <3>2
  <2> QED
    BY <2>1, <2>2, <2>3
<1> QED
  BY <1>1, <1>2, <1>3 DEF GentxInv

\* Every step keeps the gentxs in order.
LEMMA GentxStep ==
    TypeOK /\ PhaseInv /\ VersionInv /\ GentxInv /\ CeremonyInv /\ [Next]_vars => GentxInv'
<1> SUFFICES ASSUME TypeOK, PhaseInv, VersionInv, GentxInv, CeremonyInv, [Next]_vars
             PROVE  GentxInv'
  OBVIOUS
<1>0. /\ Members \subseteq Node /\ Secondaries \subseteq Members /\ Primary \in Node
      /\ size > 0 => Primary \in Members
  BY ValidatorAssumption, MembersAreNodes DEF TypeOK, Members, Primary
<1>1. ASSUME NEW k \in Counts \cup {size}, NEW v \in {version, version + 1},
             v <= MaxVersion, Apply(k, v)
      PROVE  GentxInv'
  <2>1. home' = home
    BY <1>1 DEF Apply, hostVars
  <2>2. CASE v = version
    <3>1. AllConfigured => AllConfigured'
      BY <1>1, <2>2, Plans DEF AllConfigured, Members
    <3> QED
      BY <1>0, <1>1, <2>1, <2>2, <3>1, Plans, GentxFrame
  <2>3. CASE v # version
    <3>1. \A n \in Members' : cfg'[n] = "absent"
      BY <1>1, <2>3, Plans
    <3>2. size' \in Nat
      BY <1>1, ValidatorAssumption DEF Apply, TypeOK
    <3>3. \A i \in Nat : 1 .. i - 1 \subseteq 0 .. i - 1 /\ (i > 0 => 0 \in 0 .. i - 1)
      OBVIOUS
    <3>4. Secondaries' \subseteq Members' /\ (size' > 0 => Primary \in Members')
      BY <3>2, <3>3 DEF Members, Secondaries, Primary
    <3> QED
      BY <3>1, <3>3, <3>4 DEF GentxInv
  <2> QED
    BY <2>2, <2>3
<1>2. ASSUME NEW n \in Node, Terminate(n) PROVE GentxInv'
  <2>1. n \notin Members /\ UNCHANGED <<size, cfg>> /\ \A m \in Node \ {n} : home'[m] = home[m]
    BY <1>2 DEF Terminate, Doomed, tfVars, TypeOK
  <2> QED
    BY <1>0, <2>1, GentxFrame DEF AllConfigured, Members
<1>3. ASSUME NEW n \in Node, Configure(n) PROVE GentxInv'
  <2>1. /\ UNCHANGED size /\ ~AllConfigured /\ cfg[n] # "created" /\ n \in Members
        /\ \A m \in Node \ {n} : cfg'[m] = cfg[m] /\ home'[m] = home[m]
    BY <1>3, ConfigureAlone
  <2>2. CASE cfg'[n] # "created"
    BY <1>0, <2>1, <2>2, GentxFrame
  <2>3. CASE GenerateGentx(n)
    <3>1. OnlyGentx(n) /\ home'[n].gentx = {Own(n)} /\ cfg'[n] = "created"
      BY <2>3, ShapeConfigure DEF GenerateGentx, ConfigStep, TypeOK
    <3>2. \A m \in Node : Own(m)' = Own(m)
      BY <3>1 DEF Own, OnlyGentx
    <3>3. Members' = Members /\ Secondaries' = Secondaries
      BY <2>1 DEF Members, Secondaries
    <3>4. \A m \in Secondaries : cfg'[m] = "created" => home'[m].gentx = {Own(m)'}
      BY <1>0, <2>1, <3>1, <3>2 DEF GentxInv
    <3>5. ASSUME size > 0, cfg'[Primary] = "created"
          PROVE  home'[Primary].gentx = {Own(Primary)}
      <4>1. CASE Primary = n
        BY <3>1, <4>1
      <4>2. CASE Primary # n
        <5>1. cfg[Primary] = "created" /\ home'[Primary].gentx = home[Primary].gentx
          BY <1>0, <2>1, <3>5, <4>2
        <5>2. /\ Own(Primary) \in home[Primary].gentx
              /\ \A t \in home[Primary].gentx : t.node = Primary /\ t.key = home[Primary].key
          BY <2>1, <3>5, <5>1 DEF GentxInv
        <5>3. home[Primary].gentx \subseteq Gentx
          BY <1>0 DEF TypeOK, Home
        <5>4. \A t \in home[Primary].gentx : t = Own(Primary)
          BY <5>2, <5>3 DEF Own, Gentx
        <5> QED
          BY <5>1, <5>2, <5>4
      <4> QED
        BY <4>1, <4>2
    <3>6. Own(Primary).node = Primary /\ Own(Primary).key = home'[Primary].key
      BY <1>0, <3>1 DEF Own, OnlyGentx
    <3> QED
      BY <1>0, <2>1, <3>2, <3>3, <3>4, <3>5, <3>6 DEF GentxInv
  <2> QED
    BY <1>3, <2>1, <2>2, <2>3 DEF Configure, Upload, StopService, KillDaemon, Wipe, InitHome,
                                  InstallUnit, ConfigStep, TypeOK
<1>4. ASSUME UNCHANGED <<size, cfg>>,
             \A n \in Node : home'[n].gentx = home[n].gentx /\ home'[n].key = home[n].key
      PROVE  GentxInv'
  BY <1>0, <1>4, GentxFrame DEF AllConfigured, Members
<1>5. ASSUME NEW arrived \in SUBSET gathered, Push(arrived) PROVE GentxInv'
  <2>1. UNCHANGED <<size, cfg>> /\ gen = "push" /\ AllConfigured /\ size > 0
    BY <1>5 DEF Push, CeremonyAt, PhaseInv, CeremonySteps
  <2>2. /\ OnlyGentx(Primary)
        /\ home'[Primary].gentx = Overlay(home[Primary].gentx, arrived)
    BY <1>5, ShapePrimary
  <2>3. /\ Members' = Members /\ Secondaries' = Secondaries /\ AllConfigured'
        /\ \A m \in Node : Own(m)' = Own(m)
    BY <2>1, <2>2 DEF Members, Secondaries, AllConfigured, Own, OnlyGentx
  <2>4. Primary \notin Secondaries
    BY DEF Secondaries, Primary, TypeOK
  <2>5. \A m \in Secondaries : home'[m].gentx = {Own(m)}
    BY <1>0, <2>1, <2>2, <2>4 DEF GentxInv, AllConfigured, OnlyGentx
  <2>6. /\ Own(Primary) \in home[Primary].gentx
        /\ \A t \in home[Primary].gentx : t.node \in Members /\ t.key = home[t.node].key
    BY <1>0, <2>1 DEF GentxInv, AllConfigured
  <2>7. \A t \in arrived : t.node \in Secondaries /\ t = Own(t.node)
    BY <2>1 DEF CeremonyInv
  <2>8. \A m \in Node : Own(m).node = m /\ Own(m).key = home[m].key
    BY DEF Own
  <2>9. Own(Primary) \in home'[Primary].gentx
    BY <1>0, <2>2, <2>4, <2>6, <2>7, <2>8 DEF Overlay
  <2>10. ASSUME NEW t \in home'[Primary].gentx
         PROVE  t.node \in Members /\ t.key = home'[t.node].key
    <3>1. CASE t \in arrived
      BY <1>0, <2>2, <2>7, <2>8, <3>1 DEF OnlyGentx
    <3>2. CASE t \in home[Primary].gentx
      BY <1>0, <2>2, <2>6, <3>2 DEF OnlyGentx
    <3> QED
      BY <2>2, <3>1, <3>2 DEF Overlay
  <2> QED
    BY <1>0, <2>3, <2>5, <2>9, <2>10 DEF GentxInv
<1>6. ASSUME NEW done \in BOOLEAN, Collect \/ DropCollect(done) PROVE GentxInv'
  BY <1>4, <1>6, ShapePrimary DEF Collect, DropCollect, CeremonyAt, OnlyGenesis
<1>7. ASSUME NEW ok \in BOOLEAN, Distribute(ok) PROVE GentxInv'
  BY <1>4, <1>7, ShapeOthers DEF Distribute, CeremonyAt, OnlyGenesis
<1>8. ASSUME NEW n \in Node, Launch(n) PROVE GentxInv'
  BY <1>4, <1>8, ShapeOthers DEF Launch, tfVars
<1>9. ASSUME NEW n \in Node, SkipKill(n) \/ DropConfigure(n) \/ Reboot(n) PROVE GentxInv'
  <2>1. UNCHANGED <<size, home>>
    BY <1>9 DEF SkipKill, DropConfigure, Reboot, hostVars
  <2>2. \A m \in Node : \/ cfg'[m] = cfg[m]
                        \/ cfg'[m] \in {"tainted", "wipe"} /\ cfg[m] \in ConfigSteps
    <3>1. CASE SkipKill(n)
      BY <3>1 DEF SkipKill, TypeOK, ConfigSteps
    <3>2. CASE DropConfigure(n) \/ Reboot(n)
      BY <3>2 DEF DropConfigure, Reboot, TypeOK
    <3> QED
      BY <1>9, <3>1, <3>2
  <2>3. AllConfigured => AllConfigured'
    BY <1>0, <2>1, <2>2 DEF ConfigSteps, AllConfigured, Members
  <2> QED
    BY <1>0, <2>1, <2>2, <2>3, GentxFrame
<1>10. ASSUME NEW n \in Node,
              StartValidator(n) \/ RestartAfterFailure(n) \/ DropStart(n) \/ Crash(n)
       PROVE  GentxInv'
  BY <1>4, <1>10 DEF StartValidator, RestartService, EnableService, StartStep,
                     RestartAfterFailure, DropStart, Crash, tfVars, hostVars
<1>11. CASE EndApply \/ BeginCeremony \/ Fetch \/ UNCHANGED vars
  BY <1>4, <1>11 DEF EndApply, BeginCeremony, Fetch, CeremonyAt, vars, tfVars, hostVars
<1>12. ASSUME NEW ok \in BOOLEAN, Gather(ok) PROVE GentxInv'
  BY <1>4, <1>12 DEF Gather, CeremonyAt, hostVars
<1> QED
  BY <1>1, <1>2, <1>3, <1>5, <1>6, <1>7, <1>8, <1>9, <1>10, <1>11, <1>12
  DEF Next, Operator, Ceremony, Mishap, Systemd

\* What a step must do for the ceremony to stay where it is.
LEMMA CeremonyFrame ==
    ASSUME TypeOK, CeremonyInv, UNCHANGED <<size, gen, copyVars>>,
           \A n \in Members : /\ home'[n].key = home[n].key
                              /\ home'[n].gentx = home[n].gentx
                              /\ home'[n].genesis = home[n].genesis,
           gen \in CeremonySteps \cup {"created"} => size > 0
    PROVE  CeremonyInv'
<1>1. /\ Members' = Members /\ Secondaries' = Secondaries /\ Secondaries \subseteq Members
      /\ size > 0 => Primary \in Members
      /\ SkipsExchange(size)' = SkipsExchange(size) /\ Exchanges' = Exchanges
  BY MembersAreNodes DEF Members, Secondaries, Primary, SkipsExchange, Exchanges, TypeOK
<1>2. \A n \in Members : Own(n)' = Own(n)
  BY DEF Own
<1>3. gen \in {"gather", "push", "collect", "fetch", "distribute", "created"} => Primary \in Members
  BY <1>1 DEF CeremonySteps
<1> QED
  BY <1>1, <1>2, <1>3 DEF CeremonyInv, copyVars

\* Every step takes the ceremony on in order.
LEMMA CeremonyStep ==
    /\ TypeOK /\ PhaseInv /\ VersionInv /\ DocInv /\ GentxInv /\ CeremonyInv /\ [Next]_vars
    => CeremonyInv'
<1> SUFFICES ASSUME TypeOK, PhaseInv, VersionInv, DocInv, GentxInv, CeremonyInv, [Next]_vars
             PROVE  CeremonyInv'
  OBVIOUS
<1>0. /\ Members \subseteq Node /\ Secondaries \subseteq Members /\ Primary \in Node
      /\ size > 0 => Primary \in Members
      /\ Primary \notin Secondaries /\ size \in Nat
  BY ValidatorAssumption, MembersAreNodes DEF TypeOK, Members, Secondaries, Primary
<1>1. CASE gen' \in {"absent", "tainted"}
  BY <1>1 DEF CeremonyInv
<1>2. ASSUME UNCHANGED <<size, gen, copyVars>>,
             \A n \in Members : /\ home'[n].key = home[n].key
                                /\ home'[n].gentx = home[n].gentx
                                /\ home'[n].genesis = home[n].genesis
      PROVE  CeremonyInv'
  BY <1>2, CeremonyFrame DEF PhaseInv
<1>3. ASSUME NEW k \in Counts \cup {size}, NEW v \in {version, version + 1},
             v <= MaxVersion, Apply(k, v)
      PROVE  CeremonyInv'
  <2>1. CASE gen' = "absent"
    BY <1>1, <2>1
  <2>2. CASE gen' # "absent"
    BY <1>2, <1>3, <2>2, Plans DEF Apply, hostVars
  <2> QED
    BY <2>1, <2>2
<1>4. ASSUME NEW n \in Node, Terminate(n) PROVE CeremonyInv'
  <2>1. n \notin Members /\ \A m \in Node \ {n} : home'[m] = home[m]
    BY <1>4 DEF Terminate, Doomed, TypeOK
  <2> QED
    BY <1>0, <1>2, <1>4, <2>1 DEF Terminate, tfVars
<1>5. ASSUME NEW n \in Node, Configure(n) PROVE CeremonyInv'
  BY <1>1, <1>5, ConfigureAlone
<1>6. CASE BeginCeremony
  <2>1. /\ gen' = IF SkipsExchange(size) THEN "collect" ELSE "gather"
        /\ UNCHANGED <<size, home>> /\ next' = 1 /\ gathered' = {} /\ size > 0 /\ AllConfigured
    BY <1>6 DEF BeginCeremony, CeremonyAt, hostVars
  <2>2. Members' = Members /\ Secondaries' = Secondaries
        /\ (\A n \in Node : Own(n)' = Own(n))
        /\ SkipsExchange(size)' = SkipsExchange(size) /\ Exchanges' = Exchanges
    BY <2>1 DEF Members, Secondaries, Own, SkipsExchange, Exchanges
  <2>3. CASE SkipsExchange(size)
    <3>1. Own(Primary) \in home[Primary].gentx
      BY <1>0, <2>1 DEF GentxInv, AllConfigured
    <3>2. Exchanges => \A n \in Members : n = Primary
      BY <1>0, <2>3 DEF Exchanges, Members, Primary
    <3>3. gen' = "collect"
      BY <2>1, <2>3
    <3> QED
      BY <1>0, <2>1, <2>2, <3>1, <3>2, <3>3 DEF CeremonyInv
  <2>4. CASE ~SkipsExchange(size)
    <3>1. gen' = "gather" /\ size > 1
      BY <1>0, <2>1, <2>4 DEF SkipsExchange
    <3>2. 1 \in Secondaries /\ \A n \in Secondaries : ~(n < 1)
      BY <1>0, <3>1 DEF Secondaries
    <3> QED
      BY <2>1, <2>2, <2>4, <3>1, <3>2 DEF CeremonyInv
  <2> QED
    BY <2>3, <2>4
<1>7. ASSUME NEW ok \in BOOLEAN, Gather(ok) PROVE CeremonyInv'
  <2>1. /\ gen = "gather" /\ UNCHANGED <<size, home>> /\ next \in Secondaries /\ next' = next + 1
        /\ gen' = IF next + 1 \in Secondaries THEN "gather" ELSE "push"
        /\ gathered' = IF ok THEN gathered \cup home[next].gentx ELSE gathered
        /\ lost' = IF ok THEN lost ELSE lost \cup {next}
        /\ AllConfigured
    BY <1>7 DEF Gather, CeremonyAt, hostVars, PhaseInv, CeremonySteps
  <2>2. Members' = Members /\ Secondaries' = Secondaries
        /\ (\A n \in Node : Own(n)' = Own(n))
        /\ SkipsExchange(size)' = SkipsExchange(size) /\ Exchanges' = Exchanges
    BY <2>1 DEF Members, Secondaries, Own, SkipsExchange, Exchanges
  <2>3. home[next].gentx = {Own(next)} /\ Own(next).node = next
    BY <1>0, <2>1 DEF GentxInv, AllConfigured, Own
  <2>4. \A t \in gathered' : t.node \in Secondaries /\ t = Own(t.node)
    BY <2>1, <2>3 DEF CeremonyInv
  <2>5. ASSUME NEW n \in Secondaries \ lost', n < next' PROVE Own(n) \in gathered'
    <3>1. n = next \/ n < next
      BY <2>1, <2>5, <1>0 DEF Secondaries
    <3>2. CASE n = next
      BY <2>1, <2>3, <2>5, <3>2
    <3>3. CASE n < next
      BY <2>1, <2>5, <3>3 DEF CeremonyInv
    <3> QED
      BY <3>1, <3>2, <3>3
  <2>6. next + 1 \notin Secondaries => next + 1 = size
    BY <2>1, <1>0 DEF Secondaries
  <2>7. ~SkipsExchange(size)
    BY <2>1 DEF CeremonyInv
  <2>8. CASE gen' = "gather"
    BY <1>0, <2>1, <2>2, <2>4, <2>5, <2>7, <2>8 DEF CeremonyInv
  <2>9. CASE gen' = "push"
    BY <1>0, <2>1, <2>2, <2>4, <2>5, <2>6, <2>7, <2>9 DEF CeremonyInv
  <2> QED
    BY <2>1, <2>8, <2>9
<1>8. ASSUME NEW arrived \in SUBSET gathered, Push(arrived) PROVE CeremonyInv'
  <2>1. CASE gen' = "tainted"
    BY <1>1, <2>1
  <2>2. CASE gen' # "tainted"
    <3>1. /\ gen = "push" /\ gen' = "collect" /\ arrived = gathered /\ AllConfigured /\ size > 0
          /\ UNCHANGED <<size, lost>>
      BY <1>8, <2>2 DEF Push, CeremonyAt, PhaseInv, CeremonySteps, copyVars
    <3>2. /\ OnlyGentx(Primary)
          /\ home'[Primary].gentx = Overlay(home[Primary].gentx, gathered)
      BY <1>8, <3>1, ShapePrimary
    <3>3. Members' = Members /\ (\A n \in Node : Own(n)' = Own(n)) /\ Exchanges' = Exchanges
      BY <3>1, <3>2 DEF Members, Own, OnlyGentx, SkipsExchange, Exchanges
    <3>4. \A t \in gathered : t.node \in Secondaries
      BY <3>1 DEF CeremonyInv
    <3>5. \A n \in Secondaries \ lost : Own(n) \in gathered
      BY <3>1, <1>0 DEF CeremonyInv, Secondaries
    <3>6. Own(Primary) \in home[Primary].gentx /\ Own(Primary).node = Primary
      BY <1>0, <3>1 DEF GentxInv, AllConfigured, Own
    <3>7. Own(Primary) \in home'[Primary].gentx
      BY <1>0, <3>2, <3>4, <3>6 DEF Overlay
    <3>8. \A n \in Members : n = Primary \/ n \in Secondaries
      BY <1>0 DEF Members, Secondaries, Primary
    <3>9. \A n \in Members \ lost : Own(n) \in home'[Primary].gentx
      BY <3>2, <3>5, <3>7, <3>8 DEF Overlay
    <3> QED
      BY <1>0, <3>1, <3>3, <3>9 DEF CeremonyInv
  <2> QED
    BY <2>1, <2>2
<1>9. CASE Collect
  <2>1. /\ gen = "collect" /\ gen' = IF SkipsExchange(size) THEN "created" ELSE "fetch"
        /\ UNCHANGED <<size, lost, undelivered>> /\ AllConfigured /\ size > 0
    BY <1>9 DEF Collect, CeremonyAt, PhaseInv, CeremonySteps, copyVars
  <2>2. OnlyGenesis(Primary) /\ home'[Primary].genesis.txs = home[Primary].gentx
    BY <1>9, ShapePrimary
  <2>3. Members' = Members /\ (\A n \in Node : Own(n)' = Own(n))
        /\ SkipsExchange(size)' = SkipsExchange(size) /\ Exchanges' = Exchanges
    BY <2>1, <2>2 DEF Members, Own, OnlyGenesis, SkipsExchange, Exchanges
  <2>4. Exchanges => \A n \in Members \ lost : Own(n) \in home'[Primary].gentx
    BY <1>0, <2>1, <2>2 DEF CeremonyInv, OnlyGenesis
  <2>5. home'[Primary].genesis.txs = home'[Primary].gentx
    BY <1>0, <2>2 DEF OnlyGenesis
  <2>6. SkipsExchange(size) => \A n \in Members \ {Primary} :
            ~Exchanges /\ home'[n].genesis.txs = {}
    <3> SUFFICES ASSUME SkipsExchange(size), NEW n \in Members, n # Primary
                 PROVE  ~Exchanges /\ home'[n].genesis.txs = {}
      OBVIOUS
    <3>1. ~Exchanges
      BY <1>0 DEF Members, Primary, Exchanges
    <3>2. home'[n].genesis = home[n].genesis /\ Configured(n) /\ home[n].genesis \in Docs(n)
      BY <1>0, <2>1, <2>2 DEF OnlyGenesis, Configured, AllConfigured, Docs
    <3> QED
      BY <3>1, <3>2 DEF DocInv
  <2>7. CASE SkipsExchange(size)
    BY <1>0, <2>1, <2>3, <2>4, <2>5, <2>6, <2>7 DEF CeremonyInv
  <2>8. CASE ~SkipsExchange(size)
    BY <1>0, <2>1, <2>3, <2>4, <2>5, <2>8 DEF CeremonyInv
  <2> QED
    BY <2>7, <2>8
<1>10. ASSUME NEW done \in BOOLEAN, DropCollect(done) PROVE CeremonyInv'
  BY <1>1, <1>10 DEF DropCollect, CeremonyAt
<1>11. CASE Fetch
  <2>1. /\ gen = "fetch" /\ gen' = "distribute" /\ next' = 1 /\ staged' = home[Primary].genesis
        /\ UNCHANGED <<size, home, lost>> /\ size > 0
    BY <1>11 DEF Fetch, CeremonyAt, hostVars, PhaseInv, CeremonySteps
  <2>2. Members' = Members /\ Secondaries' = Secondaries /\ (\A n \in Node : Own(n)' = Own(n))
        /\ SkipsExchange(size)' = SkipsExchange(size) /\ Exchanges' = Exchanges
    BY <2>1 DEF Members, Secondaries, Own, SkipsExchange, Exchanges
  <2>3. ~SkipsExchange(size)
    BY <2>1 DEF CeremonyInv
  <2>4. 1 \in Secondaries /\ \A n \in Secondaries : ~(n < 1)
    BY <1>0, <2>1, <2>3 DEF Secondaries, SkipsExchange
  <2>5. /\ Exchanges => \A n \in Members \ lost : Own(n) \in home[Primary].gentx
        /\ home[Primary].genesis.txs = home[Primary].gentx
    BY <2>1 DEF CeremonyInv
  <2> QED
    BY <1>0, <2>1, <2>2, <2>3, <2>4, <2>5 DEF CeremonyInv
<1>12. ASSUME NEW ok \in BOOLEAN, Distribute(ok) PROVE CeremonyInv'
  <2>1. CASE gen' = "tainted"
    BY <1>1, <2>1
  <2>2. CASE gen' # "tainted"
    <3>1. /\ gen = "distribute" /\ next \in Secondaries /\ next' = next + 1
          /\ gen' = IF next + 1 \in Secondaries THEN "distribute" ELSE "created"
          /\ undelivered' = IF ok THEN undelivered ELSE undelivered \cup {next}
          /\ UNCHANGED <<size, lost, staged>> /\ size > 0
      BY <1>12, <2>2 DEF Distribute, CeremonyAt, PhaseInv, CeremonySteps
    <3>2. /\ next \in Node /\ next # Primary /\ OnlyGenesis(next)
          /\ home'[next].genesis = IF ok THEN staged ELSE home[next].genesis
      BY <1>12, ShapeOthers
    <3>3. Members' = Members /\ Secondaries' = Secondaries /\ (\A n \in Node : Own(n)' = Own(n))
          /\ SkipsExchange(size)' = SkipsExchange(size) /\ Exchanges' = Exchanges
      BY <3>1, <3>2 DEF Members, Secondaries, Own, OnlyGenesis, SkipsExchange, Exchanges
    <3>4. home'[Primary] = home[Primary]
      BY <1>0, <3>2 DEF OnlyGenesis
    <3>5. /\ ~SkipsExchange(size) /\ staged = home[Primary].genesis
          /\ Exchanges => \A n \in Members \ lost : Own(n) \in home[Primary].gentx
          /\ home[Primary].genesis.txs = home[Primary].gentx
      BY <3>1 DEF CeremonyInv
    <3>6. ASSUME NEW n \in Secondaries \ undelivered', n < next'
          PROVE  home'[n].genesis = home'[Primary].genesis
      <4>1. n = next \/ (n < next /\ n # next)
        BY <3>1, <3>6, <1>0 DEF Secondaries
      <4>2. CASE n = next
        BY <3>1, <3>2, <3>4, <3>5, <3>6, <4>2
      <4>3. CASE n < next /\ n # next
        BY <1>0, <3>1, <3>2, <3>4, <3>6, <4>3 DEF CeremonyInv, OnlyGenesis
      <4> QED
        BY <4>1, <4>2, <4>3
    <3>7. CASE gen' = "distribute"
      BY <1>0, <3>1, <3>3, <3>4, <3>5, <3>6, <3>7 DEF CeremonyInv
    <3>8. CASE gen' = "created"
      <4>1. \A n \in Members : n = Primary \/ (n \in Secondaries /\ n < next')
        BY <1>0, <3>1, <3>8 DEF Members, Secondaries, Primary
      <4>2. \A n \in Members' \ undelivered' : home'[n].genesis = home'[Primary].genesis
        BY <3>3, <3>6, <4>1
      <4> QED
        BY <1>0, <3>1, <3>3, <3>4, <3>5, <3>8, <4>2 DEF CeremonyInv
    <3> QED
      BY <3>1, <3>7, <3>8
  <2> QED
    BY <2>1, <2>2
<1>13. ASSUME NEW n \in Node, Launch(n) PROVE CeremonyInv'
  BY <1>0, <1>2, <1>13, ShapeOthers DEF Launch, tfVars
<1>14. ASSUME NEW n \in Node, Reboot(n) PROVE CeremonyInv'
  <2>1. CASE gen' = "tainted"
    BY <1>1, <2>1
  <2>2. CASE gen' = gen
    BY <1>2, <1>14, <2>2 DEF Reboot
  <2> QED
    BY <1>14, <2>1, <2>2 DEF Reboot
<1>15. ASSUME NEW n \in Node, \/ DropConfigure(n) \/ StartValidator(n) \/ SkipKill(n)
                              \/ RestartAfterFailure(n) \/ DropStart(n) \/ Crash(n)
       PROVE  CeremonyInv'
  BY <1>2, <1>15 DEF DropConfigure, StartValidator, RestartService, EnableService, StartStep,
                     RestartAfterFailure, DropStart, SkipKill, Crash, tfVars, hostVars
<1>16. CASE EndApply \/ UNCHANGED vars
  BY <1>2, <1>16 DEF EndApply, vars, tfVars, hostVars
<1> QED
  BY <1>3, <1>4, <1>5, <1>6, <1>7, <1>8, <1>9, <1>10, <1>11, <1>12, <1>13, <1>14, <1>15, <1>16
  DEF Next, Operator, Ceremony, Mishap, Systemd

---------------------------------------------------------------------------
\* systemd runs, or has run, the daemon on this home.
Started(n) ==
    unit[n] \in {"starting", "active", "backoff"} \/ home[n].pinned # NoGenesis

\* Unless a boot did it, no daemon is started between the wipe of its home and
\* the end of the ceremony; and those that were started keep the file they
\* have, which is one file for all that received it.
StartInv ==
    /\ \A n \in Members \ booted : Configured(n) /\ Started(n) => gen = "created"
    /\ \A n \in Members \ (booted \cup undelivered) :
           home[n].pinned \in {NoGenesis, home[n].genesis}
    /\ \A m, n \in Members \ (booted \cup undelivered) : Started(m) /\ Started(n) =>
           \/ home[m].genesis.txs = {} \/ home[n].genesis.txs = {}
           \/ home[m].genesis = home[n].genesis

\* Initially nothing is started.
LEMMA StartInit == Init => StartInv
<1> SUFFICES ASSUME Init PROVE StartInv
  OBVIOUS
<1>1. Members \subseteq Node
  BY ValidatorAssumption, MembersAreNodes DEF Init
<1> QED
  BY <1>1 DEF Init, StartInv, Started, Configured, EmptyHome

\* What a step must do for the started daemons to stay in order: touch no home
\* of a member that it leaves started, and start none.
LEMMA StartFrame ==
    ASSUME StartInv, UNCHANGED <<size, undelivered>>,
           gen = "created" => gen' = "created",
           \A n \in Members \ booted' :
               \/ ~Started(n)'
               \/ /\ n \notin booted /\ Started(n) /\ (Configured(n)' => Configured(n))
                  /\ home'[n].genesis = home[n].genesis
                  /\ home'[n].pinned \in {home[n].pinned, home[n].genesis}
    PROVE  StartInv'
<1>1. Members' = Members
  BY DEF Members
<1>2. \A n \in Members \ booted' : Configured(n)' /\ Started(n)' => gen' = "created"
  BY DEF StartInv
<1>3. \A n \in Members \ (booted' \cup undelivered) :
          home'[n].pinned \in {NoGenesis, home'[n].genesis}
  BY DEF StartInv, Started
<1>4. \A m, n \in Members \ (booted' \cup undelivered) : Started(m)' /\ Started(n)' =>
           \/ home'[m].genesis.txs = {} \/ home'[n].genesis.txs = {}
           \/ home'[m].genesis = home'[n].genesis
  BY DEF StartInv
<1> QED
  BY <1>1, <1>2, <1>3, <1>4 DEF StartInv

\* The steps up to the end of the ceremony, before which nothing is started.
LEMMA BeforeStart ==
    ASSUME TypeOK, StartInv, AllConfigured, gen # "created", UNCHANGED <<size, unit, booted>>,
           \A n \in Node : home'[n].pinned = home[n].pinned
    PROVE  StartInv'
<1>1. Members' = Members /\ Members \subseteq Node
  BY MembersAreNodes DEF Members, TypeOK
<1>2. \A n \in Members \ booted : ~Started(n)
  BY DEF StartInv, Configured, AllConfigured
<1>3. \A n \in Members \ booted : ~Started(n)' /\ home'[n].pinned = NoGenesis
  BY <1>1, <1>2 DEF Started
<1> QED
  BY <1>1, <1>3 DEF StartInv

\* Every step keeps the started daemons in order.
LEMMA StartOrder ==
    /\ TypeOK /\ PhaseInv /\ VersionInv /\ DocInv /\ CeremonyInv /\ StartInv /\ [Next]_vars
    => StartInv'
<1> SUFFICES ASSUME TypeOK, PhaseInv, VersionInv, DocInv, CeremonyInv, StartInv, [Next]_vars
             PROVE  StartInv'
  OBVIOUS
<1>0. Members \subseteq Node /\ Primary \in Node
  BY MembersAreNodes DEF TypeOK
<1>1. ASSUME NEW k \in Counts \cup {size}, NEW v \in {version, version + 1},
             v <= MaxVersion, Apply(k, v)
      PROVE  StartInv'
  <2>1. UNCHANGED <<home, unit, booted, undelivered>> /\ ~applying
    BY <1>1 DEF Apply, hostVars, copyVars
  <2>2. \A n \in Node : Started(n)' = Started(n)
    BY <2>1 DEF Started
  <2>3. \A n \in Members' \ Members : ~Started(n) /\ home[n].pinned = NoGenesis
    <3>1. Members' \subseteq Node
      BY <1>1, Plans
    <3>2. \A n \in Node \ Members : unit[n] = "none" /\ home[n] = EmptyHome
      BY <2>1 DEF VersionInv
    <3>3. EmptyHome.pinned = NoGenesis
      BY DEF EmptyHome
    <3> QED
      BY <3>1, <3>2, <3>3 DEF Started
  <2>4. \A n \in Members' \ booted : Configured(n)' /\ Started(n)' => gen' = "created"
    <3>1. CASE v # version
      BY <1>1, <3>1, Plans DEF Configured
    <3>2. CASE v = version
      <4>1. Members' = Members /\ \A n \in Members : Configured(n)' => Configured(n)
        BY <1>0, <1>1, <3>2, Plans DEF Members, Configured
      <4> QED
        BY <1>0, <1>1, <2>2, <3>2, <4>1, Plans DEF StartInv
    <3> QED
      BY <3>1, <3>2
  <2>5. Members' \subseteq Node
    BY <1>1, Plans
  <2> QED
    BY <2>1, <2>2, <2>3, <2>4, <2>5 DEF StartInv
<1>2. ASSUME NEW n \in Node, Terminate(n) PROVE StartInv'
  <2>1. /\ n \notin Members /\ UNCHANGED <<size, gen, cfg, undelivered>> /\ booted' = booted \ {n}
        /\ \A m \in Node \ {n} : home'[m] = home[m] /\ unit'[m] = unit[m]
    BY <1>2 DEF Terminate, Doomed, TypeOK, tfVars, copyVars
  <2> QED
    BY <1>0, <2>1, StartFrame DEF Started, Configured
<1>3. ASSUME NEW n \in Node, Configure(n) PROVE StartInv'
  <2>1. /\ UNCHANGED <<size, gen, undelivered>>
        /\ \A m \in Node \ {n} : cfg'[m] = cfg[m] /\ home'[m] = home[m] /\ unit'[m] = unit[m]
        /\ booted' \in {booted, booted \ {n}}
    BY <1>3 DEF Configure, Upload, StopService, KillDaemon, Wipe, InitHome, InstallUnit,
                GenerateGentx, ConfigStep, copyVars, hostVars, TypeOK
  <2>2. \A m \in Node \ {n} : (Started(m)' = Started(m)) /\ (Configured(m)' = Configured(m))
    BY <2>1 DEF Started, Configured
  <2>3. ASSUME \/ ~Started(n)'
               \/ /\ n \notin booted' => n \notin booted
                  /\ Started(n) /\ (Configured(n)' => Configured(n))
                  /\ home'[n].genesis = home[n].genesis
                  /\ home'[n].pinned = home[n].pinned
        PROVE  StartInv'
    BY <1>0, <2>1, <2>2, <2>3, StartFrame
  <2>4. CASE Wipe(n) \/ InitHome(n)
    <3>1. unit'[n] \in {"none", "inactive"}
      BY <2>4 DEF Wipe, InitHome, ConfigStep, PhaseInv
    <3>2. home'[n].pinned = NoGenesis
      <4>1. CASE Wipe(n)
        BY <4>1 DEF Wipe, EmptyHome, TypeOK
      <4>2. CASE InitHome(n)
        <5>1. home[n] = EmptyHome
          BY <4>2 DEF InitHome, ConfigStep, DocInv
        <5> QED
          BY <4>2, <5>1, ShapeConfigure DEF EmptyHome
      <4> QED
        BY <2>4, <4>1, <4>2
    <3>3. ~Started(n)'
      BY <3>1, <3>2 DEF Started
    <3> QED
      BY <2>3, <3>3
  <2>5. CASE ~Wipe(n) /\ ~InitHome(n)
    <3>1. /\ home'[n].genesis = home[n].genesis /\ home'[n].pinned = home[n].pinned
          /\ booted' = booted
      BY <1>3, <2>5, ShapeConfigure
         DEF Configure, Upload, StopService, KillDaemon, InstallUnit, GenerateGentx, hostVars,
             OnlyGentx
    <3>2. Configured(n)' => Configured(n)
      BY <1>3, <2>5 DEF Configure, Upload, StopService, KillDaemon, InstallUnit, GenerateGentx,
                        ConfigStep, Configured, TypeOK
    <3>3. unit'[n] \in {"starting", "active", "backoff"} =>
              unit[n] \in {"starting", "active", "backoff"}
      BY <1>3, <2>5 DEF Configure, Upload, StopService, KillDaemon, InstallUnit, GenerateGentx,
                        UnitWithoutDaemon, hostVars, TypeOK
    <3>4. Started(n)' => Started(n)
      BY <3>1, <3>3 DEF Started
    <3> QED
      BY <2>3, <3>1, <3>2, <3>4
  <2> QED
    BY <2>4, <2>5
<1>4. ASSUME UNCHANGED <<size, gen, cfg, undelivered, home, unit, booted>> PROVE StartInv'
  BY <1>4, StartFrame DEF Started, Configured
<1>5. CASE BeginCeremony
  BY <1>5, BeforeStart DEF BeginCeremony, CeremonyAt, hostVars
<1>6. ASSUME NEW ok \in BOOLEAN, Gather(ok) PROVE StartInv'
  BY <1>6, BeforeStart DEF Gather, CeremonyAt, hostVars, PhaseInv, CeremonySteps
<1>7. ASSUME NEW arrived \in SUBSET gathered, Push(arrived) PROVE StartInv'
  BY <1>7, BeforeStart, ShapePrimary
     DEF Push, CeremonyAt, SetPrimary, PhaseInv, CeremonySteps, OnlyGentx
<1>8. ASSUME NEW done \in BOOLEAN, Collect \/ DropCollect(done) PROVE StartInv'
  BY <1>8, BeforeStart, ShapePrimary
     DEF Collect, DropCollect, CeremonyAt, SetPrimary, hostVars, PhaseInv, CeremonySteps,
         OnlyGenesis
<1>9. CASE Fetch
  BY <1>9, BeforeStart DEF Fetch, CeremonyAt, hostVars, PhaseInv, CeremonySteps
<1>10. ASSUME NEW ok \in BOOLEAN, Distribute(ok) PROVE StartInv'
  BY <1>10, BeforeStart, ShapeOthers
     DEF Distribute, CeremonyAt, PhaseInv, CeremonySteps, OnlyGenesis
<1>11. ASSUME NEW n \in Node, RestartService(n) PROVE StartInv'
  <2>1. /\ gen = "created" /\ gen' = gen /\ n \in Members
        /\ UNCHANGED <<size, cfg, home, booted, undelivered>>
    BY <1>11 DEF RestartService, StartStep, copyVars
  <2>2. Members' = Members /\ AllConfigured
    BY <2>1 DEF Members, PhaseInv
  <2>3. \A m \in Members \ undelivered :
            home[m].genesis = home[Primary].genesis \/ home[m].genesis.txs = {}
    BY <2>1 DEF CeremonyInv
  <2> QED
    BY <2>1, <2>2, <2>3 DEF StartInv
<1>12. ASSUME NEW n \in Node,
              EnableService(n) \/ DropStart(n) \/ SkipKill(n) \/ DropConfigure(n)
       PROVE  StartInv'
  <2>1. UNCHANGED <<size, gen, undelivered, home, unit, booted>>
    BY <1>12 DEF EnableService, DropStart, SkipKill, DropConfigure, StartStep, copyVars, hostVars
  <2>2. \A m \in Node : (Started(m)' = Started(m)) /\ (Configured(m)' => Configured(m))
    BY <1>12, <2>1 DEF EnableService, DropStart, SkipKill, DropConfigure, StartStep, Started,
                       Configured, TypeOK
  <2> QED
    BY <1>0, <2>1, <2>2, StartFrame
<1>13. ASSUME NEW n \in Node, Launch(n) PROVE StartInv'
  <2>1. UNCHANGED <<size, gen, cfg, undelivered, booted>> /\ unit[n] = "starting"
        /\ \A m \in Node \ {n} : unit'[m] = unit[m]
    BY <1>13 DEF Launch, tfVars, copyVars, TypeOK
  <2>2. /\ \A m \in Node : home'[m].genesis = home[m].genesis
        /\ \A m \in Node \ {n} : home'[m] = home[m]
        /\ home'[n].pinned \in {home[n].pinned, home[n].genesis}
    BY <1>13, ShapeOthers DEF Effective
  <2>3. \A m \in Node : (Started(m)' => Started(m)) /\ (Configured(m)' = Configured(m))
    BY <2>1, <2>2 DEF Started, Configured
  <2> QED
    BY <1>0, <2>1, <2>2, <2>3, StartFrame
<1>14. ASSUME NEW n \in Node, RestartAfterFailure(n) \/ Crash(n) PROVE StartInv'
  <2>1. UNCHANGED <<size, gen, cfg, undelivered, home, booted>>
    BY <1>14 DEF RestartAfterFailure, Crash, tfVars, copyVars
  <2>2. \A m \in Node : Started(m)' => Started(m)
    BY <1>14, <2>1 DEF RestartAfterFailure, Crash, UnitWithoutDaemon, Started, TypeOK
  <2> QED
    BY <1>0, <2>1, <2>2, StartFrame DEF Configured
<1>15. ASSUME NEW n \in Node, Reboot(n) PROVE StartInv'
  <2>1. UNCHANGED <<size, undelivered, home>> /\ (gen = "created" => gen' = "created")
        /\ \A m \in Node \ {n} : cfg'[m] = cfg[m] /\ unit'[m] = unit[m]
    BY <1>15 DEF Reboot, copyVars, TypeOK
  <2>2. \A m \in Node : Configured(m)' => Configured(m)
    BY <1>15 DEF Reboot, Configured, TypeOK
  <2>3. \A m \in Node \ booted' : m \notin booted /\ (Started(m)' => Started(m))
    BY <1>15, <2>1 DEF Reboot, Started, TypeOK
  <2> QED
    BY <1>0, <2>1, <2>2, <2>3, StartFrame
<1>16. CASE EndApply \/ UNCHANGED vars
  BY <1>4, <1>16 DEF EndApply, copyVars, hostVars, vars, tfVars
<1> QED
  BY <1>1, <1>2, <1>3, <1>5, <1>6, <1>7, <1>8, <1>9, <1>10, <1>11, <1>12, <1>13, <1>14, <1>15,
     <1>16
  DEF Next, Operator, Ceremony, Mishap, StartValidator, Systemd

---------------------------------------------------------------------------
IInv ==
    /\ TypeOK /\ PhaseInv /\ KeyInv
    /\ LiveInv /\ VersionInv
    /\ DocInv /\ GentxInv /\ CeremonyInv /\ StartInv

\* The invariant these lemmas make up.
LEMMA Inductive == Spec => []IInv
<1>1. Init => IInv
  BY TypeInit, PhaseInit, KeyInit, LiveInit, CeremonyInit, StartInit DEF IInv
<1>2. IInv /\ [Next]_vars => IInv'
  BY TypeStep, PhaseStep, KeyStep, LiveStep, VersionStep, DocStep, GentxStep, CeremonyStep,
     StartOrder
  DEF IInv
<1> QED
  BY <1>1, <1>2, PTL DEF Spec

\* A consensus key never runs under two genesis documents.
THEOREM KeyRunsOneGenesis == Spec => []KeyOneGenesis
<1>1. IInv => KeyOneGenesis
  BY DEF IInv, KeyInv
<1> QED
  BY <1>1, Inductive, PTL

\* The daemons are never of two networks, but for one a failed script left alive
\* on a home that was wiped under it.
THEOREM OneNetwork == Spec => []SameNetwork
<1>1. IInv => SameNetwork
  <2> SUFFICES ASSUME IInv, NEW m \in Members \ survivors, NEW n \in Members \ survivors,
                      Live(m), Live(n)
               PROVE  daemon[m].base = daemon[n].base
    BY DEF SameNetwork
  <2>1. Members \subseteq Node
    BY MembersAreNodes DEF IInv, TypeOK
  <2>2. /\ daemon[m] \in Docs(m) /\ daemon[m].txs # {}
        /\ daemon[n] \in Docs(n) /\ daemon[n].txs # {}
    BY <2>1 DEF IInv, LiveInv, Docs
  <2> QED
    BY <2>2 DEF IInv, DocInv
<1> QED
  BY <1>1, Inductive, PTL

\* Nor do they run different files of one, save those a boot started too early,
\* those a copy did not reach and those a failed script left alive.
THEOREM OneGenesis == Spec => []SameGenesis
<1> DEFINE Regular == Members \ (booted \cup undelivered \cup survivors)
<1>1. IInv => SameGenesis
  <2> SUFFICES ASSUME IInv, NEW m \in Regular, NEW n \in Regular, Live(m), Live(n)
               PROVE  daemon[m] = daemon[n]
    BY DEF SameGenesis
  <2>1. Members \subseteq Node
    BY MembersAreNodes DEF IInv, TypeOK
  <2>2. ASSUME NEW i \in Regular, Live(i)
        PROVE  Started(i) /\ daemon[i] = home[i].genesis /\ daemon[i].txs # {}
    <3>1. daemon[i] = home[i].pinned /\ daemon[i].txs # {} /\ daemon[i] # NoGenesis
      BY <2>1, <2>2 DEF IInv, LiveInv, Live
    <3> QED
      BY <3>1 DEF IInv, StartInv, Started
  <2> QED
    BY <2>2 DEF IInv, StartInv
<1> QED
  BY <1>1, Inductive, PTL

\* The genesis of a ceremony that stands holds the keys the validators have now.
THEOREM GenesisHoldsKeys == Spec => []GenesisCurrent
<1>1. IInv => GenesisCurrent
  <2> SUFFICES ASSUME IInv, gen = "created"
               PROVE  LET g == home[Primary].genesis
                      IN  /\ \A t \in g.txs : t.node \in Members /\ t.key = home[t.node].key
                          /\ Exchanges =>
                               /\ \A n \in Members \ lost : Own(n) \in g.txs
                               /\ \A n \in Members \ undelivered : home[n].genesis = g
    BY DEF GenesisCurrent, Own
  <2>1. size > 0 /\ AllConfigured /\ Primary \in Members
    BY DEF IInv, TypeOK, PhaseInv, Members, Primary
  <2>2. home[Primary].genesis.txs = home[Primary].gentx
    BY DEF IInv, CeremonyInv
  <2>3. \A t \in home[Primary].gentx : t.node \in Members /\ t.key = home[t.node].key
    BY <2>1 DEF IInv, GentxInv, AllConfigured
  <2>4. Exchanges => \A n \in Members \ lost : Own(n) \in home[Primary].gentx
    BY DEF IInv, CeremonyInv
  <2>5. Exchanges => \A n \in Members \ undelivered : home[n].genesis = home[Primary].genesis
    BY DEF IInv, CeremonyInv
  <2> QED
    BY <2>2, <2>3, <2>4, <2>5
<1> QED
  BY <1>1, Inductive, PTL

\* No home is wiped under a unit that may start a daemon, or under a daemon other
\* than one whose pkill this configuration skipped.
THEOREM WipesAreQuiescent == Spec => WipeQuiescent
<1>1. IInv /\ [Next]_vars =>
        [\A n \in Node : cfg[n] = "wipe" /\ cfg'[n] = "init" =>
            /\ Live(n) => n \in survivors
            /\ unit[n] \in {"none", "inactive"}]_vars
  BY DEF IInv, PhaseInv
<1> QED
  BY <1>1, Inductive, PTL DEF Spec, WipeQuiescent

---------------------------------------------------------------------------
\* The steps of a deployment are steps of its genesis source, or stutter: only
\* a plan, the end of an apply, what is done to the primary's genesis file and
\* the end of the ceremony are seen.
LEMMA SourceStep == IInv /\ IInv' /\ [Next]_vars => [Source!SourceNext]_(Source!sourceVars)
<1> SUFFICES ASSUME IInv, IInv', [Next]_vars
             PROVE  Source!SourceNext \/ UNCHANGED Source!sourceVars
  OBVIOUS
<1> DEFINE doc == home[Primary].genesis
<1>0. /\ Members \subseteq Node /\ Primary \in Node /\ (size > 0 => Primary \in Members)
      /\ Primary \notin Secondaries /\ size \in Nat
      /\ doc' \in Genesis
      /\ TypeOK /\ TypeOK' /\ PhaseInv /\ VersionInv
  BY ValidatorAssumption, MembersAreNodes
     DEF IInv, TypeOK, Members, Secondaries, Primary, Home
<1>1. ASSUME UNCHANGED <<applying, size, gen, doc>> PROVE UNCHANGED Source!sourceVars
  BY <1>1 DEF Source!sourceVars
<1>2. ASSUME applying, gen # "created", gen' # "created", UNCHANGED <<applying, size>>
      PROVE  Source!SourceNext
  BY <1>0, <1>2 DEF Source!SourceNext, Source!Rewrite
<1>3. ASSUME applying, gen # "created", gen' = "created", UNCHANGED <<applying, size>>,
             size > 0, doc'.txs # {}
      PROVE  Source!SourceNext
  BY <1>0, <1>3 DEF Source!SourceNext, Source!Publish
<1>4. ASSUME NEW k \in Counts \cup {size}, NEW v \in {version, version + 1},
             v <= MaxVersion, Apply(k, v)
      PROVE  Source!SourceNext
  <2>1. ~applying /\ applying' = TRUE /\ home' = home
    BY <1>4 DEF Apply, hostVars
  <2>2. gen' # "absent" => gen = "created" /\ gen' = "created" /\ size' = size
    BY <1>0, <1>4, Plans
  <2>3. gen' = "created" => size > 0
    BY <1>0, <2>2 DEF PhaseInv
  <2>4. (gen' = "created") = FALSE \/ (gen' = "created") = (gen = "created" /\ size' > 0)
    BY <2>2, <2>3
  <2>5. (gen' = "created") \in {FALSE, gen = "created" /\ size' > 0}
    BY <2>4, Zenon
  <2>6. (size' > 0) \in BOOLEAN /\ UNCHANGED home[Primary].genesis
    BY <2>1
  <2>7. Source!Begin
    BY <2>1, <2>5, <2>6, Zenon DEF Source!Begin
  <2> QED
    BY <2>7 DEF Source!SourceNext
<1>5. CASE EndApply
  BY <1>5 DEF EndApply, hostVars, Source!SourceNext, Source!End
<1>6. ASSUME NEW n \in Node, Terminate(n) PROVE Source!SourceNext \/ UNCHANGED Source!sourceVars
  <2>1. applying /\ n \notin Members /\ UNCHANGED <<applying, size, gen>>
    BY <1>6 DEF Terminate, Doomed, tfVars
  <2>2. CASE n = Primary
    BY <1>0, <1>2, <2>1, <2>2 DEF PhaseInv
  <2>3. CASE n # Primary
    BY <1>0, <1>1, <1>6, <2>1, <2>3 DEF Terminate, TypeOK
  <2> QED
    BY <2>2, <2>3
<1>7. ASSUME NEW n \in Node, Configure(n) PROVE Source!SourceNext
  BY <1>0, <1>2, <1>7, ConfigureAlone
<1>8. CASE BeginCeremony \/ Fetch
  BY <1>2, <1>8 DEF BeginCeremony, Fetch, CeremonyAt
<1>9. ASSUME NEW ok \in BOOLEAN, Gather(ok) \/ DropCollect(ok) PROVE Source!SourceNext
  BY <1>2, <1>9 DEF Gather, DropCollect, CeremonyAt
<1>10. ASSUME NEW arrived \in SUBSET gathered, Push(arrived) PROVE Source!SourceNext
  BY <1>2, <1>10 DEF Push, CeremonyAt
<1>11. ASSUME gen \in CeremonySteps PROVE home[Primary].gentx # {} /\ size > 0
  BY <1>0, <1>11 DEF IInv, GentxInv, PhaseInv, AllConfigured
<1>12. CASE Collect
  <2>1. applying /\ gen = "collect" /\ UNCHANGED <<applying, size>>
    BY <1>12 DEF Collect, CeremonyAt
  <2>2. doc'.txs # {} /\ size > 0
    BY <1>0, <1>11, <1>12, <2>1, ShapePrimary DEF CeremonySteps
  <2> QED
    BY <1>2, <1>3, <2>1, <2>2
<1>13. ASSUME NEW ok \in BOOLEAN, Distribute(ok) PROVE Source!SourceNext
  <2>1. applying /\ gen = "distribute" /\ UNCHANGED <<applying, size>>
    BY <1>13 DEF Distribute, CeremonyAt
  <2>2. doc' = doc
    BY <1>0, <1>13, ShapeOthers DEF OnlyGenesis
  <2>3. doc.txs # {} /\ size > 0
    BY <1>11, <2>1 DEF IInv, CeremonyInv, CeremonySteps
  <2> QED
    BY <1>2, <1>3, <2>1, <2>2, <2>3
<1>14. ASSUME NEW n \in Node, Launch(n) PROVE UNCHANGED Source!sourceVars
  BY <1>0, <1>1, <1>14, ShapeOthers DEF Launch, tfVars
<1>15. ASSUME NEW n \in Node, Reboot(n) PROVE Source!SourceNext \/ UNCHANGED Source!sourceVars
  <2>1. UNCHANGED <<applying, size, home>> /\ (gen' = "created") = (gen = "created")
    BY <1>15 DEF Reboot
  <2> QED
    BY <2>1 DEF Source!sourceVars
<1>16. ASSUME NEW n \in Node, \/ DropConfigure(n) \/ StartValidator(n) \/ SkipKill(n)
                              \/ RestartAfterFailure(n) \/ DropStart(n) \/ Crash(n)
       PROVE  UNCHANGED Source!sourceVars
  BY <1>1, <1>16 DEF DropConfigure, StartValidator, RestartService, EnableService, StartStep,
                     RestartAfterFailure, DropStart, SkipKill, Crash, tfVars, hostVars
<1>17. CASE UNCHANGED vars
  BY <1>1, <1>17 DEF vars, tfVars, hostVars
<1> QED
  BY <1>4, <1>5, <1>6, <1>7, <1>8, <1>9, <1>10, <1>12, <1>13, <1>14, <1>15, <1>16, <1>17
  DEF Next, Operator, Ceremony, Mishap, Systemd

\* The deployment is the source of the genesis file that the seeds rely on:
\* what it publishes is complete, and stays until an apply withdraws it.
THEOREM Refinement == Spec => ImplementsGenesisSource
<1>1. Init => Source!SourceInit
  <2> SUFFICES ASSUME Init PROVE Source!SourceInit
    OBVIOUS
  <2>1. home[Primary] = EmptyHome
    BY ValidatorAssumption, MembersAreNodes DEF Init
  <2> QED
    BY <2>1 DEF Init, Source!SourceInit, EmptyHome
<1> QED
  BY <1>1, Inductive, SourceStep, PTL
     DEF Spec, ImplementsGenesisSource, Source!SourceSpec
===========================================================================
