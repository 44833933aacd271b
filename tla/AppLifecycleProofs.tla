------------------------- MODULE AppLifecycleProofs -------------------------
(***************************************************************************)
(* What AppLifecycle promises for every number of blocks, every notice of  *)
(* an upgrade and every number of crashes: that it is a BlockMachine above *)
(* all.  The invariant says, for each module's turn, which part of the     *)
(* block's effect the block under way already has.                         *)
(***************************************************************************)
EXTENDS AppLifecycle, TLAPS

\* What the network can see of the stores s.
Seen(s) == [height    |-> s.height,
            collected |-> s.collected,
            given     |-> s.given,
            open      |-> "channel" \in s.caps,
            received  |-> s.received,
            plan      |-> s.plan,
            slashes   |-> s.slashes]

\* The stores have nothing in them that a block leaves behind.
Fresh ==
    /\ work.height = 0 /\ work.collected = 0 /\ work.given = 0 /\ work.received = 0
    /\ work.plan = 0 /\ work.slashes = 0 /\ ~work.passed /\ "channel" \notin work.caps

\* The block under way, when the turn of the p-th module in BeginBlock comes.
Begun(p) ==
    /\ work.height = Height
    /\ work.collected = IF p <= 3 THEN committed.collected
                        ELSE IF p > 4 /\ Height > 1 THEN 0 ELSE committed.collected + 1
    /\ work.given = IF p > 4 /\ Height > 1
                    THEN committed.given + committed.collected + 1 ELSE committed.given
    /\ work.received = committed.received
    /\ work.plan = IF p > 1 /\ Height = committed.plan THEN 0 ELSE committed.plan
    /\ work.slashes = IF (p > 5 /\ Now.fault = "absent") \/ (p > 6 /\ Now.fault = "double")
                      THEN committed.slashes + 1 ELSE committed.slashes
    /\ ~work.passed /\ "transfer" \in work.caps
    /\ "channel" \in work.caps <=> "channel" \in committed.caps

\* The same in EndBlock: all is done but for the proposal that gov hands over.
Ended(p) ==
    /\ work.height = Height
    /\ work.collected = IF Height > 1 THEN 1 ELSE committed.collected + 2
    /\ work.given = IF Height > 1
                    THEN committed.given + committed.collected + 1 ELSE committed.given
    /\ work.received = IF Now.tx = "packet" /\ "channel" \in committed.caps
                       THEN committed.received + 1 ELSE committed.received
    /\ work.plan = IF Now.tx = "propose" /\ p > 2 THEN Height + Notice
                   ELSE IF Height = committed.plan THEN 0 ELSE committed.plan
    /\ work.slashes = IF Now.fault # "none" THEN committed.slashes + 1 ELSE committed.slashes
    /\ work.passed <=> Now.tx = "propose" /\ p <= 2
    /\ "transfer" \in work.caps
    /\ "channel" \in work.caps <=> "channel" \in committed.caps \/ Now.tx = "open"

\* Committed stores are whole: a chain that has begun has the transfer port, no proposal
\* waits, and a plan lies ahead.
CommittedInv ==
    /\ committed.height = 0 => committed = Empty
    /\ committed.height > 0 => "transfer" \in committed.caps
    /\ ~committed.passed
    /\ committed.plan = 0 \/ committed.plan > committed.height
    /\ Len(blocks) > 0 => blocks[1].fault = "none"

\* What is in memory agrees with the stores, and goes with the process.
ProcessInv ==
    /\ mem.ready => mem.caps = work.caps
    /\ phase = "down" => work = committed /\ mem = NoMem
    /\ phase = "panicked" => Height = committed.plan /\ skip # Height
    /\ phase = "idle" => /\ "transfer" \in work.caps
                         /\ IF committed.height = 0 THEN Fresh ELSE work = committed

\* During genesis: the modules whose turn is over, as far as others need them.
GenesisInv == phase = "genesis" =>
    /\ committed.height = 0 /\ pos \in 1 .. 20 /\ Fresh
    /\ pos = 1 => work = Empty
    /\ pos > 1 => mem.ready
    /\ pos > 2 => "auth" \in work.seen
    /\ pos > 4 => "bank" \in work.seen
    /\ pos > 6 => "staking" \in work.seen
    /\ pos > 13 => work.bonded
    /\ pos > 17 => "transfer" \in work.caps

BlockInv ==
    /\ phase = "begin" => pos \in 1 .. 20 /\ Begun(pos) /\ (pos > 2 => mem.ready)
    /\ phase = "deliver" => Begun(21) /\ mem.ready
    /\ phase = "end" => pos \in 1 .. 20 /\ Ended(pos)
    /\ phase = "commit" => Ended(21)

IInv == AppTypeOK /\ CommittedInv /\ ProcessInv /\ GenesisInv /\ BlockInv

---------------------------------------------------------------------------
\* The turns that matter in BeginBlock.
LEMMA BeginTurns ==
    /\ Len(OrderBeginBlockers) = 20
    /\ OrderBeginBlockers[1] = "upgrade" /\ OrderBeginBlockers[2] = "capability"
    /\ OrderBeginBlockers[3] = "mint" /\ OrderBeginBlockers[4] = "distribution"
    /\ OrderBeginBlockers[5] = "slashing" /\ OrderBeginBlockers[6] = "evidence"
    /\ \A i \in 7 .. 20 : OrderBeginBlockers[i] \notin
           {"upgrade", "capability", "mint", "distribution", "slashing", "evidence"}
    BY DEF OrderBeginBlockers

\* The turns that matter in EndBlock.
LEMMA EndTurns ==
    /\ Len(OrderEndBlockers) = 20 /\ OrderEndBlockers[2] = "gov"
    /\ \A i \in 1 .. 20 : i # 2 => OrderEndBlockers[i] # "gov"
    BY DEF OrderEndBlockers

\* The turns that matter in InitGenesis.
LEMMA GenesisTurns ==
    /\ Len(OrderInitGenesis) = 20
    /\ OrderInitGenesis[1] = "capability" /\ OrderInitGenesis[2] = "auth"
    /\ OrderInitGenesis[4] = "bank" /\ OrderInitGenesis[6] = "staking"
    /\ OrderInitGenesis[13] = "genutil" /\ OrderInitGenesis[17] = "transfer"
    /\ OrderInitGenesis[20] = "mandelbot"
    /\ \A i \in 2 .. 20 : OrderInitGenesis[i] # "capability"
    /\ \A i \in 1 .. 20 : i # 13 => OrderInitGenesis[i] # "genutil"
    /\ \A i \in 1 .. 19 : OrderInitGenesis[i] # "mandelbot"
    /\ DOMAIN OrderInitGenesis = 1 .. 20
    BY DEF OrderInitGenesis

\* The parts of the invariant that look only at the committed stores and the blocks
\* are kept while both stay.
LEMMA CommittedKept ==
    ASSUME CommittedInv, UNCHANGED <<committed, blocks>>
    PROVE  CommittedInv'
    BY DEF CommittedInv

---------------------------------------------------------------------------
\* The invariant holds of an empty database.
LEMMA InitInv == Init => IInv
<1> SUFFICES ASSUME Init PROVE IInv
    OBVIOUS
<1>1. Empty \in Stores
    BY DEF Empty, Stores
<1>2. AppTypeOK
  <2>1. blocks \in Seq(Block) /\ Len(blocks) = 0
    BY DEF Init
  <2> QED
    BY <1>1, <2>1, AppAssumption DEF Init, AppTypeOK, NoMem, Phases, Empty
<1>3. CommittedInv /\ ProcessInv /\ GenesisInv /\ BlockInv
    BY DEF Init, CommittedInv, ProcessInv, GenesisInv, BlockInv, Empty, NoMem
<1> QED
    BY <1>2, <1>3 DEF IInv

\* Starting keeps it: the work begins from what is committed.
LEMMA StartInv == ASSUME IInv, NEW h \in {0, committed.plan}, Start(h) PROVE IInv'
<1> USE DEF IInv, Start
<1>1. AppTypeOK'
    BY DEF AppTypeOK, Phases, Stores
<1>2. CommittedInv'
    BY CommittedKept
<1>3. ProcessInv' /\ BlockInv'
    BY DEF ProcessInv, BlockInv, CommittedInv, AppTypeOK, Stores, NoMem, Empty
<1>4. GenesisInv'
    BY DEF GenesisInv, CommittedInv, Empty, Fresh
<1> QED
    BY <1>1, <1>2, <1>3, <1>4

\* A crash keeps it: memory goes, and with it the block under way.
LEMMA CrashInv == ASSUME IInv, Crash PROVE IInv'
<1> USE DEF IInv, Crash
<1>1. AppTypeOK'
    BY AppAssumption DEF AppTypeOK, Phases, NoMem
<1>2. CommittedInv'
    BY CommittedKept
<1>3. ProcessInv' /\ BlockInv' /\ GenesisInv'
    BY DEF ProcessInv, BlockInv, GenesisInv, NoMem
<1> QED
    BY <1>1, <1>2, <1>3

\* A new block keeps it: nothing is under way when one is decided.
LEMMA DecideInv == ASSUME IInv, NEW b \in Block, Decide(b) PROVE IInv'
<1> USE DEF IInv, Decide
<1>1. /\ blocks' \in Seq(Block) /\ Len(blocks) \in Nat
      /\ Len(blocks') = Len(blocks) + 1
    BY DEF AppTypeOK
<1>2. AppTypeOK'
  <2>1. /\ UNCHANGED <<committed, work, mem, phase, pos, skip, crashes>> /\ phase = "idle"
        /\ Len(blocks') <= MaxHeight /\ committed.height <= Len(blocks')
    BY <1>1, AppAssumption DEF AppTypeOK, stores
  <2> QED
    BY <1>1, <2>1 DEF AppTypeOK
<1>3. CommittedInv'
  <2>1. blocks'[1].fault = "none"
    BY <1>1 DEF CommittedInv, AppTypeOK
  <2> QED
    BY <2>1 DEF CommittedInv, stores
<1>4. ProcessInv' /\ BlockInv' /\ GenesisInv'
    BY DEF ProcessInv, BlockInv, GenesisInv, stores, Fresh, Height
<1> QED
    BY <1>2, <1>3, <1>4

\* A block begins with nothing done but its height.
LEMMA NextBlockInv == ASSUME IInv, NextBlock PROVE IInv'
<1> USE DEF IInv, NextBlock
<1> DEFINE start == IF committed.height = 0 THEN work ELSE committed
<1>1. /\ start \in Stores /\ "transfer" \in start.caps /\ ~start.passed
      /\ start.collected = committed.collected /\ start.given = committed.given
      /\ start.received = committed.received /\ start.plan = committed.plan
      /\ start.slashes = committed.slashes
      /\ "channel" \in start.caps <=> "channel" \in committed.caps
      /\ start.caps = work.caps
  <2>1. CASE committed.height = 0
    <3>1. start = work /\ committed = Empty /\ Fresh /\ "transfer" \in work.caps
      BY <2>1 DEF ProcessInv, CommittedInv
    <3>2. work \in Stores
      BY DEF AppTypeOK
    <3> QED
      BY <3>1, <3>2 DEF Fresh, Empty
  <2>2. CASE committed.height # 0
    <3>1. start = committed /\ work = committed /\ "transfer" \in work.caps
      BY <2>2 DEF ProcessInv
    <3> QED
      BY <3>1 DEF CommittedInv, AppTypeOK
  <2> QED
    BY <2>1, <2>2
<1>2. work' = [start EXCEPT !.height = Height] /\ Height \in Nat
    BY DEF AppTypeOK, Stores, Height
<1>3. AppTypeOK'
  <2>1. work' \in Stores
    <3> HIDE DEF start
    <3> QED
      BY <1>1, <1>2 DEF Stores
  <2> QED
    BY <2>1 DEF AppTypeOK, Phases
<1>4. CommittedInv'
    BY CommittedKept
<1>5. BlockInv'
    BY <1>1, <1>2 DEF BlockInv, Begun, Height, Stores
<1>6. ProcessInv' /\ GenesisInv'
    BY <1>1, <1>2 DEF ProcessInv, GenesisInv, Stores
<1> QED
    BY <1>3, <1>4, <1>5, <1>6

\* One module's genesis keeps it; and with the orders of app.go nothing panics there.
LEMMA GenesisInvKept == ASSUME IInv, InitGenesis PROVE IInv'
<1> USE DEF IInv
<1> DEFINE m == OrderInitGenesis[pos]
<1>1. /\ phase = "genesis" /\ committed.height = 0 /\ pos \in 1 .. 20
      /\ m \in Modules /\ Fresh /\ work \in Stores
    BY GenesisTurns DEF InitGenesis, GenesisInv, AppTypeOK, Modules
<1>2. m = OrderInitGenesis[Len(OrderInitGenesis)] => work.bonded
    BY <1>1, GenesisTurns DEF GenesisInv
<1>3. m = "capability" => pos = 1 /\ work = Empty
    BY <1>1, GenesisTurns DEF GenesisInv
<1>4. m = "genutil" => GentxNeeds \subseteq work.seen
    BY <1>1, GenesisTurns DEF GenesisInv, GentxNeeds
<1>5. Turn(OrderInitGenesis, "idle")
    BY <1>1, <1>2, <1>3, <1>4 DEF InitGenesis, Empty
<1>6. CASE m = "capability"
  <2>1. /\ work' = [work EXCEPT !.seen = @ \cup {m}] /\ mem' = Remembered
        /\ UNCHANGED <<blocks, committed, skip, crashes>>
    BY <1>1, <1>2, <1>3, <1>6 DEF InitGenesis, Empty, Routes
  <2>2. pos' = 2 /\ phase' = "genesis"
    BY <1>1, <1>3, <1>5, <1>6, GenesisTurns DEF Turn
  <2>3. AppTypeOK'
    <3>1. work' \in Stores
      <4> HIDE DEF m
      <4> QED
        BY <1>1, <2>1 DEF Stores
    <3>2. mem' \in [ready : BOOLEAN, caps : SUBSET Capability]
      BY <1>1, <2>1 DEF AppTypeOK, Stores, Remembered
    <3> QED
      BY <1>1, <2>1, <2>2, <3>1, <3>2 DEF AppTypeOK
  <2>4. CommittedInv' /\ BlockInv'
    BY <2>1, <2>2, CommittedKept DEF BlockInv
  <2>5. ProcessInv' /\ GenesisInv'
    BY <1>1, <1>3, <1>6, <2>1, <2>2
       DEF ProcessInv, GenesisInv, Fresh, Stores, Remembered, Empty
  <2> QED
    BY <2>3, <2>4, <2>5
<1>7. CASE m # "capability"
  <2>1. /\ work' \in Stores /\ mem' \in [ready : BOOLEAN, caps : SUBSET Capability]
        /\ work'.seen = work.seen \cup {m}
        /\ work'.caps = IF m \in Routes THEN work.caps \cup {m} ELSE work.caps
        /\ mem'.caps = IF m \in Routes THEN mem.caps \cup {m} ELSE mem.caps
        /\ mem'.ready = mem.ready
        /\ work'.bonded = (work.bonded \/ m = "genutil")
        /\ UNCHANGED <<blocks, committed, skip, crashes>>
    <3>1. mem \in [ready : BOOLEAN, caps : SUBSET Capability]
      BY DEF AppTypeOK
    <3>2. CASE m \in Routes
      <4>1. Bind(m) /\ m # "genutil" /\ m \in Capability
        BY <1>1, <1>2, <1>3, <1>4, <1>7, <3>2 DEF InitGenesis, Routes, Capability
      <4> QED
        BY <1>1, <3>1, <3>2, <4>1, <1>2, <1>3, <1>4 DEF Bind, Stores, InitGenesis
    <3>3. CASE m = "genutil"
      <4>1. work' = [work EXCEPT !.seen = @ \cup {m}, !.bonded = TRUE] /\ UNCHANGED mem
        BY <1>1, <1>2, <1>3, <1>4, <1>7, <3>3 DEF InitGenesis, Routes
      <4> QED
        BY <1>1, <3>1, <3>3, <4>1 DEF Stores, InitGenesis, Routes
    <3>4. CASE m \notin Routes \cup {"genutil"}
      <4>1. work' = [work EXCEPT !.seen = @ \cup {m}] /\ UNCHANGED mem
        BY <1>1, <1>2, <1>3, <1>4, <1>7, <3>4 DEF InitGenesis
      <4> QED
        BY <1>1, <3>1, <3>4, <4>1 DEF Stores, InitGenesis
    <3> QED
      BY <3>2, <3>3, <3>4
  <2>2. /\ work'.height = work.height /\ work'.collected = work.collected
        /\ work'.given = work.given /\ work'.received = work.received
        /\ work'.plan = work.plan /\ work'.slashes = work.slashes
        /\ work'.passed = work.passed
    BY <1>1, <1>2, <1>3, <1>4, <1>7 DEF InitGenesis, Bind, Stores
  <2>3. Fresh'
    BY <1>1, <2>1, <2>2 DEF Fresh, Routes
  <2>4. mem.ready /\ pos > 1
    BY <1>1, <1>7, GenesisTurns DEF GenesisInv
  <2>5. \/ pos < 20 /\ pos' = pos + 1 /\ phase' = "genesis"
        \/ pos = 20 /\ pos' = 1 /\ phase' = "idle"
    BY <1>1, <1>5, GenesisTurns DEF Turn
  <2>6. AppTypeOK' /\ CommittedInv' /\ BlockInv'
    BY <1>1, <2>1, <2>5, CommittedKept DEF AppTypeOK, BlockInv, Phases
  <2>7. ProcessInv'
    <3>1. mem'.ready => mem'.caps = work'.caps
      BY <2>1 DEF ProcessInv
    <3>2. phase' = "idle" => "transfer" \in work'.caps
      BY <1>1, <2>1, <2>5 DEF GenesisInv
    <3> QED
      BY <1>1, <2>1, <2>3, <2>5, <3>1, <3>2 DEF ProcessInv
  <2>8. GenesisInv'
    <3> SUFFICES ASSUME phase' = "genesis" PROVE GenesisInv'
      BY DEF GenesisInv
    <3>1. pos' = pos + 1 /\ pos' \in 2 .. 20
      BY <1>1, <2>5
    <3>2. /\ pos' > 2 => "auth" \in work'.seen
          /\ pos' > 4 => "bank" \in work'.seen
          /\ pos' > 6 => "staking" \in work'.seen
      BY <1>1, <2>1, <3>1, GenesisTurns DEF GenesisInv
    <3>3. pos' > 13 => work'.bonded
      BY <1>1, <2>1, <3>1, GenesisTurns DEF GenesisInv
    <3>4. pos' > 17 => "transfer" \in work'.caps
      BY <1>1, <2>1, <3>1, GenesisTurns DEF GenesisInv, Routes
    <3> QED
      BY <1>1, <2>1, <2>3, <2>4, <3>1, <3>2, <3>3, <3>4 DEF GenesisInv
  <2> QED
    BY <2>6, <2>7, <2>8
<1> QED
    BY <1>6, <1>7

---------------------------------------------------------------------------
\* The block under way is one that Tendermint has stored.
LEMMA NowIsBlock ==
    ASSUME IInv, phase \in {"begin", "deliver", "end", "commit"}
    PROVE  /\ Now \in [tx : {"send", "open", "packet", "propose"},
                       fault : {"none", "absent", "double"}]
           /\ Height \in Nat /\ Height > 0
           /\ Height = 1 => Now.fault = "none"
<1>1. Height \in 1 .. Len(blocks) /\ blocks \in Seq(Block)
    BY DEF IInv, AppTypeOK, Height, Stores
<1>2. Now \in Block
    BY <1>1 DEF Now
<1> QED
    BY <1>1, <1>2 DEF Block, Machine!Block, Machine!Tx, Machine!Faults, Now, IInv, CommittedInv

\* What a module adds to the block under way in BeginBlock.
LEMMA BegunKept ==
    ASSUME IInv, BeginBlock, phase' # "panicked", NEW p, p = pos + 1
    PROVE  Begun(p)' /\ work' \in Stores /\ work'.caps = work.caps
<1> USE DEF IInv
<1>1. /\ phase = "begin" /\ pos \in 1 .. 20 /\ Begun(pos) /\ work \in Stores
      /\ committed \in Stores /\ UNCHANGED <<blocks, committed, skip, crashes>>
    BY DEF BeginBlock, BlockInv, AppTypeOK
<1>2. /\ Now.fault \in {"none", "absent", "double"} /\ Height \in Nat
      /\ Height > 0 /\ UNCHANGED <<Now, Height>>
    BY <1>1, NowIsBlock DEF Now, Height
<1> DEFINE m == OrderBeginBlockers[pos]
<1>3. ~(m = "upgrade" /\ Due /\ skip # Height)
    BY DEF BeginBlock, Panic
<1>4. work' = CASE m = "upgrade" /\ Due -> [work EXCEPT !.plan = 0]
                [] m = "mint" -> [work EXCEPT !.collected = @ + 1]
                [] m = "distribution" /\ Height > 1 ->
                     [work EXCEPT !.given = @ + work.collected, !.collected = 0]
                [] m = "slashing" -> Slashed(work, Now.fault = "absent")
                [] m = "evidence" -> Slashed(work, Now.fault = "double")
                [] OTHER -> work
    BY <1>3 DEF BeginBlock
<1>5. CASE pos = 1
  <2>1. Due <=> Height = committed.plan
    BY <1>1, <1>2, <1>5 DEF Due, Begun, CommittedInv, Height, Stores
  <2>2. work' = IF Due THEN [work EXCEPT !.plan = 0] ELSE work
    BY <1>4, <1>5, BeginTurns
  <2> QED
    BY <1>1, <1>2, <1>5, <2>1, <2>2 DEF Begun, Stores
<1>6. CASE pos = 2
  <2>1. work' = work
    BY <1>4, <1>6, BeginTurns
  <2> QED
    BY <1>1, <1>2, <1>6, <2>1 DEF Begun, Stores
<1>7. CASE pos = 3
  <2>1. work' = [work EXCEPT !.collected = @ + 1]
    BY <1>4, <1>7, BeginTurns
  <2> QED
    BY <1>1, <1>2, <1>7, <2>1 DEF Begun, Stores
<1>8. CASE pos = 4
  <2>1. work' = IF Height > 1
                THEN [work EXCEPT !.given = @ + work.collected, !.collected = 0] ELSE work
    BY <1>4, <1>8, BeginTurns
  <2>2. /\ work.given = committed.given /\ work.collected = committed.collected + 1
        /\ committed.given \in Nat /\ committed.collected \in Nat
    BY <1>1, <1>8 DEF Begun, Stores
  <2>3. CASE Height > 1
    <3>1. work'.given = committed.given + committed.collected + 1 /\ work'.collected = 0
      BY <1>1, <2>1, <2>2, <2>3 DEF Stores
    <3>2. /\ work' \in Stores /\ work'.caps = work.caps /\ work'.height = work.height
          /\ work'.received = work.received /\ work'.plan = work.plan
          /\ work'.slashes = work.slashes /\ work'.passed = work.passed
      <4> DEFINE g == work.given + work.collected
      <4>1. g \in Nat
        BY <2>2
      <4>2. work' = [work EXCEPT !.given = g, !.collected = 0]
        BY <2>1, <2>3
      <4> HIDE DEF g
      <4> QED
        BY <1>1, <4>1, <4>2 DEF Stores
    <3> QED
      BY <1>1, <1>2, <1>8, <2>3, <3>1, <3>2 DEF Begun
  <2>4. CASE ~(Height > 1)
    BY <1>1, <1>2, <1>8, <2>1, <2>4 DEF Begun
  <2> QED
    BY <2>3, <2>4
<1>9. CASE pos \in {5, 6}
  <2>1. work' = Slashed(work, Now.fault = IF pos = 5 THEN "absent" ELSE "double")
    BY <1>4, <1>9, BeginTurns
  <2>2. work' = [work EXCEPT !.slashes =
                    @ + IF Now.fault = IF pos = 5 THEN "absent" ELSE "double" THEN 1 ELSE 0]
    BY <2>1 DEF Slashed, Machine!Count
  <2> QED
    BY <1>1, <1>2, <1>9, <2>2 DEF Begun, Stores
<1>10. CASE pos > 6
  <2>1. work' = work
    BY <1>1, <1>4, <1>10, BeginTurns
  <2> QED
    BY <1>1, <1>2, <1>10, <2>1 DEF Begun, Stores
<1> QED
    BY <1>1, <1>5, <1>6, <1>7, <1>8, <1>9, <1>10

\* A turn in BeginBlock keeps the invariant.
LEMMA BeginBlockInv == ASSUME IInv, BeginBlock PROVE IInv'
<1> USE DEF IInv
<1>1. /\ phase = "begin" /\ pos \in 1 .. 20 /\ Begun(pos)
      /\ UNCHANGED <<blocks, committed, skip, crashes>>
    BY DEF BeginBlock, BlockInv
<1>2. CommittedInv'
    BY <1>1, CommittedKept
<1>3. CASE phase' = "panicked"
  <2>1. /\ Panic /\ Due /\ skip # Height /\ pos = 1
    BY <1>1, <1>3, BeginTurns DEF BeginBlock, Turn
  <2>2. Height = committed.plan
    BY <1>1, <2>1 DEF Due, Begun, CommittedInv, Height, AppTypeOK, Stores
  <2> QED
    BY <1>1, <1>2, <1>3, <2>1, <2>2
       DEF Panic, AppTypeOK, ProcessInv, GenesisInv, BlockInv, Phases, Height
<1>4. CASE phase' # "panicked"
  <2>1. PICK p : p = pos + 1
    OBVIOUS
  <2>8. Begun(p)' /\ work' \in Stores /\ work'.caps = work.caps
    BY <1>4, <2>1, BegunKept
  <2>2. /\ Turn(OrderBeginBlockers, "deliver")
        /\ mem' = IF OrderBeginBlockers[pos] = "capability" THEN Remembered ELSE mem
    BY <1>4 DEF BeginBlock, Panic
  <2>3. \/ pos < 20 /\ pos' = pos + 1 /\ phase' = "begin"
        \/ pos = 20 /\ pos' = 1 /\ phase' = "deliver"
    BY <1>1, <2>2, BeginTurns DEF Turn
  <2>4. /\ mem'.ready => mem'.caps = work'.caps
        /\ pos >= 2 => mem'.ready
        /\ mem' \in [ready : BOOLEAN, caps : SUBSET Capability]
    <3>1. pos = 2 => mem' = Remembered
      BY <2>2, BeginTurns
    <3>2. pos # 2 => mem' = mem
      BY <1>1, <2>2, BeginTurns
    <3>3. pos > 2 => mem.ready
      BY <1>1 DEF BlockInv
    <3>4. mem \in [ready : BOOLEAN, caps : SUBSET Capability] /\ work.caps \in SUBSET Capability
      BY DEF AppTypeOK, Stores
    <3>5. mem.ready => mem.caps = work.caps
      BY DEF ProcessInv
    <3>6. CASE pos = 2
      <4>1. CASE mem.ready
        BY <2>8, <3>1, <3>4, <3>5, <3>6, <4>1 DEF Remembered
      <4>2. CASE ~mem.ready
        <5>1. mem' = [ready |-> TRUE, caps |-> work.caps]
          BY <3>1, <3>6, <4>2 DEF Remembered
        <5>2. work.caps \in SUBSET Capability /\ work'.caps = work.caps
          BY <2>8, <3>4
        <5> QED
          BY <5>1, <5>2
      <4> QED
        BY <4>1, <4>2
    <3>7. CASE pos # 2
      BY <1>1, <2>8, <3>2, <3>3, <3>4, <3>5, <3>7
    <3> QED
      BY <3>6, <3>7
  <2>5. AppTypeOK'
    BY <1>1, <2>8, <2>3, <2>4 DEF AppTypeOK, Phases
  <2>6. ProcessInv' /\ GenesisInv'
    BY <1>1, <2>3, <2>4 DEF ProcessInv, GenesisInv
  <2>7. BlockInv'
    <3>1. CASE pos < 20
      <4>1. Begun(pos)'
        BY <2>1, <2>8, <2>3, <3>1 DEF Begun
      <4> QED
        BY <1>1, <2>3, <2>4, <3>1, <4>1 DEF BlockInv
    <3>2. CASE pos = 20
      <4>1. Begun(21)'
        BY <2>1, <2>8, <3>2
      <4> QED
        BY <2>3, <2>4, <3>2, <4>1 DEF BlockInv
    <3> QED
      BY <1>1, <3>1, <3>2
  <2> QED
    BY <1>2, <2>5, <2>6, <2>7
<1> QED
    BY <1>3, <1>4

\* The transaction keeps it: every capability it asks for is in memory.
LEMMA DeliverTxInv == ASSUME IInv, DeliverTx PROVE IInv'
<1> USE DEF IInv
<1>1. /\ phase = "deliver" /\ phase' = "end" /\ pos' = 1 /\ Begun(21) /\ mem.ready
      /\ work \in Stores /\ committed \in Stores /\ mem.caps = work.caps
      /\ mem \in [ready : BOOLEAN, caps : SUBSET Capability]
      /\ UNCHANGED <<blocks, committed, skip, crashes>>
    BY DEF DeliverTx, BlockInv, AppTypeOK, ProcessInv
<1>2. /\ Now.tx \in {"send", "open", "packet", "propose"}
      /\ Now.fault \in {"none", "absent", "double"} /\ Height \in Nat /\ Height > 0
      /\ (Height = 1 => Now.fault = "none") /\ UNCHANGED <<Now, Height>>
    BY <1>1, NowIsBlock DEF Now, Height
<1>3. "transfer" \in Routes \cap mem.caps
    BY <1>1 DEF Begun, Routes
<1> DEFINE paid == [work EXCEPT !.collected = @ + 1]
<1>4. /\ paid \in Stores /\ paid.collected = work.collected + 1 /\ paid.caps = work.caps
      /\ paid.received = work.received /\ paid.passed = work.passed
      /\ paid.height = work.height /\ paid.given = work.given
      /\ paid.plan = work.plan /\ paid.slashes = work.slashes
    BY <1>1 DEF Stores
<1>5. /\ mem' = IF Now.tx = "open" THEN [mem EXCEPT !.caps = @ \cup {"channel"}] ELSE mem
      /\ work' = CASE Now.tx = "open" -> [paid EXCEPT !.caps = @ \cup {"channel"}]
                   [] Now.tx = "packet" /\ "channel" \in mem.caps ->
                        [paid EXCEPT !.received = @ + 1]
                   [] Now.tx = "propose" -> [paid EXCEPT !.passed = TRUE]
                   [] OTHER -> paid
    BY <1>3 DEF DeliverTx
<1> HIDE DEF paid
<1>6. /\ work' \in Stores /\ mem' \in [ready : BOOLEAN, caps : SUBSET Capability]
      /\ mem'.caps = work'.caps
      /\ work'.height = work.height /\ work'.collected = work.collected + 1
      /\ work'.given = work.given /\ work'.plan = work.plan /\ work'.slashes = work.slashes
      /\ work'.received = IF Now.tx = "packet" /\ "channel" \in work.caps
                          THEN work.received + 1 ELSE work.received
      /\ work'.passed <=> work.passed \/ Now.tx = "propose"
      /\ work'.caps = IF Now.tx = "open" THEN work.caps \cup {"channel"} ELSE work.caps
  <2>1. CASE Now.tx = "open"
    <3>1. /\ work' = [paid EXCEPT !.caps = @ \cup {"channel"}]
          /\ mem' = [mem EXCEPT !.caps = @ \cup {"channel"}]
      BY <1>5, <2>1
    <3>2. "channel" \in Capability
      BY DEF Capability
    <3> QED
      BY <1>1, <1>4, <2>1, <3>1, <3>2 DEF Stores
  <2>2. CASE Now.tx = "packet" /\ "channel" \in work.caps
    BY <1>1, <1>4, <1>5, <2>2 DEF Stores
  <2>3. CASE Now.tx = "propose"
    BY <1>1, <1>4, <1>5, <2>3 DEF Stores
  <2>4. CASE Now.tx \notin {"open", "propose"} /\ ~(Now.tx = "packet" /\ "channel" \in work.caps)
    BY <1>1, <1>4, <1>5, <2>4 DEF Stores
  <2> QED
    BY <2>1, <2>2, <2>3, <2>4
<1>7. AppTypeOK' /\ CommittedInv'
    BY <1>1, <1>6, CommittedKept DEF AppTypeOK, Phases
<1>8. ProcessInv' /\ GenesisInv'
    BY <1>1, <1>6 DEF ProcessInv, GenesisInv
<1>9. BlockInv'
  <2>1. work'.collected = IF Height > 1 THEN 1 ELSE committed.collected + 2
    BY <1>1, <1>6 DEF Begun, Stores
  <2>2. work'.slashes = IF Now.fault # "none" THEN committed.slashes + 1 ELSE committed.slashes
    BY <1>1, <1>2, <1>6 DEF Begun
  <2>3. Ended(1)'
    BY <1>1, <1>2, <1>6, <2>1, <2>2 DEF Begun, Ended
  <2> QED
    BY <1>1, <2>3 DEF BlockInv
<1> QED
    BY <1>7, <1>8, <1>9

\* A turn in EndBlock keeps it; gov's is the one that counts.
LEMMA EndBlockInv == ASSUME IInv, EndBlock PROVE IInv'
<1> USE DEF IInv
<1>1. /\ phase = "end" /\ pos \in 1 .. 20 /\ Ended(pos) /\ work \in Stores
      /\ committed \in Stores /\ UNCHANGED <<blocks, committed, mem, skip, crashes>>
    BY DEF EndBlock, BlockInv, AppTypeOK
<1>2. Now.tx \in {"send", "open", "packet", "propose"} /\ Height \in Nat
      /\ Height > 0 /\ UNCHANGED <<Now, Height>>
    BY <1>1, NowIsBlock DEF Now, Height
<1>3. \/ pos < 20 /\ pos' = pos + 1 /\ phase' = "end"
      \/ pos = 20 /\ pos' = 1 /\ phase' = "commit"
    BY <1>1, EndTurns DEF EndBlock, Turn
<1>4. work' = IF pos = 2 /\ work.passed
              THEN [work EXCEPT !.passed = FALSE, !.plan = Height + Notice] ELSE work
    BY <1>1, EndTurns DEF EndBlock
<1>5. PICK p : p = pos + 1
    OBVIOUS
<1>6. Ended(p)' /\ work' \in Stores /\ work'.caps = work.caps
  <2>1. CASE pos = 2 /\ work.passed
    <3>1. Height + Notice \in Nat
      BY <1>2, AppAssumption
    <3>2. work' = [work EXCEPT !.passed = FALSE, !.plan = Height + Notice]
      BY <1>4, <2>1
    <3>3. /\ work' \in Stores /\ work'.caps = work.caps /\ ~work'.passed
          /\ work'.plan = Height + Notice /\ work'.height = work.height
          /\ work'.collected = work.collected /\ work'.given = work.given
          /\ work'.received = work.received /\ work'.slashes = work.slashes
      BY <1>1, <3>1, <3>2 DEF Stores
    <3>4. Now.tx = "propose" /\ p = 3
      BY <1>1, <1>5, <2>1 DEF Ended
    <3> QED
      BY <1>1, <1>2, <3>3, <3>4 DEF Ended
  <2>2. CASE ~(pos = 2 /\ work.passed)
    BY <1>1, <1>2, <1>4, <1>5, <2>2 DEF Ended
  <2> QED
    BY <2>1, <2>2
<1>7. AppTypeOK' /\ CommittedInv'
    BY <1>1, <1>3, <1>6, CommittedKept DEF AppTypeOK, Phases
<1>8. ProcessInv' /\ GenesisInv'
    BY <1>1, <1>3, <1>6 DEF ProcessInv, GenesisInv
<1>9. BlockInv'
  <2>1. CASE pos < 20
    <3>1. Ended(pos)'
      BY <1>3, <1>5, <1>6, <2>1 DEF Ended
    <3> QED
      BY <1>1, <1>3, <2>1, <3>1 DEF BlockInv
  <2>2. CASE pos = 20
    <3>1. Ended(21)'
      BY <1>5, <1>6, <2>2
    <3> QED
      BY <1>3, <2>2, <3>1 DEF BlockInv
  <2> QED
    BY <1>1, <2>1, <2>2
<1> QED
    BY <1>7, <1>8, <1>9

\* What is committed is what Execute makes of the stores and the block.
LEMMA CommitExecutes ==
    ASSUME IInv, Commit
    PROVE  Seen(committed)' = Machine!Execute(Seen(committed), Now)
<1>1. committed' = work /\ Ended(21) /\ Height \in Nat /\ Height > 0
      /\ Now.tx \in {"send", "open", "packet", "propose"} /\ phase = "commit"
      /\ committed \in Stores /\ work \in Stores
    BY NowIsBlock DEF IInv, Commit, BlockInv, AppTypeOK
<1>2. /\ Seen(committed).height + 1 = Height /\ Seen(committed).height = committed.height
      /\ Seen(committed).collected = committed.collected
      /\ Seen(committed).given = committed.given
      /\ Seen(committed).open = ("channel" \in committed.caps)
      /\ Seen(committed).received = committed.received
      /\ Seen(committed).plan = committed.plan
      /\ Seen(committed).slashes = committed.slashes
    BY DEF Seen, Height
<1> DEFINE a == Seen(committed)
<1> DEFINE e == Machine!Execute(a, Now)
<1> HIDE DEF a
<1>3. /\ e = [height |-> e.height, collected |-> e.collected, given |-> e.given,
              open |-> e.open, received |-> e.received, plan |-> e.plan,
              slashes |-> e.slashes]
      /\ e.height = a.height + 1
      /\ e.collected = IF a.height + 1 = 1 THEN a.collected + 2 ELSE 1
      /\ e.given = IF a.height + 1 = 1 THEN a.given ELSE a.given + a.collected + 1
      /\ e.plan = IF Now.tx = "propose" THEN a.height + 1 + Notice
                  ELSE IF a.height + 1 = a.plan THEN 0 ELSE a.plan
    BY DEF Machine!Execute
<1>4. /\ e.received = a.received + IF Now.tx = "packet" /\ a.open THEN 1 ELSE 0
      /\ e.slashes = a.slashes + IF Now.fault # "none" THEN 1 ELSE 0
    BY DEF Machine!Execute, Machine!Count
<1>5. e.open = (a.open \/ Now.tx = "open")
    BY Zenon DEF Machine!Execute
<1>6. a.open = ("channel" \in committed.caps)
    BY <1>2 DEF a
<1> HIDE DEF e
<1>7. /\ work.height = e.height /\ work.collected = e.collected /\ work.given = e.given
      /\ work.plan = e.plan
    BY <1>1, <1>2, <1>3 DEF Ended, Stores, a
<1>8. work.received = e.received /\ work.slashes = e.slashes
  <2>1. (Now.tx = "packet" /\ a.open) <=> (Now.tx = "packet" /\ "channel" \in committed.caps)
    BY <1>6
  <2>2. /\ a.received = committed.received /\ committed.received \in Nat
        /\ a.slashes = committed.slashes /\ committed.slashes \in Nat
    BY <1>1, <1>2 DEF Stores, a
  <2>3. /\ work.received = IF Now.tx = "packet" /\ "channel" \in committed.caps
                           THEN committed.received + 1 ELSE committed.received
        /\ work.slashes = IF Now.fault # "none"
                          THEN committed.slashes + 1 ELSE committed.slashes
    BY <1>1 DEF Ended
  <2>4. work.received = e.received
    BY <1>4, <2>1, <2>2, <2>3
  <2>5. work.slashes = e.slashes
    BY <1>4, <2>2, <2>3
  <2> QED
    BY <2>4, <2>5
<1>9. ("channel" \in work.caps) = e.open
  <2>1. "channel" \in work.caps <=> "channel" \in committed.caps \/ Now.tx = "open"
    BY <1>1 DEF Ended
  <2>2. (a.open \/ Now.tx = "open") = ("channel" \in committed.caps \/ Now.tx = "open")
    BY <1>6
  <2>3. ("channel" \in work.caps) = ("channel" \in committed.caps \/ Now.tx = "open")
    BY <2>1
  <2> QED
    BY <2>2, <2>3, <1>5
<1>10. Seen(committed)' = Seen(work)
    BY <1>1 DEF Seen
<1> QED
    BY <1>3, <1>7, <1>8, <1>9, <1>10 DEF Seen, e, a

\* Commit keeps the invariant: the stores are whole again.
LEMMA CommitInv == ASSUME IInv, Commit PROVE IInv'
<1> USE DEF IInv
<1>1. /\ phase = "commit" /\ phase' = "idle" /\ committed' = work /\ Ended(21)
      /\ committed \in Stores /\ work \in Stores /\ Height \in Nat /\ Height > 0
      /\ committed.height < Len(blocks)
      /\ UNCHANGED <<blocks, work, mem, pos, skip, crashes>>
    BY NowIsBlock DEF Commit, BlockInv, AppTypeOK
<1>2. /\ work.height = Height /\ "transfer" \in work.caps /\ ~work.passed
      /\ Height <= Len(blocks)
    BY <1>1 DEF Ended, AppTypeOK, Height, Stores
<1>3. work.plan = 0 \/ work.plan > Height
    BY <1>1, AppAssumption DEF Ended, CommittedInv, Height, Stores
<1>4. AppTypeOK'
    BY <1>1, <1>2 DEF AppTypeOK, Phases
<1>5. CommittedInv'
    BY <1>1, <1>2, <1>3 DEF CommittedInv
<1>6. ProcessInv' /\ GenesisInv' /\ BlockInv'
    BY <1>1, <1>2 DEF ProcessInv, GenesisInv, BlockInv
<1> QED
    BY <1>4, <1>5, <1>6

\* The invariant is inductive.
LEMMA NextInv == IInv /\ [Next]_vars => IInv'
<1> SUFFICES ASSUME IInv, [Next]_vars PROVE IInv'
    OBVIOUS
<1>1. CASE \E h \in {0, committed.plan} : Start(h)
    BY <1>1, StartInv
<1>2. CASE Crash
    BY <1>2, CrashInv
<1>3. CASE \E b \in Block : Decide(b)
    BY <1>3, DecideInv
<1>4. CASE Node
    BY <1>4, GenesisInvKept, NextBlockInv, BeginBlockInv, DeliverTxInv, EndBlockInv, CommitInv
       DEF Node
<1>5. CASE UNCHANGED vars
  <2>1. UNCHANGED <<blocks, committed, work, mem, phase, pos, skip, crashes>>
    BY <1>5 DEF vars, stores
  <2>2. AppTypeOK' /\ CommittedInv' /\ ProcessInv' /\ GenesisInv'
    BY <2>1 DEF IInv, AppTypeOK, CommittedInv, ProcessInv, GenesisInv, Fresh, Height
  <2>3. BlockInv'
    BY <2>1 DEF IInv, BlockInv, Begun, Ended, Height, Now
  <2> QED
    BY <2>2, <2>3 DEF IInv
<1> QED
    BY <1>1, <1>2, <1>3, <1>4, <1>5 DEF Next

LEMMA Invariance == Spec => []IInv
<1> QED
    BY InitInv, NextInv, PTL DEF Spec

---------------------------------------------------------------------------
\* The variables keep their types, and a block under way is one that is stored.
THEOREM TypeCorrect == Spec => []AppTypeOK
<1>1. IInv => AppTypeOK
    BY DEF IInv
<1> QED
    BY <1>1, Invariance, PTL

\* Nobody is slashed while coins are left over in the fee pool (app.go:445-447).
THEOREM DistributedFirst == Spec => []NothingLeftOver
<1>1. IInv => NothingLeftOver
  <2> SUFFICES ASSUME IInv, phase = "begin",
                      \/ OrderBeginBlockers[pos] = "slashing" /\ Now.fault = "absent"
                      \/ OrderBeginBlockers[pos] = "evidence" /\ Now.fault = "double"
               PROVE  work.collected = 0
    BY DEF NothingLeftOver
  <2>1. Begun(pos) /\ pos \in 1 .. 20
    BY DEF IInv, BlockInv
  <2>2. pos > 4
    BY <2>1, BeginTurns
  <2>3. Height > 1
    BY NowIsBlock
  <2> QED
    BY <2>1, <2>2, <2>3 DEF Begun
<1> QED
    BY <1>1, Invariance, PTL

\* Every transaction finds every capability in memory, after a restart too.
THEOREM CapabilitiesFound == Spec => []CapabilitiesKnown
<1>1. IInv => CapabilitiesKnown
    BY DEF IInv, BlockInv, ProcessInv, CapabilitiesKnown
<1> QED
    BY <1>1, Invariance, PTL

\* The process panics for nothing but an upgrade that is due and was not skipped: not
\* in genesis, whatever was begun before.
OnlyUpgradesPanic == phase = "panicked" => Height = committed.plan /\ skip # Height

THEOREM NoOtherPanic == Spec => []OnlyUpgradesPanic
<1>1. IInv => OnlyUpgradesPanic
    BY DEF IInv, ProcessInv, OnlyUpgradesPanic
<1> QED
    BY <1>1, Invariance, PTL

\* What a node commits is a function of the blocks alone: each is executed once, in
\* order and as a whole, however often the process stops and starts on the way.
THEOREM Refinement == Spec => ImplementsBlockMachine
<1>1. Init => Machine!MachineInit
  <2> SUFFICES ASSUME Init PROVE Machine!MachineInit
      OBVIOUS
  <2>1. blocks = <<>> /\ committed = Empty
    BY DEF Init
  <2>2. ("channel" \in Empty.caps) = FALSE
    BY DEF Empty
  <2>3. Seen(committed) = Machine!Genesis
    BY <2>1, <2>2 DEF Seen, Machine!Genesis, Empty
  <2> QED
    BY <2>1, <2>3 DEF Machine!MachineInit, Seen
<1>2. IInv /\ [Next]_vars =>
        [Machine!DecideBlock \/ Machine!ExecuteBlock]_<<blocks, Seen(committed)>>
  <2> SUFFICES ASSUME IInv, [Next]_vars
               PROVE  \/ Machine!DecideBlock \/ Machine!ExecuteBlock
                      \/ UNCHANGED <<blocks, Seen(committed)>>
      OBVIOUS
  <2>1. CASE Commit
    <3>1. Seen(committed)' = Machine!Execute(Seen(committed), Now)
      BY <2>1, CommitExecutes
    <3>2. /\ Seen(committed).height = committed.height /\ UNCHANGED blocks
          /\ committed.height < Len(blocks)
      BY <2>1 DEF Commit, Seen, IInv, AppTypeOK
    <3> QED
      BY <3>1, <3>2 DEF Machine!ExecuteBlock, Seen, Now, Height
  <2>2. CASE \E b \in Block : Decide(b)
    <3>1. PICK b \in Block : Decide(b)
      BY <2>2
    <3>2. UNCHANGED committed /\ Len(blocks) < MaxHeight /\ blocks' = Append(blocks, b)
      BY <3>1 DEF Decide, stores
    <3> QED
      BY <3>1, <3>2 DEF Machine!DecideBlock, Block
  <2>3. CASE UNCHANGED <<blocks, committed>>
    BY <2>3 DEF Seen
  <2>4. Commit \/ (\E b \in Block : Decide(b)) \/ UNCHANGED <<blocks, committed>>
    BY DEF Next, Node, Start, Crash, InitGenesis, NextBlock, BeginBlock, DeliverTx, EndBlock,
           vars, stores
  <2> QED
    BY <2>1, <2>2, <2>3, <2>4
<1> QED
    BY <1>1, <1>2, Invariance, PTL
       DEF Spec, ImplementsBlockMachine, Machine!MachineSpec, Seen
=============================================================================
