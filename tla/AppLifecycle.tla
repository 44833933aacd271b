---------------------------- MODULE AppLifecycle ----------------------------
(***************************************************************************)
(* The life of the application that app/app.go wires together: InitChain,  *)
(* BeginBlock, DeliverTx, EndBlock and Commit as Tendermint calls them,    *)
(* one module at a time in the orders of lines 449-526, with a process     *)
(* that may stop at any point.  Persistent stores keep what was committed; *)
(* the memory store and the state of an unfinished block are lost.  What a *)
(* module does in its turn is the SDK's.                                   *)
(***************************************************************************)
EXTENDS Integers, Sequences

CONSTANTS
    MaxHeight,   \* blocks Tendermint decides
    Notice,      \* blocks between a proposal to upgrade and the upgrade
    MaxCrashes   \* crashes of the process

ASSUME AppAssumption ==
    MaxHeight \in Nat /\ Notice \in Nat \ {0} /\ MaxCrashes \in Nat

VARIABLES
    blocks,      \* the blocks in Tendermint's block store
    committed,   \* the persistent stores as of the last Commit
    work,        \* the same stores in the block under way (deliverState)
    mem,         \* the capability module's memory store
    phase,       \* what the process is doing
    pos,         \* the next module in the order of this phase
    skip,        \* the height given to --unsafe-skip-upgrades, or 0
    crashes

stores == <<committed, work, mem>>
vars   == <<blocks, stores, phase, pos, skip, crashes>>

\* What the network sees of a node: its committed stores, without what only the
\* modules know of them.
Machine == INSTANCE BlockMachine WITH
    app <- [height    |-> committed.height,
            collected |-> committed.collected,
            given     |-> committed.given,
            open      |-> "channel" \in committed.caps,
            received  |-> committed.received,
            plan      |-> committed.plan,
            slashes   |-> committed.slashes]

Block == Machine!Block

Phases == {"down", "genesis", "idle", "begin", "deliver", "end", "commit", "panicked"}

---------------------------------------------------------------------------
(* The orders of app.go. *)

\* Defect: the slashing module's turn comes before the distribution module's.
OrderBeginBlockers_SlashingFirst == <<
    "upgrade", "capability", "mint", "slashing", "distribution", "evidence", "staking",
    "vesting", "ibc", "transfer", "auth", "authz", "bank", "gov", "crisis", "genutil",
    "feegrant", "params", "monitoringp", "mandelbot">>

\* Defect: the capability module gets no turn, as if it were ready from the start.
OrderBeginBlockers_NoCapability == <<
    "upgrade", "mint", "distribution", "slashing", "evidence", "staking", "vesting",
    "ibc", "transfer", "auth", "authz", "bank", "gov", "crisis", "genutil", "feegrant",
    "params", "monitoringp", "mandelbot">>

\* Defect: the coins of a block are minted after its distribution.
OrderBeginBlockers_MintLate == <<
    "upgrade", "capability", "distribution", "slashing", "evidence", "mint", "staking",
    "vesting", "ibc", "transfer", "auth", "authz", "bank", "gov", "crisis", "genutil",
    "feegrant", "params", "monitoringp", "mandelbot">>

OrderBeginBlockers == <<
    "upgrade", "capability", "mint", "distribution", "slashing", "evidence", "staking",
    "vesting", "ibc", "transfer", "auth", "authz", "bank", "gov", "crisis", "genutil",
    "feegrant", "params", "monitoringp", "mandelbot">>

OrderEndBlockers == <<
    "crisis", "gov", "staking", "capability", "auth", "authz", "bank", "distribution",
    "slashing", "vesting", "mint", "genutil", "evidence", "feegrant", "params", "upgrade",
    "ibc", "transfer", "monitoringp", "mandelbot">>

\* Defect: the genesis transactions are delivered before staking has its parameters.
OrderInitGenesis_GenutilEarly == <<
    "capability", "auth", "authz", "bank", "genutil", "distribution", "staking", "vesting",
    "slashing", "gov", "mint", "crisis", "ibc", "evidence", "params", "upgrade", "transfer",
    "feegrant", "monitoringp", "mandelbot">>

OrderInitGenesis == <<
    "capability", "auth", "authz", "bank", "distribution", "staking", "vesting", "slashing",
    "gov", "mint", "crisis", "ibc", "genutil", "evidence", "params", "upgrade", "transfer",
    "feegrant", "monitoringp", "mandelbot">>

\* The modules that the IBC router hands packets to, each by the name of its port.
Routes == {"transfer", "monitoringp"}

---------------------------------------------------------------------------
(* The stores: what BlockMachine speaks of, and what only the modules know: *)
(* whose genesis is in, the capabilities given out, whether there is a      *)
(* validator, and a proposal to upgrade that has passed.                    *)

Modules    == {OrderInitGenesis[i] : i \in DOMAIN OrderInitGenesis}
Capability == Routes \cup {"channel"}

Empty  == [height |-> 0, collected |-> 0, given |-> 0, received |-> 0, plan |-> 0,
           slashes |-> 0, seen |-> {}, caps |-> {}, bonded |-> FALSE, passed |-> FALSE]
NoMem  == [ready |-> FALSE, caps |-> {}]
Height == committed.height + 1               \* of the block under way
Now    == blocks[Height]

Slashed(s, b) == [s EXCEPT !.slashes = @ + Machine!Count(b)]

---------------------------------------------------------------------------
(* The process. *)

Init ==
    /\ blocks = <<>> /\ committed = Empty /\ work = Empty /\ mem = NoMem
    /\ phase = "down" /\ pos = 1 /\ skip = 0 /\ crashes = 0

\* New mounts the stores and loads the latest version; Tendermint asks for
\* InitChain as long as the application is at height 0.
Start(h) ==
    /\ phase = "down"
    /\ skip' = h /\ work' = committed /\ pos' = 1
    /\ phase' = IF committed.height = 0 THEN "genesis" ELSE "idle"
    /\ UNCHANGED <<blocks, committed, mem, crashes>>

\* The process ends: by a crash, or because an operator ends one that panicked.
Crash ==
    /\ phase # "down"
    /\ crashes' = IF phase = "panicked" THEN crashes ELSE crashes + 1
    /\ crashes' <= MaxCrashes
    /\ phase' = "down" /\ work' = committed /\ mem' = NoMem /\ pos' = 1
    /\ UNCHANGED <<blocks, committed, skip>>

Decide(b) ==
    /\ phase = "idle" /\ Len(blocks) = committed.height /\ Len(blocks) < MaxHeight
    /\ Len(blocks) = 0 => b.fault = "none"
    /\ blocks' = Append(blocks, b)
    /\ UNCHANGED <<stores, phase, pos, skip, crashes>>

Panic == phase' = "panicked" /\ UNCHANGED <<work, mem, pos>>

\* One module's turn is over: the next one's, or the next phase.
Turn(order, next) ==
    IF pos < Len(order) THEN pos' = pos + 1 /\ UNCHANGED phase
                        ELSE pos' = 1 /\ phase' = next

\* InitMemStore: the memory store is filled from the persistent one, once.
Remembered == IF mem.ready THEN mem ELSE [ready |-> TRUE, caps |-> work.caps]

---------------------------------------------------------------------------
(* InitChainer: the genesis of one module after the other. *)

Bind(port) ==
    /\ work' = [work EXCEPT !.seen = @ \cup {port}, !.caps = @ \cup {port}]
    /\ mem' = [mem EXCEPT !.caps = @ \cup {port}]

\* The genesis transactions go through DeliverTx: fees, balances, staking.
GentxNeeds == {"auth", "bank", "staking"}

InitGenesis ==
    /\ phase = "genesis"
    /\ LET m == OrderInitGenesis[pos]
           none == m = OrderInitGenesis[Len(OrderInitGenesis)] /\ ~work.bonded
       IN  IF none \/ (m = "capability" /\ work.caps # {})
                   \/ (m = "genutil" /\ ~(GentxNeeds \subseteq work.seen))
           THEN Panic
           ELSE /\ Turn(OrderInitGenesis, "idle")
                /\ CASE m \in Routes -> Bind(m)
                     [] m = "capability" -> mem' = Remembered
                          /\ work' = [work EXCEPT !.seen = @ \cup {m}]
                     [] m = "genutil" -> UNCHANGED mem
                          /\ work' = [work EXCEPT !.seen = @ \cup {m}, !.bonded = TRUE]
                     [] OTHER -> UNCHANGED mem
                          /\ work' = [work EXCEPT !.seen = @ \cup {m}]
    /\ UNCHANGED <<blocks, committed, skip, crashes>>

---------------------------------------------------------------------------
(* A block. *)

\* Tendermint hands over the next block it has stored and the application has not
\* committed.  The first one runs in the state InitChain left behind.
NextBlock ==
    /\ phase = "idle" /\ committed.height < Len(blocks)
    /\ phase' = "begin" /\ pos' = 1
    /\ work' = [(IF committed.height = 0 THEN work ELSE committed)
                   EXCEPT !.height = Height]
    /\ UNCHANGED <<blocks, committed, mem, skip, crashes>>

\* No upgrade handler is registered: the node panics at the height of the plan,
\* unless it was told to skip it.
Due == work.plan # 0 /\ Height >= work.plan

BeginBlock ==
    /\ phase = "begin"
    /\ LET m == OrderBeginBlockers[pos]
       IN  IF m = "upgrade" /\ Due /\ skip # Height
           THEN Panic
           ELSE /\ Turn(OrderBeginBlockers, "deliver")
                /\ mem' = IF m = "capability" THEN Remembered ELSE mem
                /\ work' = CASE m = "upgrade" /\ Due -> [work EXCEPT !.plan = 0]
                             [] m = "mint" -> [work EXCEPT !.collected = @ + 1]
                             [] m = "distribution" /\ Height > 1 ->
                                  [work EXCEPT !.given = @ + work.collected, !.collected = 0]
                             [] m = "slashing" -> Slashed(work, Now.fault = "absent")
                             [] m = "evidence" -> Slashed(work, Now.fault = "double")
                             [] OTHER -> work
    /\ UNCHANGED <<blocks, committed, skip, crashes>>

\* The fee goes first.  A channel is opened on the port of a routed module, and
\* a packet is received on an open channel; both ask the memory store.
DeliverTx ==
    /\ phase = "deliver" /\ phase' = "end" /\ pos' = 1
    /\ LET paid  == [work EXCEPT !.collected = @ + 1]
           opens == Now.tx = "open" /\ "transfer" \in Routes \cap mem.caps
       IN  /\ mem' = IF opens THEN [mem EXCEPT !.caps = @ \cup {"channel"}] ELSE mem
           /\ work' = CASE opens -> [paid EXCEPT !.caps = @ \cup {"channel"}]
                        [] Now.tx = "packet" /\ "channel" \in mem.caps ->
                             [paid EXCEPT !.received = @ + 1]
                        [] Now.tx = "propose" -> [paid EXCEPT !.passed = TRUE]
                        [] OTHER -> paid
    /\ UNCHANGED <<blocks, committed, skip, crashes>>

\* The gov router hands a proposal that has passed to the upgrade keeper.
EndBlock ==
    /\ phase = "end"
    /\ Turn(OrderEndBlockers, "commit")
    /\ work' = IF OrderEndBlockers[pos] = "gov" /\ work.passed
               THEN [work EXCEPT !.passed = FALSE, !.plan = Height + Notice] ELSE work
    /\ UNCHANGED <<blocks, committed, mem, skip, crashes>>

Commit ==
    /\ phase = "commit" /\ phase' = "idle"
    /\ committed' = work
    /\ UNCHANGED <<blocks, work, mem, pos, skip, crashes>>

Node == InitGenesis \/ NextBlock \/ BeginBlock \/ DeliverTx \/ EndBlock \/ Commit

Next ==
    \/ \E h \in {0, committed.plan} : Start(h)
    \/ Crash
    \/ \E b \in Block : Decide(b)
    \/ Node

Spec     == Init /\ [][Next]_vars
\* The unit restarts a daemon that died (Restart=on-failure), and Tendermint and
\* the application go on with what they have begun.
FairSpec == Spec /\ WF_vars(Start(0)) /\ WF_vars(Node)

---------------------------------------------------------------------------
(* Properties. *)

Stores == [height : Nat, collected : Nat, given : Nat, received : Nat, plan : Nat,
           slashes : Nat, seen : SUBSET Modules, caps : SUBSET Capability,
           bonded : BOOLEAN, passed : BOOLEAN]

\* The variables keep their types; a block under way is one Tendermint has stored.
AppTypeOK ==
    /\ blocks \in Seq(Block) /\ Len(blocks) <= MaxHeight
    /\ committed \in Stores /\ work \in Stores
    /\ mem \in [ready : BOOLEAN, caps : SUBSET Capability]
    /\ phase \in Phases /\ pos \in Nat \ {0} /\ skip \in Nat /\ crashes \in 0 .. MaxCrashes
    /\ committed.height <= Len(blocks)
    /\ phase \in {"begin", "deliver", "end", "commit"} => committed.height < Len(blocks)

\* app.go:445-447: when a validator is slashed, in slashing's or in evidence's
\* turn, nothing is left over in the fee pool.
NothingLeftOver ==
    /\ phase = "begin"
    /\ \/ OrderBeginBlockers[pos] = "slashing" /\ Now.fault = "absent"
       \/ OrderBeginBlockers[pos] = "evidence" /\ Now.fault = "double"
    => work.collected = 0

\* A transaction finds in memory every capability that was ever given out, also
\* in the first block after a restart.
CapabilitiesKnown == phase = "deliver" => mem.ready /\ mem.caps = work.caps

\* A node's application is a BlockMachine: a crash, a restart or a replay cannot be
\* seen in what it commits, which is what the nodes of the network compare.
ImplementsBlockMachine == Machine!MachineSpec

\* The chain begins, and the application keeps up with Tendermint, through crashes: time
\* and again it is idle with every decided block committed, unless the next height is that
\* of an upgrade the binary does not know.
KeepsUp ==
    []<>((phase = "idle" /\ committed.height = Len(blocks)) \/ Height = committed.plan)
=============================================================================
