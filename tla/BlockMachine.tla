---------------------------- MODULE BlockMachine ----------------------------
(***************************************************************************)
(* What the network expects of a node's application: it executes the       *)
(* decided blocks one after the other, each once and as a whole.  Nothing  *)
(* here knows of modules, of their order, or of a process that may stop.   *)
(***************************************************************************)
EXTENDS Integers, Sequences

CONSTANTS
    MaxHeight,   \* blocks decided at most
    Notice       \* blocks between a proposal to upgrade and the upgrade

VARIABLES
    blocks,      \* the decided blocks
    app          \* what the application has committed

\* A block holds one transaction, and may report a validator's misbehaviour.
Tx     == {"send", "open", "packet", "propose"}
Faults == {"none", "absent", "double"}
Block  == [tx : Tx, fault : Faults]

\* What the transactions and the blocks' own work leave behind: the fees not yet
\* distributed and those that are, whether a channel is open, the packets
\* received, the height of a planned upgrade (or 0), and the slashes.
Genesis == [height |-> 0, collected |-> 0, given |-> 0, open |-> FALSE,
            received |-> 0, plan |-> 0, slashes |-> 0]

Count(b) == IF b THEN 1 ELSE 0

\* Every block mints one coin and its transaction pays one.  From the second block
\* on, what was collected before, with the coin just minted, is distributed first.
Execute(a, b) ==
    LET h == a.height + 1
        first == h = 1
    IN  [height    |-> h,
         collected |-> IF first THEN a.collected + 2 ELSE 1,
         given     |-> IF first THEN a.given ELSE a.given + a.collected + 1,
         open      |-> a.open \/ b.tx = "open",
         received  |-> a.received + Count(b.tx = "packet" /\ a.open),
         plan      |-> IF b.tx = "propose" THEN h + Notice
                       ELSE IF h = a.plan THEN 0 ELSE a.plan,
         slashes   |-> a.slashes + Count(b.fault # "none")]

MachineInit == blocks = <<>> /\ app = Genesis

DecideBlock ==
    /\ Len(blocks) < MaxHeight
    /\ \E b \in Block : blocks' = Append(blocks, b)
    /\ UNCHANGED app

ExecuteBlock ==
    /\ app.height < Len(blocks)
    /\ app' = Execute(app, blocks[app.height + 1])
    /\ UNCHANGED blocks

MachineSpec == MachineInit /\ [][DecideBlock \/ ExecuteBlock]_<<blocks, app>>
=============================================================================
