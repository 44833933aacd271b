--------------------------- MODULE GenesisSource ---------------------------
(***************************************************************************)
(* What the validators of a testnet promise to whoever copies the genesis  *)
(* file off the primary: module.validator.genesis_file_available orders    *)
(* the copy after the ceremony, and while the ceremony's resource stands   *)
(* the file is complete and does not change.  ValidatorNetwork implements  *)
(* this (ImplementsGenesisSource); SeedNetwork relies on nothing else.     *)
(***************************************************************************)
CONSTANTS
    Doc,        \* what the primary's genesis.json may hold
    Complete,   \* those with genesis transactions collected into them
    NoDoc       \* no file

ASSUME DocAssumption == Complete \subseteq Doc /\ NoDoc \in Doc \ Complete

VARIABLES
    applying,   \* a `terraform apply` is running
    wanted,     \* there is to be a genesis file: num_validator_instances > 0
    ready,      \* the resource generate_genesis_file stands
    doc         \* the primary's genesis.json

sourceVars == <<applying, wanted, ready, doc>>

SourceInit == applying = FALSE /\ wanted = FALSE /\ ready = FALSE /\ doc = NoDoc

\* An apply starts; it may have withdrawn the resource.
Begin ==
    /\ ~applying /\ applying' = TRUE
    /\ wanted' \in BOOLEAN
    /\ ready' \in {FALSE, ready /\ wanted'}
    /\ UNCHANGED doc

\* While there is no resource, an apply may do anything to the file.
Rewrite ==
    /\ applying /\ ~ready
    /\ doc' \in Doc
    /\ UNCHANGED <<applying, wanted, ready>>

Publish ==
    /\ applying /\ wanted /\ ~ready /\ ready' = TRUE
    /\ doc' \in Complete
    /\ UNCHANGED <<applying, wanted>>

End ==
    /\ applying /\ applying' = FALSE
    /\ UNCHANGED <<wanted, ready, doc>>

SourceNext == Begin \/ Rewrite \/ Publish \/ End

SourceSpec == SourceInit /\ [][SourceNext]_sourceVars
============================================================================
