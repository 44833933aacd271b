----------------------- MODULE MCValidatorNetwork -----------------------
(* ValidatorNetwork on small instances; the .cfg files choose the bounds. *)
EXTENDS ValidatorNetwork

MCNodeKeyFiles == 0 .. 2               \* node_key_validator_{0,1,2}.json
MCAnyCount     == 0 .. MaxValidators
MCAll          == {MaxValidators}
==========================================================================
