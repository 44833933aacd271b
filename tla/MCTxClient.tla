----------------------------- MODULE MCTxClient -----------------------------
(* TxClient with a few forms, among them the numbers at the limits of decoder and encoder. *)
EXTENDS TxClient

MCText == {"transfer", "channel", "alice", "bob"}
MCCoin == {"ten stake"}

Whole == [source_port |-> "transfer", source_channel |-> "channel", sender |-> "alice",
          receiver |-> "bob", token |-> "ten stake", timeout_height |-> 0,
          timeout_timestamp |-> MaxSafe]
MCForm == {
    Whole,
    [Whole EXCEPT !.timeout_height = -1, !.timeout_timestamp = MaxSafe + 1],
    [receiver |-> "bob", token |-> Undefined, timeout_timestamp |-> Wide]}
=============================================================================
