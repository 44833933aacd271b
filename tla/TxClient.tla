------------------------------ MODULE TxClient ------------------------------
(***************************************************************************)
(* sendMsgTransfer of the generated store and the txClient it calls, in a  *)
(* browser where several sends may be open at once while the form they     *)
(* were given is edited and the wallet is switched.  cosmjs signs and      *)
(* broadcasts, a node checks and executes; both are external.              *)
(***************************************************************************)
EXTENDS TransferCodec, Sequences, FiniteSets

CONSTANTS
    Call,        \* calls of sendMsgTransfer, a caller's retries among them
    Wallet,      \* accounts that can sign
    NoWallet,    \* the signer before a wallet is opened
    Form,        \* what the caller's object may hold
    MaxEdits,    \* edits of the form and switches of the wallet
    MaxFaults    \* lost answers, transactions dropped by the mempool

ASSUME ClientAssumption ==
    /\ IsFiniteSet(Call) /\ NoWallet \notin Wallet
    /\ \A o \in Form : IsMessage(FromPartial(o))
    /\ MaxEdits \in Nat /\ MaxFaults \in Nat

VARIABLES
    signer,      \* common/wallet/signer of the store
    form,        \* the object given as `value`, which its owner may go on editing
    call,        \* what each call has reached
    account,     \* sequence number of each wallet's account on the chain
    mempool,     \* the transactions a node has taken
    ledger,      \* the transactions executed
    edits, faults

chain == <<account, mempool, ledger>>
vars  == <<signer, form, call, chain, edits, faults>>

\* What the caller asked, the wallet and the message that will be signed, the sequence
\* number, what the caller was told; and whether the form changed before the message
\* was made.
NotMade == [pc |-> "new", asked |-> [by |-> NoWallet, form |-> <<>>], by |-> NoWallet,
            wire |-> <<>>, seq |-> 0, told |-> "nothing", edited |-> FALSE]
Steps == {"new", "connect", "sequence", "sign", "broadcast", "poll", "ended"}

At(c, step)     == call[c].pc = step
Executed        == {ledger[i].call : i \in DOMAIN ledger}
\* sendMsgTransfer returns, or its catch throws what the caller is told.
End(c, answer)  == call' = [call EXCEPT ![c].pc = "ended", ![c].told = answer]
Goes(c, step)   == call' = [call EXCEPT ![c].pc = step]
Fault           == faults < MaxFaults /\ faults' = faults + 1

Init ==
    /\ signer = NoWallet /\ form \in Form
    /\ call = [c \in Call |-> NotMade]
    /\ account = [w \in Wallet |-> 0] /\ mempool = {} /\ ledger = <<>>
    /\ edits = 0 /\ faults = 0

---------------------------------------------------------------------------
(* The client. *)

\* initTxClient reads the signer at once; without one, MissingWalletError.
SendMsg(c) ==
    /\ At(c, "new")
    /\ IF signer = NoWallet THEN End(c, "refused")
       ELSE call' = [call EXCEPT ![c].pc = "connect", ![c].by = signer,
                                    ![c].asked = [by |-> signer, form |-> form]]
    /\ UNCHANGED <<signer, form, chain, edits, faults>>

\* Defect: the wallet's account is looked up again when the message is made.
Connect_LateSigner(c) ==
    /\ At(c, "connect") /\ signer # NoWallet
    /\ call' = [call EXCEPT ![c].pc = "sequence", ![c].by = signer,
                            ![c].wire = Encode(FromPartial(form))]
    /\ UNCHANGED <<signer, form, chain, edits, faults>>

\* connectWithSigner and getAccounts have answered: the message is made of what
\* `value` holds now, and copied.
Connect(c) ==
    /\ At(c, "connect")
    /\ call' = [call EXCEPT ![c].pc = "sequence", ![c].wire = Encode(FromPartial(form))]
    /\ UNCHANGED <<signer, form, chain, edits, faults>>

\* The endpoint cannot be reached, or a query is answered with an error.
Unreachable(c) ==
    /\ At(c, "connect") \/ At(c, "sequence")
    /\ Fault /\ End(c, "refused")
    /\ UNCHANGED <<signer, form, chain, edits>>

\* signAndBroadcast asks the chain for the account's sequence number.
GetSequence(c) ==
    /\ At(c, "sequence")
    /\ call' = [call EXCEPT ![c].pc = "sign", ![c].seq = account[call[c].by]]
    /\ UNCHANGED <<signer, form, chain, edits, faults>>

\* The user is asked, and agrees or does not; nobody makes him answer.
Sign(c)   == At(c, "sign") /\ Goes(c, "broadcast")
             /\ UNCHANGED <<signer, form, chain, edits, faults>>
Reject(c) == At(c, "sign") /\ End(c, "refused")
             /\ UNCHANGED <<signer, form, chain, edits, faults>>

\* CheckTx expects the number after those of the account's transactions in the mempool.
Expected(w) == account[w] + Cardinality({tx \in mempool : tx.by = w})
Accepted(c) == call[c].seq = Expected(call[c].by)
Signed(c)   == [call |-> c, by |-> call[c].by, wire |-> call[c].wire, seq |-> call[c].seq]

\* broadcastTxSync: a node takes the transaction, or its code makes cosmjs throw.
Broadcast(c) ==
    /\ At(c, "broadcast")
    /\ IF Accepted(c) THEN Goes(c, "poll") /\ mempool' = mempool \cup {Signed(c)}
                      ELSE End(c, "refused") /\ UNCHANGED mempool
    /\ UNCHANGED <<signer, form, account, ledger, edits, faults>>

\* The request or its answer is lost: the caller hears the same error either way.
BroadcastLost(c, arrived) ==
    /\ At(c, "broadcast") /\ Fault
    /\ mempool' = IF arrived /\ Accepted(c) THEN mempool \cup {Signed(c)} ELSE mempool
    /\ End(c, "unknown")
    /\ UNCHANGED <<signer, form, account, ledger, edits>>

Found(c) ==
    /\ At(c, "poll") /\ c \in Executed
    /\ End(c, "sent")
    /\ UNCHANGED <<signer, form, chain, edits, faults>>

\* Defect: a send that timed out is signed and sent again.
Timeout_SendsAgain(c) ==
    /\ At(c, "poll")
    /\ Goes(c, "sequence")
    /\ UNCHANGED <<signer, form, chain, edits, faults>>

\* Defect: the polling goes on until the transaction is found.
Timeout_Never(c) ==
    /\ At(c, "poll") /\ c \in Executed
    /\ End(c, "unknown")
    /\ UNCHANGED <<signer, form, chain, edits, faults>>

\* broadcastTimeoutMs is over, whether or not the transaction was found by then.
Timeout(c) ==
    /\ At(c, "poll")
    /\ End(c, "unknown")
    /\ UNCHANGED <<signer, form, chain, edits, faults>>

---------------------------------------------------------------------------
(* The page around it, and the chain. *)

Edit ==
    /\ edits < MaxEdits /\ edits' = edits + 1
    /\ \E o \in Form \ {form} : form' = o
    /\ call' = [c \in Call |-> [call[c] EXCEPT !.edited = @ \/ At(c, "connect")]]
    /\ UNCHANGED <<signer, chain, faults>>

SwitchWallet ==
    /\ edits < MaxEdits /\ edits' = edits + 1
    /\ \E w \in (Wallet \cup {NoWallet}) \ {signer} : signer' = w
    /\ UNCHANGED <<form, call, chain, faults>>

\* A transaction is executed when its number is the account's next; that it may fail
\* there is a code in the result, which nobody looks at.
Execute(tx) ==
    /\ tx.seq = account[tx.by]
    /\ mempool' = mempool \ {tx}
    /\ account' = [account EXCEPT ![tx.by] = @ + 1]
    /\ ledger' = Append(ledger, tx)
    /\ UNCHANGED <<signer, form, call, edits, faults>>

Drop(tx) ==
    /\ Fault
    /\ mempool' = mempool \ {tx}
    /\ UNCHANGED <<signer, form, call, account, ledger, edits>>

Client(c) ==
    \/ Connect(c) \/ GetSequence(c) \/ Broadcast(c) \/ Found(c) \/ Timeout(c)

Next ==
    \/ \E c \in Call :
         \/ SendMsg(c) \/ Client(c) \/ Unreachable(c) \/ Sign(c) \/ Reject(c)
         \/ \E arrived \in BOOLEAN : BroadcastLost(c, arrived)
    \/ \E tx \in mempool : Execute(tx) \/ Drop(tx)
    \/ Edit \/ SwitchWallet

Spec     == Init /\ [][Next]_vars
\* Requests are answered and timers fire.  The user need not answer, nor the chain
\* execute what it was given.
FairSpec == Spec /\ \A c \in Call : WF_vars(Client(c))

---------------------------------------------------------------------------
(* Properties. *)

Signer == Wallet \cup {NoWallet}
Wire   == {Encode(FromPartial(o)) : o \in Form}
Tx     == [call : Call, by : Wallet, wire : Wire, seq : Nat]

\* The variables keep their types; a caller is told something just when the send ends.
ClientTypeOK ==
    /\ signer \in Signer /\ form \in Form
    /\ call \in [Call -> [pc : Steps, asked : [by : Signer, form : Form \cup {<<>>}],
                          by : Signer, wire : Wire \cup {<<>>}, seq : Nat,
                          told : {"nothing", "sent", "refused", "unknown"},
                          edited : BOOLEAN]]
    /\ \A c \in Call : call[c].told = "nothing" <=> ~At(c, "ended")
    /\ account \in [Wallet -> Nat] /\ mempool \subseteq Tx /\ ledger \in Seq(Tx)
    /\ edits \in 0 .. MaxEdits /\ faults \in 0 .. MaxFaults

\* What is executed was asked for: by the wallet of the time of the call, and with the
\* values of that time unless the form was edited while the client was connecting.
ExecutedAsAsked ==
    \A i \in DOMAIN ledger :
        LET c == ledger[i].call
        IN  /\ ledger[i].by = call[c].asked.by
            /\ call[c].edited \/ ledger[i].wire = Encode(FromPartial(call[c].asked.form))

\* An executed transfer is read back from the chain as it was sent, or not at all if it
\* has a number that JavaScript does not hold - unless a number is so far out that its
\* 64 bits are those of one it does hold: 2^64 is executed and read back as 0.
ReadsBack ==
    \A i \in DOMAIN ledger :
        LET c == ledger[i].call
            m == FromPartial(call[c].asked.form)
            read(sent) == Decode(ledger[i].wire) = IF Readable(sent) THEN sent ELSE Unreadable
        IN  call[c].edited \/ (read(Modulo(m)) /\ (Fits(m) => read(m)))

\* The calls are Payments, even if their callers send again what was lost.
Paying == INSTANCE Payments WITH
    done <- [i \in DOMAIN ledger |-> ledger[i].call],
    told <- [c \in Call |-> call[c].told]

ImplementsPayments == Paying!PaymentsSpec

\* A send ends, unless the user leaves the wallet's question open.
SendsEnd == \A c \in Call : ~At(c, "new") ~> At(c, "ended") \/ At(c, "sign")
=============================================================================
