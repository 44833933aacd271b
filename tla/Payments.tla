------------------------------ MODULE Payments ------------------------------
(***************************************************************************)
(* What the caller of sendMsgTransfer may rely on: a call is executed at   *)
(* most once; one that is answered with a result has been executed, and    *)
(* one that was refused never is.  Of the others nothing is known.         *)
(***************************************************************************)
EXTENDS Sequences

CONSTANT Call

VARIABLES
    done,   \* the calls executed, in the order of the chain
    told    \* what each caller was told

Answers == {"nothing", "sent", "refused", "unknown"}
Done    == {done[i] : i \in DOMAIN done}

PaymentsInit == done = <<>> /\ told = [c \in Call |-> "nothing"]

Pay(c) ==
    /\ c \notin Done /\ told[c] \in {"nothing", "unknown"}
    /\ done' = Append(done, c)
    /\ UNCHANGED told

Tell(c, answer) ==
    /\ told[c] = "nothing"
    /\ answer = "sent" => c \in Done
    /\ answer = "refused" => c \notin Done
    /\ told' = [told EXCEPT ![c] = answer]
    /\ UNCHANGED done

PaymentsNext == \E c \in Call : Pay(c) \/ \E a \in Answers : Tell(c, a)
PaymentsSpec == PaymentsInit /\ [][PaymentsNext]_<<done, told>>
=============================================================================
