--------------------------- MODULE TxClientProofs ---------------------------
(***************************************************************************)
(* What the codec and the client promise for every set of calls, wallets   *)
(* and forms, and every number of edits and faults: a message whose        *)
(* numbers fit 64 bits is read back as it was sent or not at all, what is  *)
(* executed was asked for, and the calls are Payments.                     *)
(***************************************************************************)
EXTENDS TxClient, TLAPS

---------------------------------------------------------------------------
(* The codec. *)

\* The widths of the numbers, and that undefined is not one.
LEMMA Widths ==
    /\ MaxSafe \in Nat /\ Wide \in Nat /\ 2 * MaxSafe < Wide
    /\ Undefined \notin Int /\ Undefined \notin Coin
<1>1. MaxSafe \in Nat \ {0} /\ Wide \in Nat /\ 2 * MaxSafe < Wide
    BY Zenon, CodecAssumption DEF CodecAssumption
<1>2. Undefined \notin Int /\ Undefined \notin Coin
    BY Zenon, CodecAssumption DEF CodecAssumption
<1> QED
    BY <1>1, <1>2

\* Of the numbers that fit, two's complement leaves those that JavaScript reads back as
\* they are, and makes every other one too large.
LEMMA Complement ==
    ASSUME NEW x \in Int, MaxSafe - Wide < x, x < Wide
    PROVE  /\ x \in 0 .. MaxSafe => x % Wide = x
           /\ x \notin 0 .. MaxSafe => x % Wide > MaxSafe
<1>1. MaxSafe \in Nat /\ Wide \in Nat /\ 2 * MaxSafe < Wide /\ x \in Int
    BY Widths
<1>2. CASE x >= 0
  <2>1. x % Wide = x
    BY <1>1, <1>2
  <2> QED
    BY <1>1, <1>2, <2>1
<1>3. CASE x < 0
  <2>1. 0 <= x + Wide /\ x + Wide < Wide /\ x + Wide > MaxSafe
    BY <1>1, <1>3
  <2>2. x % Wide = x + Wide
    BY <1>1, <1>3, <2>1
  <2> QED
    BY <1>1, <1>3, <2>1, <2>2
<1> QED
    BY <1>1, <1>2, <1>3

\* What is written of a field that is not left out.
LEMMA OnTheWire ==
    ASSUME NEW m, NEW f \in Field
    PROVE  /\ f \in DOMAIN Encode(m) <=> m[f] # Default(f)
           /\ f \in DOMAIN Encode(m) => Encode(m)[f] = Written(f, m[f])
           /\ DOMAIN Encode(m) \subseteq Field
    BY DEF Encode

\* A field in its default is read as such; one in another value has that value.
LEMMA SetField ==
    ASSUME NEW m, IsMessage(m), NEW f \in NumberField, f \in DOMAIN Encode(m)
    PROVE  m[f] \in Int /\ m[f] # Undefined
<1>1. f \in {"timeout_height", "timeout_timestamp"} /\ f \in Field /\ f \notin TextField
    BY DEF NumberField, TextField, Field
<1>2. m[f] # Default(f)
    BY <1>1, OnTheWire
<1>3. m[f] \in Value(f)
    BY <1>1, <1>2 DEF IsMessage
<1>4. Value(f) = Int
    BY <1>1 DEF Value, NumberField
<1> QED
    BY <1>3, <1>4, Widths

\* A field's default is written as itself.
LEMMA DefaultKept ==
    ASSUME NEW f \in Field
    PROVE  Default(f) = Undefined \/ Written(f, Default(f)) = Default(f)
<1>1. CASE f \in NumberField
  <2>1. 0 % Wide = 0
    BY Widths
  <2>2. f = "timeout_timestamp" => Default(f) = 0
    BY DEF Default, TextField
  <2>3. f = "timeout_height" => Default(f) = Undefined
    BY DEF Default, TextField
  <2> QED
    BY <1>1, <2>1, <2>2, <2>3 DEF Written, NumberField
<1>2. CASE f \notin NumberField
  BY <1>2 DEF Written
<1> QED
  BY <1>1, <1>2

\* What is read back is what 64 bits keep of the numbers, as far as JavaScript holds it.
LEMMA ReadModulo ==
    ASSUME NEW m, IsMessage(m)
    PROVE  Decode(Encode(m)) = IF Readable(Modulo(m)) THEN Modulo(m) ELSE Unreadable
<1> DEFINE wire == Encode(m)
<1>1. ASSUME NEW f \in Field, f \in DOMAIN wire PROVE wire[f] = Modulo(m)[f]
  <2>1. wire[f] = Written(f, m[f])
    BY <1>1, OnTheWire
  <2>2. CASE f \in NumberField
    BY <1>1, <2>1, <2>2, SetField DEF Modulo
  <2>3. CASE f \notin NumberField
    BY <2>1, <2>3 DEF Modulo, Written
  <2> QED
    BY <2>2, <2>3
<1>2. ASSUME NEW f \in Field, f \notin DOMAIN wire
      PROVE  m[f] = Default(f) /\ Modulo(m)[f] = Default(f)
  <2>1. m[f] = Default(f)
    BY <1>2, OnTheWire
  <2> QED
    BY <2>1, DefaultKept DEF Modulo
<1>3. ASSUME NEW f \in NumberField
      PROVE  (Modulo(m)[f] = Undefined \/ Modulo(m)[f] \in 0 .. MaxSafe)
                <=> ~(f \in DOMAIN wire /\ wire[f] > MaxSafe)
  <2>1. f \in {"timeout_height", "timeout_timestamp"} /\ f \in Field
    BY DEF NumberField, Field
  <2>2. CASE f \in DOMAIN wire
    <3>1. m[f] \in Int /\ m[f] # Undefined
      BY <2>2, SetField
    <3>2. wire[f] = m[f] % Wide /\ Modulo(m)[f] = wire[f]
      BY <1>1, <2>1, <2>2, OnTheWire DEF Written
    <3>3. wire[f] \in Nat /\ wire[f] # Undefined
      BY <3>1, <3>2, Widths
    <3> QED
      BY <2>2, <3>2, <3>3, Widths
  <2>3. CASE f \notin DOMAIN wire
    <3>1. Default("timeout_timestamp") = 0 /\ Default("timeout_height") = Undefined
      BY DEF Default, TextField
    <3> QED
      BY <1>2, <2>1, <2>3, <3>1, Widths
  <2> QED
    BY <2>2, <2>3
<1>4. Readable(Modulo(m)) <=> ~\E f \in NumberField \cap DOMAIN wire : wire[f] > MaxSafe
  BY <1>3 DEF Readable
<1>5. CASE Readable(Modulo(m))
  <2>1. Decode(wire) = [f \in Field |-> IF f \in DOMAIN wire THEN wire[f] ELSE Default(f)]
    BY <1>4, <1>5 DEF Decode
  <2>2. \A f \in Field : (IF f \in DOMAIN wire THEN wire[f] ELSE Default(f)) = Modulo(m)[f]
    BY <1>1, <1>2
  <2>3. Decode(wire) = [f \in Field |-> Modulo(m)[f]]
    BY <2>1, <2>2
  <2> QED
    BY <1>5, <2>3 DEF Modulo
<1>6. CASE ~Readable(Modulo(m))
  BY <1>4, <1>6 DEF Decode
<1> QED
  BY <1>5, <1>6

\* Of a message whose numbers fit, 64 bits keep those that JavaScript holds, and make
\* no other one that it holds.
LEMMA FitKept ==
    ASSUME NEW m, IsMessage(m), Fits(m)
    PROVE  /\ Readable(Modulo(m)) <=> Readable(m)
           /\ Readable(m) => Modulo(m) = m
<1>1. ASSUME NEW f \in NumberField, m[f] # Undefined
      PROVE  /\ Modulo(m)[f] = m[f] % Wide /\ Modulo(m)[f] # Undefined
             /\ Modulo(m)[f] \in 0 .. MaxSafe <=> m[f] \in 0 .. MaxSafe
             /\ m[f] \in 0 .. MaxSafe => Modulo(m)[f] = m[f]
  <2>1. f \in Field /\ f \notin TextField
    BY DEF NumberField, TextField, Field
  <2>2. m[f] \in Int
    <3>1. m[f] = Default(f) \/ m[f] \in Value(f)
      BY <2>1 DEF IsMessage
    <3>2. Value(f) = Int /\ (Default(f) = 0 \/ Default(f) = Undefined)
      BY <2>1 DEF Value, Default, NumberField
    <3> QED
      BY <1>1, <3>1, <3>2
  <2>3. Modulo(m)[f] = m[f] % Wide
    BY <1>1, <2>1 DEF Modulo, Written
  <2>4. MaxSafe - Wide < m[f] /\ m[f] < Wide
    BY <1>1 DEF Fits
  <2>5. /\ m[f] \in 0 .. MaxSafe => m[f] % Wide = m[f]
        /\ m[f] \notin 0 .. MaxSafe => m[f] % Wide > MaxSafe
    BY <2>2, <2>4, Complement
  <2>6. m[f] % Wide \in Int /\ MaxSafe \in Int /\ Undefined \notin Int
    BY <2>2, Widths
  <2> QED
    BY <2>3, <2>5, <2>6
<1>2. ASSUME NEW f \in Field, m[f] = Undefined PROVE Modulo(m)[f] = Undefined
  BY <1>2 DEF Modulo
<1>3. NumberField \subseteq Field
  BY DEF NumberField, Field
<1>4. Readable(Modulo(m)) <=> Readable(m)
  BY <1>1, <1>2, <1>3 DEF Readable
<1>5. ASSUME Readable(m) PROVE Modulo(m) = m
  <2>1. ASSUME NEW f \in Field PROVE Modulo(m)[f] = m[f]
    <3>1. CASE m[f] = Undefined
      BY <3>1, <1>2
    <3>2. CASE m[f] # Undefined /\ f \in NumberField
      BY <3>2, <1>1, <1>5 DEF Readable
    <3>3. CASE m[f] # Undefined /\ f \notin NumberField
      BY <3>3 DEF Modulo, Written
    <3> QED
      BY <3>1, <3>2, <3>3
  <2>2. Modulo(m) = [f \in Field |-> Modulo(m)[f]] /\ m = [f \in Field |-> m[f]]
    BY DEF Modulo, IsMessage
  <2>3. [f \in Field |-> Modulo(m)[f]] = [f \in Field |-> m[f]]
    BY <2>1
  <2> QED
    BY <2>2, <2>3
<1> QED
  BY <1>4, <1>5

\* A message whose numbers fit is read back as it was, or not at all if one is not in
\* JavaScript's range (tx.ts:49-108 and 305-310); of any message is
\* read what 64 bits keep of its numbers, and no exception is a sign of the loss.
THEOREM RoundTrip ==
    ASSUME NEW m, IsMessage(m)
    PROVE  /\ Decode(Encode(m)) = IF Readable(Modulo(m)) THEN Modulo(m) ELSE Unreadable
           /\ Fits(m) => Decode(Encode(m)) = IF Readable(m) THEN m ELSE Unreadable
<1>1. Decode(Encode(m)) = IF Readable(Modulo(m)) THEN Modulo(m) ELSE Unreadable
  BY ReadModulo
<1>2. ASSUME Fits(m)
      PROVE  Decode(Encode(m)) = IF Readable(m) THEN m ELSE Unreadable
  <2>1. (Readable(Modulo(m)) <=> Readable(m)) /\ (Readable(m) => Modulo(m) = m)
    BY <1>2, FitKept
  <2> QED
    BY <1>1, <2>1
<1> QED
  BY <1>1, <1>2

---------------------------------------------------------------------------
(* The client. *)

Early == {"new", "connect", "sequence", "sign", "broadcast"}
Record == [pc : Steps, asked : [by : Signer, form : Form \cup {<<>>}],
           by : Signer, wire : Wire \cup {<<>>}, seq : Nat,
           told : {"nothing", "sent", "refused", "unknown"}, edited : BOOLEAN]

\* The call that k describes is on its way to sign what was asked, while the form holds o.
OnItsWay(k, o) ==
    /\ k.told = "nothing" <=> k.pc # "ended"
    /\ k.pc \in {"connect", "sequence", "sign", "broadcast"} =>
         k.by \in Wallet /\ k.by = k.asked.by /\ k.asked.form \in Form
    /\ k.pc = "connect" /\ ~k.edited => o = k.asked.form
    /\ k.pc \in {"sequence", "sign", "broadcast"} =>
         k.wire \in Wire /\ (k.edited \/ k.wire = Encode(FromPartial(k.asked.form)))

\* The transaction is that of a call which signed it, and was not refused.
Sound(tx) ==
    LET k == call[tx.call]
    IN  /\ k.pc \in {"poll", "ended"} /\ k.told # "refused"
        /\ tx.by = k.asked.by /\ k.asked.form \in Form
        /\ k.edited \/ tx.wire = Encode(FromPartial(k.asked.form))

\* A call has one transaction at most, in the mempool or in the ledger; and who was told
\* that it is executed was told the truth.
OnceInv ==
    /\ \A tx \in mempool : Sound(tx) /\ tx.call \notin Executed
    /\ \A tx, other \in mempool : tx.call = other.call => tx = other
    /\ \A i \in DOMAIN ledger : Sound(ledger[i])
    /\ \A c \in Call : call[c].told = "sent" => c \in Executed

CallInv == \A c \in Call : OnItsWay(call[c], form)

IInv == ClientTypeOK /\ CallInv /\ OnceInv

---------------------------------------------------------------------------
\* The invariant holds when the page is opened.
LEMMA InitInv == Init => IInv
<1> SUFFICES ASSUME Init PROVE IInv
    OBVIOUS
<1>1. NotMade \in Record /\ NotMade.pc = "new" /\ NotMade.told = "nothing"
    BY DEF NotMade, Record, Steps, Signer
<1>2. \A c \in Call : call[c] = NotMade
    BY DEF Init
<1>3. MaxEdits \in Nat /\ MaxFaults \in Nat
    BY Zenon, ClientAssumption DEF ClientAssumption
<1>4. ClientTypeOK
    BY <1>1, <1>2, <1>3 DEF Init, ClientTypeOK, Record, At, Signer
<1>5. CallInv
    BY <1>1, <1>2 DEF CallInv, OnItsWay
<1>6. OnceInv
    BY <1>1, <1>2 DEF Init, OnceInv
<1> QED
    BY <1>4, <1>5, <1>6 DEF IInv

\* Nothing of a call is in the mempool or in the ledger before it has broadcast.
LEMMA NothingEarly ==
    ASSUME IInv, NEW c \in Call, call[c].pc \in Early \/ call[c].told = "refused"
    PROVE  c \notin Executed /\ \A tx \in mempool : tx.call # c
<1>1. \A i \in DOMAIN ledger : ledger[i].call # c
    BY DEF IInv, OnceInv, Sound, Early
<1>2. \A tx \in mempool : tx.call # c
    BY DEF IInv, OnceInv, Sound, Early
<1> QED
    BY <1>1, <1>2 DEF Executed

\* What is in the ledger is a transaction.
LEMMA LedgerTyped == ASSUME IInv PROVE \A i \in DOMAIN ledger : ledger[i] \in Tx
<1>1. ledger \in Seq(Tx)
    BY DEF IInv, ClientTypeOK
<1> QED
    BY <1>1

\* A step of one call that puts nothing on the chain keeps the invariant, if the call is
\* still on its way, or ends and tells what is so.
LEMMA OneCall ==
    ASSUME IInv, NEW c \in Call, NEW k \in Record,
           call' = [call EXCEPT ![c] = k], UNCHANGED <<signer, form, chain, edits>>,
           faults' \in 0 .. MaxFaults,
           OnItsWay(k, form),
           \/ call[c].pc \in Early /\ k.told # "sent"
           \/ /\ call[c].pc = "poll" /\ k.pc = "ended" /\ k.told \in {"sent", "unknown"}
              /\ k.asked = call[c].asked /\ k.edited = call[c].edited
              /\ k.told = "sent" => c \in Executed
    PROVE  IInv'
<1> USE DEF IInv, chain
<1>1. call \in [Call -> Record] /\ call' \in [Call -> Record]
    BY DEF ClientTypeOK, Record
<1>2. \A d \in Call : call'[d] = IF d = c THEN k ELSE call[d]
    BY <1>1
<1>3. ClientTypeOK'
  <2>1. \A d \in Call : call'[d].told = "nothing" <=> call'[d].pc # "ended"
    BY <1>2 DEF CallInv, OnItsWay
  <2> QED
    BY <1>1, <2>1 DEF ClientTypeOK, Record, At
<1>4. CallInv'
    BY <1>2 DEF CallInv
<1>5. Executed' = Executed
    BY DEF Executed
<1>6. ASSUME NEW tx, tx.call \in Call, Sound(tx)
      PROVE  Sound(tx)'
    BY <1>2, <1>6 DEF Sound, Early
<1>7. OnceInv'
  <2>1. \A tx \in mempool : tx.call \in Call
    BY DEF ClientTypeOK, Tx
  <2>2. \A i \in DOMAIN ledger : ledger[i].call \in Call
    BY LedgerTyped DEF Tx
  <2>3. \A d \in Call : call'[d].told = "sent" => d \in Executed
    BY <1>2 DEF OnceInv
  <2> QED
    BY <1>5, <1>6, <2>1, <2>2, <2>3 DEF OnceInv
<1> QED
    BY <1>3, <1>4, <1>7

\* Each of the client's steps that puts nothing on the chain is one of OneCall's.
LEMMA ClientStep ==
    ASSUME IInv, NEW c \in Call,
           \/ SendMsg(c) \/ Connect(c) \/ Unreachable(c) \/ GetSequence(c)
           \/ Sign(c) \/ Reject(c) \/ Found(c) \/ Timeout(c)
    PROVE  IInv'
<1> USE DEF IInv, chain
<1>1. /\ call[c] \in Record /\ OnItsWay(call[c], form) /\ form \in Form
      /\ call \in [Call -> Record] /\ signer \in Signer
    BY DEF ClientTypeOK, CallInv, Record
<1>2. faults \in 0 .. MaxFaults /\ MaxFaults \in Nat
    BY Zenon, ClientAssumption DEF ClientAssumption, ClientTypeOK
<1>3. ASSUME NEW answer \in {"sent", "refused", "unknown"}, End(c, answer),
             UNCHANGED <<signer, form, chain, edits>>, faults' \in 0 .. MaxFaults,
             \/ call[c].pc \in Early /\ answer = "refused"
             \/ call[c].pc = "poll" /\ answer \in {"sent", "unknown"}
                /\ (answer = "sent" => c \in Executed)
      PROVE  IInv'
  <2> DEFINE k == [call[c] EXCEPT !.pc = "ended", !.told = answer]
  <2>1. /\ k \in Record /\ k.pc = "ended" /\ k.told = answer
        /\ k.asked = call[c].asked /\ k.edited = call[c].edited
    BY <1>1, <1>3 DEF Record, Steps
  <2>2. call' = [call EXCEPT ![c] = k]
    BY <1>3 DEF End
  <2>3. OnItsWay(k, form)
    BY <1>3, <2>1 DEF OnItsWay
  <2> HIDE DEF k
  <2> QED
    BY <1>3, <2>1, <2>2, <2>3, OneCall
<1>4. ASSUME NEW k \in Record, call' = [call EXCEPT ![c] = k],
             UNCHANGED <<signer, form, chain, edits, faults>>,
             OnItsWay(k, form), call[c].pc \in Early, k.told = "nothing"
      PROVE  IInv'
    BY <1>2, <1>4, OneCall
<1>5. CASE SendMsg(c)
  <2>1. CASE signer = NoWallet
    BY <1>2, <1>3, <1>5, <2>1 DEF SendMsg, At, Early
  <2>2. CASE signer # NoWallet
    <3> DEFINE k == [call[c] EXCEPT !.pc = "connect", !.by = signer,
                                    !.asked = [by |-> signer, form |-> form]]
    <3>1. /\ k \in Record /\ k.pc = "connect" /\ k.told = call[c].told
          /\ k.by = signer /\ k.asked.by = signer /\ k.asked.form = form
      BY <1>1 DEF Record, Steps
    <3>2. /\ call' = [call EXCEPT ![c] = k] /\ call[c].pc = "new"
          /\ UNCHANGED <<signer, form, chain, edits, faults>>
      BY <1>5, <2>2 DEF SendMsg, At
    <3>3. OnItsWay(k, form) /\ k.told = "nothing"
      BY <1>1, <2>2, <3>1, <3>2 DEF OnItsWay, Signer
    <3> HIDE DEF k
    <3> QED
      BY <1>4, <3>1, <3>2, <3>3 DEF Early
  <2> QED
    BY <2>1, <2>2
<1>6. CASE Connect(c)
  <2> DEFINE w == Encode(FromPartial(form))
  <2> DEFINE k == [call[c] EXCEPT !.pc = "sequence", !.wire = w]
  <2>1. w \in Wire
    BY <1>1 DEF Wire
  <2>2. call' = [call EXCEPT ![c] = k] /\ call[c].pc = "connect"
        /\ UNCHANGED <<signer, form, chain, edits, faults>>
    BY <1>6 DEF Connect, At
  <2>3. w = Encode(FromPartial(form))
    OBVIOUS
  <2> HIDE DEF w
  <2>4. /\ k \in Record /\ k.pc = "sequence" /\ k.told = call[c].told
        /\ k.by = call[c].by /\ k.asked = call[c].asked /\ k.edited = call[c].edited
        /\ k.wire = w
    BY <1>1, <2>1 DEF Record, Steps
  <2> HIDE DEF k
  <2>5. OnItsWay(k, form) /\ k.told = "nothing"
    BY <1>1, <2>1, <2>2, <2>3, <2>4 DEF OnItsWay
  <2> QED
    BY <1>4, <2>2, <2>4, <2>5 DEF Early
<1>7. CASE Unreachable(c)
    BY <1>2, <1>3, <1>7 DEF Unreachable, At, Early, Fault
<1>8. CASE GetSequence(c)
  <2> DEFINE k == [call[c] EXCEPT !.pc = "sign", !.seq = account[call[c].by]]
  <2>1. /\ call' = [call EXCEPT ![c] = k] /\ call[c].pc = "sequence"
        /\ UNCHANGED <<signer, form, chain, edits, faults>>
    BY <1>8 DEF GetSequence, At
  <2>2. account[call[c].by] \in Nat
    BY <1>1, <2>1 DEF OnItsWay, ClientTypeOK
  <2>3. /\ k \in Record /\ k.pc = "sign" /\ k.told = call[c].told
        /\ k.by = call[c].by /\ k.asked = call[c].asked /\ k.edited = call[c].edited
        /\ k.wire = call[c].wire
    BY <1>1, <2>2 DEF Record, Steps
  <2> HIDE DEF k
  <2>4. OnItsWay(k, form) /\ k.told = "nothing"
    BY <1>1, <2>1, <2>3 DEF OnItsWay
  <2> QED
    BY <1>4, <2>1, <2>3, <2>4 DEF Early
<1>9. CASE Sign(c)
  <2> DEFINE k == [call[c] EXCEPT !.pc = "broadcast"]
  <2>1. /\ call' = [call EXCEPT ![c] = k] /\ call[c].pc = "sign"
        /\ UNCHANGED <<signer, form, chain, edits, faults>>
    BY <1>9 DEF Sign, Goes, At
  <2>2. /\ k \in Record /\ k.pc = "broadcast" /\ k.told = call[c].told
        /\ k.by = call[c].by /\ k.asked = call[c].asked /\ k.edited = call[c].edited
        /\ k.wire = call[c].wire
    BY <1>1 DEF Record, Steps
  <2> HIDE DEF k
  <2>3. OnItsWay(k, form) /\ k.told = "nothing"
    BY <1>1, <2>1, <2>2 DEF OnItsWay
  <2> QED
    BY <1>4, <2>1, <2>2, <2>3 DEF Early
<1>10. CASE Reject(c)
    BY <1>2, <1>3, <1>10 DEF Reject, At, Early
<1>11. CASE Found(c) \/ Timeout(c)
    BY <1>2, <1>3, <1>11 DEF Found, Timeout, At
<1> QED
    BY <1>5, <1>6, <1>7, <1>8, <1>9, <1>10, <1>11

\* A node that takes a call's transaction takes it for the first time.
LEMMA Taken ==
    ASSUME IInv, NEW c \in Call, call[c].pc = "broadcast",
           NEW k \in Record, call' = [call EXCEPT ![c] = k],
           k.pc \in {"poll", "ended"}, k.told \in {"nothing", "unknown"},
           k.told = "nothing" <=> k.pc # "ended",
           k.asked = call[c].asked, k.edited = call[c].edited,
           mempool' = mempool \cup {Signed(c)}, faults' \in 0 .. MaxFaults,
           UNCHANGED <<signer, form, account, ledger, edits>>
    PROVE  IInv'
<1> USE DEF IInv
<1>1. /\ call \in [Call -> Record] /\ call' \in [Call -> Record]
      /\ OnItsWay(call[c], form) /\ call[c] \in Record
    BY DEF ClientTypeOK, Record, CallInv
<1>2. \A d \in Call : call'[d] = IF d = c THEN k ELSE call[d]
    BY <1>1
<1>10. PICK t : t = Signed(c)
    OBVIOUS
<1>3. /\ t \in Tx /\ t.call = c /\ t.by = call[c].asked.by
      /\ call[c].edited \/ t.wire = Encode(FromPartial(call[c].asked.form))
      /\ call[c].asked.form \in Form
    BY <1>1, <1>10 DEF Signed, Tx, OnItsWay, Record
<1>4. c \notin Executed /\ \A tx \in mempool : tx.call # c
    BY NothingEarly DEF Early
<1>5. ClientTypeOK'
  <2>1. \A d \in Call : call'[d].told = "nothing" <=> call'[d].pc # "ended"
    BY <1>2 DEF CallInv, OnItsWay
  <2> QED
    BY <1>1, <1>3, <1>10, <2>1 DEF ClientTypeOK, Record, At
<1>6. CallInv'
  <2>1. OnItsWay(k, form)
    BY DEF OnItsWay
  <2> QED
    BY <1>2, <2>1 DEF CallInv
<1>7. Executed' = Executed
    BY DEF Executed
<1>8. ASSUME NEW tx, tx.call \in Call, Sound(tx)
      PROVE  Sound(tx)'
    BY <1>2, <1>8 DEF Sound
<1>9. Sound(t)'
    BY <1>2, <1>3 DEF Sound
<1>11. OnceInv'
  <2>1. \A tx \in mempool : tx.call \in Call
    BY DEF ClientTypeOK, Tx
  <2>2. \A i \in DOMAIN ledger : ledger[i].call \in Call
    BY LedgerTyped DEF Tx
  <2>3. \A tx \in mempool' : Sound(tx)' /\ tx.call \notin Executed'
    BY <1>3, <1>4, <1>7, <1>8, <1>9, <1>10, <2>1 DEF OnceInv
  <2>4. \A tx, other \in mempool' : tx.call = other.call => tx = other
    BY <1>3, <1>4, <1>10 DEF OnceInv
  <2>5. \A i \in DOMAIN ledger' : Sound(ledger[i])'
    BY <1>8, <2>2 DEF OnceInv
  <2>6. \A d \in Call : call'[d].told = "sent" => d \in Executed'
    BY <1>2, <1>7 DEF OnceInv
  <2> QED
    BY <2>3, <2>4, <2>5, <2>6 DEF OnceInv
<1> QED
    BY <1>5, <1>6, <1>11

\* A broadcast keeps the invariant, whether or not it arrives and is accepted.
LEMMA BroadcastStep ==
    ASSUME IInv, NEW c \in Call,
           Broadcast(c) \/ \E arrived \in BOOLEAN : BroadcastLost(c, arrived)
    PROVE  IInv'
<1> USE DEF IInv
<1>1. /\ call[c] \in Record /\ OnItsWay(call[c], form) /\ call[c].pc = "broadcast"
      /\ UNCHANGED <<signer, form, account, ledger, edits>>
    BY DEF ClientTypeOK, CallInv, Record, Broadcast, BroadcastLost, At
<1>2. faults' \in 0 .. MaxFaults
  <2>1. faults \in 0 .. MaxFaults /\ MaxFaults \in Nat
    BY Zenon, ClientAssumption DEF ClientAssumption, ClientTypeOK
  <2> QED
    BY <2>1 DEF Broadcast, BroadcastLost, Fault
<1>3. PICK pc \in {"poll", "ended"}, told \in {"nothing", "refused", "unknown"} :
        /\ call' = [call EXCEPT ![c] = [call[c] EXCEPT !.pc = pc, !.told = told]]
        /\ told = "nothing" <=> pc # "ended"
        /\ \/ UNCHANGED mempool /\ pc = "ended"
           \/ mempool' = mempool \cup {Signed(c)} /\ told # "refused"
  <2>1. CASE Broadcast(c) /\ Accepted(c)
    <3>1. /\ call' = [call EXCEPT ![c].pc = "poll"]
          /\ mempool' = mempool \cup {Signed(c)} /\ call[c].told = "nothing"
      BY <1>1, <2>1 DEF Broadcast, Goes, OnItsWay
    <3>2. [call[c] EXCEPT !.pc = "poll", !.told = "nothing"] = [call[c] EXCEPT !.pc = "poll"]
      BY <1>1, <3>1 DEF Record
    <3> QED
      BY <3>1, <3>2
  <2>2. CASE Broadcast(c) /\ ~Accepted(c)
    <3>1. /\ call' = [call EXCEPT ![c] = [call[c] EXCEPT !.pc = "ended", !.told = "refused"]]
          /\ UNCHANGED mempool
      BY <2>2 DEF Broadcast, End
    <3> QED
      BY <3>1
  <2>3. CASE \E arrived \in BOOLEAN : BroadcastLost(c, arrived)
    <3>1. /\ call' = [call EXCEPT ![c] = [call[c] EXCEPT !.pc = "ended", !.told = "unknown"]]
          /\ UNCHANGED mempool \/ mempool' = mempool \cup {Signed(c)}
      BY <2>3 DEF BroadcastLost, End
    <3> QED
      BY <3>1
  <2> QED
    BY <2>1, <2>2, <2>3
<1> DEFINE k == [call[c] EXCEPT !.pc = pc, !.told = told]
<1>4. /\ k \in Record /\ k.pc = pc /\ k.told = told
      /\ k.asked = call[c].asked /\ k.edited = call[c].edited
    BY <1>1, <1>3 DEF Record, Steps
<1>5. call' = [call EXCEPT ![c] = k] /\ OnItsWay(k, form)
    BY <1>3, <1>4 DEF OnItsWay
<1> HIDE DEF k
<1>6. CASE UNCHANGED mempool
    BY <1>1, <1>2, <1>3, <1>4, <1>5, <1>6, OneCall DEF chain, Early
<1>7. CASE mempool' = mempool \cup {Signed(c)} /\ told # "refused"
    BY <1>1, <1>2, <1>3, <1>4, <1>5, <1>7, Taken
<1> QED
    BY <1>3, <1>6, <1>7

---------------------------------------------------------------------------
\* The chain keeps it: what is executed leaves the mempool.
LEMMA ChainStep ==
    ASSUME IInv, NEW t \in mempool, Execute(t) \/ Drop(t)
    PROVE  IInv'
<1> USE DEF IInv
<1>1. /\ t \in Tx /\ Sound(t) /\ mempool' = mempool \ {t}
      /\ UNCHANGED <<signer, form, call, edits>>
    BY DEF ClientTypeOK, OnceInv, Execute, Drop
<1>2. /\ ledger \in Seq(Tx) /\ ledger' \in Seq(Tx)
      /\ ledger' = ledger \/ ledger' = Append(ledger, t)
  <2>1. ledger \in Seq(Tx)
    BY DEF ClientTypeOK
  <2>2. Append(ledger, t) \in Seq(Tx)
    BY <1>1, <2>1
  <2>3. ledger' = ledger \/ ledger' = Append(ledger, t)
    BY DEF Execute, Drop
  <2> QED
    BY <2>1, <2>2, <2>3
<1>3. faults' \in 0 .. MaxFaults
  <2>1. faults \in 0 .. MaxFaults /\ MaxFaults \in Nat
    BY Zenon, ClientAssumption DEF ClientAssumption, ClientTypeOK
  <2> QED
    BY <2>1 DEF Execute, Drop, Fault
<1>4. account' \in [Wallet -> Nat]
    BY <1>1 DEF ClientTypeOK, Execute, Drop, Tx
<1>5. ClientTypeOK'
    BY <1>1, <1>2, <1>3, <1>4 DEF ClientTypeOK, At
<1>6. CallInv'
    BY <1>1 DEF CallInv
<1>7. \A tx : Sound(tx)' <=> Sound(tx)
    BY <1>1 DEF Sound
<1>8. Executed' \subseteq Executed \cup {t.call} /\ Executed \subseteq Executed'
  <2>1. CASE ledger' = ledger
    BY <2>1 DEF Executed
  <2>2. CASE ledger' = Append(ledger, t)
    <3>1. /\ DOMAIN ledger = 1 .. Len(ledger) /\ DOMAIN ledger' = 1 .. Len(ledger) + 1
          /\ Len(ledger) \in Nat /\ ledger'[Len(ledger) + 1] = t
          /\ \A i \in 1 .. Len(ledger) : ledger'[i] = ledger[i]
      BY <1>2, <2>2
    <3> QED
      BY <3>1 DEF Executed
  <2> QED
    BY <1>2, <2>1, <2>2
<1>9. OnceInv'
  <2>1. \A tx \in mempool' : Sound(tx)' /\ tx.call \notin Executed'
    BY <1>1, <1>7, <1>8 DEF OnceInv
  <2>2. \A tx, other \in mempool' : tx.call = other.call => tx = other
    BY <1>1 DEF OnceInv
  <2>3. \A i \in DOMAIN ledger' : Sound(ledger[i])'
    BY <1>1, <1>2, <1>7 DEF OnceInv
  <2>4. \A c \in Call : call'[c].told = "sent" => c \in Executed'
    BY <1>1, <1>8 DEF OnceInv
  <2> QED
    BY <2>1, <2>2, <2>3, <2>4 DEF OnceInv
<1> QED
    BY <1>5, <1>6, <1>9

\* Editing the form and switching the wallet keep it: a call that has not made its
\* message is marked.
LEMMA PageStep == ASSUME IInv, Edit \/ SwitchWallet PROVE IInv'
<1> USE DEF IInv
<1>1. /\ call \in [Call -> Record] /\ UNCHANGED <<account, mempool, ledger, faults>>
      /\ form' \in Form /\ signer' \in Signer /\ edits' \in 0 .. MaxEdits
  <2>1. edits \in 0 .. MaxEdits /\ MaxEdits \in Nat
    BY Zenon, ClientAssumption DEF ClientAssumption, ClientTypeOK
  <2> QED
    BY <2>1 DEF Edit, SwitchWallet, ClientTypeOK, Record, chain, Signer
<1>2. call' \in [Call -> Record] /\ \A c \in Call :
         /\ call'[c].pc = call[c].pc /\ call'[c].told = call[c].told
         /\ call'[c].by = call[c].by /\ call'[c].asked = call[c].asked
         /\ call'[c].wire = call[c].wire
         /\ call'[c].pc # "connect" => call'[c].edited = call[c].edited
         /\ call'[c].edited = call[c].edited \/ call'[c].edited
         /\ call'[c].pc = "connect" => call'[c].edited \/ form' = form
  <2>1. CASE Edit
    <3>1. \A c \in Call : call[c] \in Record /\
              [call[c] EXCEPT !.edited = @ \/ At(c, "connect")] \in Record
      BY <1>1 DEF Record
    <3>2. call' = [c \in Call |-> [call[c] EXCEPT !.edited = @ \/ At(c, "connect")]]
      BY <2>1 DEF Edit
    <3> QED
      BY <3>1, <3>2 DEF Record, At
  <2>2. CASE SwitchWallet
    BY <1>1, <2>2 DEF SwitchWallet
  <2> QED
    BY <2>1, <2>2
<1>3. ClientTypeOK'
    BY <1>1, <1>2 DEF ClientTypeOK, Record, At
<1>4. CallInv'
    BY <1>2 DEF CallInv, OnItsWay
<1>5. Executed' = Executed
    BY <1>1 DEF Executed
<1>6. ASSUME NEW tx, tx.call \in Call, Sound(tx)
      PROVE  Sound(tx)'
    BY <1>2, <1>6 DEF Sound
<1>7. OnceInv'
  <2>1. \A tx \in mempool : tx.call \in Call
    BY DEF ClientTypeOK, Tx
  <2>2. \A i \in DOMAIN ledger : ledger[i].call \in Call
    BY LedgerTyped DEF Tx
  <2> QED
    BY <1>1, <1>2, <1>5, <1>6, <2>1, <2>2 DEF OnceInv
<1> QED
    BY <1>3, <1>4, <1>7

\* The invariant is inductive.
LEMMA NextInv == IInv /\ [Next]_vars => IInv'
<1> SUFFICES ASSUME IInv, [Next]_vars PROVE IInv'
    OBVIOUS
<1>1. CASE \E c \in Call : \/ SendMsg(c) \/ Client(c) \/ Unreachable(c) \/ Sign(c) \/ Reject(c)
                           \/ \E arrived \in BOOLEAN : BroadcastLost(c, arrived)
    BY <1>1, ClientStep, BroadcastStep DEF Client
<1>2. CASE \E tx \in mempool : Execute(tx) \/ Drop(tx)
    BY <1>2, ChainStep
<1>3. CASE Edit \/ SwitchWallet
    BY <1>3, PageStep
<1>4. CASE UNCHANGED vars
    BY <1>4 DEF vars, chain, IInv, ClientTypeOK, CallInv, OnceInv, Sound, Executed, At
<1> QED
    BY <1>1, <1>2, <1>3, <1>4 DEF Next

LEMMA Invariance == Spec => []IInv
<1> QED
    BY InitInv, NextInv, PTL DEF Spec

---------------------------------------------------------------------------
\* The variables keep their types.
THEOREM TypeCorrect == Spec => []ClientTypeOK
<1>1. IInv => ClientTypeOK
    BY DEF IInv
<1> QED
    BY <1>1, Invariance, PTL

\* What is executed was asked for, by that wallet and with those values (index.ts:202-207).
THEOREM AskedFor == Spec => []ExecutedAsAsked
<1>1. IInv => ExecutedAsAsked
    BY DEF IInv, OnceInv, Sound, ExecutedAsAsked
<1> QED
    BY <1>1, Invariance, PTL

\* An executed transfer is read back as it was sent or not at all, if its numbers fit 64
\* bits; any is read back with what 64 bits keep of them.
THEOREM ReadAsSent == Spec => []ReadsBack
<1>1. IInv => ReadsBack
  <2> SUFFICES ASSUME IInv, NEW i \in DOMAIN ledger, ~call[ledger[i].call].edited
               PROVE  LET m == FromPartial(call[ledger[i].call].asked.form)
                          r == Decode(ledger[i].wire)
                      IN  /\ r = IF Readable(Modulo(m)) THEN Modulo(m) ELSE Unreadable
                          /\ Fits(m) => r = IF Readable(m) THEN m ELSE Unreadable
    BY DEF ReadsBack
  <2> DEFINE o == call[ledger[i].call].asked.form
  <2>1. o \in Form /\ ledger[i].wire = Encode(FromPartial(o))
    BY DEF IInv, OnceInv, Sound
  <2>2. IsMessage(FromPartial(o))
    BY <2>1, ClientAssumption, Zenon DEF ClientAssumption
  <2> QED
    BY <2>1, <2>2, RoundTrip
<1> QED
    BY <1>1, Invariance, PTL

---------------------------------------------------------------------------
\* What Payments sees of the ledger and of the calls.
Calls == [i \in DOMAIN ledger |-> ledger[i].call]
Told  == [c \in Call |-> call[c].told]

\* A step of a call that puts nothing in the ledger tells its caller something that is
\* so, or tells it nothing.
LEMMA Tells ==
    ASSUME IInv, NEW c \in Call, NEW answer \in {"sent", "refused", "unknown"},
           End(c, answer), UNCHANGED ledger, call[c].pc # "ended",
           answer = "sent" => c \in Executed,
           answer = "refused" => call[c].pc \in Early
    PROVE  Paying!Tell(c, answer)
<1>1. /\ Told[c] = "nothing" /\ Told' = [Told EXCEPT ![c] = answer] /\ Calls' = Calls
  <2>1. call \in [Call -> Record]
    BY DEF IInv, ClientTypeOK, Record
  <2>2. call' = [call EXCEPT ![c].pc = "ended", ![c].told = answer]
    BY DEF End
  <2>3. \A d \in Call : call'[d].told = IF d = c THEN answer ELSE call[d].told
    BY <2>1, <2>2 DEF Record
  <2> QED
    BY <2>3 DEF Told, Calls, IInv, CallInv, OnItsWay
<1>2. Paying!Done = Executed
    BY DEF Paying!Done, Executed
<1>3. answer = "refused" => c \notin Executed
    BY NothingEarly
<1> QED
    BY <1>1, <1>2, <1>3 DEF Paying!Tell, Told, Calls

\* An execution is one of a call that has none, and was not refused.
LEMMA Pays ==
    ASSUME IInv, NEW tx \in mempool, Execute(tx)
    PROVE  tx.call \in Call /\ Paying!Pay(tx.call)
<1>1. /\ tx \in Tx /\ Sound(tx) /\ tx.call \notin Executed /\ tx.call \in Call
      /\ ledger \in Seq(Tx) /\ ledger' = Append(ledger, tx) /\ UNCHANGED call
    BY DEF IInv, ClientTypeOK, OnceInv, Execute, Tx
<1>2. Calls' = Append(Calls, tx.call)
  <2>1. /\ DOMAIN ledger = 1 .. Len(ledger) /\ DOMAIN ledger' = 1 .. Len(ledger) + 1
        /\ Len(ledger) \in Nat /\ ledger'[Len(ledger) + 1] = tx
        /\ \A i \in 1 .. Len(ledger) : ledger'[i] = ledger[i]
    BY <1>1
  <2>2. \A i \in 1 .. Len(ledger) : ledger[i].call \in Call
    BY <2>1, LedgerTyped DEF Tx
  <2>3. Calls \in Seq(Call) /\ Len(Calls) = Len(ledger)
    BY <2>1, <2>2 DEF Calls
  <2> QED
    BY <1>1, <2>1, <2>3 DEF Calls
<1>3. Paying!Done = Executed
    BY DEF Paying!Done, Executed
<1>4. Told[tx.call] \in {"nothing", "unknown"} /\ Told' = Told
  <2>1. call[tx.call].told \in {"nothing", "sent", "refused", "unknown"}
    BY <1>1 DEF IInv, ClientTypeOK
  <2> QED
    BY <1>1, <2>1 DEF Told, Sound, IInv, OnceInv
<1> QED
    BY <1>1, <1>2, <1>3, <1>4 DEF Paying!Pay, Told, Calls

\* The calls are Payments: each executes at most once, whoever was told that it is
\* executed was told so truly, and a refused one never is.
THEOREM Refinement == Spec => ImplementsPayments
<1>1. Init => Paying!PaymentsInit
    BY DEF Init, NotMade, Paying!PaymentsInit
<1>2. IInv /\ [Next]_vars => [Paying!PaymentsNext]_<<Calls, Told>>
  <2> SUFFICES ASSUME IInv, [Next]_vars
               PROVE  Paying!PaymentsNext \/ UNCHANGED <<Calls, Told>>
    OBVIOUS
  <2> USE DEF chain
  <2>1. call \in [Call -> Record] /\ \A c \in Call : call[c] \in Record
    BY DEF IInv, ClientTypeOK, Record
  <2>2. ASSUME NEW c \in Call, NEW answer \in {"sent", "refused", "unknown"},
               End(c, answer), UNCHANGED ledger, call[c].pc # "ended",
               answer = "sent" => c \in Executed,
               answer = "refused" => call[c].pc \in Early
        PROVE  Paying!PaymentsNext
    BY <2>2, Tells DEF Paying!PaymentsNext, Paying!Answers
  <2>3. ASSUME UNCHANGED ledger, \A c \in Call : call'[c].told = call[c].told
        PROVE  UNCHANGED <<Calls, Told>>
    BY <2>3 DEF Calls, Told
  <2>4. ASSUME NEW c \in Call,
               SendMsg(c) \/ Unreachable(c) \/ Reject(c) \/ Found(c) \/ Timeout(c)
        PROVE  Paying!PaymentsNext \/ UNCHANGED <<Calls, Told>>
    <3>1. CASE SendMsg(c) /\ signer # NoWallet
      BY <2>1, <2>3, <3>1 DEF SendMsg, Record
    <3>2. CASE SendMsg(c) /\ signer = NoWallet
      BY <2>2, <3>2 DEF SendMsg, At, Early
    <3>3. CASE Unreachable(c) \/ Reject(c)
      BY <2>2, <3>3 DEF Unreachable, Reject, At, Early
    <3>4. CASE Found(c) \/ Timeout(c)
      BY <2>2, <3>4 DEF Found, Timeout, At
    <3> QED
      BY <2>4, <3>1, <3>2, <3>3, <3>4
  <2>5. ASSUME NEW c \in Call, Connect(c) \/ GetSequence(c) \/ Sign(c)
        PROVE  UNCHANGED <<Calls, Told>>
    <3>1. CASE Connect(c)
      BY <2>1, <2>3, <3>1 DEF Connect, Record
    <3>2. CASE GetSequence(c)
      BY <2>1, <2>3, <3>2 DEF GetSequence, Record
    <3>3. CASE Sign(c)
      BY <2>1, <2>3, <3>3 DEF Sign, Goes, Record
    <3> QED
      BY <2>5, <3>1, <3>2, <3>3
  <2>6. ASSUME NEW c \in Call,
               Broadcast(c) \/ \E arrived \in BOOLEAN : BroadcastLost(c, arrived)
        PROVE  Paying!PaymentsNext \/ UNCHANGED <<Calls, Told>>
    <3>1. CASE Broadcast(c) /\ Accepted(c)
      BY <2>1, <2>3, <3>1 DEF Broadcast, Goes, Record
    <3>2. CASE Broadcast(c) /\ ~Accepted(c)
      BY <2>2, <3>2 DEF Broadcast, At, Early
    <3>3. CASE \E arrived \in BOOLEAN : BroadcastLost(c, arrived)
      BY <2>2, <3>3 DEF BroadcastLost, At
    <3> QED
      BY <2>6, <3>1, <3>2, <3>3
  <2>7. ASSUME NEW tx \in mempool, Execute(tx) PROVE Paying!PaymentsNext
    BY <2>7, Pays DEF Paying!PaymentsNext
  <2>8. ASSUME NEW tx \in mempool, Drop(tx) PROVE UNCHANGED <<Calls, Told>>
    BY <2>3, <2>8 DEF Drop
  <2>9. CASE Edit \/ SwitchWallet
    <3>1. UNCHANGED ledger
      BY <2>9 DEF Edit, SwitchWallet
    <3>2. CASE Edit
      <4>1. call' = [c \in Call |-> [call[c] EXCEPT !.edited = @ \/ At(c, "connect")]]
        BY <3>2 DEF Edit
      <4>2. \A c \in Call : call'[c].told = call[c].told
        BY <2>1, <4>1 DEF Record
      <4> QED
        BY <2>3, <3>1, <4>2
    <3>3. CASE SwitchWallet
      BY <2>3, <3>1, <3>3 DEF SwitchWallet
    <3> QED
      BY <2>9, <3>2, <3>3
  <2>10. CASE UNCHANGED vars
    BY <2>3, <2>10 DEF vars
  <2> QED
    BY <2>4, <2>5, <2>6, <2>7, <2>8, <2>9, <2>10 DEF Next, Client
<1> QED
    BY <1>1, <1>2, Invariance, PTL
       DEF Spec, ImplementsPayments, Paying!PaymentsSpec, Calls, Told
=============================================================================
