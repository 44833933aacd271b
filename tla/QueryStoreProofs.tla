------------------------- MODULE QueryStoreProofs -------------------------
(***************************************************************************)
(* Theorems about QueryStore, for any keys, pages and bounds.  The cache is *)
(* written only from queries under way, so what is proved of it rests on an *)
(* invariant of those: each holds the pages it has got so far, in order and *)
(* none younger than the node's state when the last of them was served.     *)
(***************************************************************************)
EXTENDS QueryStore, Integers, TLAPS

\* A list whose pages follow each other from the first, none older than the one
\* before it and none from beyond block h.
InOrder(v, h) ==
    /\ \A i \in 1 .. Len(v) : v[i].page = i /\ v[i].at <= h
    /\ \A i, j \in 1 .. Len(v) : i < j => v[i].at <= v[j].at

InFlight == [key : Key, all : BOOLEAN, subscribe : BOOLEAN, caller : BOOLEAN,
             value : Seq(Page), answer : Nat]

\* A query under way: pages in order, at least one of them still to come, and
\* an answer no older than the pages.
QueryOK(q, h) ==
    /\ q \in InFlight
    /\ Len(q.value) < Pages /\ (~q.all => Len(q.value) = 0)
    /\ q.subscribe => q.caller
    /\ q.answer <= h + 1
    /\ InOrder(q.value, IF q.answer = 0 THEN h ELSE q.answer - 1)

TypesOK ==
    /\ height \in 0 .. MaxHeight
    /\ state \in [Key -> Seq(Page)]
    /\ subs \subseteq Subscription

FlightOK == \A q \in DOMAIN flight : QueryOK(q, height)

IInv == TypesOK /\ FlightOK /\ PagesInOrder /\ SubscribedCached

---------------------------------------------------------------------------

\* Bags: what is in a sum or a difference was in its parts.
LEMMA BagDomains ==
    ASSUME NEW B, NEW C, NEW S
    PROVE  /\ DOMAIN (B (+) C) = DOMAIN B \cup DOMAIN C
           /\ DOMAIN (B (-) C) \subseteq DOMAIN B
           /\ DOMAIN SetToBag(S) = S
           /\ DOMAIN EmptyBag = {}
<1>1. DOMAIN (B (+) C) = DOMAIN B \cup DOMAIN C
    BY DEF (+)
<1>2. DOMAIN (B (-) C) \subseteq DOMAIN B
    BY DEF (-)
<1>3. DOMAIN SetToBag(S) = S /\ DOMAIN EmptyBag = {}
    BY DEF SetToBag, EmptyBag
<1> QED  BY <1>1, <1>2, <1>3

\* Adding one query, or replacing one by another.
LEMMA BagAdds ==
    ASSUME NEW B, NEW q, NEW r
    PROVE  /\ DOMAIN (B (+) SetToBag({r})) = DOMAIN B \cup {r}
           /\ DOMAIN ((B (-) SetToBag({q})) (+) SetToBag({r})) \subseteq DOMAIN B \cup {r}
<1> DEFINE C == SetToBag({r})
           D == B (-) SetToBag({q})
<1>1. DOMAIN C = {r} /\ DOMAIN D \subseteq DOMAIN B
    BY BagDomains
<1>2. DOMAIN (B (+) C) = DOMAIN B \cup DOMAIN C /\ DOMAIN (D (+) C) = DOMAIN D \cup DOMAIN C
    <2> HIDE DEF C, D
    <2> QED  BY BagDomains
<1> QED  BY <1>1, <1>2

\* The pages of a list are those of some block.
LEMMA PageHeights ==
    ASSUME NEW v \in Seq(Page)
    PROVE  \A i \in 1 .. Len(v) : v[i].at \in Nat
<1> SUFFICES ASSUME NEW i \in 1 .. Len(v) PROVE v[i].at \in Nat
    OBVIOUS
<1>1. v[i] \in Page
    OBVIOUS
<1>2. v[i].at \in 0 .. MaxHeight
    BY <1>1 DEF Page
<1> QED  BY <1>2, StoreAssumption

\* A new query is well formed, at any height.
LEMMA NewQueryOK ==
    ASSUME NEW k \in Key, NEW all \in BOOLEAN, NEW subscribe \in BOOLEAN,
           NEW caller \in BOOLEAN, subscribe => caller, NEW h \in Nat
    PROVE  QueryOK(NewQuery(k, all, subscribe, caller), h)
<1> DEFINE q == NewQuery(k, all, subscribe, caller)
<1>1. q \in InFlight /\ q.value = <<>> /\ q.answer = 0 /\ q.subscribe = subscribe
         /\ q.caller = caller
    BY DEF NewQuery, InFlight
<1>2. Len(q.value) = 0 /\ InOrder(q.value, h)
    BY <1>1 DEF InOrder
<1> QED  BY <1>1, <1>2, StoreAssumption DEF QueryOK

\* The chain growing keeps a query well formed.
LEMMA QueryMonotone ==
    ASSUME NEW h \in Nat, NEW q, QueryOK(q, h)
    PROVE  QueryOK(q, h + 1)
<1> DEFINE b(n) == IF q.answer = 0 THEN n ELSE q.answer - 1
<1>1. q \in InFlight /\ q.value \in Seq(Page) /\ q.answer \in Nat
    BY DEF QueryOK, InFlight
<1>2. \A i \in 1 .. Len(q.value) : q.value[i].at \in Nat
    BY <1>1, PageHeights
<1>3. InOrder(q.value, b(h)) /\ b(h) <= b(h + 1) /\ b(h) \in Int /\ b(h + 1) \in Int
    BY <1>1 DEF QueryOK
<1>4. InOrder(q.value, b(h + 1))
    <2> HIDE DEF b
    <2> QED  BY <1>2, <1>3 DEF InOrder
<1> QED  BY <1>1, <1>4 DEF QueryOK

\* A page added to a well-formed query leaves a list in order, one page longer,
\* that shows nothing younger than the answer.
LEMMA MergedInOrder ==
    ASSUME NEW h \in 0 .. MaxHeight, NEW q, QueryOK(q, h), ~Waiting(q)
    PROVE  /\ Merged(q) \in Seq(Page)
           /\ Len(Merged(q)) = Len(q.value) + 1
           /\ InOrder(Merged(q), q.answer - 1)
<1> DEFINE n == Len(q.value)
           p == [page |-> n + 1, at |-> q.answer - 1]
<1>1. /\ q.value \in Seq(Page) /\ n \in Nat /\ n < Pages
      /\ q.answer \in Nat /\ q.answer # 0 /\ q.answer - 1 <= h
      /\ InOrder(q.value, q.answer - 1)
    BY StoreAssumption DEF QueryOK, InFlight, Waiting
<1>2. p \in Page
    BY <1>1, StoreAssumption DEF Page
<1>3. /\ Merged(q) \in Seq(Page) /\ Len(Merged(q)) = n + 1
      /\ \A i \in 1 .. n : Merged(q)[i] = q.value[i]
      /\ Merged(q)[n + 1] = p
    <2> HIDE DEF p
    <2>1. Merged(q) = Append(q.value, p)
        BY DEF Merged, p
    <2> QED  BY <2>1, <1>1, <1>2
<1>4. \A i \in 1 .. n + 1 : i \in 1 .. n \/ i = n + 1
    BY <1>1
<1>5. \A i \in 1 .. n + 1 : Merged(q)[i].page = i /\ Merged(q)[i].at <= q.answer - 1
    BY <1>1, <1>3, <1>4 DEF InOrder
<1>6. ASSUME NEW i \in 1 .. n + 1, NEW j \in 1 .. n + 1, i < j
      PROVE  Merged(q)[i].at <= Merged(q)[j].at
    <2>1. CASE j = n + 1
        BY <2>1, <1>3, <1>5
    <2>2. CASE j \in 1 .. n
        <3>1. i \in 1 .. n
            BY <2>2, <1>6
        <3> QED  BY <2>2, <3>1, <1>1, <1>3, <1>6 DEF InOrder
    <2> QED  BY <1>4, <2>1, <2>2
<1> QED  BY <1>3, <1>5, <1>6 DEF InOrder

---------------------------------------------------------------------------

LEMMA InitInv == Init => IInv
<1> SUFFICES ASSUME Init PROVE IInv
    OBVIOUS
<1>1. TypesOK
    BY StoreAssumption DEF Init, TypesOK
<1>2. FlightOK
    BY BagDomains DEF Init, FlightOK
<1>3. PagesInOrder
    BY DEF Init, PagesInOrder
<1> QED  BY <1>1, <1>2, <1>3 DEF Init, IInv, SubscribedCached

\* Steps that add well-formed queries, or take queries away, and nothing else.
LEMMA FlightStep ==
    ASSUME IInv, UNCHANGED <<height, state, subs>>,
           \A q \in DOMAIN flight' \ DOMAIN flight : QueryOK(q, height)
    PROVE  IInv'
<1>1. TypesOK' /\ PagesInOrder' /\ SubscribedCached'
    BY DEF IInv, TypesOK, PagesInOrder, SubscribedCached
<1>2. FlightOK'
    BY DEF IInv, FlightOK
<1> QED  BY <1>1, <1>2 DEF IInv

\* The last answer of a query: what is cached is in order and not empty.
LEMMA CommitStep ==
    ASSUME IInv, NEW q \in DOMAIN flight, Commit(q)
    PROVE  IInv'
<1>1. QueryOK(q, height) /\ ~Waiting(q) /\ ~More(q) /\ height \in 0 .. MaxHeight
    BY DEF IInv, FlightOK, Commit, TypesOK
<1>2. /\ Merged(q) \in Seq(Page) /\ Len(Merged(q)) = Len(q.value) + 1
      /\ InOrder(Merged(q), q.answer - 1)
    BY <1>1, MergedInOrder
<1>3. q.key \in Key /\ q.all \in BOOLEAN /\ Len(q.value) \in Nat
    BY <1>1 DEF QueryOK, InFlight
<1>4. Len(Merged(q)) \in {1, Pages}
    BY <1>1, <1>2, <1>3, StoreAssumption DEF QueryOK, More
<1>5. state' = [state EXCEPT ![q.key] = Merged(q)]
    BY DEF Commit
<1>6. TypesOK'
    BY <1>2, <1>3, <1>5 DEF IInv, TypesOK, Commit, Subscription
<1>7. FlightOK'
    BY BagDomains DEF IInv, FlightOK, Commit
<1>8. PagesInOrder'
    <2> SUFFICES ASSUME NEW k \in Key
                 PROVE  /\ Len(state'[k]) \in {0, 1, Pages}
                        /\ \A i \in DOMAIN state'[k] : state'[k][i].page = i
                        /\ \A i, j \in DOMAIN state'[k] :
                               i < j => state'[k][i].at <= state'[k][j].at
        BY DEF PagesInOrder
    <2>1. CASE k = q.key
        <3>1. state'[k] = Merged(q) /\ DOMAIN Merged(q) = 1 .. Len(Merged(q))
            BY <2>1, <1>2, <1>5 DEF IInv, TypesOK
        <3> QED  BY <3>1, <1>2, <1>4 DEF InOrder
    <2>2. CASE k # q.key
        <3>1. state'[k] = state[k]
            BY <2>2, <1>5 DEF IInv, TypesOK
        <3> QED  BY <3>1 DEF IInv, PagesInOrder
    <2> QED  BY <2>1, <2>2
<1>9. SubscribedCached'
    <2> SUFFICES ASSUME NEW s \in subs' PROVE state'[s.key] # <<>>
        BY DEF SubscribedCached
    <2>1. Merged(q) # <<>>
        BY <1>2, <1>3
    <2>2. s.key \in Key
        BY <1>6 DEF TypesOK, Subscription
    <2>3. CASE s.key = q.key
        BY <2>1, <2>2, <2>3, <1>5 DEF IInv, TypesOK
    <2>4. CASE s.key # q.key
        <3>1. s \in subs /\ state'[s.key] = state[s.key]
            BY <2>2, <2>4, <1>5 DEF IInv, TypesOK, Commit
        <3> QED  BY <3>1 DEF IInv, SubscribedCached
    <2> QED  BY <2>3, <2>4
<1> QED  BY <1>6, <1>7, <1>8, <1>9 DEF IInv

LEMMA StepInv == IInv /\ [Next]_vars => IInv'
<1> SUFFICES ASSUME IInv, [Next]_vars PROVE IInv'
    OBVIOUS
<1>h. height \in Nat /\ height \in 0 .. MaxHeight
    BY DEF IInv, TypesOK
<1>1. CASE NewBlock
    <2>1. height' = height + 1 /\ height < MaxHeight /\ UNCHANGED <<state, subs, flight>>
        BY <1>1 DEF NewBlock
    <2>2. FlightOK'
        BY <1>h, <2>1, QueryMonotone DEF IInv, FlightOK
    <2>3. TypesOK'
        BY <1>h, <2>1, StoreAssumption DEF IInv, TypesOK
    <2> QED  BY <2>1, <2>2, <2>3 DEF IInv, PagesInOrder, SubscribedCached
<1>2. CASE Initialize
    BY <1>2, FlightStep DEF Initialize
<1>3. CASE Deliver
    <2>1. \A q \in DOMAIN Refreshes(listeners) : QueryOK(q, height)
        BY <1>h, NewQueryOK DEF Refreshes, IInv, TypesOK, Subscription
    <2>2. DOMAIN flight' \subseteq DOMAIN flight \cup DOMAIN Refreshes(listeners)
        BY <1>3, BagDomains DEF Deliver
    <2> QED  BY <1>3, <2>1, <2>2, FlightStep DEF Deliver
<1>4. ASSUME NEW k \in Key, NEW all \in BOOLEAN, NEW subscribe \in BOOLEAN,
             Query(k, all, subscribe)
      PROVE  IInv'
    <2>1. QueryOK(NewQuery(k, all, subscribe, TRUE), height)
        BY <1>h, NewQueryOK
    <2>2. DOMAIN flight' = DOMAIN flight \cup {NewQuery(k, all, subscribe, TRUE)}
        BY <1>4, BagAdds DEF Query
    <2> QED  BY <1>4, <2>1, <2>2, FlightStep DEF Query
<1>5. ASSUME NEW q \in DOMAIN flight, Serve(q) PROVE IInv'
    <2> DEFINE r == [q EXCEPT !.answer = height + 1]
    <2>1. QueryOK(q, height) /\ q.answer = 0 /\ q \in InFlight
        BY <1>5 DEF IInv, FlightOK, Serve, Waiting, QueryOK
    <2>2. /\ r \in InFlight /\ r.answer = height + 1 /\ r.value = q.value
          /\ r.all = q.all /\ r.subscribe = q.subscribe /\ r.caller = q.caller
        BY <2>1, <1>h DEF InFlight
    <2>3. QueryOK(r, height)
        <3>1. InOrder(r.value, height) /\ r.answer - 1 = height /\ r.answer # 0
            BY <2>1, <2>2, <1>h DEF QueryOK
        <3> QED  BY <2>1, <2>2, <3>1, <1>h DEF QueryOK
    <2>4. DOMAIN flight' \subseteq DOMAIN flight \cup {r}
        BY <1>5, BagAdds DEF Serve, Replace
    <2> QED  BY <1>5, <2>3, <2>4, FlightStep DEF Serve
<1>6. ASSUME NEW q \in DOMAIN flight, NextPage(q) PROVE IInv'
    <2> DEFINE r == [q EXCEPT !.value = Merged(q), !.answer = 0]
    <2>1. QueryOK(q, height) /\ ~Waiting(q) /\ q.all /\ Len(q.value) + 1 < Pages
             /\ q \in InFlight
        BY <1>6 DEF IInv, FlightOK, NextPage, More, QueryOK
    <2>2. /\ Merged(q) \in Seq(Page) /\ Len(Merged(q)) = Len(q.value) + 1
          /\ InOrder(Merged(q), q.answer - 1)
        BY <1>h, <2>1, MergedInOrder
    <2>3. /\ r \in InFlight /\ r.answer = 0 /\ r.value = Merged(q)
          /\ r.all = q.all /\ r.subscribe = q.subscribe /\ r.caller = q.caller
        BY <2>1, <2>2 DEF InFlight
    <2>4. InOrder(Merged(q), height)
        <3>1. q.answer \in Nat /\ q.answer - 1 <= height
            BY <2>1, <1>h DEF QueryOK, InFlight
        <3>2. \A i \in 1 .. Len(Merged(q)) : Merged(q)[i].at \in Nat
            BY <2>2, PageHeights
        <3> QED  BY <2>2, <3>1, <3>2, <1>h DEF InOrder
    <2>5. QueryOK(r, height)
        BY <2>1, <2>2, <2>3, <2>4, <1>h DEF QueryOK
    <2>6. DOMAIN flight' \subseteq DOMAIN flight \cup {r}
        BY <1>6, BagAdds DEF NextPage, Replace
    <2> QED  BY <1>6, <2>5, <2>6, FlightStep DEF NextPage
<1>7. ASSUME NEW q \in DOMAIN flight, Commit(q) PROVE IInv'
    BY <1>7, CommitStep
<1>8. ASSUME NEW q \in DOMAIN flight, Fail(q) PROVE IInv'
    <2>1. DOMAIN flight' \subseteq DOMAIN flight
        BY <1>8, BagDomains DEF Fail
    <2> QED  BY <1>8, <2>1, FlightStep DEF Fail
<1>9. CASE ResetState
    <2>1. state' = [k \in Key |-> <<>>] /\ subs' = {} /\ UNCHANGED <<height, flight>>
        BY <1>9 DEF ResetState
    <2> QED  BY <2>1 DEF IInv, TypesOK, FlightOK, PagesInOrder, SubscribedCached
<1>10. ASSUME NEW s \in subs, Unsubscribe(s) PROVE IInv'
    <2>1. subs' \subseteq subs /\ UNCHANGED <<height, state, flight>>
        BY <1>10 DEF Unsubscribe
    <2> QED  BY <2>1 DEF IInv, TypesOK, FlightOK, PagesInOrder, SubscribedCached
<1>11. CASE UNCHANGED vars
    BY <1>11, FlightStep DEF vars
<1> QED
    BY <1>1, <1>2, <1>3, <1>4, <1>5, <1>6, <1>7, <1>8, <1>9, <1>10, <1>11
    DEF Next, BagToSet

LEMMA Invariance == Spec => []IInv
    BY InitInv, StepInv, PTL DEF Spec

\* A cached list starts with its first page, misses and repeats none, and no page
\* is older than the one before: mergeResults and the paging loop keep the pages
\* of every query apart, whatever is under way at once.
THEOREM ListsInOrder == Spec => []PagesInOrder
<1>1. IInv => PagesInOrder
    BY DEF IInv
<1> QED  BY <1>1, Invariance, PTL

\* Whoever is subscribed finds something cached: QUERY is committed together with
\* SUBSCRIBE, and RESET_STATE drops both.
THEOREM SubscriptionsCached == Spec => []SubscribedCached
<1>1. IInv => SubscribedCached
    BY DEF IInv
<1> QED  BY <1>1, Invariance, PTL

\* StoreUpdate never enters a subscription: only a caller's query does.
THEOREM CallersSubscribe == Spec => OnlyCallersSubscribe
<1> DEFINE Entered == \A s \in subs' \ subs : \E q \in BagToSet(flight) :
                          q.caller /\ q.subscribe /\ q.key = s.key /\ q.all = s.all
<1>1. IInv /\ [Next]_vars => [Entered]_vars
    <2> SUFFICES ASSUME IInv, Next, NEW s \in subs' \ subs
                 PROVE  \E q \in BagToSet(flight) :
                          q.caller /\ q.subscribe /\ q.key = s.key /\ q.all = s.all
        OBVIOUS
    <2>1. PICK q \in BagToSet(flight) : Commit(q)
        BY DEF Next, NewBlock, Initialize, Deliver, Query, Serve, NextPage, Fail,
               ResetState, Unsubscribe
    <2>2. q.subscribe /\ s = [key |-> q.key, all |-> q.all]
        BY <2>1 DEF Commit
    <2>3. q.caller
        BY <2>2 DEF IInv, FlightOK, QueryOK, BagToSet
    <2> QED  BY <2>2, <2>3
<1> QED  BY <1>1, Invariance, PTL DEF Spec, OnlyCallersSubscribe

---------------------------------------------------------------------------
(* Freshness. *)

\* The sum and the difference of bags are bags; what is not taken away stays.
LEMMA BagKeeps ==
    ASSUME NEW B, NEW C, IsABag(B), IsABag(C)
    PROVE  /\ IsABag(B (+) C) /\ IsABag(B (-) C)
           /\ DOMAIN B \ DOMAIN C \subseteq DOMAIN (B (-) C)
<1>1. /\ \A e \in DOMAIN B : B[e] \in Nat /\ B[e] > 0
      /\ \A e \in DOMAIN C : C[e] \in Nat /\ C[e] > 0
    BY DEF IsABag
<1>2. IsABag(B (+) C)
    <2> DEFINE f(e) == (IF e \in DOMAIN B THEN B[e] ELSE 0) + (IF e \in DOMAIN C THEN C[e] ELSE 0)
    <2>1. B (+) C = [e \in DOMAIN B \cup DOMAIN C |-> f(e)]
        BY DEF (+)
    <2>2. \A e \in DOMAIN B \cup DOMAIN C : f(e) \in {n \in Nat : n > 0}
        BY <1>1
    <2> HIDE DEF f
    <2> QED  BY <2>1, <2>2 DEF IsABag
<1>3. IsABag(B (-) C) /\ DOMAIN B \ DOMAIN C \subseteq DOMAIN (B (-) C)
    <2> DEFINE g == [e \in DOMAIN B |-> IF e \in DOMAIN C THEN B[e] - C[e] ELSE B[e]]
               D == {e \in DOMAIN g : g[e] > 0}
    <2>1. B (-) C = [e \in D |-> g[e]]
        BY DEF (-)
    <2>2. \A e \in DOMAIN g : g[e] \in Int
        BY <1>1
    <2>3. DOMAIN B \ DOMAIN C \subseteq D
        BY <1>1
    <2>4. \A e \in D : g[e] \in {n \in Nat : n > 0}
        BY <2>2
    <2> HIDE DEF g, D
    <2> QED  BY <2>1, <2>3, <2>4 DEF IsABag
<1> QED  BY <1>2, <1>3

\* A query added, taken away, or replaced leaves the others.
LEMMA FlightBag ==
    ASSUME NEW B, IsABag(B), NEW q, NEW r
    PROVE  /\ IsABag(B (+) SetToBag({r}))
           /\ IsABag(B (-) SetToBag({q}))
           /\ IsABag((B (-) SetToBag({q})) (+) SetToBag({r}))
           /\ DOMAIN B \ {q} \subseteq DOMAIN (B (-) SetToBag({q}))
           /\ (DOMAIN B \ {q}) \cup {r} \subseteq DOMAIN ((B (-) SetToBag({q})) (+) SetToBag({r}))
<1> DEFINE Q == SetToBag({q}) R == SetToBag({r}) D == B (-) Q
<1>1. IsABag(Q) /\ IsABag(R) /\ DOMAIN Q = {q} /\ DOMAIN R = {r}
    BY DEF SetToBag, IsABag
<1> HIDE DEF Q, R
<1>2. IsABag(B (+) R) /\ IsABag(D) /\ DOMAIN B \ {q} \subseteq DOMAIN D
    BY <1>1, BagKeeps
<1> HIDE DEF D
<1>3. IsABag(D (+) R)
    BY <1>1, <1>2, BagKeeps
<1>4. DOMAIN (D (+) R) = DOMAIN D \cup {r}
    BY <1>1 DEF (+)
<1> QED  BY <1>2, <1>3, <1>4 DEF D, Q, R

\* A subscribed key is late or lost, or a query for it is under way, or it shows
\* the last block the client heard of; and a key that nobody asked for without
\* `all` has its whole list or nothing.
Shown(k) == \A i \in DOMAIN state[k] : state[k][i].at >= told

FreshInv ==
    /\ news \in Nat /\ news <= height /\ told \in Nat /\ listeners \in Nat
    /\ IsABag(flight)
    /\ \A s \in subs :
          s.key \in late \cup lost \/ Shown(s.key) \/ \E q \in DOMAIN flight : q.key = s.key
    /\ \A q \in DOMAIN flight : ~q.all => q.key \in mixed
    /\ \A s \in subs : ~s.all => s.key \in mixed
    /\ \A k \in Key \ mixed : Len(state[k]) \in {0, Pages}

LEMMA FreshInit == Init => FreshInv
<1> SUFFICES ASSUME Init PROVE FreshInv
    OBVIOUS
<1>1. IsABag(flight) /\ DOMAIN flight = {}
    BY DEF Init, EmptyBag, SetToBag, IsABag
<1> QED  BY <1>1 DEF Init, FreshInv

\* A step of the store that leaves what is cached, replaces queries under way by
\* others for the same keys, and adds none without `all` for a key not mixed.
LEMMA FreshFrame ==
    ASSUME IInv, FreshInv, UNCHANGED <<told, listeners, state, lost, late>>,
           news' \in Nat, news' <= height', subs' \subseteq subs, mixed \subseteq mixed',
           IsABag(flight'),
           \A q \in DOMAIN flight : \E r \in DOMAIN flight' : r.key = q.key,
           \A r \in DOMAIN flight' : ~r.all => r.key \in mixed'
    PROVE  FreshInv'
<1>1. \A s \in subs' : s.key \in late' \cup lost' \/ Shown(s.key)'
                         \/ \E q \in DOMAIN flight' : q.key = s.key
    BY DEF FreshInv, Shown
<1> QED  BY <1>1 DEF FreshInv

LEMMA FreshStep == IInv /\ FreshInv /\ [Next]_vars => FreshInv'
<1> SUFFICES ASSUME IInv, FreshInv, [Next]_vars PROVE FreshInv'
    OBVIOUS
<1>h. height \in Nat /\ news \in Nat /\ news <= height /\ told \in Nat /\ listeners \in Nat
         /\ IsABag(flight) /\ (\A q \in DOMAIN flight : ~q.all => q.key \in mixed)
    BY DEF IInv, TypesOK, FreshInv
<1>1. CASE NewBlock
    BY <1>1, <1>h, FreshFrame DEF NewBlock, history
<1>2. CASE Initialize
    BY <1>2, <1>h DEF Initialize, history, FreshInv, Shown
<1>3. CASE Deliver
    <2>1. news' \in Nat /\ news' <= height' /\ height' = height
        BY <1>3, <1>h DEF Deliver
    <2>2. CASE listeners = 0
        BY <1>3, <1>h, <2>1, <2>2, FreshFrame DEF Deliver, history
    <2>3. CASE listeners # 0
        <3> DEFINE again == {NewQuery(s.key, s.all, FALSE, FALSE) : s \in subs}
                   R == Refreshes(listeners)
        <3>1. R = [q \in again |-> listeners]
            BY DEF Refreshes
        <3>2. IsABag(R) /\ DOMAIN R = again
            <4> HIDE DEF again, R
            <4> QED  BY <1>h, <2>3, <3>1 DEF IsABag
        <3>3. flight' = flight (+) R
            BY <1>3, <2>3 DEF Deliver
        <3>4. IsABag(flight') /\ DOMAIN flight' = DOMAIN flight \cup again
            <4> HIDE DEF again, R
            <4>1. IsABag(flight (+) R)
                BY <1>h, <3>2, BagKeeps
            <4>2. DOMAIN (flight (+) R) = DOMAIN flight \cup again
                BY <3>2 DEF (+)
            <4> QED  BY <3>3, <4>1, <4>2
        <3>5. /\ told' = height - news'
              /\ UNCHANGED <<listeners, state, subs, late, lost, mixed>>
            BY <1>3, <2>3 DEF Deliver, history
        <3>6. \A s \in subs : \E q \in DOMAIN flight' : q.key = s.key
            <4> SUFFICES ASSUME NEW s \in subs PROVE \E q \in DOMAIN flight' : q.key = s.key
                OBVIOUS
            <4> DEFINE r == NewQuery(s.key, s.all, FALSE, FALSE)
            <4>1. r.key = s.key
                BY DEF NewQuery
            <4>2. r \in again
                OBVIOUS
            <4> HIDE DEF r, again
            <4> QED  BY <3>4, <4>1, <4>2
        <3>7. \A q \in again : ~q.all => q.key \in mixed
            BY DEF NewQuery, FreshInv
        <3>8. told' \in Nat
            <4>1. told' = height - news' /\ height \in Int /\ news' \in Int /\ news' <= height
                BY <1>h, <2>1, <3>5
            <4> DEFINE h == height n == news'
            <4>2. h \in Int /\ n \in Int /\ n <= h
                BY <4>1
            <4> HIDE DEF h, n
            <4>3. h - n \in Nat
                BY <4>2
            <4> QED  BY <4>1, <4>3 DEF h, n
        <3>9. \A q \in DOMAIN flight' : ~q.all => q.key \in mixed'
            BY <1>h, <3>4, <3>5, <3>7
        <3> QED  BY <1>h, <2>1, <3>4, <3>5, <3>6, <3>8, <3>9 DEF FreshInv
    <2> QED  BY <2>2, <2>3
<1>4. ASSUME NEW k \in Key, NEW all \in BOOLEAN, NEW subscribe \in BOOLEAN,
             Query(k, all, subscribe)
      PROVE  FreshInv'
    <2> DEFINE r == NewQuery(k, all, subscribe, TRUE)
    <2>1. r.key = k /\ r.all = all
        BY DEF NewQuery
    <2>2. IsABag(flight') /\ DOMAIN flight' = DOMAIN flight \cup {r}
        BY <1>4, <1>h, FlightBag, BagAdds DEF Query
    <2>3. /\ mixed \subseteq mixed'
          /\ ~all => k \in mixed'
          /\ UNCHANGED <<news, height, told, listeners, state, subs, late, lost>>
        BY <1>4 DEF Query
    <2> HIDE DEF r
    <2>4. \A q \in DOMAIN flight : \E x \in DOMAIN flight' : x.key = q.key
        BY <2>2
    <2>5. \A x \in DOMAIN flight' : ~x.all => x.key \in mixed'
        BY <1>h, <2>1, <2>2, <2>3
    <2> QED  BY <1>h, <2>2, <2>3, <2>4, <2>5, FreshFrame
<1>5. ASSUME NEW q \in DOMAIN flight, NEW r, Replace(q, r), r.key = q.key, r.all = q.all,
             UNCHANGED <<height, news, told, listeners, state, subs, calls, history>>
      PROVE  FreshInv'
    <2>1. /\ IsABag(flight') /\ (DOMAIN flight \ {q}) \cup {r} \subseteq DOMAIN flight'
          /\ DOMAIN flight' \subseteq DOMAIN flight \cup {r}
        BY <1>5, <1>h, FlightBag, BagAdds DEF Replace
    <2>2. UNCHANGED <<late, lost, mixed>>
        BY <1>5 DEF history
    <2>3. \A p \in DOMAIN flight : \E x \in DOMAIN flight' : x.key = p.key
        BY <1>5, <2>1
    <2>4. \A x \in DOMAIN flight' : ~x.all => x.key \in mixed'
        BY <1>5, <1>h, <2>1, <2>2
    <2> QED  BY <1>5, <1>h, <2>1, <2>2, <2>3, <2>4, FreshFrame
<1>6. ASSUME NEW q \in DOMAIN flight, Serve(q) PROVE FreshInv'
    <2> DEFINE r == [q EXCEPT !.answer = height + 1]
    <2>1. r.key = q.key /\ r.all = q.all
        BY DEF IInv, FlightOK, QueryOK, InFlight
    <2> QED  BY <1>5, <1>6, <2>1 DEF Serve
<1>7. ASSUME NEW q \in DOMAIN flight, NextPage(q) PROVE FreshInv'
    <2> DEFINE r == [q EXCEPT !.value = Merged(q), !.answer = 0]
    <2>1. r.key = q.key /\ r.all = q.all
        BY DEF IInv, FlightOK, QueryOK, InFlight
    <2> QED  BY <1>5, <1>7, <2>1 DEF NextPage
<1>8. ASSUME NEW q \in DOMAIN flight, Commit(q) PROVE FreshInv'
    <2>1. /\ q.key \in Key /\ q.all \in BOOLEAN /\ Merged(q) \in Seq(Page)
          /\ Len(Merged(q)) = Len(q.value) + 1 /\ Len(q.value) \in Nat /\ Len(q.value) < Pages
        <3>1. QueryOK(q, height) /\ ~Waiting(q) /\ height \in 0 .. MaxHeight
            BY <1>8 DEF IInv, FlightOK, Commit, TypesOK
        <3>2. Merged(q) \in Seq(Page) /\ Len(Merged(q)) = Len(q.value) + 1
            BY <3>1, MergedInOrder
        <3> QED  BY <3>1, <3>2 DEF QueryOK, InFlight
    <2>2. /\ \A k \in Key : state'[k] = IF k = q.key THEN Merged(q) ELSE state[k]
          /\ UNCHANGED <<height, news, told, listeners, mixed>>
        BY <1>8 DEF Commit, IInv, TypesOK
    <2>3. IsABag(flight') /\ DOMAIN flight \ {q} \subseteq DOMAIN flight'
             /\ DOMAIN flight' \subseteq DOMAIN flight
        BY <1>8, <1>h, FlightBag, BagDomains DEF Commit
    <2>4. q.key \in late' \/ Shown(q.key)'
        <3> SUFFICES ASSUME q.key \notin late' PROVE Shown(q.key)'
            OBVIOUS
        <3>1. \A i \in DOMAIN Merged(q) : ~(Merged(q)[i].at < told)
            BY <1>8 DEF Commit
        <3>2. \A i \in DOMAIN Merged(q) : Merged(q)[i].at \in Nat
            BY <2>1, PageHeights
        <3>3. \A i \in DOMAIN Merged(q) : Merged(q)[i].at >= told
            BY <1>h, <3>1, <3>2
        <3> QED  BY <2>1, <2>2, <3>3 DEF Shown
    <2>5. ASSUME NEW s \in subs'
          PROVE  s.key \in late' \cup lost' \/ Shown(s.key)'
                    \/ \E p \in DOMAIN flight' : p.key = s.key
        <3>1. CASE s.key = q.key
            BY <2>4, <3>1
        <3>2. CASE s.key # q.key
            <4>1. s \in subs /\ s.key \in Key
                BY <1>8, <3>2 DEF Commit, IInv, TypesOK, Subscription
            <4>2. /\ s.key \in late => s.key \in late'
                  /\ s.key \in lost => s.key \in lost'
                BY <1>8, <3>2 DEF Commit
            <4>3. Shown(s.key) => Shown(s.key)'
                BY <2>2, <3>2, <4>1 DEF Shown
            <4>4. \A p \in DOMAIN flight : p.key = s.key => p \in DOMAIN flight'
                BY <2>3, <3>2
            <4> QED  BY <4>1, <4>2, <4>3, <4>4 DEF FreshInv
        <3> QED  BY <3>1, <3>2
    <2>6. \A s \in subs' : ~s.all => s.key \in mixed'
        BY <1>8, <1>h, <2>2 DEF Commit, FreshInv
    <2>7. \A k \in Key \ mixed' : Len(state'[k]) \in {0, Pages}
        <3> SUFFICES ASSUME NEW k \in Key \ mixed PROVE Len(state'[k]) \in {0, Pages}
            BY <2>2
        <3>1. CASE k = q.key
            <4>1. q.all
                BY <1>h, <3>1
            <4>2. Len(q.value) + 1 = Pages
                BY <1>8, <2>1, <4>1, StoreAssumption DEF Commit, More
            <4> QED  BY <2>1, <2>2, <3>1, <4>2
        <3>2. CASE k # q.key
            BY <2>2, <3>2 DEF FreshInv
        <3> QED  BY <3>1, <3>2
    <2> QED  BY <1>h, <2>2, <2>3, <2>5, <2>6, <2>7 DEF FreshInv
<1>9. ASSUME NEW q \in DOMAIN flight, Fail(q) PROVE FreshInv'
    <2>1. IsABag(flight') /\ DOMAIN flight \ {q} \subseteq DOMAIN flight'
             /\ DOMAIN flight' \subseteq DOMAIN flight
        BY <1>9, <1>h, FlightBag, BagDomains DEF Fail
    <2>2. lost' = lost \cup {q.key}
             /\ UNCHANGED <<height, news, told, listeners, state, subs, late, mixed>>
        BY <1>9 DEF Fail
    <2>3. \A s \in subs : s.key \in late \cup lost' \/ Shown(s.key)
                             \/ \E p \in DOMAIN flight' : p.key = s.key
        BY <2>1, <2>2 DEF FreshInv
    <2> QED  BY <1>h, <2>1, <2>2, <2>3 DEF FreshInv, Shown
<1>10. CASE ResetState
    <2>1. /\ state' = [k \in Key |-> <<>>] /\ subs' = {}
          /\ UNCHANGED <<height, news, told, listeners, flight, late, lost, mixed>>
        BY <1>10 DEF ResetState, history
    <2> QED  BY <1>h, <2>1 DEF FreshInv
<1>11. ASSUME NEW s \in subs, Unsubscribe(s) PROVE FreshInv'
    BY <1>11, <1>h, FreshFrame DEF Unsubscribe, history
<1>12. CASE UNCHANGED vars
    BY <1>12 DEF vars, history, FreshInv, Shown
<1> QED
    BY <1>1, <1>2, <1>3, <1>4, <1>6, <1>7, <1>8, <1>9, <1>10, <1>11, <1>12
    DEF Next, BagToSet

\* When nothing is under way, a subscribed key shows the last block the client
\* heard of, and the whole list if it was asked for, save where an answer came
\* late, a query failed, or the key was also asked for without `all`.
THEOREM FreshWhenQuiet == Spec => []SubscribedFresh
<1>1. IInv /\ FreshInv => SubscribedFresh
    <2> SUFFICES ASSUME IInv, FreshInv, flight = EmptyBag, NEW s \in subs
                 PROVE  /\ s.key \in late \cup lost
                              \/ \A i \in DOMAIN state[s.key] : state[s.key][i].at >= told
                        /\ s.all => s.key \in mixed \/ Len(state[s.key]) = Pages
        BY DEF SubscribedFresh
    <2>1. DOMAIN flight = {}
        BY BagDomains
    <2>2. s.key \in late \cup lost \/ Shown(s.key)
        BY <2>1 DEF FreshInv
    <2>3. s.key \in Key /\ state[s.key] \in Seq(Page) /\ state[s.key] # <<>>
        BY DEF IInv, TypesOK, Subscription, SubscribedCached
    <2>4. Len(state[s.key]) # 0
        BY <2>3
    <2> QED  BY <2>2, <2>3, <2>4 DEF FreshInv, Shown
<1>2. FreshInv /\ IInv /\ [Next]_vars => FreshInv'
    BY FreshStep
<1> QED  BY <1>1, <1>2, FreshInit, Invariance, PTL DEF Spec
=============================================================================
