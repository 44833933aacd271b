---------------------------- MODULE QueryStore ----------------------------
(***************************************************************************)
(* A module of the web client's Vuex store (vue/src/store/generated).  It   *)
(* caches the answers of REST queries, page after page if a caller asks for *)
(* all of them, and repeats the subscribed ones at every new block.  Its    *)
(* actions await answers: any number of them are under way at once, and     *)
(* their answers come back in any order.  A page of a list is modelled by   *)
(* its number and the height of the block whose state it shows.             *)
(***************************************************************************)
EXTENDS Naturals, Sequences, Bags

CONSTANTS
    Key,          \* query keys: a query with its parameters
    Pages,        \* pages of the list each of them asks for
    MaxHeight,    \* bound: blocks
    MaxCalls,     \* bound: calls of the user interface
    MaxInFlight,  \* bound: queries under way
    MaxListeners  \* bound: how often the web socket is initialised

ASSUME StoreAssumption ==
    /\ Pages \in Nat \ {0} /\ MaxHeight \in Nat /\ MaxCalls \in Nat
    /\ MaxInFlight \in Nat /\ MaxListeners \in Nat

VARIABLES
    height,     \* the block the node answers from
    news,       \* newblock events still on their way to the client
    told,       \* the block of the last event the listeners got
    listeners,  \* newblock listeners of this store module
    state,      \* what is cached under each key
    subs,       \* state._Subscriptions
    flight,     \* the queries under way, a bag
    calls,
    late,       \* history: keys cached with a page older than the last event
    lost,       \* history: keys one of whose queries failed
    mixed       \* history: keys a component asked for without `all`

vars == <<height, news, told, listeners, state, subs, flight, calls, late, lost, mixed>>
history == <<late, lost, mixed>>

Page         == [page : 1 .. Pages, at : 0 .. MaxHeight]
Subscription == [key : Key, all : BOOLEAN]

Init ==
    /\ height = 0 /\ news = 0 /\ told = 0 /\ listeners = 0
    /\ state = [k \in Key |-> <<>>] /\ subs = {} /\ flight = EmptyBag
    /\ calls = 0 /\ late = {} /\ lost = {} /\ mixed = {}

Call == calls < MaxCalls /\ calls' = calls + 1

\* A query about to ask for its first page; `caller` records whether a component
\* dispatched it, or StoreUpdate.
NewQuery(k, all, subscribe, caller) ==
    [key |-> k, all |-> all, subscribe |-> subscribe, caller |-> caller,
     value |-> <<>>, answer |-> 0]

Waiting(q)  == q.answer = 0
Replace(q, r) == flight' = (flight (-) SetToBag({q})) (+) SetToBag({r})

---------------------------------------------------------------------------
(* The node and the web socket. *)

NewBlock ==
    /\ height < MaxHeight
    /\ height' = height + 1 /\ news' = news + 1
    /\ UNCHANGED <<told, listeners, state, subs, flight, calls, history>>

\* INITIALIZE_WS_COMPLETE: each time, init adds a listener.
Initialize ==
    /\ listeners < MaxListeners
    /\ listeners' = listeners + 1
    /\ UNCHANGED <<height, news, told, state, subs, flight, calls, history>>

\* The node answers with the next page as its state is now.
Serve(q) ==
    /\ Waiting(q)
    /\ Replace(q, [q EXCEPT !.answer = height + 1])
    /\ UNCHANGED <<height, news, told, listeners, state, subs, calls, history>>

---------------------------------------------------------------------------
(* The store. *)

\* Defect: a subscription repeats the query without its `all`.
Refreshes_DropsAll(copies) ==
    LET again == {NewQuery(s.key, FALSE, FALSE, FALSE) : s \in subs}
    IN  [q \in again |-> copies]

\* Defect: a subscription repeats the query with its `subscribe`.
Refreshes_Subscribing(copies) ==
    LET again == {NewQuery(s.key, s.all, TRUE, FALSE) : s \in subs}
    IN  [q \in again |-> copies]

\* StoreUpdate, once per listener: every subscribed query again, not subscribing.
Refreshes(copies) ==
    LET again == {NewQuery(s.key, s.all, FALSE, FALSE) : s \in subs}
    IN  [q \in again |-> copies]

\* A newblock event that finds no listener is gone.
Deliver ==
    /\ news > 0 /\ news' = news - 1
    /\ told' = IF listeners = 0 THEN told ELSE height - news'
    /\ flight' = IF listeners = 0 THEN flight ELSE flight (+) Refreshes(listeners)
    /\ BagCardinality(flight') <= MaxInFlight
    /\ UNCHANGED <<height, listeners, state, subs, calls, history>>

\* Defect: the subscription is entered before there is an answer.
Query_SubscribesAtOnce(k, all, subscribe) ==
    /\ Call /\ BagCardinality(flight) < MaxInFlight
    /\ flight' = flight (+) SetToBag({NewQuery(k, all, subscribe, TRUE)})
    /\ subs' = IF subscribe THEN subs \cup {[key |-> k, all |-> all]} ELSE subs
    /\ mixed' = IF all THEN mixed ELSE mixed \cup {k}
    /\ UNCHANGED <<height, news, told, listeners, state, late, lost>>

\* A component dispatches a query: with `all`, and with `subscribe`, or without.
Query(k, all, subscribe) ==
    /\ Call /\ BagCardinality(flight) < MaxInFlight
    /\ flight' = flight (+) SetToBag({NewQuery(k, all, subscribe, TRUE)})
    /\ mixed' = IF all THEN mixed ELSE mixed \cup {k}
    /\ UNCHANGED <<height, news, told, listeners, state, subs, late, lost>>

\* Defect: the pages before it are added after it.
Merged_Swapped(q) == <<[page |-> Len(q.value) + 1, at |-> q.answer - 1]>> \o q.value

\* mergeResults: the page is added after the ones before it, and its
\* next_key replaces theirs.
Merged(q) == Append(q.value, [page |-> Len(q.value) + 1, at |-> q.answer - 1])

\* next_key # null
More(q) == q.all /\ Len(q.value) + 1 < Pages

\* Defect: the page is merged into a copy, and the next one asked for as before.
NextPage_SameKey(q) ==
    /\ ~Waiting(q) /\ More(q)
    /\ Replace(q, [q EXCEPT !.answer = 0])
    /\ UNCHANGED <<height, news, told, listeners, state, subs, calls, history>>

\* An answer that leaves pages to ask for.
NextPage(q) ==
    /\ ~Waiting(q) /\ More(q)
    /\ Replace(q, [q EXCEPT !.value = Merged(q), !.answer = 0])
    /\ UNCHANGED <<height, news, told, listeners, state, subs, calls, history>>

\* The last answer: QUERY and SUBSCRIBE are committed, with nothing in between.
Commit(q) ==
    /\ ~Waiting(q) /\ ~More(q)
    /\ state' = [state EXCEPT ![q.key] = Merged(q)]
    /\ subs' = IF q.subscribe THEN subs \cup {[key |-> q.key, all |-> q.all]} ELSE subs
    /\ flight' = flight (-) SetToBag({q})
    /\ late' = IF \E p \in {Merged(q)[i] : i \in DOMAIN Merged(q)} : p.at < told
               THEN late \cup {q.key} ELSE late \ {q.key}
    /\ lost' = IF q.key \in late' THEN lost ELSE lost \ {q.key}
    /\ UNCHANGED <<height, news, told, listeners, calls, mixed>>

\* The node cannot be reached: the query throws, and nothing is cached.
Fail(q) ==
    /\ flight' = flight (-) SetToBag({q})
    /\ lost' = lost \cup {q.key}
    /\ UNCHANGED <<height, news, told, listeners, state, subs, calls, late, mixed>>

\* RESET_STATE; what is under way goes on.
ResetState ==
    /\ Call
    /\ state' = [k \in Key |-> <<>>] /\ subs' = {}
    /\ UNCHANGED <<height, news, told, listeners, flight, history>>

Unsubscribe(s) ==
    /\ Call /\ s \in subs
    /\ subs' = subs \ {s}
    /\ UNCHANGED <<height, news, told, listeners, state, flight, history>>

Next ==
    \/ NewBlock
    \/ Initialize
    \/ Deliver
    \/ \E k \in Key, all, subscribe \in BOOLEAN : Query(k, all, subscribe)
    \/ \E q \in BagToSet(flight) : Serve(q)
    \/ \E q \in BagToSet(flight) : NextPage(q)
    \/ \E q \in BagToSet(flight) : Commit(q)
    \/ \E q \in BagToSet(flight) : Fail(q)
    \/ ResetState
    \/ \E s \in subs : Unsubscribe(s)

Spec == Init /\ [][Next]_vars

\* A fetch settles, with an answer or an error; events are delivered.
FairSpec == Spec /\ WF_vars(Deliver)
                 /\ WF_vars(\E q \in BagToSet(flight) : Serve(q))
                 /\ WF_vars(\E q \in BagToSet(flight) : NextPage(q))
                 /\ WF_vars(\E q \in BagToSet(flight) : Commit(q))

---------------------------------------------------------------------------
(* Properties. *)

\* A cached list starts with its first page, misses none, repeats none, and no
\* page is older than the one before it; it is the first page alone or the
\* whole list, whatever was merged, overtaken or reset meanwhile.
PagesInOrder ==
    \A k \in Key :
        LET v == state[k]
        IN  /\ Len(v) \in {0, 1, Pages}
            /\ \A i \in DOMAIN v : v[i].page = i
            /\ \A i, j \in DOMAIN v : i < j => v[i].at <= v[j].at

\* Whoever is subscribed finds something cached: a subscription is entered with
\* the first answer, and resetState forgets both.
SubscribedCached == \A s \in subs : state[s.key] # <<>>

\* When nothing is under way, a subscribed key shows the last block the client
\* heard of, and the whole list if it was asked for - unless an answer came late
\* (overtaken by a newer one, or asked for before the event and subscribed
\* after it), a query failed, or it was also asked for without `all`.
SubscribedFresh ==
    flight = EmptyBag =>
        \A s \in subs :
            /\ s.key \in late \cup lost
                  \/ \A i \in DOMAIN state[s.key] : state[s.key][i].at >= told
            /\ s.all => s.key \in mixed \/ Len(state[s.key]) = Pages

\* A subscription is only entered for a caller that asked for it: a refresh under
\* way when its subscription is cancelled does not bring it back.
OnlyCallersSubscribe ==
    [][\A s \in subs' \ subs :
          \E q \in BagToSet(flight) : q.caller /\ q.subscribe /\ q.key = s.key /\ q.all = s.all]_vars

\* Every query ends: paging comes to the last page, and refreshes of refreshes
\* do not keep the store busy once blocks and calls have stopped.
QueriesEnd == <>[](flight = EmptyBag)
=============================================================================
