------------------------------ MODULE ProgressHub ------------------------------
(***************************************************************************)
(* How a change of a record reaches a page: MigrationEngine._emit saves    *)
(* and broadcasts (backend/app/core/migration_engine.py), the hub sends    *)
(* the record to its sockets one after the other                           *)
(* (backend/app/websocket/progress.py), a page fetches it once and then    *)
(* shows what its socket brings (useMigrationSocket.ts, DashboardPage.tsx, *)
(* MigrationDetailPage.tsx).                                               *)
(*                                                                         *)
(* A broadcast waits at every socket for as long as the transport likes,   *)
(* and another one may overtake it; the broadcasts that wait at one socket *)
(* go on in the order in which they came.  Broadcasts go through the       *)
(* sockets of a topic in one order, that of their numbers.                 *)
(***************************************************************************)
EXTENDS MigrationStore, Sequences, FiniteSets

CONSTANTS
    Pages,      \* pages, each with one socket: numbers, in the order of iteration
    TopicOf,    \* Pages -> migration subscribed to, or Every
    Every,      \* the topic "*"
    MaxCasts,   \* bound on the broadcasts that run at one time
    Dropping,   \* pages whose connection may fail
    MaxDrops    \* bound on failed connections

ASSUME HubAssumption ==
    /\ TopicOf \in [Pages -> Ids \cup {Every}]
    /\ Every \notin Ids /\ Pages \subseteq Nat \ {0}
    /\ MaxCasts \in Nat /\ MaxDrops \in Nat /\ Dropping \subseteq Pages

VARIABLES
    serving,    \* is start-up over?
    subs,       \* sockets in _connections
    casts,      \* 1..MaxCasts -> running broadcast
    waiting,    \* Pages -> broadcasts that wait for the page's socket
    open,       \* pages whose socket is connected
    inbox,      \* Pages -> frames on their way
    answered,   \* pages whose REST request was answered
    initial,    \* Pages -> Ids -> version the request gave; 0: none
    live,       \* Pages -> Ids -> version the latest frame gave; 0: none
    early,      \* pages that were registered when their request was answered
    lost,       \* pages whose connection failed at some time
    drops       \* failed connections

pageVars == <<open, inbox, answered, initial, live, early, lost, drops>>
hubVars == <<serving, subs, casts, waiting>>
vars == <<storeVars, hubVars, pageVars>>

NoPage == 0
NoCast == [m |-> Every, v |-> 0, left |-> {}, wide |-> TRUE, at |-> NoPage]
Idle == {c \in 1..MaxCasts : casts[c] = NoCast}
First(S) == CHOOSE p \in S : \A q \in S : p <= q
On(topic, S) == {p \in S : TopicOf[p] = topic}

\* Mutant of Rest: subscribers of "*" are forgotten.
RestNarrow(cast, S) == [cast EXCEPT !.wide = TRUE]

\* _connections.get("*") is read when the sockets of the migration are done.
Rest(cast, S) ==
    IF cast.left # {} \/ cast.wide THEN cast
    ELSE [cast EXCEPT !.wide = TRUE, !.left = On(Every, S)]

\* Broadcast c goes on until it awaits its next socket or ends; S is registered then,
\* w waits then.
GoOn(c, cast, S, w) ==
    LET rest == Rest(cast, S)
    IN  \/ /\ rest.left = {}
           /\ casts' = [casts EXCEPT ![c] = NoCast]
           /\ waiting' = w /\ UNCHANGED inbox
        \/ LET p == First(rest.left)
           IN /\ rest.left # {}
              /\ casts' = [casts EXCEPT ![c] = [rest EXCEPT !.left = @ \ {p}, !.at = p]]
              /\ waiting' = [w EXCEPT ![p] = Append(@, c)]
              /\ inbox' = IF p \in open
                          THEN [inbox EXCEPT ![p] = Append(@, [m |-> cast.m, v |-> cast.v])]
                          ELSE inbox

\* Mutant of Broadcast: the payload is made before the change.
BroadcastStale(m) ==
    \E c \in Idle :
       GoOn(c, [m |-> m, v |-> object[m], left |-> On(m, subs), wide |-> FALSE, at |-> NoPage],
            subs, waiting)

Broadcast(m) ==
    \E c \in Idle :
       GoOn(c, [m |-> m, v |-> object'[m], left |-> On(m, subs), wide |-> FALSE, at |-> NoPage],
            subs, waiting)

\* Mutant of Emit: progress is sent and not saved, once the record is in the store.
EmitOnly(m) ==
    /\ serving
    /\ IF m \in stored THEN Touch(m) ELSE Save(m)
    /\ Broadcast(m)
    /\ UNCHANGED <<serving, subs, open, answered, initial, live, early, lost, drops>>

\* _emit: store.save() has no await after the change, nor has the broadcast before
\* the first socket.
Emit(m) ==
    /\ serving
    /\ Save(m)
    /\ Broadcast(m)
    /\ UNCHANGED <<serving, subs, open, answered, initial, live, early, lost, drops>>

\* The broadcasts that wait at a socket when c, which waits there once, goes on.
Without(c, queue) ==
    LET i == CHOOSE i \in DOMAIN queue : queue[i] = c
    IN  SubSeq(queue, 1, i - 1) \o SubSeq(queue, i + 1, Len(queue))

\* send_text returns, or raises and the socket is forgotten.
Resume(c) ==
    LET p == casts[c].at
        S == IF p \in open THEN subs ELSE subs \ {p}
    IN  /\ p # NoPage
        /\ p \in open => Head(waiting[p]) = c
        /\ subs' = S
        /\ GoOn(c, casts[c], S, [waiting EXCEPT ![p] = Without(c, @)])
        /\ UNCHANGED <<storeVars, serving, open, answered, initial, live, early, lost, drops>>

\* A page connects, for the first time or two seconds after onclose.  (The socket it
\* had is forgotten by then: nothing else could be done with it.)
Connect(p) ==
    /\ serving
    /\ p \notin open \cup subs
    /\ open' = open \cup {p}
    /\ subs' = subs \cup {p}
    /\ UNCHANGED <<storeVars, serving, casts, waiting, inbox, answered, initial, live, early, lost, drops>>

Drop(p) ==
    /\ p \in open \cap Dropping
    /\ drops < MaxDrops /\ drops' = drops + 1
    /\ open' = open \ {p}
    /\ inbox' = [inbox EXCEPT ![p] = <<>>]
    /\ lost' = lost \cup {p}
    /\ UNCHANGED <<storeVars, hubVars, answered, initial, live, early>>

\* The endpoint's receive_text raises; its finally clause forgets the socket.
Unregister(p) ==
    /\ p \in subs \ open
    /\ subs' = subs \ {p}
    /\ UNCHANGED <<storeVars, serving, casts, waiting, pageVars>>

\* The records a page asks for when it is mounted, as they are in memory.
Answer(p) ==
    LET asked == IF TopicOf[p] = Every THEN stored ELSE stored \cap {TopicOf[p]}
    IN  /\ serving /\ p \notin answered
        /\ answered' = answered \cup {p}
        /\ initial' = [initial EXCEPT ![p] = [m \in Ids |-> IF m \in asked THEN object[m] ELSE 0]]
        /\ early' = IF p \in open THEN early \cup {p} ELSE early
        /\ UNCHANGED <<storeVars, hubVars, open, inbox, live, lost, drops>>

\* onmessage: the frame replaces what was shown of its migration.
Receive(p) ==
    /\ inbox[p] # <<>>
    /\ live' = [live EXCEPT ![p][Head(inbox[p]).m] = Head(inbox[p]).v]
    /\ inbox' = [inbox EXCEPT ![p] = Tail(@)]
    /\ UNCHANGED <<storeVars, hubVars, open, answered, initial, early, lost, drops>>

\* The process ends with its broadcasts and sockets.
Kill ==
    /\ Restart \/ TornRestart
    /\ serving' = FALSE
    /\ subs' = {} /\ open' = {} /\ lost' = lost \cup open
    /\ casts' = [c \in 1..MaxCasts |-> NoCast]
    /\ waiting' = [p \in Pages |-> <<>>] /\ inbox' = [p \in Pages |-> <<>>]
    /\ UNCHANGED <<answered, initial, live, early, drops>>

\* _reconcile_orphaned_migrations saves the records of runs that died and tells no one.
Reconcile(m) == ~serving /\ m \in stored /\ Save(m) /\ UNCHANGED <<hubVars, pageVars>>

Serve == ~serving /\ serving' = TRUE /\ UNCHANGED <<storeVars, subs, casts, waiting, pageVars>>

Init ==
    /\ StoreInit
    /\ serving = TRUE
    /\ subs = {} /\ open = {} /\ answered = {} /\ early = {} /\ lost = {}
    /\ casts = [c \in 1..MaxCasts |-> NoCast]
    /\ waiting = [p \in Pages |-> <<>>] /\ inbox = [p \in Pages |-> <<>>]
    /\ initial = [p \in Pages |-> [m \in Ids |-> 0]]
    /\ live = [p \in Pages |-> [m \in Ids |-> 0]]
    /\ drops = 0

Alone(A) == A /\ UNCHANGED <<hubVars, pageVars>>

Next ==
    \/ \E m \in Ids :
          \/ Emit(m) \/ Reconcile(m)
          \/ serving /\ Alone(Touch(m) \/ Delete(m))
    \/ Kill \/ Serve
    \/ \E c \in 1..MaxCasts : Resume(c)
    \/ \E p \in Pages :
          Connect(p) \/ Drop(p) \/ Unregister(p) \/ Answer(p) \/ Receive(p)

Spec == Init /\ [][Next]_vars

\* Awaits return, frames arrive, and whoever changed a record emits it.
Fairness ==
    /\ \A c \in 1..MaxCasts : WF_vars(Resume(c))
    /\ \A p \in Pages : WF_vars(Receive(p)) /\ WF_vars(Unregister(p))
    /\ \A m \in Ids : WF_vars(m \in stored /\ object[m] # file[m] /\ Emit(m))

FairSpec == Spec /\ Fairness

-------------------------------------------------------------------------------
(* Properties *)

\* What a page shows of a migration: a frame hides the answer for good.
View(p, m) == IF live[p][m] # 0 THEN live[p][m] ELSE initial[p][m]

Watched(p) == IF TopicOf[p] = Every THEN {m \in Ids : initial[p][m] # 0} ELSE {TopicOf[p]}

\* Every variable holds values of its kind; a broadcast waits where it is enlisted.
TypeOK ==
    /\ StoreTypeOK
    /\ serving \in BOOLEAN
    /\ subs \subseteq Pages /\ open \subseteq Pages /\ answered \subseteq Pages
    /\ early \subseteq answered /\ lost \subseteq Pages
    /\ DOMAIN casts = 1..MaxCasts
    /\ \A c \in 1..MaxCasts :
          \/ casts[c] = NoCast
          \/ /\ casts[c].m \in Ids /\ casts[c].v \in 1..MaxVersion
             /\ casts[c].left \subseteq Pages
             /\ \A p \in Pages : (\E i \in DOMAIN waiting[p] : waiting[p][i] = c) <=> p = casts[c].at
    /\ \A p \in Pages, m \in Ids : {initial[p][m], live[p][m]} \subseteq 0..MaxVersion

\* A page was never pushed a version that a restart of the backend could take back:
\* it is in the state file, or was replaced there by a later one.
PushedIsSaved ==
    \A m \in DOMAIN file :
       /\ \A p \in Pages :
             /\ live[p][m] <= file[m]
             /\ \A i \in DOMAIN inbox[p] : inbox[p][i].m = m => inbox[p][i].v <= file[m]
       /\ \A c \in 1..MaxCasts : casts[c].m = m => casts[c].v <= file[m]

\* A page that has subscribed before its request was answered, and keeps its
\* connection, ends up with the records as they are, however the broadcasts to it and
\* to other pages interleave.
PageConverges ==
    <>[](\A p \in (early \cap open) \ lost : \A m \in Watched(p) \cap stored : View(p, m) = object[m])

\* Expected of any connected page, and false: a page that reconnects is not told what
\* it missed, nor is one whose request was answered before its socket was registered.
OpenPageConverges ==
    <>[](\A p \in open \cap answered : \A m \in Watched(p) \cap stored : View(p, m) = object[m])
================================================================================
