----------------------------- MODULE Descriptors -----------------------------
(***************************************************************************)
(* The table of file descriptors, the walk over it that runs the timeouts, *)
(* and the listeners through REHASH (src/fdlist.c, src/s_bsd.c,            *)
(* src/listener.c).                                                        *)
(*                                                                         *)
(* A listener stays, closed, until the last connection that came through   *)
(* it is freed.  The walk keeps its place in a global variable, which      *)
(* fd_close repairs, since a timeout handler may close any descriptor and  *)
(* open others.  One bucket of the hash: the others are walked apart.      *)
(***************************************************************************)
EXTENDS Naturals, Sequences, FiniteSets, SequencesExt, Lists

CONSTANTS
    Slots,          \* the memory of listeners
    Conns,          \* the connections' slots
    Ports,
    ClearsFde,      \* INVARIANTS is defined, as it is unless built for EFnet
    None

Fds == Slots \cup Conns

VARIABLES
    table,          \* the bucket, head first
    open,           \* F->flags.open
    walk,           \* comm_checktimeouts: F, and fd_next_in_loop
    due,            \* what was there when it began and it has yet to see
    listeners,      \* ListenerPollList
    through,        \* through[c]: the listener of the client c
    ports,          \* the ports of the configuration
    failed          \* those that could not be bound

fdvars == <<table, open, walk, due, listeners, through, ports, failed>>

TypeOK ==
    /\ table \in Seq(Fds)
    /\ open \subseteq Fds
    /\ walk = None \/ walk \in [F : Fds, next : Fds \cup {None}]
    /\ due \subseteq Fds
    /\ \A l \in Slots : listeners[l] = None \/
          listeners[l] \in [port : Ports, ref_count : Nat, active : BOOLEAN]
    /\ through \in [Conns -> Slots \cup {None}]
    /\ ports \subseteq Ports
    /\ failed \subseteq Ports

-----------------------------------------------------------------------------
(* The table *)

Table == [table |-> table, open |-> open, walk |-> walk, due |-> due]

Become(T) ==
    /\ table' = T.table
    /\ open' = T.open
    /\ walk' = T.walk
    /\ due' = T.due

\* F->hnext
After(tab, F) ==
    LET on == {i \in 1 .. Len(tab) - 1 : tab[i] = F}
    IN IF on = {} THEN None ELSE tab[(CHOOSE i \in on : TRUE) + 1]

\* fd_open
Opened(T, F) == [T EXCEPT !.table = <<F>> \o @, !.open = @ \cup {F}]

\* (mutant of Closed: the walk is left where it is)
ClosedUnderWalk(T, F) ==
    [T EXCEPT !.table = Remaining(@, {F}),
              !.open = IF ClearsFde THEN @ \ {F} ELSE @,
              !.due = @ \ {F}]

\* fd_close: fd_next_in_loop moves on; without INVARIANTS the fields of the
\* fde stay as they were.
Closed(T, F) ==
    [T EXCEPT !.table = Remaining(@, {F}),
              !.open = IF ClearsFde THEN @ \ {F} ELSE @,
              !.walk = IF @ # None /\ @.next = F
                       THEN [@ EXCEPT !.next = After(T.table, F)] ELSE @,
              !.due = @ \ {F}]

\* comm_checktimeouts begins with the head of the bucket.
WalkBegin ==
    /\ walk = None /\ table # <<>>
    /\ walk' = [F |-> Head(table), next |-> After(table, Head(table))]
    /\ due' = ToSet(table)
    /\ UNCHANGED <<table, open, listeners, through, ports, failed>>

\* The walk leaves F for fd_next_in_loop.
WalkedOn(T) ==
    [T EXCEPT !.due = @ \ {T.walk.F},
              !.walk = IF @.next = None THEN None
                       ELSE [F |-> @.next, next |-> After(T.table, @.next)]]

\* The descriptors closed, one after the other.
AllClosed(T, closed) ==
    LET order == InOrder(closed)
        left[n \in 0 .. Cardinality(closed)] ==
            IF n = 0 THEN T ELSE Closed(left[n - 1], order[n])
    IN left[Cardinality(closed)]

\* One round: F has timed out or not; its handler closes descriptors of
\* connections, its own or others, and may open one (auth_connect_callback,
\* the next lookup of the resolver).
WalkStep(closed, opened) ==
    /\ walk # None
    /\ LET T == AllClosed(Table, closed)
           U == IF opened = None THEN T ELSE Opened(T, opened)
       IN Become(WalkedOn(U))
    /\ UNCHANGED <<listeners, through, ports, failed>>

-----------------------------------------------------------------------------
(* Listeners *)

Alive(l) == listeners[l] # None

\* accept_connection and add_connection.
Accept(l, c) ==
    /\ walk = None
    /\ l \in ToSet(table)
    /\ c \notin ToSet(table) /\ through[c] = None
    /\ Become(Opened(Table, c))
    /\ through' = [through EXCEPT ![c] = l]
    /\ listeners' = [listeners EXCEPT ![l].ref_count = @ + 1]
    /\ UNCHANGED <<ports, failed>>

\* close_connection
Close(c) ==
    /\ walk = None
    /\ c \in ToSet(table)
    /\ Become(Closed(Table, c))
    /\ UNCHANGED <<listeners, through, ports, failed>>

\* (mutant of Free: the listener is left)
FreeKept(c) ==
    /\ walk = None
    /\ through[c] # None /\ c \notin ToSet(table)
    /\ listeners' = [listeners EXCEPT ![through[c]].ref_count = @ - 1]
    /\ through' = [through EXCEPT ![c] = None]
    /\ UNCHANGED <<table, open, walk, due, ports, failed>>

\* free_client, and free_listener with the last client of a closed one.
Free(c) ==
    /\ walk = None
    /\ through[c] # None /\ c \notin ToSet(table)
    /\ LET l == through[c]
           L == listeners[l]
       IN listeners' = [listeners EXCEPT ![l] =
                IF L.ref_count = 1 /\ ~L.active THEN None
                ELSE [L EXCEPT !.ref_count = @ - 1]]
    /\ through' = [through EXCEPT ![c] = None]
    /\ UNCHANGED <<table, open, walk, due, ports, failed>>

\* close_listener
ListenerClosed(H, l) ==
    [T |-> IF l \in H.T.open THEN Closed(H.T, l) ELSE H.T,
     listeners |-> [H.listeners EXCEPT ![l] = IF @.ref_count = 0 THEN None
                                              ELSE [@ EXCEPT !.active = FALSE]]]

\* find_listener: an open one, or else a closed one.
Found(H, p) ==
    LET ls == {l \in Slots : H.listeners[l] # None /\ H.listeners[l].port = p}
        up == ls \cap H.T.open
    IN IF up # {} THEN CHOOSE l \in up : TRUE
       ELSE IF ls # {} THEN CHOOSE l \in ls : TRUE
       ELSE None

\* add_listener and inetport, which fails for the ports of the set bad.
ListenerAdded(H, p, bad) ==
    LET found == Found(H, p)
        l == IF found # None THEN found ELSE CHOOSE s \in Slots : H.listeners[s] = None
        M == IF found # None THEN H
             ELSE [T |-> [H.T EXCEPT !.open = @ \ {l}],
                   listeners |-> [H.listeners EXCEPT ![l] =
                       [port |-> p, ref_count |-> 0, active |-> FALSE]]]
    IN
    IF l \in M.T.open THEN H
    ELSE IF p \in bad THEN ListenerClosed(M, l)
    ELSE [T |-> Opened(M.T, l),
          listeners |-> [M.listeners EXCEPT ![l] = [@ EXCEPT !.active = TRUE]]]

\* close_listeners
ListenersClosed(H, all) ==
    LET order == InOrder(all)
        left[n \in 0 .. Cardinality(all)] ==
            IF n = 0 THEN H ELSE ListenerClosed(left[n - 1], order[n])
    IN left[Cardinality(all)]

\* The listen{} blocks of the file.
ListenersAdded(H, new, bad) ==
    LET order == InOrder(new)
        to[n \in 0 .. Cardinality(new)] ==
            IF n = 0 THEN H ELSE ListenerAdded(to[n - 1], order[n], bad)
    IN to[Cardinality(new)]

\* rehash: close_listeners, and the file is read.
Rehash(new, bad) ==
    LET H == [T |-> Table, listeners |-> listeners]
        A == ListenersAdded(ListenersClosed(H, {l \in Slots : Alive(l)}), new, bad)
    IN
    /\ walk = None
    /\ Become(A.T)
    /\ listeners' = A.listeners
    /\ ports' = new
    /\ failed' = bad
    /\ UNCHANGED through

Init ==
    /\ table = <<>> /\ open = {} /\ walk = None /\ due = {}
    /\ listeners = [l \in Slots |-> None]
    /\ through = [c \in Conns |-> None]
    /\ ports = {} /\ failed = {}

Next ==
    \/ WalkBegin
    \/ \E closed \in SUBSET (ToSet(table) \cap Conns),
          opened \in (Conns \ ToSet(table)) \cup {None} :
          /\ opened # None => through[opened] = None
          /\ WalkStep(closed, opened)
    \/ \E l \in Slots, c \in Conns : Accept(l, c)
    \/ \E c \in Conns : Close(c) \/ Free(c)
    \/ \E new \in SUBSET Ports : \E bad \in SUBSET new : Rehash(new, bad)

Spec == Init /\ [][Next]_fdvars

-----------------------------------------------------------------------------
(* Properties *)

\* The walk sees every descriptor that stays, once, and none that is closed,
\* whatever the handlers close and open before and behind it.
WalkSeesAll ==
    /\ walk = None => due = {}
    /\ walk # None => walk.F \in due /\ (walk.next # None => walk.next \in due)

\* A listener is there as long as a client came through it or it listens, is
\* counted right, and is the only one of its port.
ListenersCounted ==
    /\ \A c \in Conns : through[c] # None => Alive(through[c])
    /\ \A l \in Slots : Alive(l) =>
          /\ listeners[l].ref_count = Cardinality({c \in Conns : through[c] = l})
          /\ listeners[l].active \/ listeners[l].ref_count > 0
          /\ listeners[l].active <=> l \in ToSet(table)
          /\ \A k \in Slots : Alive(k) /\ listeners[k].port = listeners[l].port => k = l

\* After REHASH the server listens on every port of the configuration it can
\* bind: a closed listener is taken up again.
ListensAsConfigured ==
    \A p \in ports \ failed : \E l \in Slots :
        Alive(l) /\ listeners[l].port = p /\ l \in ToSet(table)

\* Both, whatever order clients leave in and REHASH comes in.
ListenersKept == ListenersCounted /\ ListensAsConfigured

=============================================================================
