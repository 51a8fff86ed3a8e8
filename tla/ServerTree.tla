----------------------------- MODULE ServerTree -----------------------------
(***************************************************************************)
(* The tree of servers: how links are set up, introduced to the rest of    *)
(* the network, and taken down again.                                      *)
(*                                                                         *)
(* Every server keeps all others in global_serv_list, each under the       *)
(* server that introduced it (servptr) and behind the link it was heard    *)
(* on (from).  A new server is flooded with SID, a lost one with SQUIT     *)
(* (modules/core/m_server.c, m_squit.c, src/s_serv.c, src/client.c).       *)
(* Nothing stops two connections from joining the same two parts of the    *)
(* network at once: each server that hears of a server it already has      *)
(* breaks the link it hears it on.                                         *)
(*                                                                         *)
(* One action is one handler run on one server, with all it sends.  Links  *)
(* are between TS6 servers with the QS capability.                         *)
(***************************************************************************)
EXTENDS Naturals, Sequences, FiniteSets, Lists

CONSTANTS
    Servers,
    NoServer,       \* servptr and from of a server that is not known
    Connects,       \* pairs <<i, a>>: i may have a connect block for a
    Configs,        \* the configurations: blocks, the connect blocks there
                    \* are; hubs, the servers with serverinfo::hub set;
                    \* leaves, the servers no connect block has a hub_mask
                    \* for; opers, the servers with an operator; and lossy,
                    \* if links may be lost
    MaxConnects,    \* bound on the connections made
    MaxBreaks       \* bound on the links lost and the SQUIT commands

ASSUME ServersAssumption ==
    /\ IsFiniteSet(Servers)
    /\ NoServer \notin Servers
    /\ Connects \subseteq Servers \X Servers
    /\ \A c \in Connects : c[1] # c[2]
    /\ \A k \in Configs : k.hubs \subseteq Servers /\ k.leaves \subseteq Servers
    /\ \A k \in Configs : k.blocks \subseteq Connects
    /\ \A k \in Configs : k.opers \subseteq Servers /\ k.lossy \in BOOLEAN
    /\ MaxConnects \in Nat
    /\ MaxBreaks \in Nat

VARIABLES
    tree,           \* tree[s]: the servers s knows
    status,         \* status[e]: the Client for one end of a connection
    wire,           \* wire[e]: lines sent to the end e and not parsed yet
    connects,       \* connections made so far (bound)
    breaks,         \* links lost so far (bound)
    squits,         \* SQUIT commands so far (bound)
    config          \* the configuration, which does not change

counts == <<connects, breaks, squits, config>>
vars == <<tree, status, wire, counts>>

\* The ends <<c, s>> of the connections: of c at the server s.
Ends == {e \in Connects \X Servers : e[2] \in {e[1][1], e[1][2]}}
Other(e) == <<e[1], IF e[2] = e[1][1] THEN e[1][2] ELSE e[1][1]>>
Peer(e) == Other(e)[2]
EndsOf(s) == {e \in Ends : e[2] = s}

Statuses == {"none", "handshake", "unknown", "server"}

Lines ==      [type : {"server"}]
         \cup [type : {"sid"}, server : Servers, source : Servers]
         \cup [type : {"squit"}, server : Servers]

Tree == [list : Seq(Servers),               \* global_serv_list, oldest first
         servptr : [Servers -> Servers \cup {NoServer}],
         from : [Servers -> Servers \cup {NoServer}],
         dep_servers : [Servers -> Nat]]    \* of the local links

TypeOK ==
    /\ tree \in [Servers -> Tree]
    /\ status \in [Ends -> Statuses]
    /\ wire \in [Ends -> Seq(Lines)]
    /\ connects \in 0 .. MaxConnects
    /\ breaks \in 0 .. MaxBreaks
    /\ squits \in 0 .. MaxBreaks
    /\ config \in Configs

-----------------------------------------------------------------------------
(* One server's tables *)

\* find_server, server_exists and hash_find_id: all servers known but s.
Known(s) == {x \in Servers : tree[s].servptr[x] # NoServer}

\* serv_list
Links(s) == {e \in EndsOf(s) : status[e] = "server"}

\* find_servconn_in_progress: connections s is making to x.
InProgress(s, x) == {e \in EndsOf(s) : status[e] = "handshake" /\ Peer(e) = x}

\* x and the servers introduced behind it, in the table T.
BehindIn(T, x) ==
    LET deep[n \in 0 .. Len(T.list)] ==
            IF n = 0 THEN {x}
            ELSE LET above == deep[n - 1] IN
                 above \cup {y \in Servers : T.servptr[y] \in above}
    IN deep[Len(T.list)]

\* remove_dependents and exit_one_client: x and all behind it go, each taken
\* back from the count of the link it is behind.
Without(T, x) ==
    LET lost == BehindIn(T, x)
        link == T.from[x]
    IN
    [list    |-> Remaining(T.list, lost),
     servptr |-> [y \in Servers |-> IF y \in lost THEN NoServer ELSE T.servptr[y]],
     from    |-> [y \in Servers |-> IF y \in lost THEN NoServer ELSE T.from[y]],
     dep_servers |->
        [T.dep_servers EXCEPT ![link] = IF x = link THEN 0
                                        ELSE @ - Cardinality(lost)]]

\* (mutant of With: the server is not counted)
WithUncounted(T, x, source, r) ==
    [T EXCEPT !.list = Append(@, x), !.servptr[x] = source, !.from[x] = r]

\* A server x introduced by source on the link to r is entered: ms_sid, and
\* server_estab when the link itself is new.
With(T, x, source, r) ==
    [list    |-> Append(T.list, x),
     servptr |-> [T.servptr EXCEPT ![x] = source],
     from    |-> [T.from EXCEPT ![x] = r],
     dep_servers |-> [T.dep_servers EXCEPT ![r] = @ + 1]]

-----------------------------------------------------------------------------
(* Lines *)

Server == [type |-> "server"]
Sid(x, source) == [type |-> "sid", server |-> x, source |-> source]
Squit(x) == [type |-> "squit", server |-> x]

Line(e) == wire[e][1]
Arrives(e, type) == wire[e] # <<>> /\ Line(e).type = type

\* w after lines have been written at each end of To; the line an end e
\* parses is taken off.  What is written to a closed connection is lost.
Sent(w, To, lines) ==
    [f \in Ends |-> IF Other(f) \in To /\ status[f] # "none"
                    THEN w[f] \o lines ELSE w[f]]
Parsed(e) == [wire EXCEPT ![e] = Tail(@)]

\* The connections of X are closed: lines not parsed are lost.
Closed(X) == status' = [f \in Ends |-> IF f \in X THEN "none" ELSE status[f]]
Cut(w, X) == [f \in Ends |-> IF f \in X THEN <<>> ELSE w[f]]

\* my servers are introduced, oldest first: every one not behind r.
Burst(s, r) ==
    LET sent == Remaining(tree[s].list, {y \in Servers : tree[s].from[y] = r}) IN
    [i \in 1 .. Len(sent) |-> Sid(sent[i], tree[s].servptr[sent[i]])]

-----------------------------------------------------------------------------
(* exit_client *)

\* (mutant of ExitServer: the other links are not told)
ExitServerQuietly(s, x, told, X, w) ==
    LET closing == X \cup {e \in Links(s) : Peer(e) = x} IN
    /\ tree' = [tree EXCEPT ![s] = Without(@, x)]
    /\ Closed(closing)
    /\ wire' = Cut(w, closing)

\* s exits the known server x, a link or one behind a link, closing the ends
\* X besides; the ends of told get the SQUIT.
ExitServer(s, x, told, X, w) ==
    LET closing == X \cup {e \in Links(s) : Peer(e) = x} IN
    /\ tree' = [tree EXCEPT ![s] = Without(@, x)]
    /\ Closed(closing)
    /\ wire' = Cut(Sent(w, told \ closing, <<Squit(x)>>), closing)

-----------------------------------------------------------------------------
(* Setting up a link *)

\* serv_connect: a connection to a server s does not have and is not already
\* connecting to.  PASS, CAPAB and SERVER are sent when it is made.
Connect(c) ==
    LET e == <<c, c[1]>> IN
    /\ c \in config.blocks
    /\ connects < MaxConnects
    /\ c[2] \notin Known(c[1])
    /\ InProgress(c[1], c[2]) = {}
    /\ status[e] = "none" /\ status[Other(e)] = "none"
    /\ status' = [status EXCEPT ![e] = "handshake", ![Other(e)] = "unknown"]
    /\ wire' = [wire EXCEPT ![e] = <<>>, ![Other(e)] = <<Server>>]
    /\ connects' = connects + 1
    /\ UNCHANGED <<tree, breaks, squits, config>>

\* mr_server: the name or ID is one s already has.
ServerRejected(e) ==
    /\ Arrives(e, "server")
    /\ Peer(e) \in Known(e[2])
    /\ Closed({e})
    /\ wire' = Cut(wire, {e})
    /\ UNCHANGED <<tree, counts>>

\* mr_server and server_estab on a server that is no hub and has a link:
\* connections in progress to the peer are exited all the same.
LeafRejects(e) ==
    LET s == e[2]
        closing == {e} \cup InProgress(s, Peer(e))
    IN
    /\ Arrives(e, "server")
    /\ Peer(e) \notin Known(s)
    /\ s \notin config.hubs /\ Links(s) # {}
    /\ Closed(closing)
    /\ wire' = Cut(wire, closing)
    /\ UNCHANGED <<tree, counts>>

\* mr_server and server_estab: other connections to the same server are
\* "Overridden"; the new server is introduced to all links, and all servers
\* s knows to the new one.  Only the server that was connected to answers
\* with its own SERVER.
Establish(e) ==
    LET s == e[2]
        r == Peer(e)
        overridden == InProgress(s, r) \ {e}
        reply == IF status[e] = "unknown" THEN <<Server>> ELSE <<>>
    IN
    /\ Arrives(e, "server")
    /\ r \notin Known(s)
    /\ s \in config.hubs \/ Links(s) = {}
    /\ tree' = [tree EXCEPT ![s] = With(@, r, s, r)]
    /\ status' = [f \in Ends |-> IF f = e THEN "server"
                                 ELSE IF f \in overridden THEN "none"
                                 ELSE status[f]]
    /\ wire' = Cut(Sent(Sent(Parsed(e), Links(s), <<Sid(r, s)>>),
                        {e}, reply \o Burst(s, r)), overridden)
    /\ UNCHANGED counts

-----------------------------------------------------------------------------
(* Lines from a linked server *)

\* parse, remove_unknown: a prefix s does not know is squit at the peer.
UnknownSource(e) ==
    /\ Arrives(e, "sid")
    /\ Line(e).source \notin Known(e[2]) \cup {e[2]}
    /\ wire' = Sent(Parsed(e), {e}, <<Squit(Line(e).source)>>)
    /\ UNCHANGED <<tree, status, counts>>

\* parse, cancel_clients: a prefix that belongs behind another link, or is
\* s itself, is ignored.
WrongDirection(e) ==
    LET s == e[2] IN
    /\ Arrives(e, "sid")
    /\ Line(e).source \in Known(s) \cup {s}
    /\ Line(e).source = s \/ tree[s].from[Line(e).source] # Peer(e)
    /\ wire' = Parsed(e)
    /\ UNCHANGED <<tree, status, counts>>

\* (mutant of Introduction: the direction is not looked at)
IntroductionAnyway(e) ==
    /\ Arrives(e, "sid")
    /\ Line(e).source \in Known(e[2])

\* The line is an introduction by a server that is behind this link.
Introduction(e) ==
    LET s == e[2] IN
    /\ Arrives(e, "sid")
    /\ Line(e).source \in Known(s)
    /\ tree[s].from[Line(e).source] = Peer(e)

\* ms_sid: a server s has, or s itself, breaks the link that introduces it.
ServerExists(e) ==
    LET s == e[2] IN
    /\ Introduction(e)
    /\ Line(e).server \in Known(s) \cup {s}
    /\ ExitServer(s, Peer(e), Links(s), {}, wire)
    /\ UNCHANGED counts

\* ms_sid: the peer is not allowed to introduce servers, and what is exited
\* is the server the line comes from.
NoHubMask(e) ==
    LET s == e[2]
        m == Line(e)
    IN
    /\ Introduction(e)
    /\ m.server \notin Known(s) \cup {s}
    /\ Peer(e) \in config.leaves
    /\ ExitServer(s, m.source, Links(s), InProgress(s, m.server), Parsed(e))
    /\ UNCHANGED counts

\* ms_sid
Introduce(e) ==
    LET s == e[2]
        r == Peer(e)
        m == Line(e)
        overridden == InProgress(s, m.server)
    IN
    /\ Introduction(e)
    /\ m.server \notin Known(s) \cup {s}
    /\ r \notin config.leaves
    /\ tree' = [tree EXCEPT ![s] = With(@, m.server, m.source, r)]
    /\ Closed(overridden)
    /\ wire' = Cut(Sent(Parsed(e), Links(s) \ {e}, <<m>>), overridden)
    /\ UNCHANGED counts

\* (mutant of SquitMisses: the SQUIT is sent back)
SquitBounces(e) ==
    /\ Arrives(e, "squit")
    /\ Line(e).server \notin Known(e[2])
    /\ wire' = Sent(Parsed(e), {e}, <<Line(e)>>)
    /\ UNCHANGED <<tree, status, counts>>

\* ms_squit of a server s does not have, or of s itself.
SquitMisses(e) ==
    /\ Arrives(e, "squit")
    /\ Line(e).server \notin Known(e[2])
    /\ wire' = Parsed(e)
    /\ UNCHANGED <<tree, status, counts>>

\* ms_squit: the server may be behind any link; the SQUIT is relayed.
RemoteSquit(e) ==
    LET s == e[2] IN
    /\ Arrives(e, "squit")
    /\ Line(e).server \in Known(s)
    /\ ExitServer(s, Line(e).server, Links(s) \ {e}, {}, Parsed(e))
    /\ UNCHANGED counts

-----------------------------------------------------------------------------
(* Taking down *)

\* mo_squit by a local operator with the "remote" privilege.
OperSquit(s, x) ==
    /\ breaks + squits < MaxBreaks
    /\ s \in config.opers
    /\ x \in Known(s)
    /\ ExitServer(s, x, Links(s), {}, wire)
    /\ squits' = squits + 1
    /\ UNCHANGED <<connects, breaks, config>>

\* One end is exited: a read or write error, a ping timeout, the end of file
\* once the other end is closed.
Lose(e) ==
    LET s == e[2] IN
    /\ status[e] # "none"
    /\ IF status[Other(e)] = "none" THEN breaks' = breaks
       ELSE config.lossy /\ breaks + squits < MaxBreaks /\ breaks' = breaks + 1
    /\ IF status[e] = "server"
       THEN ExitServer(s, Peer(e), Links(s), {}, wire)
       ELSE Closed({e}) /\ wire' = Cut(wire, {e}) /\ UNCHANGED tree
    /\ UNCHANGED <<connects, squits, config>>

-----------------------------------------------------------------------------
Init ==
    /\ tree = [s \in Servers |-> [list |-> <<>>,
                                  servptr |-> [x \in Servers |-> NoServer],
                                  from |-> [x \in Servers |-> NoServer],
                                  dep_servers |-> [x \in Servers |-> 0]]]
    /\ status = [e \in Ends |-> "none"]
    /\ wire = [e \in Ends |-> <<>>]
    /\ connects = 0
    /\ breaks = 0
    /\ squits = 0
    /\ config \in Configs

Parse(e) ==
    \/ ServerRejected(e)
    \/ LeafRejects(e)
    \/ Establish(e)
    \/ UnknownSource(e)
    \/ WrongDirection(e)
    \/ ServerExists(e)
    \/ NoHubMask(e)
    \/ Introduce(e)
    \/ SquitMisses(e)
    \/ RemoteSquit(e)

Next ==
    \/ \E c \in Connects : Connect(c)
    \/ \E e \in Ends : Parse(e) \/ Lose(e)
    \/ \E s, x \in Servers : OperSquit(s, x)

\* A line or the end of file is read.
Served(e) == Parse(e) \/ (status[Other(e)] = "none" /\ Lose(e))

\* The event loops go on: some connection that has a line to read, or has
\* been closed by the peer, is served in the end.
Fairness == WF_vars(\E e \in Ends : Served(e))

Spec == Init /\ [][Next]_vars
FairSpec == Spec /\ Fairness

-----------------------------------------------------------------------------
(* Properties *)

\* global_serv_list and the servptr chains are one tree rooted at the server
\* itself: each server is once on the list, after the one that introduced it,
\* and behind a link that is up, the same one as its introducer.
TreeRooted ==
    \A s \in Servers :
        LET T == tree[s] IN
        /\ {T.list[i] : i \in DOMAIN T.list} = Known(s)
        /\ Cardinality(Known(s)) = Len(T.list)
        /\ \A i \in DOMAIN T.list :
             LET x == T.list[i] IN
             IF T.servptr[x] = s
             THEN T.from[x] = x /\ \E e \in Links(s) : Peer(e) = x
             ELSE /\ T.from[x] = T.from[T.servptr[x]]
                  /\ \E j \in 1 .. i - 1 : T.list[j] = T.servptr[x]

\* No server ever has two links to one other, whatever connections cross.
OneLink ==
    \A s \in Servers : \A e, f \in Links(s) : Peer(e) = Peer(f) => e = f

\* dep_servers of a link counts the servers behind it: what exit_one_client
\* and recurse_remove_clients assert while a part of the network goes.
DependentsCounted ==
    \A s \in Servers : \A r \in Servers :
        tree[s].dep_servers[r] = Cardinality({x \in Known(s) : tree[s].from[x] = r})

\* What a server knows of the network is one tree, with one link to each
\* neighbour and the counts of what is behind it (make_server, server_estab,
\* exit_one_client).
TreeKept == TreeRooted /\ OneLink /\ DependentsCounted

Quiet == \A e \in Ends :
    wire[e] = <<>> /\ status[e] \in {"none", "server"} /\ status[e] = status[Other(e)]

\* All servers of a part of the network have the same servers, joined by the
\* links that are up and by no others.
Whole ==
    \A s \in Servers :
        /\ \A e \in Links(s) : Known(s) \cup {s} = Known(Peer(e)) \cup {Peer(e)}
        /\ \A x \in Known(s) :
             \E e \in Links(x) : Peer(e) = tree[s].servptr[x]

\* Once nothing is on the wire the network is whole, whatever introductions,
\* lost links and connections crossed, and whichever loop was broken where.
TreesAgree == squits = 0 /\ Quiet => Whole

\* (not so) The same when operators SQUIT: remove_dependents sends "all
\* necessary QUITs and SQUITs".  A SQUIT that crosses the introduction of the
\* server is obeyed for the newer one, and not sent back where it came from.
NoGhostServers == Quiet => Whole

\* The links settle: breaking a loop does not go round for ever.
Settles == <>[]Quiet

=============================================================================
