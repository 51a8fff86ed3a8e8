----------------------------- MODULE Connections -----------------------------
(***************************************************************************)
(* Local connections from accept or connect to free_client, under the      *)
(* single-threaded event loop of src/ircd.c.                               *)
(*                                                                         *)
(* A new connection is not read until its DNS and ident queries are over   *)
(* (src/s_auth.c, src/irc_res.c).  A failed write only marks it dead and   *)
(* puts it on abort_list; exit_client takes it off every list and puts it  *)
(* on dead_list; the loop exits the aborted ones and frees the dead ones   *)
(* between two rounds of handlers (src/client.c).  Pointers to the client  *)
(* and to its AuthRequest are all over these lists: freeing either while   *)
(* one is left is what must not happen.                                    *)
(*                                                                         *)
(* One action is one run of a handler or timer.  When a timer expires is   *)
(* not modelled: one that is set may fire in any round.                    *)
(***************************************************************************)
EXTENDS Naturals, Sequences

CONSTANTS
    Conns,          \* the connections there ever are
    MaxRetries      \* queries a resolver request makes: reslist.retries

ASSUME RetriesAssumption == MaxRetries \in Nat \ {0}

VARIABLES
    phase,          \* where io_loop is
    conn,           \* conn[c]: struct Client, LocalUser and AuthRequest of c
    abort_list      \* connections a write to which has failed

vars == <<phase, conn, abort_list>>

-----------------------------------------------------------------------------
(* A connection *)

Statuses ==
    {"none", "unknown", "connecting", "handshake", "server", "client", "freed"}

Lists == {"unknown_list", "serv_list", "local_client_list"}

Conn == [status  : Statuses,
         flags   : SUBSET {"dead", "closing"},
         open    : BOOLEAN,                     \* the socket
         lists   : SUBSET Lists,
         links   : Nat,                         \* times on global_client_list
         deads   : Nat,                         \* times on dead_list
         auth    : BOOLEAN,                     \* an AuthRequest is allocated
         doing   : SUBSET {"dns", "ident"},     \* auth_doing_..._list
         query   : {"none", "ptr", "a"},        \* its request of the resolver
         retries : 0 .. MaxRetries]

NoConn == [status |-> "none", flags |-> {}, open |-> FALSE, lists |-> {},
           links |-> 0, deads |-> 0, auth |-> FALSE, doing |-> {},
           query |-> "none", retries |-> 0]

\* make_client(NULL) and the socket it is given.
NewConn == [NoConn EXCEPT !.status = "unknown", !.lists = {"unknown_list"},
                          !.open = TRUE]

Allocated(k) == k.status \notin {"none", "freed"}

Defunct(k) == k.flags # {}

\* SetDNSPending, make_request.
Asked(k, type) == [k EXCEPT !.query = type, !.retries = MaxRetries]

\* rem_request.
Unasked(k) == [k EXCEPT !.query = "none", !.retries = 0]

\* delete_auth: the requests the lists lead to are cancelled and freed.
DeleteAuth(k) ==
    IF k.status # "unknown" \/ k.doing = {} THEN k
    ELSE [(IF "dns" \in k.doing THEN Unasked(k) ELSE k)
            EXCEPT !.auth = FALSE, !.doing = {}]

\* (mutant of FdClose: the name a connect waits for is still looked up)
FdCloseKeepsQuery(k) == [k EXCEPT !.open = FALSE]

\* fd_close: the query of comm_connect_tcp goes with the socket.
FdClose(k) == [(IF k.status = "connecting" THEN Unasked(k) ELSE k)
                 EXCEPT !.open = FALSE]

\* The lists exit_client looks for a connection on.
ListsOf(status) ==
    CASE status = "client" -> {"local_client_list"}
      [] status = "server" -> {"serv_list"}
      [] status \in {"connecting", "handshake"} -> {"unknown_list", "serv_list"}
      [] OTHER -> {"unknown_list"}

\* (mutant of Exit: IsClosing is not looked at)
ExitAgain(k) ==
    [FdClose(DeleteAuth(k)) EXCEPT
                          !.flags = {"closing", "dead"},
                          !.lists = @ \ ListsOf(k.status),
                          !.links = IF @ = 0 THEN 0 ELSE @ - 1,
                          !.deads = @ + 1]

\* exit_client, close_connection and exit_one_client.  Failing to send the
\* last lines has no effect: the connection is closing.
Exit(k) ==
    IF "closing" \in k.flags THEN k
    ELSE [FdClose(DeleteAuth(k)) EXCEPT
            !.flags = {"closing", "dead"},
            !.lists = @ \ ListsOf(k.status),
            !.links = IF @ = 0 THEN 0 ELSE @ - 1,
            !.deads = @ + 1]

\* (mutant of AsServer: unknown_list still has the connection)
AsServerUnknown(k) == [k EXCEPT !.status = "server", !.lists = @ \cup {"serv_list"}]

\* register_local_user and server_estab.
AsClient(k) == [k EXCEPT !.status = "client",
                         !.lists = (@ \ {"unknown_list"}) \cup {"local_client_list"}]
AsServer(k) == [k EXCEPT !.status = "server",
                         !.lists = (@ \ {"unknown_list"}) \cup {"serv_list"}]

\* What the lines in the receive queue may make of a connection that lives.
Parsed(k) ==
    {k} \cup (IF k.status = "unknown" THEN {AsClient(k), AsServer(k)} ELSE {})
        \cup (IF k.status = "handshake" THEN {AsServer(k)} ELSE {})

\* read_packet: what it finds may register the connection, and end it.
ReadPacket(k) ==
    IF Defunct(k) THEN {k} ELSE Parsed(k) \cup {Exit(r) : r \in Parsed(k)}

\* release_auth_client.
Release(k) == ReadPacket([k EXCEPT !.links = @ + 1])

\* MyFree(auth).
FreeAuth(k) == [k EXCEPT !.auth = FALSE]

\* auth_dns_callback; the resolver then removes its request.
DnsCallback(k) ==
    LET done == [Unasked(k) EXCEPT !.doing = @ \ {"dns"}] IN
    IF "ident" \in k.doing THEN {done} ELSE Release(FreeAuth(done))

\* auth_error and read_auth_reply: ident is over, with or without a name.
IdentOver(k) ==
    LET done == [k EXCEPT !.doing = @ \ {"ident"}] IN
    IF "dns" \in k.doing THEN {done} ELSE {FreeAuth(r) : r \in Release(done)}

-----------------------------------------------------------------------------
(* Handlers and timers *)

\* conn[c] becomes one of the results of a handler.
Becomes(c, results) ==
    /\ \E k \in results : conn' = [conn EXCEPT ![c] = k]
    /\ UNCHANGED <<phase, abort_list>>

\* dead_link_on_write, of a connection a handler has made k.
DeadLink(c, k) ==
    /\ conn' = [conn EXCEPT ![c] = [k EXCEPT !.flags = @ \cup {"dead"}]]
    /\ abort_list' = IF Defunct(k) THEN abort_list ELSE Append(abort_list, c)
    /\ UNCHANGED phase

Handling == phase \in {"events", "select"}

\* start_auth: ident may be off, may fail at once, or have been asked.
StartAuth(k) ==
    {[Asked(k, "ptr") EXCEPT !.auth = TRUE, !.doing = d] :
       d \in {{"dns"}, {"dns", "ident"}}}

\* add_connection.  With SSL the handshake comes first, and SSL_new may fail.
Accept(c) ==
    /\ phase = "select"
    /\ conn[c].status = "none"
    /\ Becomes(c, StartAuth(NewConn) \cup {NewConn, Exit(NewConn)})

\* ssl_handshake: done, or an error.
SslHandshake(c) ==
    /\ phase = "select"
    /\ conn[c].status = "unknown" /\ conn[c].open
    /\ ~conn[c].auth /\ conn[c].links = 0
    /\ Becomes(c, StartAuth(conn[c]) \cup {Exit(conn[c])})

\* serv_connect: no socket, no connect block, or a connect under way, which
\* may have to look up the address first.
ServConnect(c) ==
    /\ Handling
    /\ conn[c].status = "none"
    /\ LET made == [NewConn EXCEPT !.status = "connecting", !.links = 1] IN
       Becomes(c, {Exit([NewConn EXCEPT !.open = FALSE]), Exit(NewConn),
                   made, Asked(made, "a")})

\* serv_connect_callback, once: an error, no connect block any more, or PASS,
\* CAPAB and SERVER are sent.
ConnectDone(c) ==
    /\ Handling
    /\ conn[c].status = "connecting" /\ conn[c].query = "none"
    /\ ~Defunct(conn[c])
    /\ \/ DeadLink(c, conn[c])
       \/ Becomes(c, {Exit(conn[c]), [conn[c] EXCEPT !.status = "handshake"]})

\* auth_dns_callback and comm_connect_dns_callback, without an address.
NoAnswer(c) ==
    IF conn[c].auth THEN Becomes(c, DnsCallback(conn[c]))
    ELSE DeadLink(c, Unasked(conn[c]))

\* res_readreply: a name for the address is looked up in turn; no name, or
\* the address of a name, ends the query; a connect goes on with the address.
DnsReply(c) ==
    /\ phase = "select"
    /\ conn[c].query # "none"
    /\ \/ conn[c].query = "ptr" /\ Becomes(c, {Asked(conn[c], "a")})
       \/ conn[c].auth /\ Becomes(c, DnsCallback(conn[c]))
       \/ ~conn[c].auth /\ Becomes(c, {Unasked(conn[c])})
       \/ NoAnswer(c)

\* (mutant of QueryTimeout: retries is not compared)
QueryTimeoutUnbounded(c) ==
    /\ phase = "events"
    /\ conn[c].query # "none"
    /\ Becomes(c, {[conn[c] EXCEPT !.retries = @ - 1]})

\* timeout_query_list: ask again, or give up.
QueryTimeout(c) ==
    /\ phase = "events"
    /\ conn[c].query # "none"
    /\ IF conn[c].retries > 1
       THEN Becomes(c, {[conn[c] EXCEPT !.retries = @ - 1]})
       ELSE NoAnswer(c)

\* The ident server answers, refuses or cannot be reached.
IdentReply(c) ==
    /\ Handling
    /\ "ident" \in conn[c].doing
    /\ Becomes(c, IdentOver(conn[c]))

\* timeout_auth_queries_event, which looks at auth_doing_ident_list only.
AuthTimeout(c) ==
    /\ phase = "events"
    /\ "ident" \in conn[c].doing
    /\ LET done == [(IF "dns" \in conn[c].doing THEN Unasked(conn[c])
                     ELSE conn[c]) EXCEPT !.doing = {}] IN
       Becomes(c, {FreeAuth(r) : r \in Release(done)})

\* read_packet, and flood_recalc once a second.
Read(c) ==
    /\ Handling
    /\ conn[c].links > 0 /\ conn[c].open /\ conn[c].status # "connecting"
    /\ Becomes(c, ReadPacket(conn[c]))

\* (mutant of UnknownTimeout: only connections that are read time out)
UnknownTimeoutReleased(c) ==
    /\ phase = "events"
    /\ "unknown_list" \in conn[c].lists /\ conn[c].links > 0
    /\ Becomes(c, {Exit(conn[c])})

\* check_unknowns_list.
UnknownTimeout(c) ==
    /\ phase = "events"
    /\ "unknown_list" \in conn[c].lists
    /\ Becomes(c, {Exit(conn[c])})

\* Somebody else ends the connection: a ping timeout, a ban, a KILL, a SQUIT,
\* a nickname taken over.  rehash does so after the dead have been freed.
Ended(c) ==
    /\ phase # "free"
    /\ phase # "abort"
    /\ conn[c].lists # {}
    /\ Becomes(c, {Exit(conn[c])})

\* dead_link_on_write.  Every handler and timer sends, to any connection but
\* one that is not connected yet.
WriteFails(c) ==
    /\ phase # "free"
    /\ Allocated(conn[c]) /\ conn[c].status # "connecting"
    /\ ~Defunct(conn[c])
    /\ DeadLink(c, conn[c])

-----------------------------------------------------------------------------
(* io_loop *)

\* (mutant of EndRound: the dead are freed before the aborted are exited)
EndRoundFrees ==
    /\ Handling
    /\ phase' = IF phase = "events" THEN "select" ELSE "free"
    /\ UNCHANGED <<conn, abort_list>>

\* The timers that are due have run; comm_select has called its handlers.
EndRound ==
    /\ Handling
    /\ phase' = IF phase = "events" THEN "select" ELSE "abort"
    /\ UNCHANGED <<conn, abort_list>>

\* (mutant of ExitAborted: the list is emptied, nobody is exited)
ExitAbortedDrops ==
    /\ phase = "abort"
    /\ IF abort_list = <<>> THEN phase' = "free" /\ UNCHANGED abort_list
       ELSE abort_list' = Tail(abort_list) /\ UNCHANGED phase
    /\ UNCHANGED conn

\* exit_aborted_clients: one step per connection; exits append to the list.
ExitAborted ==
    /\ phase = "abort"
    /\ IF abort_list = <<>>
       THEN phase' = "free" /\ UNCHANGED <<conn, abort_list>>
       ELSE /\ conn' = [conn EXCEPT ![Head(abort_list)] = Exit(@)]
            /\ abort_list' = Tail(abort_list)
            /\ UNCHANGED phase

\* free_exited_clients.
FreeExited ==
    /\ phase = "free"
    /\ phase' = "flush"
    /\ conn' = [c \in Conns |-> IF conn[c].deads = 0 THEN conn[c]
                                ELSE [conn[c] EXCEPT !.status = "freed",
                                                     !.deads = 0]]
    /\ UNCHANGED abort_list

\* send_queued_all; rehash.
Flushed ==
    /\ phase = "flush"
    /\ phase' = "events"
    /\ UNCHANGED <<conn, abort_list>>

Init ==
    /\ phase = "events"
    /\ conn = [c \in Conns |-> NoConn]
    /\ abort_list = <<>>

Next ==
    \/ \E c \in Conns :
         \/ Accept(c) \/ SslHandshake(c) \/ ServConnect(c) \/ ConnectDone(c)
         \/ DnsReply(c) \/ QueryTimeout(c) \/ IdentReply(c) \/ AuthTimeout(c)
         \/ Read(c) \/ UnknownTimeout(c) \/ Ended(c) \/ WriteFails(c)
    \/ EndRound \/ ExitAborted \/ FreeExited \/ Flushed

\* The loop goes round, and a timer that stays set expires and is run.
\* Answers, lines and errors may never come.
LoopFairness ==
    /\ WF_vars(EndRound) /\ WF_vars(ExitAborted)
    /\ WF_vars(FreeExited) /\ WF_vars(Flushed)

TimerFairness ==
    \A c \in Conns :
        SF_vars(QueryTimeout(c)) /\ SF_vars(AuthTimeout(c)) /\ SF_vars(UnknownTimeout(c))

Spec == Init /\ [][Next]_vars
FairSpec == Spec /\ LoopFairness /\ TimerFairness

-----------------------------------------------------------------------------
(* Properties *)

TypeOK ==
    /\ phase \in {"events", "select", "abort", "free", "flush"}
    /\ conn \in [Conns -> Conn]
    /\ abort_list \in Seq(Conns)

\* Nothing leads to a connection that has been freed: it is on no list, has
\* no request of the resolver or of ident under way, and no socket that
\* comm_select or a timer would call a handler for.
NothingFreedInUse ==
    \A c \in Conns : conn[c].status = "freed" =>
        /\ conn[c].lists = {} /\ conn[c].links = 0
        /\ conn[c].doing = {} /\ conn[c].query = "none" /\ ~conn[c].open
        /\ \A i \in DOMAIN abort_list : abort_list[i] # c

\* An AuthRequest lives exactly as long as a list leads to it, and while it
\* waits for DNS exactly as long as the resolver has a request that will
\* call it back: no callback on a freed one, none that is never called.  The
\* only other requests are of connects, while they have their socket.
AuthFollowsQueries ==
    \A c \in Conns :
        /\ conn[c].auth <=> conn[c].doing # {}
        /\ "dns" \in conn[c].doing => conn[c].query # "none"
        /\ conn[c].query # "none" =>
             \/ "dns" \in conn[c].doing
             \/ conn[c].status = "connecting" /\ conn[c].open

\* A connection is put on global_client_list and read once, when its checks
\* are over ("already linked" in release_auth_client).
ReleasedOnce ==
    \A c \in Conns :
        /\ conn[c].links <= 1
        /\ conn[c].auth => conn[c].links = 0

\* exit_client runs once for a connection: it is on dead_list once, closed,
\* off the lists, with no request left (the assertions of exit_client,
\* exit_one_client and free_client).
ExitedOnce ==
    \A c \in Conns : conn[c].deads > 0 =>
        /\ conn[c].deads = 1
        /\ conn[c].flags = {"closing", "dead"}
        /\ ~conn[c].open /\ conn[c].lists = {} /\ ~conn[c].auth

\* A write error aborts a connection once ("abort_list" assertion of
\* dead_link_on_write), and when the aborted have been exited before the
\* dead are freed nobody dead is left that is not on dead_list.
AbortedOnce ==
    /\ \A i, j \in DOMAIN abort_list : abort_list[i] = abort_list[j] => i = j
    /\ phase = "free" => \A c \in Conns :
         "dead" \in conn[c].flags => conn[c].deads = 1 \/ conn[c].status = "freed"

\* A connection is handed over, aborted and exited at most once, whatever
\* meets on the way (release_auth_client, dead_link_on_write, exit_client).
EndedOnce == ReleasedOnce /\ ExitedOnce /\ AbortedOnce

\* Whoever is not being closed is on the one list its status says, where
\* ping timeouts, bans and bursts look for it.
OnItsList ==
    \A c \in Conns : Allocated(conn[c]) /\ "closing" \notin conn[c].flags =>
        conn[c].lists = CASE conn[c].status = "client" -> {"local_client_list"}
                          [] conn[c].status = "server" -> {"serv_list"}
                          [] OTHER -> {"unknown_list"}

\* A connection does not stay unregistered for ever, whatever it is waiting
\* for: SSL, a connect under way, or USER.
UnknownsEnd ==
    \A c \in Conns : conn[c].status \in {"unknown", "connecting", "handshake"}
                       ~> conn[c].status \in {"client", "server", "freed"}

\* How far a connection has come.
Life(k) ==
    CASE k.status = "none" -> "absent"
      [] k.status = "freed" -> "gone"
      [] Allocated(k) /\ Defunct(k) -> "ending"
      [] Allocated(k) /\ ~Defunct(k) /\ k.links = 0 -> "checking"
      [] OTHER -> "talking"

Abstract == INSTANCE ConnectionLife WITH life <- [c \in Conns |-> Life(conn[c])]

\* The connections keep the promises of ConnectionLife: checked, admitted
\* once, and from the first failed write or exit on only freed, once, which
\* the loop does not fail to do.
Implements == Abstract!Spec
=============================================================================
