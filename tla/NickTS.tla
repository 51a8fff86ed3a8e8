------------------------------- MODULE NickTS -------------------------------
(***************************************************************************)
(* How a tree of ircd servers agrees on who owns a nickname.               *)
(*                                                                         *)
(* Every server keeps a table of the users it knows, hashed by nickname;   *)
(* users claim nicknames on their own server, the claim is flooded over    *)
(* FIFO links, and each server that meets two claims to one nickname       *)
(* decides alone, from the timestamps and the user@hosts, who is killed    *)
(* (modules/core/m_nick.c).  KILL, QUIT and SQUIT travel on the same       *)
(* links; links split and are joined again with a burst.                   *)
(*                                                                         *)
(* One action is one handler run of the event loop on one server, with     *)
(* everything it sends.  TS6 says whether users are named by UID on the    *)
(* links, or by their current nickname as between TS5 servers.             *)
(***************************************************************************)
EXTENDS Naturals, Sequences, FiniteSets

CONSTANTS
    Servers, Users, Nicks,
    NoNick,         \* the nickname of a user a server does not know
    NoUser,         \* whowas entry whose client has gone
    Home,           \* Home[u]: the server u connects to
    Host,           \* Host[u]: the user@host of u, for the "same user" test
    Route,          \* Route[s][x]: neighbour of s towards x, s itself if x = s
    TS6,            \* links name users by UID (TRUE) or by nickname (FALSE)
    MaxTS,          \* bound on CurrentTime
    MaxClaims,      \* bound on the NICK commands of all users together
    MaxSplits       \* bound on the links lost

ASSUME ConstantsAssumption ==
    /\ IsFiniteSet(Servers) /\ IsFiniteSet(Users)
    /\ NoNick \notin Nicks
    /\ NoUser \notin Users
    /\ Users \cap Nicks = {}
    /\ Home \in [Users -> Servers]
    /\ Route \in [Servers -> [Servers -> Servers]]
    /\ TS6 \in BOOLEAN
    /\ MaxTS \in Nat \ {0}
    /\ MaxClaims \in Nat
    /\ MaxSplits \in Nat

Neighbours(s) == {t \in Servers \ {s} : \E x \in Servers : Route[s][x] = t}

\* The servers s reaches through its neighbour t.
Behind(s, t) == {x \in Servers : Route[s][x] = t}

Edges == {e \in Servers \X Servers : e[2] \in Neighbours(e[1])}

\* The routes are those of a tree: every server has a way to every other, and
\* cutting an edge leaves two sides.
ASSUME TreeAssumption ==
    /\ \A s, x \in Servers : Route[s][x] = s <=> x = s
    /\ \A e \in Edges :
         /\ <<e[2], e[1]>> \in Edges
         /\ Behind(e[1], e[2]) \cup Behind(e[2], e[1]) = Servers
         /\ Behind(e[1], e[2]) \cap Behind(e[2], e[1]) = {}

VARIABLES
    srv,        \* srv[s]: the client table and whowas of s
    unreg,      \* local clients with a nickname that have not registered yet
    fate,       \* fate[u]: what has become of u's connection
    clock,      \* clock[s]: the latest CurrentTime s has stamped a nickname with
    up,         \* up[s]: the servers on serv_list of s
    chan,       \* chan[<<s, t>>]: lines s has sent and t has not parsed
    claims,     \* every claim a user ever made (history variable)
    splits      \* links lost so far (bound)

vars == <<srv, unreg, fate, clock, up, chan, claims, splits>>

-----------------------------------------------------------------------------
(* Types *)

TSs == 1 .. MaxTS

Refs == Users \cup Nicks

\* A user with a nickname has the time it got it, tsinfo; one without, 0.
Table == {L \in [nick : [Users -> Nicks \cup {NoNick}],
                 ts   : [Users -> 0 .. MaxTS],
                 hist : [Nicks -> Users \cup {NoUser}]] :
            \A u \in Users : L.nick[u] # NoNick => L.ts[u] \in TSs}

Messages ==
         [type : {"uid"}, user : Users, nick : Nicks, ts : TSs]
    \cup [type : {"nick"}, who : Refs, nick : Nicks, ts : TSs]
    \cup [type : {"quit", "kill"}, who : Refs]
    \cup [type : {"squit"}, edge : Edges]

Claims == [user : Users, nick : Nicks, ts : TSs]

TypeOK ==
    /\ srv \in [Servers -> Table]
    /\ unreg \subseteq Users
    /\ fate \in [Users -> {"connected", "quit", "killed", "overridden"}]
    /\ clock \in [Servers -> TSs]
    /\ up \in [Servers -> SUBSET Servers]
    /\ chan \in [Edges -> Seq(Messages)]
    /\ claims \subseteq Claims
    /\ splits \in Nat

-----------------------------------------------------------------------------
(* One server's table: find_client, find_person, get_history, exit_client   *)

Known(s) == {u \in Users : srv[s].nick[u] # NoNick}

\* (mutant of Holders: unregistered clients are not looked at)
HoldersRegistered(s, n) == {u \in Known(s) \ unreg : srv[s].nick[u] = n}

\* find_client: whoever holds n, registered or not.
Holders(s, n) == {u \in Users : srv[s].nick[u] = n}

\* ID_or_name: how a line names u, from the table L of the sending server.
Ref(L, u) == IF TS6 THEN u ELSE L.nick[u]

\* find_person: the registered users a name on a link stands for.
Found(s, ref) == {u \in Known(s) \ unreg : Ref(srv[s], u) = ref}

\* The link u is behind, as seen from s: u->from.
From(s, u) == Route[s][Home[u]]

\* (mutant of Without: off_history is forgotten)
WithoutStale(L, X) ==
    [L EXCEPT !.nick = [u \in Users |-> IF u \in X THEN NoNick ELSE @[u]],
              !.ts = [u \in Users |-> IF u \in X THEN 0 ELSE @[u]]]

\* exit_one_client for every user of X: out of the hash tables, and out of
\* whowas as somebody a KILL may be chased to.
Without(L, X) ==
    [nick |-> [u \in Users |-> IF u \in X THEN NoNick ELSE L.nick[u]],
     ts   |-> [u \in Users |-> IF u \in X THEN 0 ELSE L.ts[u]],
     hist |-> [n \in Nicks |->
                 IF L.hist[n] \in X \/ \E u \in X \ unreg : L.nick[u] = n
                 THEN NoUser ELSE L.hist[n]]]

\* (mutant of Introduced: tsinfo is not set)
IntroducedUnstamped(L, u, n, t) == [L EXCEPT !.nick[u] = n]

\* A new user enters the hash under nickname n.
Introduced(L, u, n, t) ==
    [nick |-> [L.nick EXCEPT ![u] = n],
     ts   |-> [L.ts EXCEPT ![u] = t],
     hist |-> L.hist]

\* A known user changes its nickname; add_history keeps the old one.
Renamed(L, u, n, t) ==
    [nick |-> [L.nick EXCEPT ![u] = n],
     ts   |-> [L.ts EXCEPT ![u] = t],
     hist |-> [L.hist EXCEPT ![L.nick[u]] = u]]

\* The local clients of X end: an unregistered one is "Overridden".
Exited(s, X) ==
    /\ unreg' = unreg \ X
    /\ fate' = [u \in Users |->
                  IF u \in X /\ Home[u] = s
                  THEN IF u \in unreg THEN "overridden" ELSE "killed"
                  ELSE fate[u]]

-----------------------------------------------------------------------------
(* Sending *)

Uid(u, n, t)    == [type |-> "uid", user |-> u, nick |-> n, ts |-> t]
Nick(ref, n, t) == [type |-> "nick", who |-> ref, nick |-> n, ts |-> t]
Quit(ref)       == [type |-> "quit", who |-> ref]
Kill(ref)       == [type |-> "kill", who |-> ref]
Squit(s, t)     == [type |-> "squit", edge |-> <<s, t>>]

\* Links whose two ends are both open: what is written to another is lost.
Open(s) == {t \in up[s] : s \in up[t]}

\* (mutant of Sent: lines overtake those already queued)
SentFirst(ch, s, To, msgs) ==
    [e \in Edges |-> IF e[1] = s /\ e[2] \in To \cap Open(s)
                     THEN msgs \o ch[e] ELSE ch[e]]

\* ch after s has sent the lines msgs, in order, to each server of To.
Sent(ch, s, To, msgs) ==
    [e \in Edges |-> IF e[1] = s /\ e[2] \in To \cap Open(s)
                     THEN ch[e] \o msgs ELSE ch[e]]

\* The channels once s has parsed the line at the head of its link from r.
Parsed(r, s) == [chan EXCEPT ![<<r, s>>] = Tail(@)]

\* The servers a handler reaches with "all servers but the link from r".
Others(s, r) == up[s] \ {r}

-----------------------------------------------------------------------------
(* Commands of local clients *)

\* A nickname for u is stamped with the CurrentTime of its server.
Claim(u, n, t) ==
    /\ Cardinality(claims) < MaxClaims
    /\ t \in clock[Home[u]] .. MaxTS
    /\ [user |-> u, nick |-> n, ts |-> t] \notin claims
    /\ clock' = [clock EXCEPT ![Home[u]] = t]
    /\ claims' = claims \cup {[user |-> u, nick |-> n, ts |-> t]}

\* NICK before registration: mr_nick and set_initial_nick.
SetInitialNick(u, n, t) ==
    LET s == Home[u] IN
    /\ fate[u] = "connected"
    /\ u \in unreg \/ u \notin Known(s)
    /\ Holders(s, n) = {}
    /\ Claim(u, n, t)
    /\ srv' = [srv EXCEPT ![s] = Introduced(srv[s], u, n, t)]
    /\ unreg' = unreg \cup {u}
    /\ UNCHANGED <<fate, up, chan, splits>>

\* USER after NICK: register_local_user and introduce_client.
Register(u) ==
    LET s == Home[u] IN
    /\ u \in Known(s) \cap unreg
    /\ unreg' = unreg \ {u}
    /\ chan' = Sent(chan, s, up[s], <<Uid(u, srv[s].nick[u], srv[s].ts[u])>>)
    /\ UNCHANGED <<srv, fate, clock, up, claims, splits>>

\* NICK of a registered user: m_nick and change_local_nick.  An unregistered
\* client that has the nickname is dropped, any other keeps it.
ChangeNick(u, n, t) ==
    LET s == Home[u] IN
    /\ fate[u] = "connected"
    /\ u \in Known(s) \ unreg
    /\ Holders(s, n) \subseteq unreg
    /\ Claim(u, n, t)
    /\ srv' = [srv EXCEPT
                 ![s] = Renamed(Without(srv[s], Holders(s, n)), u, n, t)]
    /\ Exited(s, Holders(s, n))
    /\ chan' = Sent(chan, s, up[s], <<Nick(Ref(srv[s], u), n, t)>>)
    /\ UNCHANGED <<up, splits>>

\* A local client quits or its connection is lost: exit_client.
Disconnect(u) ==
    LET s == Home[u] IN
    /\ u \in Known(s)
    /\ srv' = [srv EXCEPT ![s] = Without(srv[s], {u})]
    /\ unreg' = unreg \ {u}
    /\ fate' = [fate EXCEPT ![u] = "quit"]
    /\ chan' = IF u \in unreg THEN chan
               ELSE Sent(chan, s, up[s], <<Quit(Ref(srv[s], u))>>)
    /\ UNCHANGED <<clock, up, claims, splits>>

-----------------------------------------------------------------------------
(* Lines from a linked server r, parsed by s *)

Arrives(r, s, type) ==
    /\ r \in up[s]
    /\ chan[<<r, s>>] # <<>>
    /\ chan[<<r, s>>][1].type = type

Line(r, s) == chan[<<r, s>>][1]

\* (mutant of Loses: user@host is not compared)
LosesByAge(u, t, v, t2) == t > t2

\* Whether a claim at t loses to one at t2: the younger of two different
\* users, the older of two connections of the same user.
Loses(u, t, v, t2) == IF Host[u] = Host[v] THEN t < t2 ELSE t > t2

\* s exits the users of X; the lines sent tell the other servers.
Collide(s, X) == Exited(s, X) /\ UNCHANGED <<clock, up, claims, splits>>

\* The line introduces a user, whose UID is not in the ID hash.
NewUser(r, s) == Arrives(r, s, "uid") /\ ~(TS6 /\ Line(r, s).user \in Known(s))

\* A UID in the ID hash: its user is killed everywhere, the new one ignored.
\* Otherwise the nickname is free, or held by an unregistered client, which
\* is exited.
IntroduceUser(r, s) ==
    LET m == Line(r, s)
        old == Holders(s, m.nick)
    IN
    /\ Arrives(r, s, "uid")
    /\ IF NewUser(r, s)
       THEN /\ old \subseteq unreg
            /\ srv' = [srv EXCEPT ![s] = Introduced(Without(srv[s], old),
                                                    m.user, m.nick, m.ts)]
            /\ chan' = Sent(Parsed(r, s), s, Others(s, r), <<m>>)
            /\ Collide(s, old)
       ELSE /\ srv' = [srv EXCEPT ![s] = Without(srv[s], {m.user})]
            /\ chan' = Sent(Parsed(r, s), s, up[s], <<Kill(m.user)>>)
            /\ Collide(s, {m.user})

\* Equal timestamps: both users go.
IntroductionKillsBoth(r, s) ==
    LET m == Line(r, s) IN
    /\ NewUser(r, s)
    /\ \E a \in Holders(s, m.nick) \ unreg :
         /\ m.ts = srv[s].ts[a]
         /\ srv' = [srv EXCEPT ![s] = Without(srv[s], {a})]
         /\ chan' = Sent(IF TS6 THEN Sent(Parsed(r, s), s, {r}, <<Kill(m.user)>>)
                         ELSE Parsed(r, s),
                         s, up[s], <<Kill(Ref(srv[s], a))>>)
         /\ Collide(s, {a})

\* The new user loses: it is ignored, and killed at the server that sent it
\* if it has a UID to be named by.
IntroductionLoses(r, s) ==
    LET m == Line(r, s) IN
    /\ NewUser(r, s)
    /\ \E a \in Holders(s, m.nick) \ unreg : Loses(m.user, m.ts, a, srv[s].ts[a])
    /\ chan' = IF TS6 THEN Sent(Parsed(r, s), s, {r}, <<Kill(m.user)>>)
               ELSE Parsed(r, s)
    /\ UNCHANGED srv
    /\ Collide(s, {})

\* The user that has the nickname loses: killed everywhere but at r.
IntroductionWins(r, s) ==
    LET m == Line(r, s) IN
    /\ NewUser(r, s)
    /\ \E a \in Holders(s, m.nick) \ unreg :
         /\ Loses(a, srv[s].ts[a], m.user, m.ts)
         /\ srv' = [srv EXCEPT
                      ![s] = Introduced(Without(srv[s], {a}),
                                        m.user, m.nick, m.ts)]
         /\ chan' = Sent(Parsed(r, s), s, Others(s, r),
                         <<Kill(Ref(srv[s], a)), m>>)
         /\ Collide(s, {a})

\* parse: a prefix s cannot find is killed at the server that used it.
UnknownPrefix(r, s) ==
    /\ Arrives(r, s, "nick") \/ Arrives(r, s, "quit")
    /\ Found(s, Line(r, s).who) = {}
    /\ chan' = Sent(Parsed(r, s), s, {r}, <<Kill(Line(r, s).who)>>)
    /\ UNCHANGED <<srv, unreg, fate, clock, up, claims, splits>>

\* parse: a prefix that belongs behind another link is ignored.
WrongDirection(r, s) ==
    /\ Arrives(r, s, "nick") \/ Arrives(r, s, "quit")
    /\ \E u \in Found(s, Line(r, s).who) : From(s, u) # r
    /\ chan' = Parsed(r, s)
    /\ UNCHANGED <<srv, unreg, fate, clock, up, claims, splits>>

\* The user of a NICK or QUIT line that parse accepts.
Source(r, s, type) ==
    {u \in Users : Arrives(r, s, type)
                   /\ u \in Found(s, Line(r, s).who) /\ From(s, u) = r}

\* A NICK line for a nickname that is free, or held by an unregistered
\* client, which is exited.
RemoteRename(r, s) ==
    LET m == Line(r, s)
        old == Holders(s, m.nick)
    IN
    \E u \in Source(r, s, "nick") :
      /\ old \subseteq unreg
      /\ srv' = [srv EXCEPT
                   ![s] = Renamed(Without(srv[s], old), u, m.nick, m.ts)]
      /\ chan' = Sent(Parsed(r, s), s, Others(s, r),
                      <<Nick(Ref(srv[s], u), m.nick, m.ts)>>)
      /\ Collide(s, old)

RenameKillsBoth(r, s) ==
    LET m == Line(r, s) IN
    \E u \in Source(r, s, "nick") : \E a \in Holders(s, m.nick) \ unreg :
      /\ a # u
      /\ m.ts = srv[s].ts[a]
      /\ srv' = [srv EXCEPT ![s] = Without(srv[s], {u, a})]
      /\ chan' = Sent(Parsed(r, s), s, up[s],
                      <<Kill(Ref(srv[s], u)), Kill(Ref(srv[s], a))>>)
      /\ Collide(s, {u, a})

\* The user changing nickname loses: killed everywhere but at r.
RenameLoses(r, s) ==
    LET m == Line(r, s) IN
    \E u \in Source(r, s, "nick") : \E a \in Holders(s, m.nick) \ unreg :
      /\ a # u
      /\ Loses(u, m.ts, a, srv[s].ts[a])
      /\ srv' = [srv EXCEPT ![s] = Without(srv[s], {u})]
      /\ chan' = Sent(Parsed(r, s), s, Others(s, r), <<Kill(Ref(srv[s], u))>>)
      /\ Collide(s, {u})

RenameWins(r, s) ==
    LET m == Line(r, s) IN
    \E u \in Source(r, s, "nick") : \E a \in Holders(s, m.nick) \ unreg :
      /\ a # u
      /\ Loses(a, srv[s].ts[a], u, m.ts)
      /\ srv' = [srv EXCEPT
                   ![s] = Renamed(Without(srv[s], {a}), u, m.nick, m.ts)]
      /\ chan' = Sent(Parsed(r, s), s, Others(s, r),
                      <<Kill(Ref(srv[s], a)),
                        Nick(Ref(srv[s], u), m.nick, m.ts)>>)
      /\ Collide(s, {a})

\* ms_quit and exit_client, which sends the QUIT on every link, the one it
\* came from included: sendto_server(NULL, ...).
RemoteQuit(r, s) ==
    \E u \in Source(r, s, "quit") :
      /\ srv' = [srv EXCEPT ![s] = Without(srv[s], {u})]
      /\ chan' = Sent(Parsed(r, s), s, up[s], <<Quit(Ref(srv[s], u))>>)
      /\ UNCHANGED <<unreg, fate, clock, up, claims, splits>>

\* The victim of a KILL: a nickname nobody has is chased to the user who
\* left it last, a UID never.
Victims(s, ref) ==
    IF Found(s, ref) # {} THEN Found(s, ref)
    ELSE IF ref \in Nicks THEN {srv[s].hist[ref]} \ {NoUser} ELSE {}

\* ms_kill and relay_kill.
RemoteKill(r, s) ==
    /\ Arrives(r, s, "kill")
    /\ \E u \in Victims(s, Line(r, s).who) :
         /\ srv' = [srv EXCEPT ![s] = Without(srv[s], {u})]
         /\ chan' = Sent(Parsed(r, s), s, Others(s, r), <<Kill(Ref(srv[s], u))>>)
         /\ Collide(s, {u})

\* (mutant of KillMisses: the KILL is sent back)
KillBounces(r, s) ==
    /\ Arrives(r, s, "kill")
    /\ Victims(s, Line(r, s).who) = {}
    /\ chan' = Sent(Parsed(r, s), s, {r}, <<Line(r, s)>>)
    /\ UNCHANGED <<srv, unreg, fate, clock, up, claims, splits>>

\* ms_kill: nobody to kill.
KillMisses(r, s) ==
    /\ Arrives(r, s, "kill")
    /\ Victims(s, Line(r, s).who) = {}
    /\ chan' = Parsed(r, s)
    /\ UNCHANGED <<srv, unreg, fate, clock, up, claims, splits>>

\* (mutant of RemoteSquit: the users behind the edge stay)
RemoteSquitKeeps(r, s) ==
    /\ Arrives(r, s, "squit")
    /\ chan' = Sent(Parsed(r, s), s, Others(s, r), <<Line(r, s)>>)
    /\ UNCHANGED <<srv, unreg, fate, clock, up, claims, splits>>

\* ms_squit and remove_dependents: everybody behind the lost edge goes.
RemoteSquit(r, s) ==
    LET e == Line(r, s).edge
        lost == {u \in Known(s) : Home[u] \in Behind(e[1], e[2])}
    IN
    /\ Arrives(r, s, "squit")
    /\ srv' = [srv EXCEPT ![s] = Without(srv[s], lost)]
    /\ chan' = Sent(Parsed(r, s), s, Others(s, r), <<Line(r, s)>>)
    /\ UNCHANGED <<unreg, fate, clock, up, claims, splits>>

-----------------------------------------------------------------------------
(* Links *)

\* One end of a link closes it: a read or write error, a ping timeout, a
\* SQUIT.  Lines it has not parsed are lost; the other end may still read
\* what was sent before, and notices later.
LoseLink(s, t) ==
    /\ t \in up[s]
    /\ IF s \in up[t] THEN splits < MaxSplits /\ splits' = splits + 1
       ELSE splits' = splits
    /\ up' = [up EXCEPT ![s] = @ \ {t}]
    /\ srv' = [srv EXCEPT ![s] = Without(srv[s],
                          {u \in Known(s) : Home[u] \in Behind(s, t)})]
    /\ chan' = Sent([chan EXCEPT ![<<t, s>>] = <<>>],
                    s, up[s] \ {t}, <<Squit(s, t)>>)
    /\ UNCHANGED <<unreg, fate, clock, claims>>

\* The registered users s has, in any order: burst_all and sendnick_TS.
Bursts(s) ==
    LET known == Known(s) \ unreg IN
    {[i \in 1 .. Cardinality(known) |->
         Uid(b[i], srv[s].nick[b[i]], srv[s].ts[b[i]])] :
       b \in {f \in [1 .. Cardinality(known) -> known] :
                \A i, j \in 1 .. Cardinality(known) : f[i] = f[j] => i = j}}

\* server_estab on both ends: each puts the other on serv_list and bursts.
Link(s, t) ==
    /\ t \notin up[s] /\ s \notin up[t]
    /\ up' = [up EXCEPT ![s] = @ \cup {t}, ![t] = @ \cup {s}]
    /\ \E b \in Bursts(s), c \in Bursts(t) :
         chan' = [chan EXCEPT ![<<s, t>>] = b, ![<<t, s>>] = c]
    /\ UNCHANGED <<srv, unreg, fate, clock, claims, splits>>

-----------------------------------------------------------------------------
Init ==
    /\ srv = [s \in Servers |-> [nick |-> [u \in Users |-> NoNick],
                                 ts   |-> [u \in Users |-> 0],
                                 hist |-> [n \in Nicks |-> NoUser]]]
    /\ unreg = {}
    /\ fate = [u \in Users |-> "connected"]
    /\ clock = [s \in Servers |-> 1]
    /\ up = [s \in Servers |-> {}]
    /\ chan = [e \in Edges |-> <<>>]
    /\ claims = {}
    /\ splits = 0

\* Parsing a line a linked server sent.
Parse(r, s) ==
    \/ IntroduceUser(r, s)
    \/ IntroductionKillsBoth(r, s)
    \/ IntroductionLoses(r, s)
    \/ IntroductionWins(r, s)
    \/ UnknownPrefix(r, s)
    \/ WrongDirection(r, s)
    \/ RemoteRename(r, s)
    \/ RenameKillsBoth(r, s)
    \/ RenameLoses(r, s)
    \/ RenameWins(r, s)
    \/ RemoteQuit(r, s)
    \/ RemoteKill(r, s)
    \/ KillMisses(r, s)
    \/ RemoteSquit(r, s)

Next ==
    \/ \E u \in Users, n \in Nicks, t \in TSs :
         SetInitialNick(u, n, t) \/ ChangeNick(u, n, t)
    \/ \E u \in Users : Register(u) \/ Disconnect(u)
    \/ \E r \in Servers : \E s \in Neighbours(r) :
         Parse(r, s) \/ LoseLink(r, s) \/ Link(r, s)

\* The event loop reads every connection that has data, notices a connection
\* its peer has closed, and connects to the servers it has a connect block
\* for.  Nobody has to type a command, and a link has to be lost by nobody.
Fairness ==
    \A r \in Servers : \A s \in Neighbours(r) :
        /\ WF_vars(Parse(r, s))
        /\ WF_vars(s \notin up[r] /\ LoseLink(s, r))
        /\ WF_vars(Link(r, s))

Spec == Init /\ [][Next]_vars
FairSpec == Spec /\ Fairness

-----------------------------------------------------------------------------
(* Properties *)

\* The client hash of a server never holds one nickname twice: every
\* collision decision of m_nick.c frees the nickname before hash_add_client.
NickUnique ==
    \A s \in Servers : \A u, v \in Known(s) :
        srv[s].nick[u] = srv[s].nick[v] => u = v

\* The client a whowas entry points to is one the server still has: every
\* exit clears the pointers (off_history) get_history would hand to ms_kill.
WhowasOnline ==
    \A s \in Servers, n \in Nicks :
        srv[s].hist[n] # NoUser => srv[s].hist[n] \in Known(s)

\* A UID line never names a user the server already has, whatever splits,
\* bursts and kills came before: the "ID collision" of ms_uid never happens.
NoIdCollision ==
    \A r \in Servers : \A s \in Neighbours(r) :
        Arrives(r, s, "uid") => Line(r, s).user \notin Known(s)

\* Two claims to one nickname collide; the loser is the one the timestamp
\* rules name, and on equal timestamps both lose.
Beaten(c, d) ==
    /\ c.user # d.user
    /\ c.nick = d.nick
    /\ \/ c.ts = d.ts
       \/ Host[c.user] # Host[d.user] /\ c.ts > d.ts
       \/ Host[c.user] = Host[d.user] /\ c.ts < d.ts

\* perform_nick_collides, remove_unknown and ms_kill kill nobody who did not
\* lose a collision: some claim of whoever is killed at home was beaten by
\* another user's claim.
OnlyLosersKilled ==
    \A u \in Users : fate[u] = "killed" =>
        \E c, d \in claims : c.user = u /\ Beaten(c, d)

\* Nothing is on the wire and every link is up.
Quiet ==
    \A e \in Edges : chan[e] = <<>> /\ e[2] \in up[e[1]]

Online == {u \in Users : u \in Known(Home[u]) \ unreg}

\* Once the network is quiet every server has every registered user, under
\* the nickname and timestamp the user has at home: no collision decision
\* taken on one server loses a user that the home server keeps.
OnlineKnownEverywhere ==
    Quiet => \A u \in Online, s \in Servers :
               /\ srv[s].nick[u] = srv[Home[u]].nick[u]
               /\ srv[s].ts[u] = srv[Home[u]].ts[u]

\* A user is introduced once to every server and stays known there (ms_uid,
\* sendnick_TS).
KnownOnce == NoIdCollision /\ OnlineKnownEverywhere

\* Once the network is quiet no server has a user that is not registered at
\* home: the KILLs of a collision reach every server that has the loser.
NoGhosts ==
    Quiet => \A s \in Servers : Known(s) \ unreg \subseteq Online

\* A server never sets back the timestamp of a user it keeps: NICK and UID
\* lines about a user are never applied in another order than they were sent.
TSNeverGoesBack ==
    [][\A s \in Servers : \A u \in Known(s) :
         srv'[s].nick[u] # NoNick => srv'[s].ts[u] >= srv[s].ts[u]]_vars

\* The lines the network answers lines with (KILL for an unknown prefix, the
\* QUIT sent back, KILLs crossing) die out: the links drain for good once
\* the users are silent and no more links are lost.
LinksDrain == <>[](\A e \in Edges : chan[e] = <<>>)

=============================================================================
