----------------------------- MODULE ChannelTS -----------------------------
(***************************************************************************)
(* How a tree of ircd servers agrees on one channel: who is on it, who is  *)
(* an operator of it, its modes and bans.                                  *)
(*                                                                         *)
(* Every server keeps its own copy with the time the channel was made.     *)
(* When two copies meet (SJOIN in a burst, or a JOIN that crossed the end  *)
(* of the channel) the older one keeps its modes and operators and the     *)
(* younger one loses them (modules/core/m_sjoin.c, m_join.c); MODE, TMODE, *)
(* BMASK, KICK and PART travel on the same FIFO links.                     *)
(*                                                                         *)
(* One action is one handler run on one server, with all that it sends.    *)
(* The users exist throughout: a line that introduces a user goes ahead    *)
(* of every line about it on the same link, so that a server knows the     *)
(* source of each line it parses.  TS6 says whether links carry JOIN,      *)
(* TMODE and BMASK with a timestamp, or SJOIN and MODE as between TS5      *)
(* servers.                                                                *)
(***************************************************************************)
EXTENDS Naturals, Sequences, FiniteSets

CONSTANTS
    Servers, Users,
    Modes,          \* the simple modes of a channel
    NewModes,       \* those a new channel gets: +nt
    Masks,          \* the users a ban is ever set on
    Home,           \* Home[u]: the server u is connected to
    Route,          \* Route[s][x]: neighbour of s towards x, s itself if x = s
    TS6,            \* the links are TS6 (TRUE) or TS5 (FALSE)
    Commands,       \* the commands users give, besides JOIN
    MaxTS,          \* bound on CurrentTime
    MaxCommands,    \* bound on the commands of all users together
    MaxSplits       \* bound on the links lost

ASSUME ConstantsAssumption ==
    /\ IsFiniteSet(Servers)
    /\ NewModes \subseteq Modes
    /\ Masks \subseteq Users
    /\ Home \in [Users -> Servers]
    /\ Route \in [Servers -> [Servers -> Servers]]
    /\ TS6 \in BOOLEAN
    /\ Commands \subseteq {"zero", "part", "kick", "op", "mode", "ban"}
    /\ MaxTS \in Nat \ {0}
    /\ MaxCommands \in Nat
    /\ MaxSplits \in Nat

Neighbours(s) == {t \in Servers \ {s} : \E x \in Servers : Route[s][x] = t}

\* The servers s reaches through its neighbour t.
Behind(s, t) == {x \in Servers : Route[s][x] = t}

Edges == {e \in Servers \X Servers : e[2] \in Neighbours(e[1])}

\* The routes are those of a tree: every server has a way to every other, and
\* cutting an edge leaves two sides.
ASSUME TreeAssumption ==
    /\ \A s, x \in Servers : Route[s][x] = s <=> x = s
    /\ \A e \in Edges :
         /\ <<e[2], e[1]>> \in Edges
         /\ Behind(e[1], e[2]) \cup Behind(e[2], e[1]) = Servers
         /\ Behind(e[1], e[2]) \cap Behind(e[2], e[1]) = {}

VARIABLES
    srv,        \* srv[s]: the channel as s has it
    clock,      \* clock[s]: the latest CurrentTime s has stamped a channel with
    up,         \* up[s]: the servers on serv_list of s
    chan,       \* chan[<<s, t>>]: lines s has sent and t has not parsed
    grants,     \* who was made operator of the channel of which timestamp,
    banned,     \* and which bans were set there (history variables)
    commands,   \* commands given so far (bound)
    splits      \* links lost so far (bound)

vars == <<srv, clock, up, chan, grants, banned, commands, splits>>

-----------------------------------------------------------------------------
(* Types *)

TSs == 1 .. MaxTS

\* ts = 0 stands for a channel the server does not have; a channel it has was
\* stamped with some CurrentTime.  Operators are members, and no operator is
\* marked as deopped.
Channels == {L \in [on : SUBSET Users, op : SUBSET Users,
                    deopped : SUBSET Users, ts : 0 .. MaxTS,
                    modes : SUBSET Modes, bans : SUBSET Users] :
               /\ L.op \subseteq L.on
               /\ L.deopped \subseteq L.on \ L.op
               /\ L.on # {} => L.ts # 0}

NoChannel == [on |-> {}, op |-> {}, deopped |-> {}, ts |-> 0,
              modes |-> {}, bans |-> {}]

\* The timestamps of mode changes; 0 stands for a MODE, which has none.
Stamps == IF TS6 THEN TSs ELSE {0}

Messages ==
         [type : {"sjoin"}, ts : TSs, modes : SUBSET Modes, zero : BOOLEAN,
          members : SUBSET Users, ops : SUBSET Users]
    \cup [type : {"join"}, who : Users, ts : TSs]
    \cup [type : {"part", "kick"}, who : Users]
    \cup [type : {"op"}, who : Users, ts : Stamps, target : Users, add : BOOLEAN]
    \cup [type : {"mode"}, who : Users, ts : Stamps, mode : Modes, add : BOOLEAN]
    \cup [type : {"ban"}, who : Users, ts : Stamps, mask : Users, add : BOOLEAN]
    \cup [type : {"bmask"}, ts : Stamps, masks : SUBSET Users]
    \cup [type : {"squit"}, edge : Edges]

TypeOK ==
    /\ srv \in [Servers -> Channels]
    /\ clock \in [Servers -> TSs]
    /\ up \in [Servers -> SUBSET Servers]
    /\ chan \in [Edges -> Seq(Messages)]
    /\ grants \subseteq Users \X TSs
    /\ banned \subseteq Users \X TSs
    /\ commands \in Nat
    /\ splits \in Nat

-----------------------------------------------------------------------------
(* One server's copy of the channel *)

\* hash_find_channel finds it.
Exists(s) == srv[s].ts # 0

\* (mutant of From: u's own server)
FromServer(s, u) == Home[u]

\* The link u is behind, as seen from s: u->from.
From(s, u) == Route[s][Home[u]]

\* remove_user_from_channel for each member in X; the last one to leave
\* destroys the channel.
Left(L, X) ==
    IF L.on \cap X # {} /\ L.on \subseteq X THEN NoChannel
    ELSE [L EXCEPT !.on = @ \ X, !.op = @ \ X, !.deopped = @ \ X]

\* What m_join makes of a channel u is the first to join.
Made(L, u, ts) ==
    [L EXCEPT !.on = {u}, !.op = {u}, !.ts = ts, !.modes = @ \cup NewModes]

\* chm_op, chm_simple, chm_ban on the channel itself.
SetOp(L, v, add) ==
    IF add THEN [L EXCEPT !.op = @ \cup {v}, !.deopped = @ \ {v}]
    ELSE [L EXCEPT !.op = @ \ {v}]
SetMode(L, m, add) == [L EXCEPT !.modes = IF add THEN @ \cup {m} ELSE @ \ {m}]
SetBan(L, b, add) == [L EXCEPT !.bans = IF add THEN @ \cup {b} ELSE @ \ {b}]

\* (mutant of Older: equal timestamps lose)
OlderOrEqual(L, ts) == L.ts # 0 /\ ts <= L.ts

\* (mutant of Younger: the timestamp that was received is always taken)
YoungerNever(L, ts) == FALSE

\* Is a line with timestamp ts from an older, or a younger, channel than L?
Older(L, ts)   == L.ts # 0 /\ ts < L.ts
Younger(L, ts) == L.ts # 0 /\ ts > L.ts

\* The timestamp rules of ms_sjoin and ms_join.  Older lines replace the
\* modes and take everybody's op and voice (remove_our_modes), younger ones
\* add their operators as "deopped" members, equal ones are merged.  Someone
\* who is on the channel already keeps what he has.
Merged(L, ts, modes, members, ops) ==
    [on |-> L.on \cup members,
     op |-> (IF Older(L, ts) THEN {} ELSE L.op)
            \cup (IF Younger(L, ts) THEN {} ELSE ops \ L.on),
     deopped |-> L.deopped \cup (IF Younger(L, ts) THEN ops \ L.on ELSE {}),
     ts |-> IF Younger(L, ts) THEN L.ts ELSE ts,
     modes |-> IF Younger(L, ts) THEN L.modes
               ELSE IF Older(L, ts) THEN modes ELSE L.modes \cup modes,
     bans |-> L.bans]

-----------------------------------------------------------------------------
(* Sending *)

\* zero: the modes were sent as "0", they are not those of the channel.
Sjoin(ts, modes, zero, members, ops) ==
    [type |-> "sjoin", ts |-> ts, modes |-> modes, zero |-> zero,
     members |-> members, ops |-> ops]

\* A user who joins a channel that exists.
JoinLine(u, ts) ==
    IF TS6 THEN [type |-> "join", who |-> u, ts |-> ts]
    ELSE Sjoin(ts, {}, FALSE, {u}, {})

Squit(s, t) == [type |-> "squit", edge |-> <<s, t>>]

\* (mutant of Stamp: MODE without a timestamp)
StampNone(ts) == 0

\* The timestamp on a mode change: TMODE has one, MODE has none.
Stamp(ts) == IF TS6 THEN ts ELSE 0

\* Links whose two ends are both open: what is written to another is lost.
Open(s) == {t \in up[s] : s \in up[t]}

\* (mutant of Sent: lines overtake those already queued)
SentFirst(ch, s, To, msgs) ==
    [e \in Edges |-> IF e[1] = s /\ e[2] \in To \cap Open(s)
                     THEN msgs \o ch[e] ELSE ch[e]]

\* ch after s has sent the lines msgs, in order, to each server of To.
Sent(ch, s, To, msgs) ==
    [e \in Edges |-> IF e[1] = s /\ e[2] \in To \cap Open(s)
                     THEN ch[e] \o msgs ELSE ch[e]]

\* The channels once s has parsed the line at the head of its link from r.
Parsed(r, s) == [chan EXCEPT ![<<r, s>>] = Tail(@)]

\* The servers a handler reaches with "all servers but the link from r".
Others(s, r) == up[s] \ {r}

-----------------------------------------------------------------------------
(* Commands of local clients *)

Command(kind) ==
    /\ kind \in Commands \cup {"join"}
    /\ commands < MaxCommands
    /\ commands' = commands + 1

\* CurrentTime of s is t.
Stamped(s, t) ==
    /\ t \in clock[s] .. MaxTS
    /\ clock' = [clock EXCEPT ![s] = t]

\* can_join, bans only.
CanJoin(u) == u \notin srv[Home[u]].bans

\* m_join on a channel the server does not have, or that nobody is on.
Create(u, t) ==
    LET s == Home[u] IN
    /\ Command("join")
    /\ srv[s].on = {} /\ CanJoin(u)
    /\ Stamped(s, t)
    /\ srv' = [srv EXCEPT ![s] = Made(@, u, t)]
    /\ chan' = Sent(chan, s, up[s], <<Sjoin(t, NewModes, FALSE, {u}, {u})>>)
    /\ grants' = grants \cup {<<u, t>>}
    /\ UNCHANGED <<up, banned, splits>>

\* m_join on a channel with members.
Join(u) ==
    LET s == Home[u] IN
    /\ Command("join")
    /\ srv[s].on # {} /\ u \notin srv[s].on /\ CanJoin(u)
    /\ srv' = [srv EXCEPT ![s].on = @ \cup {u}]
    /\ chan' = Sent(chan, s, up[s], <<JoinLine(u, srv[s].ts)>>)
    /\ UNCHANGED <<clock, up, grants, banned, splits>>

\* "JOIN #channel,0": build_target_list makes the channel, and m_join passes
\* over the targets named before the 0.
JoinZero(u, t) ==
    LET s == Home[u] IN
    /\ Command("zero")
    /\ ~Exists(s)
    /\ Stamped(s, t)
    /\ srv' = [srv EXCEPT ![s].ts = t]
    /\ UNCHANGED <<up, chan, grants, banned, splits>>

\* m_part.
Part(u) ==
    LET s == Home[u] IN
    /\ Command("part")
    /\ u \in srv[s].on
    /\ srv' = [srv EXCEPT ![s] = Left(@, {u})]
    /\ chan' = Sent(chan, s, up[s], <<[type |-> "part", who |-> u]>>)
    /\ UNCHANGED <<clock, up, grants, banned, splits>>

\* m_kick by an operator.
Kick(u, v) ==
    LET s == Home[u] IN
    /\ Command("kick")
    /\ u \in srv[s].op /\ v \in srv[s].on
    /\ srv' = [srv EXCEPT ![s] = Left(@, {v})]
    /\ chan' = Sent(chan, s, up[s], <<[type |-> "kick", who |-> v]>>)
    /\ UNCHANGED <<clock, up, grants, banned, splits>>

\* MODE +o and -o by an operator: set_channel_mode, chm_op.
ModeOp(u, v, add) ==
    LET s == Home[u] IN
    /\ Command("op")
    /\ u \in srv[s].op /\ v \in srv[s].on
    /\ add # (v \in srv[s].op)
    /\ srv' = [srv EXCEPT ![s] = SetOp(@, v, add)]
    /\ chan' = Sent(chan, s, up[s],
                    <<[type |-> "op", who |-> u, ts |-> Stamp(srv[s].ts),
                       target |-> v, add |-> add]>>)
    /\ grants' = IF add THEN grants \cup {<<v, srv[s].ts>>} ELSE grants
    /\ UNCHANGED <<clock, up, banned, splits>>

\* MODE with a simple mode: chm_simple, which looks for no redundancy.
ModeSimple(u, m, add) ==
    LET s == Home[u] IN
    /\ Command("mode")
    /\ u \in srv[s].op
    /\ srv' = [srv EXCEPT ![s] = SetMode(@, m, add)]
    /\ chan' = Sent(chan, s, up[s],
                    <<[type |-> "mode", who |-> u, ts |-> Stamp(srv[s].ts),
                       mode |-> m, add |-> add]>>)
    /\ UNCHANGED <<clock, up, grants, banned, splits>>

\* MODE +b and -b: chm_ban.  A ban that is set already is not set again, a
\* ban that is not there is taken away all the same.
ModeBan(u, b, add) ==
    LET s == Home[u] IN
    /\ Command("ban")
    /\ u \in srv[s].op
    /\ add => b \notin srv[s].bans
    /\ srv' = [srv EXCEPT ![s] = SetBan(@, b, add)]
    /\ chan' = Sent(chan, s, up[s],
                    <<[type |-> "ban", who |-> u, ts |-> Stamp(srv[s].ts),
                       mask |-> b, add |-> add]>>)
    /\ banned' = IF add THEN banned \cup {<<b, srv[s].ts>>} ELSE banned
    /\ UNCHANGED <<clock, up, grants, splits>>

-----------------------------------------------------------------------------
(* Lines from a linked server r, parsed by s *)

Arrives(r, s, type) ==
    /\ r \in up[s]
    /\ chan[<<r, s>>] # <<>>
    /\ chan[<<r, s>>][1].type = type

Line(r, s) == chan[<<r, s>>][1]

Handled == UNCHANGED <<clock, up, grants, banned, commands, splits>>

\* ms_sjoin.  Only the members that are behind r are joined, and an SJOIN
\* without any makes no channel and is relayed without its member parameter,
\* which the next server ignores.  Bans go when a TS6 line is older.
RemoteSjoin(r, s) ==
    LET m == Line(r, s)
        L == srv[s]
        names == {u \in m.members : From(s, u) = r}
        ops == m.ops \cap names
        new == Merged(L, m.ts, m.modes, names, ops)
        zero == m.zero \/ Younger(L, m.ts)
    IN
    /\ Arrives(r, s, "sjoin")
    /\ names # {} \/ Exists(s)
    /\ srv' = [srv EXCEPT ![s] = IF TS6 /\ Older(L, m.ts)
                                 THEN [new EXCEPT !.bans = {}] ELSE new]
    /\ chan' = IF names = {} THEN Parsed(r, s)
               ELSE Sent(Parsed(r, s), s, Others(s, r),
                         <<Sjoin(new.ts, IF zero THEN {} ELSE new.modes, zero,
                                 names,
                                 IF Younger(L, m.ts) THEN {} ELSE ops)>>)
    /\ Handled

\* ms_join: the same timestamp rules with "+" for modes, bans stay.
RemoteJoin(r, s) ==
    LET m == Line(r, s)
        new == Merged(srv[s], m.ts, {}, {m.who}, {})
    IN
    /\ Arrives(r, s, "join")
    /\ srv' = [srv EXCEPT ![s] = new]
    /\ chan' = Sent(Parsed(r, s), s, Others(s, r), <<JoinLine(m.who, new.ts)>>)
    /\ Handled

\* part_one_client and m_kick, which lets any remote source kick: the member
\* goes and the line is relayed.
Removes(r, s, type) ==
    LET m == Line(r, s) IN
    /\ Arrives(r, s, type)
    /\ m.who \in srv[s].on
    /\ srv' = [srv EXCEPT ![s] = Left(@, {m.who})]
    /\ chan' = Sent(Parsed(r, s), s, Others(s, r), <<m>>)
    /\ Handled

RemotePart(r, s) == Removes(r, s, "part")
RemoteKick(r, s) == Removes(r, s, "kick")

\* (mutant of Heeded: the timestamp is not looked at)
HeededAlways(r, s) == Exists(s) /\ Line(r, s).who \notin srv[s].deopped

\* ms_tmode, m_mode: a mode change is heeded unless it is for a younger
\* channel, or from somebody who lost his op here.
Heeded(r, s) ==
    LET m == Line(r, s) IN
    /\ Exists(s)
    /\ m.ts <= srv[s].ts
    /\ m.who \notin srv[s].deopped

\* A mode change sent on has the timestamp of the server that sends it.
Relayed(r, s) ==
    Sent(Parsed(r, s), s, Others(s, r),
         <<[Line(r, s) EXCEPT !.ts = Stamp(srv[s].ts)]>>)

\* chm_op: nothing happens when it changes nothing.
RemoteOp(r, s) ==
    LET m == Line(r, s) IN
    /\ Arrives(r, s, "op") /\ Heeded(r, s)
    /\ m.target \in srv[s].on
    /\ m.add # (m.target \in srv[s].op)
    /\ srv' = [srv EXCEPT ![s] = SetOp(@, m.target, m.add)]
    /\ chan' = Relayed(r, s)
    /\ Handled

RemoteMode(r, s) ==
    LET m == Line(r, s) IN
    /\ Arrives(r, s, "mode") /\ Heeded(r, s)
    /\ srv' = [srv EXCEPT ![s] = SetMode(@, m.mode, m.add)]
    /\ chan' = Relayed(r, s)
    /\ Handled

RemoteBan(r, s) ==
    LET m == Line(r, s) IN
    /\ Arrives(r, s, "ban") /\ Heeded(r, s)
    /\ m.add => m.mask \notin srv[s].bans
    /\ srv' = [srv EXCEPT ![s] = SetBan(@, m.mask, m.add)]
    /\ chan' = Relayed(r, s)
    /\ Handled

\* ms_bmask sends every mask on; a server's MODE only those that were new.
RemoteBmask(r, s) ==
    LET m == Line(r, s)
        on == IF TS6 THEN m.masks ELSE m.masks \ srv[s].bans
    IN
    /\ Arrives(r, s, "bmask")
    /\ Exists(s) /\ m.ts <= srv[s].ts
    /\ srv' = [srv EXCEPT ![s].bans = @ \cup m.masks]
    /\ chan' = IF on = {} THEN Parsed(r, s)
               ELSE Sent(Parsed(r, s), s, Others(s, r),
                         <<[type |-> "bmask", ts |-> Stamp(srv[s].ts),
                            masks |-> on]>>)
    /\ Handled

\* The lines the handlers above return from without a change.
Ignored(r, s) ==
    LET m == Line(r, s)
        absent == m.who \notin srv[s].on
        idle == m.target \notin srv[s].on \/ m.add = (m.target \in srv[s].op)
    IN
    /\ \/ Arrives(r, s, "sjoin") /\ ~Exists(s)
          /\ {u \in m.members : From(s, u) = r} = {}
       \/ (Arrives(r, s, "part") \/ Arrives(r, s, "kick")) /\ absent
       \/ Arrives(r, s, "op") /\ (~Heeded(r, s) \/ idle)
       \/ Arrives(r, s, "mode") /\ ~Heeded(r, s)
       \/ /\ Arrives(r, s, "ban")
          /\ ~Heeded(r, s) \/ (m.add /\ m.mask \in srv[s].bans)
       \/ Arrives(r, s, "bmask") /\ (~Exists(s) \/ m.ts > srv[s].ts)
    /\ chan' = Parsed(r, s)
    /\ UNCHANGED srv
    /\ Handled

\* ms_squit: everybody behind the lost edge leaves.
RemoteSquit(r, s) ==
    LET e == Line(r, s).edge IN
    /\ Arrives(r, s, "squit")
    /\ srv' = [srv EXCEPT ![s] =
                 Left(@, {u \in @.on : Home[u] \in Behind(e[1], e[2])})]
    /\ chan' = Sent(Parsed(r, s), s, Others(s, r), <<Line(r, s)>>)
    /\ Handled

-----------------------------------------------------------------------------
(* Links *)

\* One end of a link closes it.  Lines it has not parsed are lost; the other
\* end may still read what was sent before, and notices later.
LoseLink(s, t) ==
    /\ t \in up[s]
    /\ IF s \in up[t] THEN splits < MaxSplits /\ splits' = splits + 1
       ELSE splits' = splits
    /\ up' = [up EXCEPT ![s] = @ \ {t}]
    /\ srv' = [srv EXCEPT ![s] =
                 Left(@, {u \in @.on : Home[u] \in Behind(s, t)})]
    /\ chan' = Sent([chan EXCEPT ![<<t, s>>] = <<>>],
                    s, up[s] \ {t}, <<Squit(s, t)>>)
    /\ UNCHANGED <<clock, grants, banned, commands>>

\* (mutant of Burst: the modes and bans of the channel are not sent)
BurstMembers(s) ==
    IF srv[s].on = {} THEN <<>>
    ELSE <<Sjoin(srv[s].ts, {}, FALSE, srv[s].on, srv[s].op)>>

\* send_channel_modes: a channel nobody is on is not sent.
Burst(s) ==
    IF srv[s].on = {} THEN <<>>
    ELSE <<Sjoin(srv[s].ts, srv[s].modes, FALSE, srv[s].on, srv[s].op)>>
         \o (IF srv[s].bans = {} THEN <<>>
             ELSE <<[type |-> "bmask", ts |-> Stamp(srv[s].ts),
                     masks |-> srv[s].bans]>>)

\* server_estab on both ends: each puts the other on serv_list and bursts.
Link(s, t) ==
    /\ t \notin up[s] /\ s \notin up[t]
    /\ up' = [up EXCEPT ![s] = @ \cup {t}, ![t] = @ \cup {s}]
    /\ chan' = [chan EXCEPT ![<<s, t>>] = Burst(s), ![<<t, s>>] = Burst(t)]
    /\ UNCHANGED <<srv, clock, grants, banned, commands, splits>>

-----------------------------------------------------------------------------
Init ==
    /\ srv = [s \in Servers |-> NoChannel]
    /\ clock = [s \in Servers |-> 1]
    /\ up = [s \in Servers |-> {}]
    /\ chan = [e \in Edges |-> <<>>]
    /\ grants = {}
    /\ banned = {}
    /\ commands = 0
    /\ splits = 0

UserCommand(u) ==
    \/ \E t \in TSs : Create(u, t) \/ JoinZero(u, t)
    \/ Join(u)
    \/ Part(u)
    \/ \E v \in Users : Kick(u, v)
    \/ \E v \in Users, add \in BOOLEAN : ModeOp(u, v, add)
    \/ \E m \in Modes, add \in BOOLEAN : ModeSimple(u, m, add)
    \/ \E b \in Masks, add \in BOOLEAN : ModeBan(u, b, add)

\* Parsing a line a linked server sent.
Parse(r, s) ==
    \/ RemoteSjoin(r, s)
    \/ RemoteJoin(r, s)
    \/ RemotePart(r, s)
    \/ RemoteKick(r, s)
    \/ RemoteOp(r, s)
    \/ RemoteMode(r, s)
    \/ RemoteBan(r, s)
    \/ RemoteBmask(r, s)
    \/ Ignored(r, s)
    \/ RemoteSquit(r, s)

Next ==
    \/ \E u \in Users : UserCommand(u)
    \/ \E r \in Servers : \E s \in Neighbours(r) :
         Parse(r, s) \/ LoseLink(r, s) \/ Link(r, s)

\* The event loop reads every connection that has data, notices a connection
\* its peer has closed, and connects to the servers it has a connect block
\* for.  Nobody has to type a command, and a link has to be lost by nobody.
Fairness ==
    \A r \in Servers : \A s \in Neighbours(r) :
        /\ WF_vars(Parse(r, s))
        /\ WF_vars(s \notin up[r] /\ LoseLink(s, r))
        /\ WF_vars(Link(r, s))

Spec == Init /\ [][Next]_vars
FairSpec == Spec /\ Fairness

-----------------------------------------------------------------------------
(* Properties *)

\* Whether somebody made u operator of the channel of timestamp ts, or an
\* older one.
GrantedBy(u, ts) == \E k \in 1 .. ts : <<u, k>> \in grants

\* Nobody is an operator, on any server, by virtue of a younger channel: what
\* ms_sjoin, ms_join and ms_tmode take from the side that lost the timestamp
\* comes back through no line that was on its way.
OpsGranted ==
    \A s \in Servers : \A u \in srv[s].op : GrantedBy(u, srv[s].ts)

\* No ban of a younger channel stays on an older one: ms_sjoin removes them
\* when it takes the older timestamp, ms_tmode and ms_bmask drop theirs.  Holds
\* as long as no JOIN meets a channel made again: ms_join keeps the bans.
BansGranted ==
    \A s \in Servers : \A b \in srv[s].bans :
        \E k \in 1 .. srv[s].ts : <<b, k>> \in banned

\* A channel record is there for its members: the last one to leave destroys
\* it, and nothing else makes one (remove_user_from_channel, ms_sjoin).
NoEmptyChannels ==
    \A s \in Servers : Exists(s) => srv[s].on # {}

\* Nothing is on the wire and every link is up.
Quiet ==
    \A e \in Edges : chan[e] = <<>> /\ e[2] \in up[e[1]]

\* Once the network is quiet, whoever is on the channel at home is on it on
\* every server, whatever kicks, parts, joins and splits crossed.
MembersKnownEverywhere ==
    Quiet => \A s \in Servers, u \in Users :
                u \in srv[Home[u]].on => u \in srv[s].on

\* Once the network is quiet all servers have the same members, the same
\* operators and the same timestamp.
Agree ==
    \A s, t \in Servers :
        /\ srv[s].on = srv[t].on
        /\ srv[s].op = srv[t].op
        /\ srv[s].ts = srv[t].ts
ChannelsAgree == Quiet => Agree

\* Once the network is quiet all servers have the same simple modes.
ModesAgree ==
    Quiet => \A s, t \in Servers : srv[s].modes = srv[t].modes

\* A server never makes the channel younger while somebody is on it.
TSNeverGrows ==
    [][\A s \in Servers : srv[s].on # {} /\ srv'[s].on # {}
         => srv'[s].ts <= srv[s].ts]_vars

\* When the users are silent and no more links are lost, the servers come to
\* agree on members, operators and timestamp and stay so.
Settles == <>[]Agree

=============================================================================
