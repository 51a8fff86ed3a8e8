------------------------------ MODULE Delivery ------------------------------
(***************************************************************************)
(* PRIVMSG and NOTICE over the tree of servers: to a channel, to its       *)
(* operators, to a user and to the users a mask matches                    *)
(* (modules/core/m_message.c, src/send.c, can_send of src/channel.c).      *)
(*                                                                         *)
(* Each server decides for itself whether the sender may send, delivers to *)
(* its own users, and passes the message on to the links that lead to      *)
(* somebody it is for.  Meanwhile members join and part, operators are     *)
(* made and the channel becomes moderated; those lines go the same ways,   *)
(* in order.  Timestamps and splits are those of ChannelTS; here one       *)
(* operator stays.                                                         *)
(***************************************************************************)
EXTENDS Naturals, Sequences, FiniteSets, SequencesExt, Routes

CONSTANTS
    Users,
    Home,           \* Home[u]: the server u is on
    Founder,        \* the operator who stays
    Deaf,           \* users with umode +D
    Accepts,        \* <<v, u>>: messages of u reach v, who may be +g
    Masked,         \* the sets of users masks match
    NoExternal,     \* the channel is +n
    MaxMessages,    \* bound on the messages
    MaxChanges      \* bound on the changes of the channel

Ids == 1 .. MaxMessages

Kinds == {"channel", "ops", "client", "mask"}
Changes == {"join", "part", "op", "moderate"}

VARIABLES
    members,        \* members[s]: of the channel, as s knows them
    ops,            \* ops[s]: its operators, as s knows them
    moderated,      \* the servers the channel is +m on
    wire,           \* wire[l]: what has been sent on the link and not read
    got,            \* got[u][i]: how often u has received message i
    sent,           \* the messages; asop and meant are a history: those who
                    \* must get it
    changes         \* how many changes there have been

dvars == <<members, ops, moderated, wire, got, sent, changes>>

\* Sent to a client, to is that client; to a mask, those it matches.
Message == [from : Users, kind : Kinds, to : SUBSET Users, asop : BOOLEAN,
            meant : SUBSET Users]
Lines == [id : Ids] \cup [change : Changes, user : Users]

TypeOK ==
    /\ members \in [Servers -> SUBSET Users]
    /\ \A s \in Servers : ops[s] \subseteq members[s]
    /\ moderated \subseteq Servers
    /\ \A l \in Links : \A i \in DOMAIN wire[l] : wire[l][i] \in Lines
    /\ got \in [Users -> [Ids -> Nat]]
    /\ \A i \in DOMAIN sent : sent[i] \in Message
    /\ changes \in 0 .. MaxChanges

-----------------------------------------------------------------------------
(* What one server does with a message *)

Local(s) == {u \in Users : Home[u] = s}
Beyond(l) == {u \in Users : Home[u] \in Behind[l]}

\* can_send, and flood_attack_channel, which spares operators.
CanSend(s, u, flooded) ==
    \/ u \in ops[s]
    \/ /\ u \in members[s] \/ ~NoExternal
       /\ s \notin moderated
       /\ ~flooded

\* (mutant of Copies: the serial of the link is not looked at)
CopiesEach(s, m, l) ==
    CASE m.kind = "channel" -> Cardinality(members[s] \cap Beyond(l))
      [] m.kind = "ops" -> Cardinality(ops[s] \cap Beyond(l))
      [] OTHER -> 1

\* How often s sends a message on its link l: sendto_channel_butone once, by
\* current_serial; sendto_channel_remote once for each operator behind it;
\* sendto_anywhere towards the client; sendto_match_butone in any case.
Copies(s, m, l) ==
    CASE m.kind = "channel" -> Cardinality({l} \cap {k \in Links : members[s] \cap Beyond(k) # {}})
      [] m.kind = "ops" -> Cardinality(ops[s] \cap Beyond(l))
      [] m.kind = "client" -> Cardinality(m.to \cap Beyond(l))
      [] m.kind = "mask" -> 1

\* The users of s it is sent to: msg_channel, msg_channel_flags, msg_client,
\* which looks at +g and the accept list, and handle_special.
Reached(s, m) ==
    Local(s) \cap
    CASE m.kind = "channel" -> members[s] \ (Deaf \cup {m.from})
      [] m.kind = "ops" -> ops[s] \ (Deaf \cup {m.from})
      [] m.kind = "client" -> {v \in m.to : <<v, m.from>> \in Accepts}
      [] m.kind = "mask" -> m.to

Refused(s, m, flooded) ==
    \/ m.kind = "channel" /\ ~CanSend(s, m.from, flooded)
    \/ m.kind = "ops" /\ m.from \notin ops[s]

\* Message id at s, which came from the link to from, or, when that is s, from
\* a user of s.
Handled(w, s, from, id, m) ==
    /\ got' = [u \in Users |-> IF u \in Reached(s, m) THEN [got[u] EXCEPT ![id] = @ + 1]
                               ELSE got[u]]
    /\ wire' = [l \in Links |->
                  IF l[1] = s /\ l[2] # from
                  THEN w[l] \o [i \in 1 .. Copies(s, m, l) |-> [id |-> id]] ELSE w[l]]

-----------------------------------------------------------------------------

\* No server has yet to read that u parts.
Stays(u) == \A l \in Links : [change |-> "part", user |-> u] \notin ToSet(wire[l])

\* All servers know u for an operator, and will.
AsOp(u) == Stays(u) /\ \A s \in Servers : u \in ops[s]

\* Those a message from u is for: on a channel, those whom all servers know to
\* be there.
Audience(u, kind, to) ==
    CASE kind = "channel" -> {v \in Users \ (Deaf \cup {u}) :
            (AsOp(u) \/ moderated = {}) /\ Stays(v) /\ \A s \in Servers : v \in members[s]}
      [] kind = "ops" -> {v \in Users \ (Deaf \cup {u}) :
            AsOp(u) /\ AsOp(v)}
      [] kind = "client" -> {v \in to : <<v, u>> \in Accepts}
      [] kind = "mask" -> to

\* m_privmsg or m_notice of a local user that is not refused.
Send(u, kind, to) ==
    LET m == [from |-> u, kind |-> kind, to |-> to, asop |-> AsOp(u),
              meant |-> Audience(u, kind, to)] IN
    /\ Len(sent) < MaxMessages
    /\ ~Refused(Home[u], m, FALSE)
    /\ Handled(wire, Home[u], Home[u], Len(sent) + 1, m)
    /\ sent' = Append(sent, m)
    /\ UNCHANGED <<members, ops, moderated, changes>>

\* m_privmsg or m_notice of what another server has passed on.
ReceiveMessage(l, flooded) ==
    LET id == Head(wire[l]).id
        m == sent[id]
        s == l[2]
        rest == [wire EXCEPT ![l] = Tail(@)]
    IN
    /\ wire[l] # <<>> /\ "id" \in DOMAIN Head(wire[l])
    /\ IF Refused(s, m, flooded)
       THEN /\ wire' = rest
            /\ sent' = IF flooded THEN [sent EXCEPT ![id].meant = {}] ELSE sent
            /\ UNCHANGED got
       ELSE Handled(rest, s, l[1], id, m) /\ UNCHANGED sent
    /\ UNCHANGED <<members, ops, moderated, changes>>

-----------------------------------------------------------------------------
(* The channel meanwhile *)

\* What a change of the channel is at one server.
Apply(s, c) ==
    /\ members' = [members EXCEPT ![s] = CASE c.change = "join" -> @ \cup {c.user}
                                           [] c.change = "part" -> @ \ {c.user}
                                           [] OTHER -> @]
    /\ ops' = [ops EXCEPT ![s] = CASE c.change = "op" -> @ \cup ({c.user} \cap members[s])
                                   [] c.change = "part" -> @ \ {c.user}
                                   [] OTHER -> @]
    /\ moderated' = IF c.change = "moderate" THEN moderated \cup {s} ELSE moderated

\* sendto_server
Broadcast(w, s, from, c) ==
    [l \in Links |-> IF l[1] = s /\ l[2] # from THEN Append(w[l], c) ELSE w[l]]

\* Whom a change releases a message on its way from having to reach.
Released(c, m) ==
    CASE c.change = "part" /\ m.kind \in {"channel", "ops"} ->
            [m EXCEPT !.meant = @ \ {c.user}]
      [] c.change = "moderate" /\ m.kind = "channel" /\ ~m.asop ->
            [m EXCEPT !.meant = {}]
      [] OTHER -> m

\* A user of s joins or parts, or an operator of s gives op or sets +m.
Change(s, c) ==
    /\ changes < MaxChanges
    /\ CASE c.change = "join" -> Home[c.user] = s /\ c.user \notin members[s]
         [] c.change = "part" -> /\ Home[c.user] = s
                                 /\ c.user \in members[s] /\ c.user # Founder
         [] c.change = "op" -> Local(s) \cap ops[s] # {} /\ c.user \in members[s] \ ops[s]
         [] c.change = "moderate" -> /\ Local(s) \cap ops[s] # {}
                                     /\ c.user = Founder /\ s \notin moderated
    /\ Apply(s, c)
    /\ wire' = Broadcast(wire, s, s, c)
    /\ sent' = [i \in DOMAIN sent |-> Released(c, sent[i])]
    /\ changes' = changes + 1
    /\ UNCHANGED got

ReceiveChange(l) ==
    /\ wire[l] # <<>> /\ "change" \in DOMAIN Head(wire[l])
    /\ Apply(l[2], Head(wire[l]))
    /\ wire' = Broadcast([wire EXCEPT ![l] = Tail(@)], l[2], l[1], Head(wire[l]))
    /\ UNCHANGED <<got, sent, changes>>

\* Every user that is not on the channel has still to join.
Init ==
    /\ members = [s \in Servers |-> {Founder}]
    /\ ops = [s \in Servers |-> {Founder}]
    /\ moderated = {}
    /\ wire = [l \in Links |-> <<>>]
    /\ got = [u \in Users |-> [i \in Ids |-> 0]]
    /\ sent = <<>>
    /\ changes = 0

Next ==
    \/ \E u \in Users : Send(u, "channel", {}) \/ Send(u, "ops", {})
    \/ \E u, v \in Users : Send(u, "client", {v})
    \/ \E u \in Users, to \in Masked : Send(u, "mask", to)
    \/ \E l \in Links, flooded \in BOOLEAN : ReceiveMessage(l, flooded)
    \/ \E s \in Servers, change \in Changes, u \in Users :
          Change(s, [change |-> change, user |-> u])
    \/ \E l \in Links : ReceiveChange(l)

Spec == Init /\ [][Next]_dvars

-----------------------------------------------------------------------------
(* Properties *)

\* A message reaches everybody it was for when it was sent and who has not
\* left since, whatever has happened to the channel meanwhile, unless a server
\* found a flood, or the channel became moderated and not all servers knew the
\* sender for an operator; and it reaches nobody twice,
\* its sender only by a mask or when it is to itself.
DeliveredOnce ==
    \A i \in DOMAIN sent : \A u \in Users :
        /\ sent[i].kind # "ops" => got[u][i] <= 1
        /\ (\A l \in Links : wire[l] = <<>>) /\ u \in sent[i].meant => got[u][i] >= 1
        /\ u = sent[i].from /\ sent[i].kind \in {"channel", "ops"} => got[u][i] = 0

\* Nor does one to the operators.
OpsOnce == \A i \in DOMAIN sent : \A u \in Users : got[u][i] <= 1

=============================================================================
