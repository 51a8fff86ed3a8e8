------------------------------ MODULE UserModes ------------------------------
(***************************************************************************)
(* User modes and the counts of users (s_user.c, m_nick.c, client.c) on a  *)
(* line of servers.  Every server keeps, of each user it knows, the modes  *)
(* that other servers are told (SEND_UMODES), and counts its users, its    *)
(* local ones, the operators and the invisible ones (struct Counter).      *)
(*                                                                         *)
(* Lines between two servers arrive in order.  The last server of the line *)
(* splits off and links again, and the first one may squit it, so that     *)
(* SQUIT crosses what is still said about its users.  A user registers at  *)
(* most once.                                                              *)
(***************************************************************************)
EXTENDS Integers, Sequences, FiniteSets, SequencesExt

CONSTANTS
    First, Middle, Far, \* the line of servers
    Users,
    Home,               \* user -> the server he connects to
    WithIDs,            \* CAP_TS6 everywhere: UID, whose prefix is the server
    InvisibleOnConnect, \* general::invisible_on_connect
    OperModes,          \* general::oper_umodes
    OperOnly,           \* general::oper_only_umodes
    Absent,
    MaxChanges, MaxSplits

Path == {First, Middle, Far}
Letters == <<"i", "o", "w">>    \* in the order send_umode goes through them

VARIABLES
    servers,    \* server -> the servers it knows
    modes,      \* server -> user -> umodes, Absent if it does not know him
    count,      \* server -> [total, local, oper, invisi]
    linked,     \* whether Middle and Far are linked
    wire,       \* <<from, to>> -> lines under way
    ever,       \* users that have registered
    changes, splits

vars == <<servers, modes, count, linked, wire, ever, changes, splits>>

Links == {<<First, Middle>>, <<Middle, First>>, <<Middle, Far>>, <<Far, Middle>>}
Neighbours(x) == {y \in Path : <<x, y>> \in Links /\ (Far \in {x, y} => linked)}
Knows(x) == {u \in Users : modes[x][u] # Absent}

Sent(w, x, to, msgs) ==
    [l \in Links |-> IF l[1] = x /\ l[2] \in to THEN w[l] \o msgs ELSE w[l]]

Line(type, user, server, text) ==
    [type |-> type, user |-> user, server |-> server, text |-> text]

----------------------------------------------------------------------------
(* set_user_mode.  A change is a sequence of [add, letter]. *)

OneMode(mine, ms, m) ==
    IF m.letter = "o"
    THEN IF m.add THEN (IF mine THEN ms ELSE ms \union {"o"})
         ELSE IF "o" \in ms THEN ms \ ({"o"} \union OperOnly) ELSE ms
    ELSE IF mine /\ "o" \notin ms /\ m.letter \in OperOnly THEN ms
    ELSE IF m.add THEN ms \union {m.letter} ELSE ms \ {m.letter}

Changed(mine, ms, text) == FoldLeft(LAMBDA s, m : OneMode(mine, s, m), ms, text)

\* send_umode: the difference between the modes before and after.
Difference(old, new) ==
    LET changed == SelectSeq(Letters, LAMBDA l : (l \in old) # (l \in new))
    IN  [i \in 1..Len(changed) |-> [add |-> changed[i] \in new, letter |-> changed[i]]]

One(b) == IF b THEN 1 ELSE 0

\* The counts after a user's modes have changed from old to new.
Recount(c, old, new) ==
    [c EXCEPT !.oper = @ + One("o" \in new) - One("o" \in old),
              !.invisi = @ + One("i" \in new) - One("i" \in old)]

\* Mutant: an operator who leaves stays counted.
UncountedOper(c, x, u, ms) ==
    [c EXCEPT !.total = @ - 1,
              !.local = @ - One(Home[u] = x),
              !.invisi = @ - One("i" \in ms)]

\* update_client_exit_stats and exit_client
Uncounted(c, x, u, ms) ==
    [c EXCEPT !.total = @ - 1,
              !.local = @ - One(Home[u] = x),
              !.oper = @ - One("o" \in ms),
              !.invisi = @ - One("i" \in ms)]

\* exit_one_client of every one of us
Without(x, us) ==
    /\ modes' = [modes EXCEPT ![x] =
                    [u \in Users |-> IF u \in us THEN Absent ELSE modes[x][u]]]
    /\ count' = [count EXCEPT ![x] =
                    FoldLeft(LAMBDA c, u : Uncounted(c, x, u, modes[x][u]),
                             @, SetToSeq(us \intersect Knows(x)))]

Init ==
    /\ servers = [x \in Path |-> Path]
    /\ modes = [x \in Path |-> [u \in Users |-> Absent]]
    /\ count = [x \in Path |-> [total |-> 0, local |-> 0, oper |-> 0, invisi |-> 0]]
    /\ linked = TRUE
    /\ wire = [l \in Links |-> <<>>]
    /\ ever = {}
    /\ changes = 0 /\ splits = 0

----------------------------------------------------------------------------
(* What a server's own users do. *)

\* register_local_user and introduce_client: everybody is counted invisible,
\* whatever invisible_on_connect says.
Register(u) ==
    LET x == Home[u]
        ms == IF InvisibleOnConnect THEN {"i"} ELSE {}
    IN  /\ u \notin ever
        /\ ever' = ever \union {u}
        /\ modes' = [modes EXCEPT ![x][u] = ms]
        /\ count' = [count EXCEPT ![x].total = @ + 1, ![x].local = @ + 1,
                                  ![x].invisi = @ + 1]
        /\ wire' = Sent(wire, x, Neighbours(x),
                        <<Line("nick", u, x, Difference({}, ms))>>)
        /\ UNCHANGED <<servers, linked, changes, splits>>

\* oper_up: the modes of oper_umodes are set without being counted.
OperUp(u) ==
    LET x == Home[u]
        old == modes[x][u]
        new == old \union {"o"} \union OperModes
    IN  /\ old # Absent /\ changes < MaxChanges
        /\ "o" \notin old
        /\ changes' = changes + 1
        /\ modes' = [modes EXCEPT ![x][u] = new]
        /\ count' = [count EXCEPT ![x].oper = @ + 1]
        /\ wire' = Sent(wire, x, Neighbours(x),
                        <<Line("mode", u, x, Difference(old, new))>>)
        /\ UNCHANGED <<servers, linked, ever, splits>>

Told(old, new) == IF old = new THEN <<>> ELSE Difference(old, new)

\* MODE by the user himself.
UserMode(u, text) ==
    LET x == Home[u]
        old == modes[x][u]
        new == Changed(TRUE, old, text)
    IN  /\ old # Absent /\ changes < MaxChanges
        /\ new # old
        /\ changes' = changes + 1
        /\ modes' = [modes EXCEPT ![x][u] = new]
        /\ count' = [count EXCEPT ![x] = Recount(@, old, new)]
        /\ wire' = Sent(wire, x, Neighbours(x),
                        <<Line("mode", u, x, Told(old, new))>>)
        /\ UNCHANGED <<servers, linked, ever, splits>>

Quit(u) ==
    LET x == Home[u] IN
    /\ modes[x][u] # Absent
    /\ Without(x, {u})
    /\ wire' = Sent(wire, x, Neighbours(x), <<Line("quit", u, x, <<>>)>>)
    /\ UNCHANGED <<servers, linked, ever, changes, splits>>

----------------------------------------------------------------------------
(* What a line from the other side of a link does. *)

\* ms_nick and ms_uid, client_from_server, register_remote_user: modes and
\* total are counted before the user's server is looked for; one who has
\* none is killed without being a client yet, and stays counted.
ReceiveNick(y, x, m) ==
    LET ms == Changed(FALSE, {}, m.text)
        counted == [Recount(count[x], {}, ms) EXCEPT !.total = @ + 1]
    IN  IF m.server \in servers[x]
        THEN /\ modes' = [modes EXCEPT ![x][m.user] = ms]
             /\ count' = [count EXCEPT ![x] = counted]
             /\ wire' = Sent([wire EXCEPT ![<<y, x>>] = Tail(@)],
                             x, Neighbours(x) \ {y}, <<m>>)
             /\ UNCHANGED servers
        ELSE /\ count' = IF WithIDs THEN count ELSE [count EXCEPT ![x] = counted]
             /\ wire' = Sent([wire EXCEPT ![<<y, x>>] = Tail(@)], x, {y},
                             <<IF WithIDs THEN Line("squit", Absent, m.server, <<>>)
                               ELSE Line("kill", m.user, x, <<>>)>>)
             /\ UNCHANGED <<servers, modes>>

\* set_user_mode for a user of another server, and remove_unknown for one
\* nobody here knows.
ReceiveMode(y, x, m) ==
    LET old == modes[x][m.user]
        new == Changed(FALSE, old, m.text)
        rest == [wire EXCEPT ![<<y, x>>] = Tail(@)]
    IN  /\ IF old = Absent
           THEN /\ wire' = Sent(rest, x, {y}, <<Line("kill", m.user, x, <<>>)>>)
                /\ UNCHANGED <<modes, count>>
           ELSE /\ modes' = [modes EXCEPT ![x][m.user] = new]
                /\ count' = [count EXCEPT ![x] = Recount(@, old, new)]
                /\ wire' = IF old = new THEN rest
                           ELSE Sent(rest, x, Neighbours(x) \ {y},
                                     <<Line("mode", m.user, x, Told(old, new))>>)
        /\ UNCHANGED servers

\* ms_quit and ms_kill; a QUIT of somebody unknown is answered with a KILL.
ReceiveEnd(y, x, m) ==
    LET rest == [wire EXCEPT ![<<y, x>>] = Tail(@)]
    IN  /\ IF modes[x][m.user] # Absent
           THEN /\ Without(x, {m.user})
                /\ wire' = Sent(rest, x, Neighbours(x) \ {y}, <<m>>)
           ELSE /\ wire' = IF m.type = "kill" THEN rest
                           ELSE Sent(rest, x, {y}, <<Line("kill", m.user, x, <<>>)>>)
                /\ UNCHANGED <<modes, count>>
        /\ UNCHANGED servers

\* ms_squit of the far server: whoever is linked to it drops the link.
ReceiveSquit(y, x, m) ==
    LET rest == [wire EXCEPT ![<<y, x>>] = Tail(@)]
    IN  IF m.server \notin servers[x]
        THEN wire' = rest /\ UNCHANGED <<servers, modes, count, linked>>
        ELSE /\ servers' = [servers EXCEPT ![x] = @ \ {m.server}]
             /\ Without(x, {u \in Users : Home[u] = m.server})
             /\ linked' = (linked /\ x # Middle)
             /\ wire' = [l \in Links |-> IF ~linked' /\ Far \in {l[1], l[2]}
                                         THEN <<>> ELSE rest[l]]

\* ms_server, what the middle server says of the far one
ReceiveServer(y, x, m) ==
    /\ servers' = [servers EXCEPT ![x] = @ \union {m.server}]
    /\ wire' = [wire EXCEPT ![<<y, x>>] = Tail(@)]
    /\ UNCHANGED <<modes, count>>

Receive(y, x) ==
    LET m == Head(wire[<<y, x>>]) IN
    /\ wire[<<y, x>>] # <<>>
    /\ \/ m.type = "nick" /\ ReceiveNick(y, x, m) /\ UNCHANGED linked
       \/ m.type = "mode" /\ ReceiveMode(y, x, m) /\ UNCHANGED linked
       \/ m.type \in {"quit", "kill"} /\ ReceiveEnd(y, x, m) /\ UNCHANGED linked
       \/ m.type = "squit" /\ ReceiveSquit(y, x, m)
       \/ m.type = "server" /\ ReceiveServer(y, x, m) /\ UNCHANGED linked
    /\ UNCHANGED <<ever, changes, splits>>

----------------------------------------------------------------------------
(* Splits.  ServerTree has the details of linking; here the far server     *)
(* comes and goes with its users.                                          *)

\* SQUIT by an operator of the first server: it forgets the far one at once.
Squit ==
    /\ splits < MaxSplits /\ Far \in servers[First]
    /\ splits' = splits + 1
    /\ servers' = [servers EXCEPT ![First] = @ \ {Far}]
    /\ Without(First, {u \in Users : Home[u] = Far})
    /\ wire' = Sent(wire, First, {Middle}, <<Line("squit", Absent, Far, <<>>)>>)
    /\ UNCHANGED <<linked, ever, changes>>

\* The middle server loses the link.
Drop ==
    /\ linked /\ splits < MaxSplits
    /\ splits' = splits + 1
    /\ linked' = FALSE
    /\ servers' = [servers EXCEPT ![Middle] = @ \ {Far}]
    /\ Without(Middle, {u \in Users : Home[u] = Far})
    /\ wire' = Sent([l \in Links |-> IF Far \in {l[1], l[2]} THEN <<>> ELSE wire[l]],
                    Middle, {First}, <<Line("squit", Absent, Far, <<>>)>>)
    /\ UNCHANGED <<ever, changes>>

\* The far server finds the link gone.
Lose ==
    /\ ~linked /\ servers[Far] # {Far}
    /\ servers' = [servers EXCEPT ![Far] = {Far}]
    /\ Without(Far, {u \in Users : Home[u] # Far})
    /\ UNCHANGED <<linked, wire, ever, changes, splits>>

\* The link comes up: both sides burst their users (sendnick_TS).  It does
\* so once the first two servers have settled the split; ServerTree has the
\* links that cross a SQUIT.
Burst(x) ==
    LET us == SetToSeq(Knows(x))
    IN  [i \in 1..Len(us) |->
            Line("nick", us[i], Home[us[i]], Difference({}, modes[x][us[i]]))]

Link ==
    /\ ~linked /\ servers[Far] = {Far}
    /\ wire[<<First, Middle>>] = <<>> /\ wire[<<Middle, First>>] = <<>>
    /\ linked' = TRUE
    /\ servers' = [servers EXCEPT ![Middle] = @ \union {Far},
                                  ![Far] = servers[Middle] \union {Far}]
    /\ wire' = [wire EXCEPT
                   ![<<Middle, First>>] = Append(@, Line("server", Absent, Far, <<>>)),
                   ![<<Middle, Far>>] = Burst(Middle),
                   ![<<Far, Middle>>] = Burst(Far)]
    /\ UNCHANGED <<modes, count, ever, changes, splits>>

Texts == {<<[add |-> a, letter |-> l]>> : a \in BOOLEAN, l \in {"i", "o", "w"}}
             \union {<<[add |-> FALSE, letter |-> "o"], [add |-> TRUE, letter |-> l]>> :
                         l \in {"i", "w"}}

Next ==
    \/ \E u \in Users : Register(u) \/ OperUp(u) \/ Quit(u)
    \/ \E u \in Users, text \in Texts : UserMode(u, text)
    \/ \E l \in Links : Receive(l[1], l[2])
    \/ Squit \/ Drop \/ Lose \/ Link

Spec == Init /\ [][Next]_vars

----------------------------------------------------------------------------
TypeOK ==
    /\ \A x \in Path : x \in servers[x] /\ servers[x] \subseteq Path
    /\ \A x \in Path, u \in Users :
          modes[x][u] # Absent => modes[x][u] \subseteq {"i", "o", "w"}
    /\ \A x \in Path : \A u \in Knows(x) : Home[u] \in servers[x]
    /\ linked \in BOOLEAN
    /\ ever \subseteq Users

\* The counts of LUSERS are those of the users a server knows, after whatever
\* comes to it in whatever order (register_local_user, set_user_mode,
\* update_client_exit_stats).
CountsTrue ==
    \A x \in Path :
        /\ count[x].total = Cardinality(Knows(x))
        /\ count[x].local = Cardinality({u \in Knows(x) : Home[u] = x})
        /\ count[x].oper = Cardinality({u \in Knows(x) : "o" \in modes[x][u]})
        /\ count[x].invisi = Cardinality({u \in Knows(x) : "i" \in modes[x][u]})

\* When nothing is under way, every server that knows a user sees him with
\* the modes he has at home, and who is on the same side of a split is known
\* (send_umode_out, introduce_client).
ModesAgree ==
    (\A l \in Links : wire[l] = <<>>) =>
        \A x, y \in Path, u \in Users :
            y \in Neighbours(x) /\ {x, y} \subseteq servers[x] \intersect servers[y] =>
                modes[x][u] = modes[y][u]

UsersRight == CountsTrue /\ ModesAgree

=============================================================================
