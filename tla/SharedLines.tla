----------------------------- MODULE SharedLines -----------------------------
(***************************************************************************)
(* Bans and reservations placed on other servers: KLINE, XLINE and RESV    *)
(* with ON <mask>, those the cluster{} blocks pass on, and their removal   *)
(* (modules/m_kline.c, m_xline.c, m_resv.c, m_encap.c, src/s_conf.c).      *)
(*                                                                         *)
(* A command is sent along the tree of servers towards those whose name    *)
(* the mask matches, and obeyed there if a shared{} block allows it.  A    *)
(* KLINE carries its time; an XLINE or a RESV with a time is wrapped in    *)
(* ENCAP.  One action is one handler with all it sends.                    *)
(***************************************************************************)
EXTENDS Naturals, Sequences, FiniteSets, Routes

CONSTANTS
    Origins,        \* those whose operators give commands
    Targets,        \* the masks: sets of servers
    Clustered,      \* the mask of the cluster{} block: one is enough, since
                    \* cluster_a_line sends to each in turn
    Sharing,        \* the sets of servers with a shared{} block, to choose from
    Types,          \* of "kline", "xline", "resv"
    Masks,          \* what is banned or reserved
    MaxCommands     \* bound on the commands, all of one type

VARIABLES
    lines,          \* lines[s]: the lines in force at s
    wire,           \* wire[l]: what has been sent on the link and not read
    shared,         \* the servers with a shared{} block for the others
    commands        \* what the operators have done

vars == <<lines, wire, shared, commands>>

\* A command on a link; encap is TRUE when it is wrapped, which only an XLINE or
\* a RESV with a time is.
Commands ==
    {m \in [op : {"add", "remove"}, type : Types, mask : Masks, temp : BOOLEAN,
            target : SUBSET Servers, encap : BOOLEAN] :
        m.encap => m.op = "add" /\ m.type \in {"xline", "resv"} /\ m.temp}
Placed == [type : Types, mask : Masks, temp : BOOLEAN]
Given == [origin : Servers, op : {"add", "remove"}, type : Types, mask : Masks,
          temp : BOOLEAN, servers : SUBSET Servers]

TypeOK ==
    /\ lines \in [Servers -> SUBSET Placed]
    /\ wire \in [Links -> Seq(Commands)]
    /\ shared \in Sharing
    /\ commands \subseteq Given

-----------------------------------------------------------------------------

\* (mutant of Relayed: a server the mask matches keeps the command to itself)
RelayedUnless(w, s, from, m) ==
    IF s \in m.target /\ from # s THEN w
    ELSE [l \in Links |-> IF l[1] = s /\ l[2] # from /\ Behind[l] \cap m.target # {}
                          THEN Append(w[l], m) ELSE w[l]]

\* sendto_match_servs: once on each link with a matching server behind it,
\* but not back to where it came from.
Relayed(w, s, from, m) ==
    [l \in Links |-> IF l[1] = s /\ l[2] # from /\ Behind[l] \cap m.target # {}
                     THEN Append(w[l], m) ELSE w[l]]

\* sendto_server, of a KLINE with ON.
Broadcast(w, s, m) ==
    [l \in Links |-> IF l[1] = s THEN Append(w[l], m) ELSE w[l]]

\* The line is placed unless there is one (already_placed_kline, parse_resv,
\* write_xline), or the one there is removed.
Obeyed(L, m) ==
    IF m.op = "remove"
    THEN {x \in L : x.type # m.type \/ x.mask # m.mask}
    ELSE IF \E x \in L : x.type = m.type /\ x.mask = m.mask THEN L
    ELSE L \cup {[type |-> m.type, mask |-> m.mask, temp |-> m.temp]}

\* mo_kline, mo_xline, mo_resv and the UN commands, ON a mask: sent towards
\* it, and obeyed here if it matches.
On(s, m) ==
    /\ wire' = IF m.type = "kline" /\ m.op = "add"
               THEN Broadcast(wire, s, m) ELSE Relayed(wire, s, s, m)
    /\ lines' = IF s \in m.target THEN [lines EXCEPT ![s] = Obeyed(@, m)] ELSE lines

\* Without ON: cluster_a_line sends it towards the mask of the cluster{}
\* block, and it is obeyed here.
Cluster(s, m) ==
    /\ wire' = Relayed(wire, s, s, [m EXCEPT !.target = Clustered])
    /\ lines' = [lines EXCEPT ![s] = Obeyed(@, m)]

\* mo_xline and mo_resv: "if a given expire time is given, ENCAP it".
Wrapped(op, type, temp) == op = "add" /\ temp /\ type \in {"xline", "resv"}

\* An operator of s gives a command, one that has not been given yet.
Command(s, op, type, mask, temp, target) ==
    LET m == [op |-> op, type |-> type, mask |-> mask, temp |-> temp,
              target |-> target, encap |-> Wrapped(op, type, temp)]
        Meant(servers) == [origin |-> s, op |-> op, type |-> type, mask |-> mask,
                           temp |-> temp, servers |-> servers]
        Counted(servers) == /\ Meant(servers) \notin commands
                            /\ commands' = commands \cup {Meant(servers)}
    IN
    /\ Cardinality(commands) < MaxCommands
    /\ \A d \in commands : d.type = type
    /\ op = "remove" => ~temp
    /\ \/ On(s, m) /\ Counted(target)
       \/ Cluster(s, m) /\ Counted({s} \cup Clustered)
    /\ UNCHANGED shared

\* The server obeys: ms_kline, ms_resv, ms_unkline, ms_unxline and ms_unresv
\* when the mask matches and a shared{} block allows it; me_resv without
\* looking for one; relay_xline when the mask does not match, unless it came
\* in ENCAP, where it takes the time for the mask.
ObeysAt(s, m) ==
    CASE m.type = "resv" /\ m.encap -> s \in m.target
      [] m.type = "xline" /\ m.encap -> s \in m.target /\ s \in shared
      [] m.type = "xline" /\ m.op = "add" /\ ~m.encap ->
            s \notin m.target /\ s \in shared
      [] OTHER -> s \in m.target /\ s \in shared

\* What relay_xline places has the time of parv[3], which in ENCAP is 0.
AsRead(m) ==
    IF m.type = "xline" /\ m.encap THEN [m EXCEPT !.temp = FALSE] ELSE m

\* ms_kline, ms_xline, ms_resv, their UN forms and ms_encap: relayed, then
\* obeyed.
Receive(l) ==
    /\ wire[l] # <<>>
    /\ LET m == Head(wire[l])
           s == l[2]
       IN /\ wire' = Relayed([wire EXCEPT ![l] = Tail(@)], s, l[1], m)
          /\ lines' = IF ObeysAt(s, m)
                      THEN [lines EXCEPT ![s] = Obeyed(@, AsRead(m))] ELSE lines
    /\ UNCHANGED <<shared, commands>>

Init ==
    /\ lines = [s \in Servers |-> {}]
    /\ wire = [l \in Links |-> <<>>]
    /\ shared \in Sharing
    /\ commands = {}

Next ==
    \/ \E s \in Origins, op \in {"add", "remove"}, type \in Types, mask \in Masks,
          temp \in BOOLEAN, target \in Targets : Command(s, op, type, mask, temp, target)
    \/ \E l \in Links : Receive(l)

Spec == Init /\ [][Next]_vars

-----------------------------------------------------------------------------
(* Properties *)

Quiet == \A l \in Links : wire[l] = <<>>
For(s, x) == {c \in commands : c.type = x.type /\ c.mask = x.mask /\ s \in c.servers}

\* A command that asks for the line x on s, for as long as x lasts.
Placers(s, x) == {c \in For(s, x) : c.op = "add" /\ c.temp = x.temp}

\* A line is only in force where one of the commands that placed it was meant
\* for, and only for the time it was given.
OnlyWhereMeant == \A s \in Servers : \A x \in lines[s] : Placers(s, x) # {}

\* The server takes such lines from others, or it is the operator's own.
Taken(s, c) == s = c.origin \/ s \in shared
TakenFor(s, x) == \E c \in Placers(s, x) : Taken(s, c)

\* The handlers that place x look for a shared{} block: ms_kline and ms_resv do,
\* me_resv does not.
Asks(x) == x.type = "kline" \/ ~x.temp

OnlyWhereTaken ==
    \A s \in Servers : \A x \in lines[s] : Asks(x) => TakenFor(s, x)

\* When all has been read, a line nobody has removed is in force on every
\* server that shares and that it was meant for.
EverywhereMeant ==
    Quiet => \A c \in commands : \A s \in c.servers :
        /\ c.op = "add"
        /\ Taken(s, c)
        /\ \A d \in commands : d.type = c.type /\ d.mask = c.mask => d.op = "add"
        => \E x \in lines[s] : x.type = c.type /\ x.mask = c.mask

\* A K-line or reservation for other servers comes to be where it was meant to,
\* for as long as it was meant to, and nowhere else; and, but for a reservation
\* with a time, only where a shared{} block takes it (cluster_a_line, ms_kline,
\* ms_resv, ms_encap).
LinesShared == OnlyWhereMeant /\ OnlyWhereTaken /\ EverywhereMeant

\* Contradicted: servers "need a shared{} for *THIS* server in order to accept"
\* lines of others (example.conf:534-536), and "tresv" is what one says of
\* reservations with a time (:581).  me_resv looks for none.
TakenWhereShared == \A s \in Servers : \A x \in lines[s] : TakenFor(s, x)

\* Contradicted: ms_xline "applies it if we are a target" (m_xline.c:178).
\* relay_xline returns if the mask does match.
AppliedIfTarget ==
    \A s \in Servers : \A x \in lines[s] : \E c \in For(s, x) : c.op = "add"

=============================================================================
