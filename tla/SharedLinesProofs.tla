-------------------------- MODULE SharedLinesProofs --------------------------
(***************************************************************************)
(* A KLINE or a RESV for other servers comes to be in force where it was   *)
(* meant to, and nowhere else, for every tree of servers, all masks and    *)
(* every bound.                                                            *)
(*                                                                         *)
(* LinesShared speaks of servers that have read all there is.  The         *)
(* invariant Inv says where a line is until then: on a link that leads to  *)
(* every server that shares and has still to place it.                     *)
(***************************************************************************)
EXTENDS SharedLines, ListLemmas

\* What the theorems are about: any tree, and operators who do not give XLINE,
\* which goes astray.
Network ==
    /\ TreeAssumption
    /\ Origins \subseteq Servers
    /\ Targets \subseteq SUBSET Servers
    /\ Clustered \subseteq Servers
    /\ "xline" \notin Types

\* What is on its way on each link.
Flows(w) == w \in [Links -> Seq(Commands)]

\* An operator has given the command.
Backed(m) ==
    /\ m.op = "add" =>
          \E c \in commands : /\ c.op = "add" /\ c.type = m.type /\ c.mask = m.mask
                              /\ c.temp = m.temp /\ m.target \subseteq c.servers
    /\ m.op = "remove" =>
          \E c \in commands : c.op = "remove" /\ c.type = m.type /\ c.mask = m.mask

AllBacked == \A l \in Links : \A m \in Queued(wire[l]) : Backed(m)

\* OnlyWhereMeant and OnlyWhereTaken: one command accounts for both.
Accounts(c, s, x) == c.op = "add" /\ c.temp = x.temp /\ (Asks(x) => Taken(s, c))

LinesMeant ==
    \A s \in Servers : \A x \in lines[s] : \E c \in For(s, x) : Accounts(c, s, x)

\* Nobody has taken back what the command c has placed.
Standing(c) ==
    \A d \in commands : d.type = c.type /\ d.mask = c.mask => d.op = "add"

Has(s, c) == \E x \in lines[s] : x.type = c.type /\ x.mask = c.mask

\* The command m will have what c asks for placed on s.
Serves(m, c, s) ==
    m.op = "add" /\ m.type = c.type /\ m.mask = c.mask /\ s \in m.target

OnItsWay(s, c) ==
    \E l \in Links : s \in Behind[l] /\ \E m \in Queued(wire[l]) : Serves(m, c, s)

\* A server that is to have a line has it, or a command is on its way there.
PlacedOrOnItsWay ==
    \A c \in commands : \A s \in c.servers : c.op = "add" /\ Standing(c) =>
        /\ s = c.origin => Has(s, c)
        /\ s \in shared => Has(s, c) \/ OnItsWay(s, c)

\* TypeOK, with what is on the links under a name.
Typed ==
    /\ lines \in [Servers -> SUBSET Placed]
    /\ Flows(wire)
    /\ shared \in Sharing
    /\ commands \subseteq Given

\* The inductive invariant.
Inv == Typed /\ AllBacked /\ LinesMeant /\ PlacedOrOnItsWay

-----------------------------------------------------------------------------
(* The tree *)

\* Somebody a link leads to is its other end, or behind one of that end's other
\* links.
LEMMA NextHop ==
    ASSUME TreeAssumption, NEW l \in Links, NEW t \in Behind[l], t # l[2]
    PROVE  \E m \in Links : m[1] = l[2] /\ m[2] # l[1] /\ t \in Behind[m]
  BY DEF TreeAssumption

\* A link leads from one server to another, and to that one first.
LEMMA LinkEnds ==
    ASSUME TreeAssumption, NEW l \in Links
    PROVE  /\ l[1] \in Servers /\ l[2] \in Servers /\ l[1] # l[2]
           /\ l[2] \in Behind[l] /\ l[1] \notin Behind[l]
           /\ Behind[l] \subseteq Servers
  BY DEF TreeAssumption

\* Every server has a link towards every other one.
LEMMA FirstHop ==
    ASSUME TreeAssumption, NEW s \in Servers, NEW t \in Servers, s # t
    PROVE  \E l \in Links : l[1] = s /\ t \in Behind[l]
  BY DEF TreeAssumption

-----------------------------------------------------------------------------
(* What is on the links *)

\* Queues stay queues when a command is sent.
LEMMA SentFlows ==
    ASSUME NEW w, Flows(w), NEW s, NEW from, NEW m \in Commands
    PROVE  Flows(Relayed(w, s, from, m)) /\ Flows(Broadcast(w, s, m))
<1>1. \A l \in Links : w[l] \in Seq(Commands) /\ Append(w[l], m) \in Seq(Commands)
  BY QueuedAppend DEF Flows
<1>. QED
  BY <1>1 DEF Flows, Relayed, Broadcast

\* It is sent on the links that lead to somebody the mask matches, or on all.
LEMMA RelayedQueued ==
    ASSUME NEW w, Flows(w), NEW s, NEW from, NEW m \in Commands
    PROVE  \A l \in Links : Queued(Relayed(w, s, from, m)[l]) =
              IF l[1] = s /\ l[2] # from /\ Behind[l] \cap m.target # {}
              THEN Queued(w[l]) \cup {m} ELSE Queued(w[l])
<1>1. \A l \in Links : Queued(Append(w[l], m)) = Queued(w[l]) \cup {m}
  BY QueuedAppend DEF Flows
<1>. QED
  BY <1>1 DEF Relayed

LEMMA BroadcastQueued ==
    ASSUME NEW w, Flows(w), NEW s, NEW m \in Commands
    PROVE  \A l \in Links : Queued(Broadcast(w, s, m)[l]) =
              IF l[1] = s THEN Queued(w[l]) \cup {m} ELSE Queued(w[l])
<1>1. \A l \in Links : Queued(Append(w[l], m)) = Queued(w[l]) \cup {m}
  BY QueuedAppend DEF Flows
<1>. QED
  BY <1>1 DEF Broadcast

\* One that is read is no longer on its way.
LEMMA ReadQueued ==
    ASSUME NEW w, Flows(w), NEW l \in Links, w[l] # <<>>
    PROVE  /\ Head(w[l]) \in Commands
           /\ Flows([w EXCEPT ![l] = Tail(@)])
           /\ \A n \in Links : Queued(w[n]) =
                 Queued([w EXCEPT ![l] = Tail(@)][n]) \cup (IF n = l THEN {Head(w[l])} ELSE {})
<1>1. /\ Head(w[l]) \in Commands /\ Tail(w[l]) \in Seq(Commands)
      /\ Queued(w[l]) = {Head(w[l])} \cup Queued(Tail(w[l]))
  BY QueuedTail DEF Flows
<1>. QED
  BY <1>1 DEF Flows

-----------------------------------------------------------------------------
(* What a server has *)

\* Obeyed places the line or takes out that one only.
LEMMA ObeyedLines ==
    ASSUME NEW L \in SUBSET Placed, NEW m \in Commands
    PROVE  /\ Obeyed(L, m) \subseteq Placed
           /\ \A x \in Obeyed(L, m) : x \in L \/
                 (m.op = "add" /\ x.type = m.type /\ x.mask = m.mask /\ x.temp = m.temp)
           /\ m.op = "add" =>
                 /\ L \subseteq Obeyed(L, m)
                 /\ \E x \in Obeyed(L, m) : x.type = m.type /\ x.mask = m.mask
           /\ \A x \in L : x.type # m.type \/ x.mask # m.mask => x \in Obeyed(L, m)
<1>1. CASE m.op = "remove"
  BY <1>1 DEF Obeyed
<1>2. CASE m.op # "remove" /\ \E x \in L : x.type = m.type /\ x.mask = m.mask
  BY <1>2 DEF Obeyed
<1>3. CASE m.op # "remove" /\ ~\E x \in L : x.type = m.type /\ x.mask = m.mask
  <2>. DEFINE y == [type |-> m.type, mask |-> m.mask, temp |-> m.temp]
  <2>1. /\ y \in Placed /\ y.type = m.type /\ y.mask = m.mask /\ y.temp = m.temp
        /\ m.op = "add"
    BY <1>3 DEF Placed, Commands
  <2>2. Obeyed(L, m) = L \cup {y}
    BY <1>3 DEF Obeyed
  <2>. HIDE DEF y
  <2>. QED
    BY <2>1, <2>2
<1>. QED
  BY <1>1, <1>2, <1>3

\* Without XLINE a server obeys what is for it if it shares; besides, a wrapped
\* RESV, which has a time.
LEMMA ObeysWhenMeant ==
    ASSUME "xline" \notin Types, NEW s, NEW m \in Commands
    PROVE  /\ ObeysAt(s, m) => s \in m.target /\ (s \in shared \/ (m.type = "resv" /\ m.temp))
           /\ s \in m.target /\ s \in shared => ObeysAt(s, m)
           /\ AsRead(m) = m
<1>1. m.type # "xline" /\ m.encap \in BOOLEAN /\ (m.encap => m.temp)
  BY DEF Commands
<1>. QED
  BY <1>1 DEF ObeysAt, AsRead

-----------------------------------------------------------------------------
(* The steps *)

\* How a command starts: the command counted, what is sent, and what becomes of
\* the lines of the operator's server.
Starts(s, c, m, n) ==
    /\ commands' = commands \cup {c} /\ shared' = shared
    /\ c \in Given /\ m \in Commands /\ n \in Commands
    /\ c.origin = s /\ c.op = m.op /\ c.type = m.type /\ c.mask = m.mask /\ c.temp = m.temp
    /\ n.op = m.op /\ n.type = m.type /\ n.mask = m.mask /\ n.temp = m.temp
    /\ n.target \subseteq c.servers /\ c.servers \subseteq n.target \cup {s}
    /\ lines' = IF s \in c.servers THEN [lines EXCEPT ![s] = Obeyed(@, m)] ELSE lines
    /\ wire' \in {Relayed(wire, s, s, n), Broadcast(wire, s, n)}

\* With ON, and without.
LEMMA CommandStarts ==
    ASSUME Network, NEW s \in Origins, NEW op \in {"add", "remove"}, NEW type \in Types,
           NEW mask \in Masks, NEW temp \in BOOLEAN, NEW target \in Targets,
           Command(s, op, type, mask, temp, target)
    PROVE  \E c, m, n : Starts(s, c, m, n)
<1>. DEFINE encap == Wrapped(op, type, temp)
            m == [op |-> op, type |-> type, mask |-> mask, temp |-> temp,
                  target |-> target, encap |-> encap]
            n == [m EXCEPT !.target = Clustered]
            Meant(servers) == [origin |-> s, op |-> op, type |-> type, mask |-> mask,
                               temp |-> temp, servers |-> servers]
<1>1. s \in Servers /\ target \subseteq Servers /\ Clustered \subseteq Servers
  BY DEF Network
<1>2. m \in Commands
  BY <1>1 DEF Commands, Wrapped
<1>3. n \in Commands
  BY <1>1 DEF Commands, Wrapped
<1>4. Meant(target) \in Given /\ Meant({s} \cup Clustered) \in Given
  BY <1>1 DEF Given
<1>5. CASE On(s, m) /\ commands' = commands \cup {Meant(target)}
  <2>1. Starts(s, Meant(target), m, m)
    BY <1>2, <1>4, <1>5 DEF Starts, On, Command
  <2>. QED
    BY <2>1
<1>6. CASE Cluster(s, m) /\ commands' = commands \cup {Meant({s} \cup Clustered)}
  <2>1. Starts(s, Meant({s} \cup Clustered), m, n)
    BY <1>2, <1>3, <1>4, <1>6 DEF Starts, Cluster, Command
  <2>. QED
    BY <2>1
<1>. QED
  BY <1>5, <1>6 DEF Command

\* mo_kline, mo_resv, their UN forms and cluster_a_line: what the command asks
\* for is done here or is sent towards where it is to be done.
LEMMA CommandStep ==
    ASSUME Network, Inv, NEW s \in Servers, NEW c, NEW m, NEW n, Starts(s, c, m, n)
    PROVE  Inv'
<1>1. /\ commands' = commands \cup {c} /\ shared' = shared
      /\ c \in Given /\ m \in Commands /\ n \in Commands
      /\ c.origin = s /\ c.op = m.op /\ c.type = m.type /\ c.mask = m.mask /\ c.temp = m.temp
      /\ n.op = m.op /\ n.type = m.type /\ n.mask = m.mask /\ n.temp = m.temp
      /\ n.target \subseteq c.servers /\ c.servers \subseteq n.target \cup {s}
      /\ c.op \in {"add", "remove"} /\ c.servers \subseteq Servers
  BY DEF Starts, Given
<1>2. /\ Flows(wire')
      /\ \A l \in Links : /\ Queued(wire[l]) \subseteq Queued(wire'[l])
                          /\ Queued(wire'[l]) \subseteq Queued(wire[l]) \cup {n}
      /\ \A l \in Links : l[1] = s /\ Behind[l] \cap n.target # {} => n \in Queued(wire'[l])
  <2>1. n \in Commands /\ Flows(wire) /\ \A l \in Links : l[1] # l[2]
    BY <1>1, LinkEnds DEF Inv, Typed, Network
  <2>2. CASE wire' = Relayed(wire, s, s, n)
    <3>1. Flows(wire')
      BY <2>1, <2>2, SentFlows
    <3>2. \A l \in Links : Queued(wire'[l]) =
             IF l[1] = s /\ l[2] # s /\ Behind[l] \cap n.target # {}
             THEN Queued(wire[l]) \cup {n} ELSE Queued(wire[l])
      BY <2>1, <2>2, RelayedQueued
    <3>. QED
      BY <2>1, <3>1, <3>2
  <2>3. CASE wire' = Broadcast(wire, s, n)
    <3>1. Flows(wire')
      BY <2>1, <2>3, SentFlows
    <3>2. \A l \in Links : Queued(wire'[l]) =
             IF l[1] = s THEN Queued(wire[l]) \cup {n} ELSE Queued(wire[l])
      BY <2>1, <2>3, BroadcastQueued
    <3>. QED
      BY <3>1, <3>2
  <2>. QED
    BY <2>2, <2>3 DEF Starts
<1>3. /\ lines' \in [Servers -> SUBSET Placed]
      /\ \A t \in Servers \ {s} : lines'[t] = lines[t]
      /\ lines'[s] = IF s \in c.servers THEN Obeyed(lines[s], m) ELSE lines[s]
  BY <1>1, ObeyedLines DEF Inv, Typed, Starts
<1>4. /\ \A x \in lines'[s] : x \in lines[s] \/ (s \in c.servers /\ c.op = "add"
            /\ x.type = c.type /\ x.mask = c.mask /\ x.temp = c.temp)
      /\ c.op = "add" /\ s \in c.servers =>
            \E x \in lines'[s] : x.type = c.type /\ x.mask = c.mask
      /\ c.op = "add" => lines[s] \subseteq lines'[s]
      /\ \A x \in lines[s] : x.type # c.type \/ x.mask # c.mask => x \in lines'[s]
  BY <1>1, <1>3, ObeyedLines DEF Inv, Typed
<1>5. Typed'
  BY <1>1, <1>2, <1>3 DEF Inv, Typed
<1>6. AllBacked'
  <2>. SUFFICES ASSUME NEW l \in Links, NEW k \in Queued(wire'[l])
                PROVE  Backed(k)'
    BY DEF AllBacked
  <2>1. CASE k \in Queued(wire[l])
    BY <2>1, <1>1 DEF Inv, AllBacked, Backed
  <2>2. CASE k = n
    BY <2>2, <1>1 DEF Backed
  <2>. QED
    BY <2>1, <2>2, <1>2
<1>7. LinesMeant'
  <2>. SUFFICES ASSUME NEW t \in Servers, NEW x \in lines'[t]
                PROVE  \E d \in For(t, x)' : Accounts(d, t, x)'
    BY DEF LinesMeant
  <2>1. CASE x \in lines[t]
    BY <2>1, <1>1 DEF Inv, LinesMeant, For, Accounts, Taken
  <2>2. CASE x \notin lines[t]
    <3>1. t = s /\ s \in c.servers /\ c.op = "add"
          /\ x.type = c.type /\ x.mask = c.mask /\ x.temp = c.temp
      BY <2>2, <1>3, <1>4
    <3>2. c \in For(t, x)'
      BY <3>1, <1>1 DEF For
    <3>. QED
      BY <3>1, <3>2, <1>1 DEF Accounts, Taken
  <2>. QED
    BY <2>1, <2>2
<1>8. PlacedOrOnItsWay'
  <2>. SUFFICES ASSUME NEW d \in commands', NEW t \in d.servers, d.op = "add", Standing(d)'
                PROVE  /\ t = d.origin => Has(t, d)'
                       /\ t \in shared => Has(t, d)' \/ OnItsWay(t, d)'
    BY <1>1 DEF PlacedOrOnItsWay
  <2>1. CASE d \in commands
    <3>1. Standing(d) /\ (c.type # d.type \/ c.mask # d.mask \/ c.op = "add")
      BY <1>1 DEF Standing
    <3>2. t \in Servers
      BY <2>1 DEF Inv, Typed, Given
    <3>3. Has(t, d) => Has(t, d)'
      BY <3>1, <3>2, <1>3, <1>4 DEF Has
    <3>4. OnItsWay(t, d) => OnItsWay(t, d)'
      BY <1>2 DEF OnItsWay
    <3>. QED
      BY <2>1, <3>1, <3>3, <3>4 DEF Inv, PlacedOrOnItsWay
  <2>2. CASE d = c
    <3>1. t = s => Has(t, d)'
      BY <2>2, <1>4 DEF Has
    <3>2. ASSUME t # s
          PROVE  OnItsWay(t, d)'
      <4>1. PICK l \in Links : l[1] = s /\ t \in Behind[l]
        BY <2>2, <3>2, <1>1, FirstHop DEF Network
      <4>2. t \in n.target /\ n \in Queued(wire'[l])
        BY <2>2, <3>2, <4>1, <1>1, <1>2
      <4>. QED
        BY <2>2, <4>1, <4>2, <1>1 DEF OnItsWay, Serves
    <3>. QED
      BY <2>2, <3>1, <3>2, <1>1
  <2>. QED
    BY <2>1, <2>2, <1>1
<1>. QED
  BY <1>5, <1>6, <1>7, <1>8 DEF Inv

\* ms_kline, ms_resv, their UN forms and ms_encap: what is obeyed was meant for
\* this server, and what is meant for servers further on is sent to them.
LEMMA ReceiveStep ==
    ASSUME Network, Inv, NEW l \in Links, Receive(l)
    PROVE  Inv'
<1>. DEFINE s == l[2]
            m == Head(wire[l])
            w == [wire EXCEPT ![l] = Tail(@)]
<1>1. TreeAssumption /\ s \in Servers /\ "xline" \notin Types
  BY LinkEnds DEF Network
<1>2. /\ m \in Commands /\ Flows(w)
      /\ \A n \in Links : Queued(wire[n]) = Queued(w[n]) \cup (IF n = l THEN {m} ELSE {})
  <2>1. Flows(wire) /\ wire[l] # <<>>
    BY DEF Inv, Typed, Receive
  <2>. QED
    BY <2>1, ReadQueued
<1>3. /\ wire' = Relayed(w, s, l[1], m)
      /\ lines' = IF ObeysAt(s, m) THEN [lines EXCEPT ![s] = Obeyed(@, AsRead(m))] ELSE lines
      /\ shared' = shared /\ commands' = commands
  BY DEF Receive
<1>. HIDE DEF s, m, w
<1>4. /\ Flows(wire')
      /\ \A n \in Links : Queued(wire'[n]) =
            IF n[1] = s /\ n[2] # l[1] /\ Behind[n] \cap m.target # {}
            THEN Queued(w[n]) \cup {m} ELSE Queued(w[n])
  BY <1>2, <1>3, SentFlows, RelayedQueued
<1>5. Backed(m)
  BY <1>2 DEF Inv, AllBacked
<1>6. /\ lines' \in [Servers -> SUBSET Placed]
      /\ \A t \in Servers \ {s} : lines'[t] = lines[t]
      /\ lines'[s] = IF ObeysAt(s, m) THEN Obeyed(lines[s], m) ELSE lines[s]
  BY <1>1, <1>2, <1>3, ObeyedLines, ObeysWhenMeant DEF Inv, Typed
<1>7. /\ \A x \in lines'[s] : x \in lines[s] \/ (ObeysAt(s, m) /\ m.op = "add"
            /\ x.type = m.type /\ x.mask = m.mask /\ x.temp = m.temp)
      /\ m.op = "add" /\ ObeysAt(s, m) =>
            \E x \in lines'[s] : x.type = m.type /\ x.mask = m.mask
      /\ m.op = "add" => lines[s] \subseteq lines'[s]
      /\ \A x \in lines[s] : x.type # m.type \/ x.mask # m.mask => x \in lines'[s]
  BY <1>1, <1>2, <1>6, ObeyedLines DEF Inv, Typed
<1>8. Typed'
  BY <1>3, <1>4, <1>6 DEF Inv, Typed
<1>9. AllBacked'
  <2>. SUFFICES ASSUME NEW n \in Links, NEW k \in Queued(wire'[n])
                PROVE  Backed(k)
    BY <1>3 DEF AllBacked, Backed
  <2>1. k = m \/ k \in Queued(wire[n])
    BY <1>2, <1>4
  <2>. QED
    BY <2>1, <1>5 DEF Inv, AllBacked
<1>10. LinesMeant'
  <2>. SUFFICES ASSUME NEW t \in Servers, NEW x \in lines'[t]
                PROVE  \E d \in For(t, x) : Accounts(d, t, x)
    BY <1>3 DEF LinesMeant, For, Accounts, Taken
  <2>1. CASE x \in lines[t]
    BY <2>1 DEF Inv, LinesMeant
  <2>2. CASE x \notin lines[t]
    <3>1. t = s /\ ObeysAt(s, m) /\ m.op = "add"
          /\ x.type = m.type /\ x.mask = m.mask /\ x.temp = m.temp
      BY <2>2, <1>6, <1>7
    <3>2. s \in m.target /\ (s \in shared \/ (m.type = "resv" /\ m.temp))
      BY <3>1, <1>1, <1>2, ObeysWhenMeant
    <3>3. PICK d \in commands : /\ d.op = "add" /\ d.type = m.type /\ d.mask = m.mask
                                /\ d.temp = m.temp /\ m.target \subseteq d.servers
      BY <3>1, <1>5 DEF Backed
    <3>4. d \in For(t, x)
      BY <3>1, <3>2, <3>3 DEF For
    <3>. QED
      BY <3>1, <3>2, <3>3, <3>4 DEF Accounts, Asks, Taken
  <2>. QED
    BY <2>1, <2>2
<1>11. PlacedOrOnItsWay'
  <2>. SUFFICES ASSUME NEW d \in commands, NEW t \in d.servers, d.op = "add", Standing(d)
                PROVE  /\ t = d.origin => Has(t, d)'
                       /\ t \in shared => Has(t, d)' \/ OnItsWay(t, d)'
    BY <1>3 DEF PlacedOrOnItsWay, Standing
  <2>1. t \in Servers
    BY DEF Inv, Typed, Given
  <2>2. m.type # d.type \/ m.mask # d.mask \/ m.op = "add"
    BY <1>2, <1>5 DEF Standing, Backed, Commands
  <2>3. Has(t, d) => Has(t, d)'
    BY <2>1, <2>2, <1>6, <1>7 DEF Has
  <2>4. ASSUME t \in shared, OnItsWay(t, d)
        PROVE  Has(t, d)' \/ OnItsWay(t, d)'
    <3>1. PICK n, k : n \in Links /\ k \in Queued(wire[n]) /\ t \in Behind[n] /\ Serves(k, d, t)
      BY <2>4 DEF OnItsWay
    <3>2. CASE k \in Queued(wire'[n])
      BY <3>1, <3>2 DEF OnItsWay
    <3>3. CASE n = l /\ k = m
      <4>1. CASE t = s
        <5>1. ObeysAt(s, m) /\ m.op = "add" /\ m.type = d.type /\ m.mask = d.mask
          BY <2>4, <3>1, <3>3, <4>1, <1>1, <1>2, ObeysWhenMeant DEF Serves
        <5>. QED
          BY <4>1, <5>1, <1>7 DEF Has
      <4>2. CASE t # s
        <5>1. PICK j \in Links : j[1] = s /\ j[2] # l[1] /\ t \in Behind[j]
          BY <3>1, <3>3, <4>2, <1>1, NextHop DEF s
        <5>2. m \in Queued(wire'[j])
          BY <3>1, <3>3, <5>1, <1>4 DEF Serves
        <5>. QED
          BY <3>1, <3>3, <5>1, <5>2 DEF OnItsWay
      <4>. QED
        BY <4>1, <4>2
    <3>. QED
      BY <3>1, <3>2, <3>3, <1>2, <1>4
  <2>. QED
    BY <2>3, <2>4 DEF Inv, PlacedOrOnItsWay
<1>. QED
  BY <1>8, <1>9, <1>10, <1>11 DEF Inv

-----------------------------------------------------------------------------

\* When nothing is on its way, a line is in force where it was meant to be.
LEMMA InvShared ==
    ASSUME Inv
    PROVE  TypeOK /\ LinesShared
<1>1. TypeOK
  BY DEF Inv, Typed, Flows, TypeOK
<1>2. OnlyWhereMeant /\ OnlyWhereTaken
  BY DEF Inv, LinesMeant, OnlyWhereMeant, OnlyWhereTaken, TakenFor, Placers, Accounts
<1>3. EverywhereMeant
  BY QueuedEmpty
  DEF Inv, PlacedOrOnItsWay, OnItsWay, Has, Standing, EverywhereMeant, Taken,
      Quiet
<1>. QED
  BY <1>1, <1>2, <1>3 DEF LinesShared

\* The invariant holds initially and every handler keeps it.
LEMMA Invariance ==
    ASSUME Network
    PROVE  Spec => []Inv
<1>1. Init => Inv
  BY QueuedEmpty, EmptySeq
  DEF Init, Inv, Typed, Flows, AllBacked, LinesMeant, PlacedOrOnItsWay, Placed
<1>2. Inv /\ [Next]_vars => Inv'
  <2>. SUFFICES ASSUME Inv, [Next]_vars
                PROVE  Inv'
    OBVIOUS
  <2>1. ASSUME NEW s \in Origins, NEW op \in {"add", "remove"}, NEW type \in Types,
               NEW mask \in Masks, NEW temp \in BOOLEAN, NEW target \in Targets,
               Command(s, op, type, mask, temp, target)
        PROVE  Inv'
    <3>1. PICK c, m, n : Starts(s, c, m, n)
      BY <2>1, CommandStarts
    <3>. QED
      BY <3>1, CommandStep DEF Network
  <2>2. ASSUME NEW l \in Links, Receive(l)
        PROVE  Inv'
    BY <2>2, ReceiveStep
  <2>3. CASE UNCHANGED vars
    BY <2>3 DEF vars, Inv, Typed, AllBacked, Backed, LinesMeant, For, Accounts, Taken,
                PlacedOrOnItsWay, Has, OnItsWay, Standing
  <2>. QED
    BY <2>1, <2>2, <2>3 DEF Next
<1>. QED
  BY <1>1, <1>2, PTL DEF Spec

\* In every tree of servers, whatever they share, all variables keep their types.
THEOREM TypeCorrect ==
    ASSUME Network
    PROVE  Spec => []TypeOK
<1>1. Inv => TypeOK
  BY InvShared
<1>. QED
  BY <1>1, Invariance, PTL

\* A KLINE or a RESV is only in force where and for as long as it was meant to be
\* and, unless it is a RESV with a time, only on servers that share or its
\* operator's own; once all has been read it is wherever it was meant to be and
\* nobody took it back (cluster_a_line, ms_kline, ms_resv, ms_encap).
THEOREM SharedAsMeant ==
    ASSUME Network
    PROVE  Spec => []LinesShared
<1>1. Inv => LinesShared
  BY InvShared
<1>. QED
  BY <1>1, Invariance, PTL

=============================================================================
