---------------------------- MODULE GlinesProofs ----------------------------
(***************************************************************************)
(* A G-line is where the gdeny blocks on the way allow it, for every tree  *)
(* of servers, every set of operators and every bound.                     *)
(*                                                                         *)
(* PlacedWhereAsked speaks of servers that have read all there is.  The    *)
(* invariant Inv says where a request is until then: on a link that leads  *)
(* to every server that has still to place the G-line.                     *)
(***************************************************************************)
EXTENDS Glines, ListLemmas

\* What the theorem is about: any tree, with operators on it.
Network == TreeAssumption /\ Home \in [Opers -> Servers]

\* A request is only sent away from the operator's server, and not by servers
\* that deny it.
Away ==
    \A l \in Links : \A o \in Queued(wire[l]) :
        /\ o \in Queued(requests)
        /\ Home[o] \notin Behind[l]
        /\ \A x \in Between(l[2], Home[o]) : "block" \notin deny[x]

\* A server counts the votes for a G-line it has.
CountedAndPlaced ==
    \A s \in Servers \ lapsed : pending[s] # <<>> => glines[s] > 0

OnlyPlacedWhereAsked ==
    \A s \in Servers : glines[s] > 0 => \E o \in Queued(requests) : Asked(s, o)

\* A server that is to place the G-line has it, or a request is on its way
\* there.
PlacedOrOnItsWay ==
    \A s \in Servers \ lapsed : \A o \in Queued(requests) :
        Asked(s, o) => \/ glines[s] > 0
                       \/ \E l \in Links : s \in Behind[l] /\ o \in Queued(wire[l])

\* What is on its way on each link.
Flows(w) == w \in [Links -> Seq(Opers)]

Types ==
    /\ glines \in [Servers -> Nat]
    /\ DOMAIN pending = Servers
    /\ Flows(wire)
    /\ requests \in Seq(Opers)

\* The inductive invariant.
Inv == Types /\ Away /\ CountedAndPlaced /\ OnlyPlacedWhereAsked /\ PlacedOrOnItsWay

-----------------------------------------------------------------------------
(* The tree *)

\* Somebody a link leads to is its other end, or behind one of that end's other
\* links.
LEMMA NextHop ==
    ASSUME TreeAssumption, NEW l \in Links, NEW t \in Behind[l], t # l[2]
    PROVE  \E m \in Links : m[1] = l[2] /\ m[2] # l[1] /\ t \in Behind[m]
  BY DEF TreeAssumption

\* What is behind the other links of the other end is behind the link.
LEMMA Onward ==
    ASSUME TreeAssumption, NEW l \in Links, NEW m \in Links,
           m[1] = l[2], m[2] # l[1]
    PROVE  Behind[m] \subseteq Behind[l]
  BY DEF TreeAssumption

\* A link leads from one server to another, and to that one first.
LEMMA LinkEnds ==
    ASSUME TreeAssumption, NEW l \in Links
    PROVE  /\ l[1] \in Servers /\ l[2] \in Servers /\ l[1] # l[2]
           /\ l[2] \in Behind[l] /\ l[1] \notin Behind[l]
           /\ Behind[l] \subseteq Servers
  BY DEF TreeAssumption

\* Every server has a link towards every other one.
LEMMA FirstHop ==
    ASSUME TreeAssumption, NEW s \in Servers, NEW t \in Servers, s # t
    PROVE  \E l \in Links : l[1] = s /\ t \in Behind[l]
  BY DEF TreeAssumption

-----------------------------------------------------------------------------
(* The way of a request *)

\* Nobody is between an operator's server and the ones next to it.
LEMMA NobodyBetweenNeighbours ==
    ASSUME TreeAssumption, NEW m \in Links
    PROVE  Between(m[2], m[1]) = {}
  BY LinkEnds DEF Between, TreeAssumption

\* Between a server's neighbour and a server on its other side are it and
\* those between it and that server.
LEMMA BetweenOnward ==
    ASSUME TreeAssumption, NEW m \in Links, NEW h \in Servers
    PROVE  Between(m[2], h) \subseteq Between(m[1], h) \cup {m[1]}
<1>. SUFFICES ASSUME NEW x \in Between(m[2], h), x # m[1]
              PROVE  x \in Between(m[1], h)
  OBVIOUS
<1>1. PICK k, n \in Links : k # n /\ k[1] = x /\ n[1] = x
                            /\ m[2] \in Behind[k] /\ h \in Behind[n]
  BY DEF Between
<1>2. x \in Servers \ {m[2], h}
  BY DEF Between
<1>3. m[1] \in Behind[k]
  BY <1>1, <1>2 DEF TreeAssumption
<1>. QED
  BY <1>1, <1>2, <1>3 DEF Between

\* A server that reads a request on its way to another one is between that one
\* and the operator's.
LEMMA ReaderIsBetween ==
    ASSUME TreeAssumption, NEW l \in Links, NEW h \in Servers, h \notin Behind[l],
           NEW t \in Behind[l], t # l[2]
    PROVE  l[2] \in Between(t, h)
<1>1. PICK m \in Links : m[1] = l[2] /\ m[2] # l[1] /\ t \in Behind[m]
  BY NextHop
<1>2. h # l[2] /\ l[2] \in Servers
  BY LinkEnds
<1>3. PICK n \in Links : n[1] = l[2] /\ h \in Behind[n]
  BY <1>2, FirstHop
<1>4. m # n
  BY <1>1, <1>3, Onward
<1>. QED
  BY <1>1, <1>2, <1>3, <1>4 DEF Between

-----------------------------------------------------------------------------
(* What is on the links *)

\* Queues stay queues when a request is sent.
LEMMA SentFlows ==
    ASSUME NEW w, Flows(w), NEW s, NEW from, NEW o \in Opers
    PROVE  Flows(Sent(w, s, from, o))
<1>1. \A l \in Links : w[l] \in Seq(Opers) /\ Append(w[l], o) \in Seq(Opers)
  BY QueuedAppend DEF Flows
<1>. QED
  BY <1>1 DEF Flows, Sent

\* It is sent on the other links of a server.
LEMMA SentQueued ==
    ASSUME NEW w, Flows(w), NEW s, NEW from, NEW o \in Opers
    PROVE  \A l \in Links : Queued(Sent(w, s, from, o)[l]) =
              IF l[1] = s /\ l[2] # from THEN Queued(w[l]) \cup {o} ELSE Queued(w[l])
<1>1. \A l \in Links : Queued(Append(w[l], o)) = Queued(w[l]) \cup {o}
  BY QueuedAppend DEF Flows
<1>. QED
  BY <1>1 DEF Sent

\* One that is read is no longer on its way.
LEMMA ReadQueued ==
    ASSUME NEW w, Flows(w), NEW l \in Links, w[l] # <<>>
    PROVE  /\ Head(w[l]) \in Opers
           /\ Flows([w EXCEPT ![l] = Tail(@)])
           /\ \A n \in Links : Queued(w[n]) =
                 Queued([w EXCEPT ![l] = Tail(@)][n]) \cup (IF n = l THEN {Head(w[l])} ELSE {})
<1>1. /\ Head(w[l]) \in Opers /\ Tail(w[l]) \in Seq(Opers)
      /\ Queued(w[l]) = {Head(w[l])} \cup Queued(Tail(w[l]))
  BY QueuedTail DEF Flows
<1>. QED
  BY <1>1 DEF Flows

\* A vote counted is never one too few.
LEMMA VotedPlaced ==
    ASSUME Types, NEW s \in Servers, NEW o \in Opers, Voted(s, o)
    PROVE  /\ glines' \in [Servers -> Nat] /\ DOMAIN pending' = Servers
           /\ \A t \in Servers \ {s} : glines'[t] = glines[t] /\ pending'[t] = pending[t]
           /\ \/ UNCHANGED <<glines, pending>> /\ AlreadyVoted(s, o)
              \/ glines'[s] > 0
<1>1. Votes(s, o).placed \in {0, 1}
  BY DEF Votes
<1>2. CASE AlreadyVoted(s, o)
  BY <1>2 DEF Voted, Types
<1>3. CASE ~AlreadyVoted(s, o)
  <2>1. /\ glines' = [glines EXCEPT ![s] = @ + Votes(s, o).placed + 1]
        /\ pending' = [pending EXCEPT ![s] = Votes(s, o).pending]
    BY <1>3 DEF Voted
  <2>2. glines[s] \in Nat /\ glines[s] + Votes(s, o).placed + 1 \in Nat \ {0}
    BY <1>1 DEF Types
  <2>. QED
    BY <2>1, <2>2 DEF Types
<1>. QED
  BY <1>2, <1>3

-----------------------------------------------------------------------------
(* The steps *)

\* mo_gline: the operator's own server has counted it when it sends it.
LEMMA GlineStep ==
    ASSUME Network, Inv, NEW o \in Opers, Gline(o)
    PROVE  Inv'
<1>. DEFINE h == Home[o]
<1>1. h \in Servers /\ TreeAssumption
  BY DEF Network
<1>2. /\ Voted(h, o) /\ ~AlreadyVoted(h, o) /\ wire' = Sent(wire, h, h, o)
      /\ requests' = Append(requests, o) /\ deny' = deny /\ lapsed' = lapsed
  BY DEF Gline
<1>3. /\ glines' \in [Servers -> Nat] /\ DOMAIN pending' = Servers
      /\ \A t \in Servers \ {h} : glines'[t] = glines[t] /\ pending'[t] = pending[t]
      /\ glines'[h] > 0
  BY <1>1, <1>2, VotedPlaced DEF Inv
<1>4. /\ Flows(wire')
      /\ \A l \in Links : Queued(wire'[l]) =
            IF l[1] = h /\ l[2] # h THEN Queued(wire[l]) \cup {o} ELSE Queued(wire[l])
  <2>. HIDE DEF h
  <2>1. Flows(wire) /\ wire' = Sent(wire, h, h, o)
    BY <1>2 DEF Inv, Types
  <2>. QED
    BY <2>1, SentFlows, SentQueued
<1>5. requests' \in Seq(Opers) /\ Queued(requests') = Queued(requests) \cup {o}
  BY <1>2, QueuedAppend DEF Inv, Types
<1>6. \A s, p : Asked(s, p)' <=> Asked(s, p)
  BY <1>2 DEF Asked
<1>. HIDE DEF h
<1>7. Types'
  BY <1>3, <1>4, <1>5 DEF Types
<1>8. Away'
  <2>. SUFFICES ASSUME NEW l \in Links, NEW p \in Queued(wire'[l])
                PROVE  /\ p \in Queued(requests') /\ Home[p] \notin Behind[l]
                       /\ \A x \in Between(l[2], Home[p]) : "block" \notin deny[x]
    BY <1>2 DEF Away
  <2>1. CASE p \in Queued(wire[l])
    BY <2>1, <1>5 DEF Inv, Away
  <2>2. CASE l[1] = h /\ p = o
    BY <2>2, <1>1, <1>5, LinkEnds, NobodyBetweenNeighbours DEF h
  <2>. QED
    BY <2>1, <2>2, <1>4
<1>9. CountedAndPlaced'
  BY <1>2, <1>3 DEF Inv, CountedAndPlaced
<1>10. OnlyPlacedWhereAsked'
  <2>1. Asked(h, o)
    BY DEF Asked, h
  <2>. QED
    BY <2>1, <1>3, <1>5, <1>6 DEF Inv, OnlyPlacedWhereAsked
<1>11. PlacedOrOnItsWay'
  <2>. SUFFICES ASSUME NEW s \in Servers \ lapsed, NEW p \in Queued(requests'),
                       Asked(s, p), s # h
                PROVE  \/ glines'[s] > 0
                       \/ \E l \in Links : s \in Behind[l] /\ p \in Queued(wire'[l])
    BY <1>2, <1>3, <1>6 DEF PlacedOrOnItsWay
  <2>1. CASE p \in Queued(requests)
    BY <2>1, <1>3, <1>4 DEF Inv, PlacedOrOnItsWay
  <2>2. CASE p = o
    <3>1. PICK l \in Links : l[1] = h /\ s \in Behind[l]
      BY <1>1, FirstHop
    <3>. QED
      BY <2>2, <3>1, <1>1, <1>4, LinkEnds
  <2>. QED
    BY <2>1, <2>2, <1>5
<1>. QED
  BY <1>7, <1>8, <1>9, <1>10, <1>11 DEF Inv

\* do_sgline: a server that keeps a request to itself, or does not vote, is told
\* to by a gdeny block.
LEMMA ReceiveStep ==
    ASSUME Network, Inv, NEW l \in Links, Receive(l)
    PROVE  Inv'
<1>. DEFINE s == l[2]
            o == Head(wire[l])
            w == [wire EXCEPT ![l] = Tail(@)]
            denied == deny[s] \cap {"reject", "disabled"} # {}
<1>1. /\ TreeAssumption /\ s \in Servers /\ s \in Behind[l]
  BY LinkEnds DEF Network
<1>2. /\ o \in Opers /\ Flows(w)
      /\ \A n \in Links : Queued(wire[n]) = Queued(w[n]) \cup (IF n = l THEN {o} ELSE {})
  <2>1. Flows(wire) /\ wire[l] # <<>>
    BY DEF Inv, Types, Receive
  <2>. QED
    BY <2>1, ReadQueued
<1>3. /\ wire' = IF "block" \in deny[s] THEN w ELSE Sent(w, s, l[1], o)
      /\ IF denied THEN UNCHANGED <<glines, pending>> ELSE Voted(s, o)
      /\ deny' = deny /\ requests' = requests /\ lapsed' = lapsed
  BY DEF Receive
<1>4. /\ glines' \in [Servers -> Nat] /\ DOMAIN pending' = Servers
      /\ \A t \in Servers \ {s} : glines'[t] = glines[t] /\ pending'[t] = pending[t]
      /\ \/ glines'[s] = glines[s] /\ pending'[s] = pending[s]
         \/ glines'[s] > 0 /\ ~denied
      /\ denied \/ AlreadyVoted(s, o) \/ glines'[s] > 0
  BY <1>1, <1>2, <1>3, VotedPlaced DEF Inv, Types
<1>5. /\ Flows(wire')
      /\ \A n \in Links : Queued(wire'[n]) =
            IF n[1] = s /\ n[2] # l[1] /\ "block" \notin deny[s]
            THEN Queued(w[n]) \cup {o} ELSE Queued(w[n])
  <2>. HIDE DEF w, s, o
  <2>1. CASE "block" \in deny[s]
    BY <1>2, <1>3, <2>1
  <2>2. CASE "block" \notin deny[s]
    BY <1>2, <1>3, <2>2, SentFlows, SentQueued
  <2>. QED
    BY <2>1, <2>2
<1>6. /\ o \in Queued(requests) /\ Home[o] \notin Behind[l] /\ Home[o] \in Servers
      /\ \A x \in Between(s, Home[o]) : "block" \notin deny[x]
  BY <1>2 DEF Inv, Away, Network
<1>7. \A t, p : Asked(t, p)' <=> Asked(t, p)
  BY <1>3 DEF Asked
<1>. HIDE DEF s, o, w
<1>8. Types'
  BY <1>3, <1>4, <1>5 DEF Inv, Types
<1>9. \A n \in Links : Queued(w[n]) \subseteq Queued(wire[n])
  BY <1>2
<1>10. Away'
  <2>. SUFFICES ASSUME NEW n \in Links, NEW p \in Queued(wire'[n])
                PROVE  /\ p \in Queued(requests) /\ Home[p] \notin Behind[n]
                       /\ \A x \in Between(n[2], Home[p]) : "block" \notin deny[x]
    BY <1>3 DEF Away
  <2>1. CASE p \in Queued(wire[n])
    BY <2>1 DEF Inv, Away
  <2>2. CASE n[1] = s /\ n[2] # l[1] /\ "block" \notin deny[s] /\ p = o
    <3>1. Behind[n] \subseteq Behind[l]
      BY <2>2, <1>1, Onward DEF s
    <3>2. Between(n[2], Home[o]) \subseteq Between(s, Home[o]) \cup {s}
      BY <2>2, <1>1, <1>6, BetweenOnward
    <3>. QED
      BY <2>2, <3>1, <3>2, <1>6
  <2>. QED
    BY <2>1, <2>2, <1>5, <1>9
<1>11. CountedAndPlaced'
  BY <1>3, <1>4 DEF Inv, CountedAndPlaced
<1>12. OnlyPlacedWhereAsked'
  <2>1. ~denied => Asked(s, o)
    BY <1>6 DEF Asked
  <2>2. \A t \in Servers : glines'[t] > 0 => glines[t] > 0 \/ (t = s /\ ~denied)
    BY <1>4 DEF denied
  <2>. QED
    BY <2>1, <2>2, <1>3, <1>6, <1>7 DEF Inv, OnlyPlacedWhereAsked
<1>13. PlacedOrOnItsWay'
  <2>. SUFFICES ASSUME NEW t \in Servers \ lapsed, NEW p \in Queued(requests),
                       Asked(t, p), ~(glines'[t] > 0)
                PROVE  \E n \in Links : t \in Behind[n] /\ p \in Queued(wire'[n])
    BY <1>3, <1>7 DEF PlacedOrOnItsWay
  <2>1. ~(glines[t] > 0)
    BY <1>4
  <2>2. PICK k \in Links : t \in Behind[k] /\ p \in Queued(wire[k])
    BY <2>1 DEF Inv, PlacedOrOnItsWay
  <2>3. CASE p \in Queued(wire'[k])
    BY <2>2, <2>3
  <2>4. CASE k = l /\ p = o
    <3>1. t # Home[o] /\ Asked(t, o)
      BY <2>2, <2>4, <1>6
    <3>2. t # s
      <4>. SUFFICES ASSUME t = s PROVE FALSE
        OBVIOUS
      <4>1. ~denied
        BY <3>1 DEF Asked, denied
      <4>2. AlreadyVoted(s, o)
        BY <4>1, <1>4
      <4>3. pending[s] # <<>>
        BY <4>2 DEF AlreadyVoted
      <4>. QED
        BY <4>3, <2>1 DEF Inv, CountedAndPlaced
    <3>3. s \in Between(t, Home[o])
      BY <2>2, <2>4, <3>2, <1>1, <1>6, ReaderIsBetween DEF s
    <3>4. "block" \notin deny[s]
      BY <3>1, <3>3 DEF Asked
    <3>5. PICK n \in Links : n[1] = s /\ n[2] # l[1] /\ t \in Behind[n]
      BY <2>2, <2>4, <3>2, <1>1, NextHop DEF s
    <3>. QED
      BY <2>4, <3>4, <3>5, <1>5
  <2>. QED
    BY <2>2, <2>3, <2>4, <1>2, <1>5
<1>. QED
  BY <1>8, <1>10, <1>11, <1>12, <1>13 DEF Inv

\* mo_ungline, and the entries that are too old.
LEMMA UnglineStep ==
    ASSUME Inv, NEW s \in Servers, Ungline(s) \/ Cleanup(s)
    PROVE  Inv'
<1>1. /\ deny' = deny /\ wire' = wire /\ requests' = requests
      /\ lapsed \subseteq lapsed'
  BY DEF Ungline, Cleanup
<1>2. /\ glines' \in [Servers -> Nat] /\ DOMAIN pending' = Servers
      /\ \A t \in Servers : glines'[t] > 0 => glines[t] > 0
      /\ \A t \in Servers \ lapsed' : glines'[t] = glines[t]
      /\ \A t \in Servers : pending'[t] # <<>> => pending'[t] = pending[t]
  <2>1. CASE Ungline(s)
    BY <2>1 DEF Ungline, Inv, Types
  <2>2. CASE Cleanup(s)
    BY <2>2 DEF Cleanup, Inv, Types
  <2>. QED
    BY <2>1, <2>2
<1>3. \A t, p : Asked(t, p)' <=> Asked(t, p)
  BY <1>1 DEF Asked
<1>4. Types' /\ Away'
  BY <1>1, <1>2 DEF Inv, Types, Away
<1>5. CountedAndPlaced'
  BY <1>1, <1>2 DEF Inv, CountedAndPlaced
<1>6. OnlyPlacedWhereAsked'
  BY <1>1, <1>2, <1>3 DEF Inv, OnlyPlacedWhereAsked
<1>7. PlacedOrOnItsWay'
  BY <1>1, <1>2, <1>3 DEF Inv, PlacedOrOnItsWay
<1>. QED
  BY <1>4, <1>5, <1>6, <1>7 DEF Inv

-----------------------------------------------------------------------------

\* When nothing is on its way, a G-line is where even one request for it has come
\* through, so it is where three have.
LEMMA InvPlaced ==
    ASSUME Inv
    PROVE  PlacedWhereAsked
<1>1. OnlyWhereAsked
  BY DEF Inv, OnlyPlacedWhereAsked, OnlyWhereAsked, Queued
<1>2. EverywhereAsked
  <2>. SUFFICES ASSUME \A l \in Links : wire[l] = <<>>,
                       NEW s \in Servers \ lapsed, Cardinality(VotedFor(s)) >= 3
                PROVE  glines[s] > 0
    BY DEF EverywhereAsked
  <2>1. VotedFor(s) # {}
    <3>1. VotedFor(s) = {} => Cardinality(VotedFor(s)) = 0
      BY FS_EmptySet, Zenon
    <3>2. ~(0 >= 3)
      OBVIOUS
    <3>. QED
      BY <3>1, <3>2
  <2>2. PICK o \in Queued(requests) : Asked(s, o)
    BY <2>1 DEF VotedFor, ToSet, Queued
  <2>3. \A l \in Links : Queued(wire[l]) = {}
    BY QueuedEmpty
  <2>. QED
    BY <2>2, <2>3 DEF Inv, PlacedOrOnItsWay
<1>. QED
  BY <1>1, <1>2 DEF PlacedWhereAsked

\* In every tree of servers, whatever they deny, a G-line is only placed where
\* the gdeny blocks on the way allow a request for it to be obeyed; and once all
\* has been read it is placed wherever they let the votes of three servers
\* through, unless it or votes have lapsed there (mo_gline, do_sgline).
THEOREM GlinePlaced ==
    ASSUME Network, Opened \subseteq Servers
    PROVE  Spec => []PlacedWhereAsked
<1>1. Init => Inv
  BY QueuedEmpty, EmptySeq
  DEF Init, Inv, Types, Flows, Away, CountedAndPlaced, OnlyPlacedWhereAsked, PlacedOrOnItsWay
<1>2. Inv /\ [Next]_gvars => Inv'
  <2>. SUFFICES ASSUME Inv, [Next]_gvars
                PROVE  Inv'
    OBVIOUS
  <2>1. ASSUME NEW o \in Opers, Gline(o)
        PROVE  Inv'
    BY <2>1, GlineStep
  <2>2. ASSUME NEW l \in Links, Receive(l)
        PROVE  Inv'
    BY <2>2, ReceiveStep
  <2>3. ASSUME NEW s \in Opened, Ungline(s) \/ Cleanup(s)
        PROVE  Inv'
    BY <2>3, UnglineStep
  <2>4. CASE UNCHANGED gvars
    BY <2>4 DEF gvars, Inv, Types, Away, CountedAndPlaced, OnlyPlacedWhereAsked,
                PlacedOrOnItsWay, Asked
  <2>. QED
    BY <2>1, <2>2, <2>3, <2>4 DEF Next
<1>3. Inv => PlacedWhereAsked
  BY InvPlaced
<1>. QED
  BY <1>1, <1>2, <1>3, PTL DEF Spec

=============================================================================
