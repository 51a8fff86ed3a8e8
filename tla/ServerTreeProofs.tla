-------------------------- MODULE ServerTreeProofs --------------------------
(***************************************************************************)
(* What every server knows of the network is one tree behind its links,    *)
(* for every set of servers, every connect block and every configuration.  *)
(*                                                                         *)
(* The argument is about one table at a time: entering a server and taking *)
(* one off with all behind it keep it a tree.  Both are shown by induction *)
(* along the list, where each server stands after the one that introduced  *)
(* it: that is why remove_dependents reaches all of them, and no other.    *)
(***************************************************************************)
EXTENDS ServerTree, ListLemmas

-----------------------------------------------------------------------------
(* One table *)

InTable(T) == {x \in Servers : T.servptr[x] # NoServer}

\* The servers a line to which is a link of s.
Neighbours(s) == {Peer(e) : e \in Links(s)}

\* Where the server at place i of the list has come from.
Introduced(s, T, i) ==
    LET x == T.list[i] IN
    \/ T.servptr[x] = s /\ T.from[x] = x
    \/ /\ T.servptr[x] # s
       /\ T.from[x] = T.from[T.servptr[x]]
       /\ \E j \in 1 .. i - 1 : T.list[j] = T.servptr[x]

\* T is a tree rooted at s, whose neighbours are N.
TableRight(s, T, N) ==
    /\ T \in Tree
    /\ s \notin InTable(T)
    /\ \A x \in Servers : T.servptr[x] = NoServer <=> T.from[x] = NoServer
    /\ \A i \in 1 .. Len(T.list) : T.list[i] \in InTable(T)
    /\ \A x \in InTable(T) : \E i \in 1 .. Len(T.list) : T.list[i] = x
    /\ \A i, j \in 1 .. Len(T.list) : T.list[i] = T.list[j] => i = j
    /\ \A i \in 1 .. Len(T.list) : Introduced(s, T, i)
    /\ \A r \in Servers : r \in N <=> T.servptr[r] = s
    /\ N \subseteq Servers
    /\ \A r \in Servers :
          T.dep_servers[r] = Cardinality({x \in InTable(T) : T.from[x] = r})

-----------------------------------------------------------------------------
(* What is behind a server *)

\* The function BehindIn is defined by is there.
LEMMA BehindStep ==
    ASSUME NEW T \in Tree, NEW x
    PROVE  \E deep :
              /\ deep[0] = {x}
              /\ \A n \in 1 .. Len(T.list) :
                    deep[n] = deep[n - 1]
                              \cup {y \in Servers : T.servptr[y] \in deep[n - 1]}
              /\ BehindIn(T, x) = deep[Len(T.list)]
<1>. DEFINE N == Len(T.list)
            Grown(S) == S \cup {y \in Servers : T.servptr[y] \in S}
            Def(g, n) == [i \in 0 .. n |-> IF i = 0 THEN {x} ELSE Grown(g[i - 1])]
            G == {n \in 0 .. N : \E g : g = Def(g, n)}
<1>1. N \in Nat
  BY LenProperties DEF Tree
<1>. HIDE DEF Grown
<1>2. 0 \in G
  <2>. DEFINE g == [i \in 0 .. 0 |-> {x}]
  <2>1. g = Def(g, 0)
    BY <1>1
  <2>. HIDE DEF g
  <2>. QED
    BY <1>1, <2>1
<1>3. ASSUME NEW n \in 0 .. N - 1, n \in G PROVE n + 1 \in G
  <2>1. PICK g : g = Def(g, n)
    BY <1>3
  <2>. DEFINE h == [i \in 0 .. n + 1 |->
                       IF i <= n THEN g[i]
                       ELSE Grown(g[i - 1])]
  <2>2. ASSUME NEW i \in 0 .. n + 1
        PROVE  h[i] = Def(h, n + 1)[i]
    <3>1. CASE i <= n
      <4>1. g[i] = Def(g, n)[i]
        BY <2>1
      <4>2. i # 0 => h[i - 1] = g[i - 1]
        BY <1>1, <3>1
      <4>. QED
        BY <1>1, <3>1, <4>1, <4>2
    <3>2. CASE i = n + 1
      BY <1>1, <3>2
    <3>. QED
      BY <1>1, <3>1, <3>2
  <2>3. h = Def(h, n + 1)
    BY <2>2
  <2>. HIDE DEF h
  <2>. QED
    BY <1>1, <2>3
<1>4. N \in G
  <2>. HIDE DEF G
  <2>1. 0 .. N \subseteq G
    BY <1>1, <1>2, <1>3, InductionUpTo
  <2>. QED
    BY <1>1, <2>1
<1>5. PICK g : g = Def(g, N)
  BY <1>4
<1>. DEFINE deep == CHOOSE f : f = Def(f, N)
<1>6. deep = Def(deep, N)
  BY <1>5
<1>7. BehindIn(T, x) = deep[N]
  BY DEF BehindIn, Grown
<1>. HIDE DEF deep
<1>8. deep[0] = {x}
  BY <1>1, <1>6
<1>9. ASSUME NEW n \in 1 .. N
      PROVE  deep[n] = Grown(deep[n - 1])
  <2>1. \A h : h = Def(deep, N) => h[n] = Def(deep, N)[n]
    OBVIOUS
  <2>2. deep[n] = Def(deep, N)[n]
    BY <1>6, <2>1
  <2>. QED
    BY <1>1, <2>2
<1>. QED
  BY <1>7, <1>8, <1>9 DEF Grown

\* The servers behind x are those introduced by x or by one of them, all of
\* them behind the same link; behind a neighbour they are all that are there.
LEMMA BehindProperties ==
    ASSUME NEW s \in Servers, NEW T, NEW N, TableRight(s, T, N), NEW x \in InTable(T)
    PROVE  LET lost == BehindIn(T, x) IN
           /\ x \in lost
           /\ lost \subseteq InTable(T)
           /\ \A y \in lost : T.from[y] = T.from[x]
           /\ \A y \in lost : y # x => T.servptr[y] \in lost
           /\ \A y \in Servers : T.servptr[y] \in lost => y \in lost
           /\ x \in N => \A y \in InTable(T) : T.from[y] = x => y \in lost
<1>. DEFINE L == Len(T.list)
            Entered == {y \in InTable(T) : T.from[y] = T.from[x]}
<1>1. T \in Tree /\ L \in Nat
  BY LenProperties DEF TableRight, Tree
<1>2. PICK deep : /\ deep[0] = {x}
                  /\ \A n \in 1 .. L :
                        deep[n] = deep[n - 1]
                                  \cup {y \in Servers : T.servptr[y] \in deep[n - 1]}
                  /\ BehindIn(T, x) = deep[L]
  BY <1>1, BehindStep
<1>3. /\ \A n \in 0 .. L - 1 :
            deep[n + 1] = deep[n] \cup {y \in Servers : T.servptr[y] \in deep[n]}
  BY <1>1, <1>2
\* It grows.
<1>4. \A n \in 0 .. L : \A i \in 0 .. n : deep[i] \subseteq deep[n]
  <2>. DEFINE G == {n \in 0 .. L : \A i \in 0 .. n : deep[i] \subseteq deep[n]}
  <2>1. 0 \in G
    BY <1>1
  <2>2. ASSUME NEW n \in 0 .. L - 1, n \in G PROVE n + 1 \in G
    <3>1. deep[n] \subseteq deep[n + 1]
      BY <1>3
    <3>2. \A i \in 0 .. n : deep[i] \subseteq deep[n + 1]
      BY <2>2, <3>1
    <3>. QED
      BY <1>1, <3>2
  <2>. HIDE DEF G
  <2>3. 0 .. L \subseteq G
    BY <1>1, <2>1, <2>2, InductionUpTo
  <2>. QED
    BY <2>3 DEF G
\* All of it is in the table, behind one link.
<1>5. \A n \in 0 .. L : deep[n] \subseteq Entered
  <2>. DEFINE G == {n \in 0 .. L : deep[n] \subseteq Entered}
  <2>1. 0 \in G
    BY <1>1, <1>2
  <2>2. ASSUME NEW n \in 0 .. L - 1, n \in G PROVE n + 1 \in G
    <3>1. ASSUME NEW y \in Servers, T.servptr[y] \in deep[n] PROVE y \in Entered
      <4>1. T.servptr[y] \in Entered
        BY <2>2, <3>1
      <4>2. T.servptr[y] # NoServer /\ T.servptr[y] # s
        BY <4>1, ServersAssumption DEF InTable, TableRight
      <4>3. y \in InTable(T)
        BY <4>2 DEF InTable
      <4>4. PICK i \in 1 .. L : T.list[i] = y
        BY <4>3 DEF TableRight
      <4>5. T.from[y] = T.from[T.servptr[y]]
        BY <4>2, <4>4 DEF TableRight, Introduced
      <4>. QED
        BY <4>1, <4>3, <4>5
    <3>2. deep[n] \subseteq Entered
      BY <2>2
    <3>. HIDE DEF Entered
    <3>3. deep[n + 1] \subseteq Entered
      BY <1>3, <3>1, <3>2
    <3>. QED
      BY <1>1, <3>3
  <2>. HIDE DEF G
  <2>3. 0 .. L \subseteq G
    BY <1>1, <2>1, <2>2, InductionUpTo
  <2>. QED
    BY <2>3 DEF G
<1>. DEFINE lost == deep[L]
<1>6. x \in lost /\ lost \subseteq Entered /\ s \notin lost /\ NoServer \notin lost
  <2>1. deep[0] \subseteq lost
    BY <1>1, <1>4
  <2>2. lost \subseteq Entered
    BY <1>1, <1>5
  <2>. QED
    BY <1>2, <2>1, <2>2, ServersAssumption DEF TableRight, InTable
\* Whoever is in it is there through the one that introduced him.
<1>7. \A y \in lost : y # x => T.servptr[y] \in lost
  <2>. DEFINE G == {n \in 0 .. L : \A y \in deep[n] : y # x => T.servptr[y] \in lost}
  <2>1. 0 \in G
    BY <1>1, <1>2
  <2>2. ASSUME NEW n \in 0 .. L - 1, n \in G PROVE n + 1 \in G
    <3>1. deep[n] \subseteq lost
      BY <1>1, <1>4
    <3>. QED
      BY <1>1, <1>3, <2>2, <3>1
  <2>. HIDE DEF G
  <2>3. 0 .. L \subseteq G
    BY <1>1, <2>1, <2>2, InductionUpTo
  <2>. QED
    BY <1>1, <2>3 DEF G
\* A server at place i is reached before place i: its introducer stands
\* before it.
<1>8. \A i \in 1 .. L : T.list[i] \in lost => T.list[i] \in deep[i - 1]
  <2>. DEFINE B == {i \in 1 .. L : T.list[i] \in lost /\ T.list[i] \notin deep[i - 1]}
  <2>1. SUFFICES ASSUME B # {} PROVE FALSE
    OBVIOUS
  <2>2. PICK i \in B : \A m \in B : i <= m
    <3>1. B \subseteq Nat
      BY <1>1
    <3>. QED
      BY <2>1, <3>1, LeastNumber
  <2>3. i \in 1 .. L /\ T.list[i] \in lost /\ T.list[i] \notin deep[i - 1]
    OBVIOUS
  <2>4. T.list[i] # x
    BY <1>1, <1>2, <1>4, <2>3
  <2>5. T.servptr[T.list[i]] \in lost
    BY <1>7, <2>3, <2>4
  <2>6. PICK j \in 1 .. i - 1 : T.list[j] = T.servptr[T.list[i]]
    BY <1>6, <2>3, <2>5 DEF TableRight, Introduced
  <2>7. j \in 1 .. L /\ j \notin B
    BY <1>1, <2>2, <2>3
  <2>8. T.list[j] \in deep[j - 1]
    BY <2>5, <2>6, <2>7
  <2>9. T.list[i] \in deep[j]
    BY <1>1, <1>2, <1>6, <2>3, <2>6, <2>7, <2>8 DEF InTable
  <2>10. deep[j] \subseteq deep[i - 1]
    BY <1>1, <1>4, <2>3
  <2>. QED
    BY <2>3, <2>9, <2>10
\* So there is time to reach whom it has introduced.
<1>9. ASSUME NEW y \in Servers, T.servptr[y] \in lost PROVE y \in lost
  <2>1. y \in InTable(T) /\ T.servptr[y] # s
    BY <1>6, <1>9 DEF InTable
  <2>2. PICK i \in 1 .. L : T.list[i] = y
    BY <2>1 DEF TableRight
  <2>3. PICK j \in 1 .. i - 1 : T.list[j] = T.servptr[y]
    BY <2>1, <2>2 DEF TableRight, Introduced
  <2>4. j \in 1 .. L
    BY <1>1
  <2>5. T.servptr[y] \in deep[j - 1]
    BY <1>8, <1>9, <2>3, <2>4
  <2>6. y \in deep[j]
    BY <1>2, <2>4, <2>5
  <2>7. deep[j] \subseteq lost
    BY <1>1, <1>4, <2>4
  <2>. QED
    BY <2>6, <2>7
\* Behind a neighbour there is nobody else.
<1>10. ASSUME x \in N PROVE \A y \in InTable(T) : T.from[y] = x => y \in lost
  <2>. DEFINE B == {i \in 1 .. L : T.from[T.list[i]] = x /\ T.list[i] \notin lost}
  <2>1. SUFFICES ASSUME B # {} PROVE FALSE
    BY DEF TableRight
  <2>2. PICK i \in B : \A m \in B : i <= m
    <3>1. B \subseteq Nat
      BY <1>1
    <3>. QED
      BY <2>1, <3>1, LeastNumber
  <2>3. i \in 1 .. L /\ T.from[T.list[i]] = x /\ T.list[i] \notin lost
    OBVIOUS
  <2>4. T.list[i] # x
    BY <1>6, <2>3
  <2>5. PICK j \in 1 .. i - 1 : /\ T.list[j] = T.servptr[T.list[i]]
                                /\ T.from[T.list[j]] = x
    BY SMTT(30), <2>3, <2>4 DEF TableRight, Introduced
  <2>6. j \in 1 .. L /\ j \notin B
    BY <1>1, <2>2, <2>3
  <2>7. T.list[j] \in lost
    BY <2>5, <2>6
  <2>8. T.list[i] \in Servers
    BY <2>3 DEF TableRight, InTable
  <2>. QED
    BY <1>9, <2>3, <2>5, <2>7, <2>8
<1>. QED
  BY <1>2, <1>6, <1>7, <1>9, <1>10

-----------------------------------------------------------------------------
(* Entering a server, and taking one off *)

\* The counts are of finite sets.
LEMMA FiniteTable ==
    ASSUME NEW T, NEW r
    PROVE  /\ IsFiniteSet({x \in InTable(T) : T.from[x] = r})
           /\ Cardinality({x \in InTable(T) : T.from[x] = r}) \in Nat
<1>1. {x \in InTable(T) : T.from[x] = r} \subseteq Servers
  BY DEF InTable
<1>2. IsFiniteSet({x \in InTable(T) : T.from[x] = r})
  BY <1>1, FS_Subset, ServersAssumption
<1>. QED
  BY <1>2, FS_CardinalityType

\* A neighbour, or a server introduced by one that is there on the link that
\* one is behind, can be entered.
LEMMA WithRight ==
    ASSUME NEW s \in Servers, NEW T, NEW N, TableRight(s, T, N),
           NEW x \in Servers, x \notin InTable(T), x # s,
           NEW source \in Servers, NEW r \in Servers, NEW M,
           \/ source = s /\ r = x /\ M = N \cup {x}
           \/ source \in InTable(T) /\ r = T.from[source] /\ M = N
    PROVE  TableRight(s, With(T, x, source, r), M)
<1>. DEFINE W == With(T, x, source, r)
            L == Len(T.list)
            In(r1) == {y \in InTable(T) : T.from[y] = r1}
<1>1. /\ T \in Tree /\ L \in Nat
      /\ NoServer \notin Servers /\ s \notin InTable(T) /\ T.servptr[x] = NoServer
  BY LenProperties, ServersAssumption DEF TableRight, Tree, InTable
<1>2. /\ W.list = Append(T.list, x)
      /\ W.list \in Seq(Servers) /\ Len(W.list) = L + 1
      /\ \A i \in 1 .. L : W.list[i] = T.list[i]
      /\ W.list[L + 1] = x
  BY <1>1, AppendProperties DEF With, Tree
<1>3. /\ W.servptr = [T.servptr EXCEPT ![x] = source]
      /\ W.from = [T.from EXCEPT ![x] = r]
      /\ W.dep_servers = [T.dep_servers EXCEPT ![r] = @ + 1]
      /\ DOMAIN W = {"list", "servptr", "from", "dep_servers"}
  BY DEF With
<1>4. W \in Tree
  BY <1>1, <1>2 DEF With, Tree
<1>5. /\ \A y \in Servers : y # x => W.servptr[y] = T.servptr[y] /\ W.from[y] = T.from[y]
      /\ W.servptr[x] = source /\ W.from[x] = r
  BY <1>1, <1>3 DEF Tree
<1>. HIDE DEF W
<1>6. InTable(W) = InTable(T) \cup {x}
  BY <1>1, <1>5 DEF InTable
<1>7. s \notin InTable(W)
  BY <1>1, <1>6
<1>8. \A y \in Servers : W.servptr[y] = NoServer <=> W.from[y] = NoServer
  BY <1>1, <1>5 DEF TableRight
<1>9. 1 .. L + 1 = (1 .. L) \cup {L + 1} /\ (L + 1) - 1 = L
  BY <1>1
<1>10. \A i \in 1 .. Len(W.list) : W.list[i] \in InTable(W)
  BY <1>2, <1>6, <1>9 DEF TableRight
<1>11. \A y \in InTable(W) : \E i \in 1 .. Len(W.list) : W.list[i] = y
  BY <1>2, <1>6, <1>9 DEF TableRight
<1>12. \A i, j \in 1 .. Len(W.list) : W.list[i] = W.list[j] => i = j
  <2>1. \A i \in 1 .. L : T.list[i] # x
    BY DEF TableRight
  <2>. QED
    BY <1>2, <1>9, <2>1 DEF TableRight
<1>13. ASSUME NEW i \in 1 .. L PROVE Introduced(s, W, i)
  <2>. DEFINE y == T.list[i]
  <2>1. W.list[i] = y /\ y \in InTable(T) /\ y \in Servers /\ y # x
    BY <1>2 DEF TableRight, InTable
  <2>2. W.servptr[y] = T.servptr[y] /\ W.from[y] = T.from[y]
    BY <1>5, <2>1
  <2>. HIDE DEF y
  <2>3. CASE T.servptr[y] = s
    BY <2>1, <2>2, <2>3 DEF TableRight, Introduced, y
  <2>4. CASE T.servptr[y] # s
    <3>1. PICK j \in 1 .. i - 1 : T.list[j] = T.servptr[y]
      BY <2>4 DEF TableRight, Introduced, y
    <3>2. j \in 1 .. L
      BY <1>1
    <3>3. T.list[j] \in InTable(T) /\ T.list[j] # x /\ T.list[j] \in Servers
      BY <3>2 DEF TableRight, InTable
    <3>4. W.from[T.servptr[y]] = T.from[T.servptr[y]] /\ W.list[j] = T.servptr[y]
      BY <1>2, <1>5, <3>1, <3>2, <3>3
    <3>5. T.from[y] = T.from[T.servptr[y]]
      BY <2>4 DEF TableRight, Introduced, y
    <3>6. W.servptr[y] # s /\ W.from[y] = W.from[W.servptr[y]] /\ W.list[j] = W.servptr[y]
      BY <2>2, <2>4, <3>4, <3>5
    <3>. QED
      BY <2>1, <3>6 DEF Introduced
  <2>. QED
    BY <2>3, <2>4
<1>14. Introduced(s, W, L + 1)
  <2>1. CASE source = s /\ r = x
    BY <1>2, <1>5, <2>1 DEF Introduced
  <2>2. CASE source \in InTable(T) /\ r = T.from[source]
    <3>1. PICK j \in 1 .. L : T.list[j] = source
      BY <2>2 DEF TableRight
    <3>2. source # s /\ W.from[source] = r
      BY <1>1, <1>5, <2>2
    <3>3. j \in 1 .. (L + 1) - 1 /\ W.list[j] = source
      BY <1>2, <1>9, <3>1
    <3>. QED
      BY <1>2, <1>5, <3>2, <3>3 DEF Introduced
  <2>. QED
    BY <2>1, <2>2
<1>15. \A i \in 1 .. Len(W.list) : Introduced(s, W, i)
  BY <1>2, <1>9, <1>13, <1>14
<1>16. M \subseteq Servers /\ \A y \in Servers : y \in M <=> W.servptr[y] = s
  BY <1>1, <1>5 DEF TableRight
<1>17. ASSUME NEW q \in Servers
       PROVE  W.dep_servers[q] = Cardinality({y \in InTable(W) : W.from[y] = q})
  <2>1. IsFiniteSet(In(q)) /\ Cardinality(In(q)) \in Nat
    BY FiniteTable
  <2>2. T.dep_servers[q] = Cardinality(In(q))
    BY DEF TableRight
  <2>3. CASE q = r
    <3>1. {y \in InTable(W) : W.from[y] = q} = In(q) \cup {x}
      BY <1>5, <1>6, <2>3 DEF InTable
    <3>2. x \notin In(q)
      OBVIOUS
    <3>3. W.dep_servers[q] = T.dep_servers[q] + 1
      BY <1>1, <1>3, <2>3 DEF Tree
    <3>4. Cardinality(In(q) \cup {x}) = Cardinality(In(q)) + 1
      <4>. HIDE DEF In
      <4>. QED
        BY <2>1, <3>2, FS_AddElement
    <3>. QED
      BY <2>2, <3>1, <3>3, <3>4
  <2>4. CASE q # r
    <3>1. {y \in InTable(W) : W.from[y] = q} = In(q)
      BY <1>5, <1>6, <2>4 DEF InTable
    <3>2. W.dep_servers[q] = T.dep_servers[q]
      BY <1>1, <1>3, <2>4 DEF Tree
    <3>. QED
      BY <2>2, <3>1, <3>2
  <2>. QED
    BY <2>3, <2>4
<1>18. TableRight(s, W, M)
  BY <1>4, <1>7, <1>8, <1>10, <1>11, <1>12, <1>15, <1>16, <1>17 DEF TableRight
<1>. QED
  BY <1>18 DEF W

\* Every server is behind a neighbour.
LEMMA FromNeighbour ==
    ASSUME NEW s, NEW T, NEW N, TableRight(s, T, N), NEW x \in InTable(T)
    PROVE  T.from[x] \in N
<1>. DEFINE L == Len(T.list)
            B == {i \in 1 .. L : T.from[T.list[i]] \notin N}
<1>1. L \in Nat
  BY LenProperties DEF TableRight, Tree
<1>2. SUFFICES ASSUME B # {} PROVE FALSE
  BY DEF TableRight
<1>3. B \subseteq Nat
  BY <1>1
<1>4. PICK i \in B : \A m \in B : i <= m
  BY <1>2, <1>3, LeastNumber
<1>5. i \in 1 .. L /\ T.from[T.list[i]] \notin N /\ T.list[i] \in Servers
  BY DEF TableRight, InTable
<1>6. T.servptr[T.list[i]] # s
  BY <1>5 DEF TableRight, Introduced
<1>7. PICK j \in 1 .. i - 1 : /\ T.list[j] = T.servptr[T.list[i]]
                              /\ T.from[T.list[j]] = T.from[T.list[i]]
  BY <1>5, <1>6 DEF TableRight, Introduced
<1>8. j \in 1 .. L /\ j \notin B
  BY <1>1, <1>4, <1>5
<1>. QED
  BY <1>5, <1>7, <1>8

\* One that is there can be taken off with all that is behind it: no other
\* neighbour goes, and nobody is left without the one that introduced him.
LEMMA WithoutRight ==
    ASSUME NEW s \in Servers, NEW T, NEW N, TableRight(s, T, N), NEW x \in InTable(T)
    PROVE  TableRight(s, Without(T, x), N \ {x})
<1>. DEFINE lost == BehindIn(T, x)
            link == T.from[x]
            W == Without(T, x)
            L == Len(T.list)
            In(q) == {y \in InTable(T) : T.from[y] = q}
<1>1. /\ T \in Tree /\ L \in Nat /\ T.list \in Seq(Servers)
      /\ NoServer \notin Servers /\ s \notin InTable(T)
      /\ x \in Servers /\ link \in Servers
  BY LenProperties, ServersAssumption DEF TableRight, Tree, InTable
<1>2. /\ x \in lost
      /\ lost \subseteq InTable(T)
      /\ \A y \in lost : T.from[y] = T.from[x]
      /\ \A y \in lost : y # x => T.servptr[y] \in lost
      /\ \A y \in Servers : T.servptr[y] \in lost => y \in lost
      /\ x \in N => \A y \in InTable(T) : T.from[y] = x => y \in lost
  BY BehindProperties
<1>3. /\ W.list = Remaining(T.list, lost)
      /\ W.servptr = [y \in Servers |-> IF y \in lost THEN NoServer ELSE T.servptr[y]]
      /\ W.from = [y \in Servers |-> IF y \in lost THEN NoServer ELSE T.from[y]]
      /\ W.dep_servers = [T.dep_servers EXCEPT
                             ![link] = IF x = link THEN 0 ELSE @ - Cardinality(lost)]
      /\ W = [list |-> W.list, servptr |-> W.servptr, from |-> W.from,
              dep_servers |-> W.dep_servers]
  BY DEF Without
<1>. HIDE DEF W, lost
<1>. DEFINE Left(l) ==
                /\ l \in Seq(Servers)
                /\ \A b \in 1 .. Len(l) : \E i \in 1 .. L :
                      /\ l[b] = T.list[i] /\ T.list[i] \notin lost
                      /\ \A j \in 1 .. i - 1 : T.list[j] \notin lost =>
                            \E a \in 1 .. b - 1 : l[a] = T.list[j]
                /\ \A i \in 1 .. L : T.list[i] \notin lost =>
                      \E b \in 1 .. Len(l) : l[b] = T.list[i]
                /\ (\A i, j \in 1 .. L : T.list[i] = T.list[j] => i = j) =>
                      \A a, b \in 1 .. Len(l) : l[a] = l[b] => a = b
<1>4. Left(W.list)
  <2>1. Left(Remaining(T.list, lost))
    BY <1>1, RemainingProperties
  <2>. HIDE DEF Left
  <2>. QED
    BY <1>3, <2>1
<1>5. InTable(W) = InTable(T) \ lost
  BY <1>1, <1>3 DEF InTable
<1>6. \A y \in Servers \ lost : W.servptr[y] = T.servptr[y] /\ W.from[y] = T.from[y]
  BY <1>3
<1>7. \A y \in lost : W.servptr[y] = NoServer /\ W.from[y] = NoServer
  BY <1>2, <1>3 DEF InTable
\* x is a neighbour if it is its own link, and no other neighbour goes.
<1>8. /\ x = link <=> x \in N
      /\ \A y \in lost : y # x => T.servptr[y] # s
      /\ \A y \in N : y \in lost => y = x
  <2>1. PICK i \in 1 .. L : T.list[i] = x
    BY DEF TableRight
  <2>2. x = link => x \in N
    BY FromNeighbour
  <2>3. x \in N => x = link
    BY <1>1, <2>1 DEF TableRight, Introduced
  <2>4. s \notin lost
    BY <1>1, <1>2
  <2>5. \A y \in lost : y # x => T.servptr[y] # s
    BY <1>2, <2>4
  <2>. QED
    BY <2>2, <2>3, <2>5 DEF TableRight
<1>9. ASSUME NEW q \in Servers
      PROVE  /\ W.dep_servers[q] \in Nat
             /\ W.dep_servers[q] = Cardinality({y \in InTable(W) : W.from[y] = q})
  <2>. HIDE DEF link
  <2>0. IsFiniteSet(In(q)) /\ Cardinality(In(q)) \in Nat
    BY FiniteTable
  <2>1. T.dep_servers[q] = Cardinality(In(q))
    BY DEF TableRight
  <2>. USE DEF link
  <2>2. CASE q # link
    <3>1. {y \in InTable(W) : W.from[y] = q} = In(q)
      BY <1>2, <1>5, <1>6, <2>2 DEF InTable
    <3>2. W.dep_servers[q] = T.dep_servers[q]
      BY <1>1, <1>3, <2>2 DEF Tree
    <3>. QED
      BY <2>0, <2>1, <3>1, <3>2
  <2>3. CASE q = link /\ x = link
    <3>1. {y \in InTable(W) : W.from[y] = q} = {}
      BY <1>2, <1>5, <1>6, <1>8, <2>3 DEF InTable
    <3>2. W.dep_servers[q] = 0
      BY <1>1, <1>3, <2>3 DEF Tree
    <3>. QED
      BY <3>1, <3>2, FS_EmptySet
  <2>4. CASE q = link /\ x # link
    <3>1. {y \in InTable(W) : W.from[y] = q} = In(q) \ lost
      BY <1>5, <1>6 DEF InTable
    <3>2. In(q) \cap lost = lost
      BY <1>2, <2>4
    <3>3. W.dep_servers[q] = T.dep_servers[q] - Cardinality(lost)
      BY <1>1, <1>3, <2>4 DEF Tree
    <3>4. /\ IsFiniteSet(In(q) \ lost)
          /\ Cardinality(In(q) \ lost) = Cardinality(In(q)) - Cardinality(In(q) \cap lost)
      <4>. HIDE DEF In
      <4>. QED
        BY <2>0, FS_Difference
    <3>5. Cardinality(In(q) \ lost) \in Nat
      <4>. HIDE DEF In
      <4>. QED
        BY <3>4, FS_CardinalityType
    <3>. HIDE DEF In
    <3>. QED
      BY <2>0, <2>1, <3>1, <3>2, <3>3, <3>4, <3>5
  <2>. QED
    BY <2>2, <2>3, <2>4
<1>10. W \in Tree
  <2>1. W.dep_servers \in [Servers -> Nat]
    BY <1>1, <1>3, <1>9 DEF Tree
  <2>2. W.servptr \in [Servers -> Servers \cup {NoServer}]
    BY <1>1, <1>3 DEF Tree
  <2>3. W.from \in [Servers -> Servers \cup {NoServer}]
    BY <1>1, <1>3 DEF Tree
  <2>. QED
    BY <1>3, <1>4, <2>1, <2>2, <2>3 DEF Tree
<1>11. s \notin InTable(W)
  BY <1>1, <1>5
<1>12. \A y \in Servers : W.servptr[y] = NoServer <=> W.from[y] = NoServer
  BY <1>6, <1>7 DEF TableRight
<1>13. \A b \in 1 .. Len(W.list) : W.list[b] \in InTable(W)
  BY <1>4, <1>5 DEF TableRight
<1>14. \A y \in InTable(W) : \E b \in 1 .. Len(W.list) : W.list[b] = y
  <2>. SUFFICES ASSUME NEW y \in InTable(T), y \notin lost
                PROVE  \E b \in 1 .. Len(W.list) : W.list[b] = y
    BY <1>5
  <2>1. PICK i \in 1 .. L : T.list[i] = y
    BY DEF TableRight
  <2>. QED
    BY <1>4, <2>1
<1>15. \A a, b \in 1 .. Len(W.list) : W.list[a] = W.list[b] => a = b
  BY <1>4 DEF TableRight
<1>16. ASSUME NEW b \in 1 .. Len(W.list) PROVE Introduced(s, W, b)
  <2>1. PICK i \in 1 .. L :
            /\ W.list[b] = T.list[i] /\ T.list[i] \notin lost
            /\ \A j \in 1 .. i - 1 : T.list[j] \notin lost =>
                  \E a \in 1 .. b - 1 : W.list[a] = T.list[j]
    BY <1>4
  <2>. DEFINE y == T.list[i]
  <2>2. y \in Servers \ lost /\ W.servptr[y] = T.servptr[y] /\ W.from[y] = T.from[y]
    BY <1>6, <2>1 DEF TableRight, InTable
  <2>3. CASE T.servptr[y] = s
    BY <2>1, <2>2, <2>3 DEF TableRight, Introduced
  <2>4. CASE T.servptr[y] # s
    <3>1. PICK j \in 1 .. i - 1 : T.list[j] = T.servptr[y]
      BY <2>4 DEF TableRight, Introduced
    <3>2. T.list[j] \in Servers \ lost
      BY <1>1, <1>2, <2>2, <3>1 DEF TableRight, InTable
    <3>3. PICK a \in 1 .. b - 1 : W.list[a] = T.list[j]
      BY <2>1, <3>2
    <3>4. T.from[y] = T.from[T.servptr[y]]
      BY <2>4 DEF TableRight, Introduced
    <3>5. W.from[W.servptr[y]] = W.from[y]
      BY <1>6, <2>2, <3>1, <3>2, <3>4
    <3>. QED
      BY <2>1, <2>2, <2>4, <3>1, <3>3, <3>5 DEF Introduced
  <2>. QED
    BY <2>3, <2>4
<1>17. \A r \in Servers : r \in N \ {x} <=> W.servptr[r] = s
  BY <1>1, <1>2, <1>6, <1>7, <1>8 DEF TableRight
<1>18. N \ {x} \subseteq Servers
  BY DEF TableRight
<1>19. TableRight(s, W, N \ {x})
  BY <1>9, <1>10, <1>11, <1>12, <1>13, <1>14, <1>15, <1>16, <1>17, <1>18 DEF TableRight
<1>. QED
  BY <1>19 DEF W

-----------------------------------------------------------------------------
(* The invariant *)

\* Every server's table is right, and it has at most one link to each
\* neighbour.
TreeInv ==
    /\ TypeOK
    /\ \A s \in Servers : TableRight(s, tree[s], Neighbours(s))
    /\ OneLink

\* With the statuses st and the lines w, a SERVER is the first line at an end,
\* if there is one: the end that was connected to has nothing else until it
\* answers, and the other has nothing until then.
Greets(st, w) ==
    \A e \in Ends :
        /\ st[e] = "none" => w[e] = <<>>
        /\ st[e] = "unknown" => w[e] = <<Server>> /\ st[Other(e)] \in {"handshake", "none"}
        /\ st[e] = "handshake" /\ st[Other(e)] = "unknown" => w[e] = <<>>
        /\ st[e] = "server" /\ w[e] # <<>> => w[e][1].type # "server"
        /\ \A i \in 2 .. Len(w[e]) : w[e][i].type # "server"

\* So none arrives on a link that is up, which would be closed with the tables
\* left as they are.
Inv == TreeInv /\ Greets(status, wire)

Wires == [Ends -> Seq(Lines)]

\* A connection has an end at each of two servers.
LEMMA EndFacts ==
    ASSUME NEW e \in Ends
    PROVE  /\ e[2] \in Servers /\ Peer(e) \in Servers /\ Peer(e) # e[2]
           /\ Other(e) \in Ends /\ Other(e) # e /\ Other(Other(e)) = e
           /\ Other(e)[2] = Peer(e)
  BY ServersAssumption DEF Ends, Peer, Other

\* What is written, read and lost leaves lines on the wire.
LEMMA SentType ==
    ASSUME NEW w \in Wires, NEW To, NEW lines \in Seq(Lines)
    PROVE  Sent(w, To, lines) \in Wires
<1>1. ASSUME NEW f \in Ends PROVE w[f] \o lines \in Seq(Lines) /\ w[f] \in Seq(Lines)
  BY ConcatProperties DEF Wires
<1>. QED
  BY <1>1 DEF Sent, Wires

LEMMA CutType ==
    ASSUME NEW w \in Wires, NEW X
    PROVE  Cut(w, X) \in Wires
<1>1. <<>> \in Seq(Lines)
  BY EmptySeq
<1>. QED
  BY <1>1 DEF Cut, Wires

LEMMA ParsedType ==
    ASSUME wire \in Wires, NEW e \in Ends, wire[e] # <<>>
    PROVE  Parsed(e) \in Wires /\ Line(e) \in Lines
<1>1. wire[e] \in Seq(Lines) /\ Tail(wire[e]) \in Seq(Lines) /\ Head(wire[e]) \in Lines
  BY HeadTailProperties DEF Wires
<1>2. Len(wire[e]) \in Nat \ {0}
  BY <1>1, EmptySeq
<1>3. wire[e][1] \in Lines
  BY <1>1, <1>2, ElementOfSeq
<1>. QED
  BY <1>1, <1>3 DEF Parsed, Wires, Line

LEMMA OneLine ==
    ASSUME NEW line \in Lines
    PROVE  <<line>> \in Seq(Lines)
  OBVIOUS

\* What a new link is told is the servers of the table.
LEMMA BurstType ==
    ASSUME TreeInv, NEW s \in Servers, NEW r
    PROVE  /\ Burst(s, r) \in Seq(Lines)
           /\ \A i \in 1 .. Len(Burst(s, r)) : Burst(s, r)[i].type = "sid"
<1>. DEFINE T == tree[s]
            out == {y \in Servers : T.from[y] = r}
            sent == Remaining(T.list, out)
<1>1. TableRight(s, T, Neighbours(s)) /\ T.list \in Seq(Servers)
  BY DEF TreeInv, TableRight, Tree
<1>. HIDE DEF T, out
<1>2. /\ sent \in Seq(Servers)
      /\ \A b \in 1 .. Len(sent) : \E i \in 1 .. Len(T.list) : sent[b] = T.list[i]
  <2>1. sent \in Seq(Servers)
    BY <1>1, RemainingProperties
  <2>2. ASSUME NEW b \in 1 .. Len(sent)
        PROVE  \E i \in 1 .. Len(T.list) : sent[b] = T.list[i]
    BY SMTT(30), <1>1, RemainingProperties
  <2>. QED
    BY <2>1, <2>2
<1>. HIDE DEF sent
<1>3. Len(sent) \in Nat
  BY <1>2, LenProperties
<1>4. ASSUME NEW b \in 1 .. Len(sent)
      PROVE  Sid(sent[b], T.servptr[sent[b]]) \in Lines
  <2>1. sent[b] \in InTable(T)
    BY <1>1, <1>2 DEF TableRight
  <2>2. sent[b] \in Servers /\ T.servptr[sent[b]] \in Servers
    BY <1>1, <2>1 DEF InTable, TableRight, Tree
  <2>. QED
    BY <2>2 DEF Sid, Lines
<1>5. Burst(s, r) = [b \in 1 .. Len(sent) |-> Sid(sent[b], T.servptr[sent[b]])]
  BY DEF Burst, sent, out, T
<1>6. Burst(s, r) \in Seq(Lines)
  BY <1>3, <1>4, <1>5, SeqDef
<1>7. Len(Burst(s, r)) = Len(sent)
  BY <1>3, <1>5, <1>6, LenProperties
<1>8. \A b \in 1 .. Len(sent) : Burst(s, r)[b].type = "sid"
  BY <1>5 DEF Sid
<1>. QED
  BY <1>6, <1>7, <1>8

\* A step that leaves the tables and the links alone.
LEMMA OtherSteps ==
    ASSUME TreeInv, tree' = tree, status' \in [Ends -> Statuses], wire' \in Wires,
           \A f \in Ends : status'[f] = "server" <=> status[f] = "server",
           connects' \in 0 .. MaxConnects, breaks' \in 0 .. MaxBreaks,
           squits' \in 0 .. MaxBreaks, config' \in Configs
    PROVE  TreeInv'
<1>1. \A s : Links(s)' = Links(s)
  BY DEF Links, EndsOf
<1>2. \A s : Neighbours(s)' = Neighbours(s)
  BY <1>1 DEF Neighbours
<1>3. OneLink'
  BY <1>1 DEF TreeInv, OneLink
<1>4. TypeOK'
  BY DEF TreeInv, TypeOK, Wires
<1>. QED
  BY <1>2, <1>3, <1>4 DEF TreeInv

\* A step in which s exits a server it knows: the end of its link goes, with
\* others that are no links.
LEMMA ExitSteps ==
    ASSUME TreeInv, NEW s \in Servers, NEW x \in Known(s), NEW told, NEW X, NEW w \in Wires,
           \A f \in X : status[f] # "server",
           ExitServer(s, x, told, X, w),
           connects' \in 0 .. MaxConnects, breaks' \in 0 .. MaxBreaks,
           squits' \in 0 .. MaxBreaks, config' \in Configs
    PROVE  TreeInv'
<1>. DEFINE closing == X \cup {e \in Links(s) : Peer(e) = x}
<1>1. /\ tree \in [Servers -> Tree] /\ status \in [Ends -> Statuses]
      /\ x \in InTable(tree[s])
      /\ \A q \in Servers : TableRight(q, tree[q], Neighbours(q))
  BY DEF TreeInv, TypeOK, Known, InTable
<1>2. /\ tree' = [tree EXCEPT ![s] = Without(@, x)]
      /\ status' = [f \in Ends |-> IF f \in closing THEN "none" ELSE status[f]]
      /\ wire' = Cut(Sent(w, told \ closing, <<Squit(x)>>), closing)
  BY DEF ExitServer, Closed
<1>3. status' \in [Ends -> Statuses]
  BY <1>1, <1>2 DEF Statuses
<1>4. wire' \in Wires
  <2>1. Squit(x) \in Lines
    BY DEF Squit, Lines, Known
  <2>2. Sent(w, told \ closing, <<Squit(x)>>) \in Wires
    BY <2>1, OneLine, SentType
  <2>. HIDE DEF closing
  <2>. QED
    BY <1>2, <2>2, CutType
<1>5. \A q \in Servers : Links(q)' = {e \in Links(q) : q # s \/ Peer(e) # x}
  <2>1. ASSUME NEW q \in Servers, NEW f
        PROVE  f \in Links(q)' <=> f \in Links(q) /\ (q # s \/ Peer(f) # x)
    BY <1>2 DEF Links, EndsOf
  <2>. QED
    BY <2>1
<1>6. \A q \in Servers : Neighbours(q)' = IF q = s THEN Neighbours(q) \ {x} ELSE Neighbours(q)
  BY <1>5 DEF Neighbours
<1>7. TableRight(s, Without(tree[s], x), Neighbours(s) \ {x})
  BY <1>1, WithoutRight
<1>8. \A q \in Servers : TableRight(q, tree'[q], Neighbours(q)')
  BY <1>1, <1>2, <1>6, <1>7
<1>9. tree' \in [Servers -> Tree]
  <2>1. Without(tree[s], x) \in Tree
    BY <1>7 DEF TableRight
  <2>. QED
    BY <1>1, <1>2, <2>1
<1>10. OneLink'
  BY <1>5 DEF TreeInv, OneLink
<1>. QED
  BY <1>3, <1>4, <1>8, <1>9, <1>10 DEF TreeInv, TypeOK, Wires

\* A step in which s enters a server: its neighbour at a new end, or one
\* introduced by another.
LEMMA EnterSteps ==
    ASSUME TreeInv, NEW s \in Servers, NEW x \in Servers, x \notin Known(s), x # s,
           NEW source \in Servers, NEW r \in Servers, NEW new \in SUBSET Ends,
           \/ source = s /\ r = x /\ \E e \in Ends : new = {e} /\ e[2] = s /\ Peer(e) = x
           \/ source \in Known(s) /\ r = tree[s].from[source] /\ new = {},
           tree' = [tree EXCEPT ![s] = With(@, x, source, r)],
           status' \in [Ends -> Statuses], wire' \in Wires,
           \A f \in Ends : status'[f] = "server" <=> status[f] = "server" \/ f \in new,
           connects' \in 0 .. MaxConnects, breaks' \in 0 .. MaxBreaks,
           squits' \in 0 .. MaxBreaks, config' \in Configs
    PROVE  TreeInv'
<1>. DEFINE M == Neighbours(s) \cup {Peer(e) : e \in new}
<1>1. /\ tree \in [Servers -> Tree] /\ x \notin InTable(tree[s])
      /\ \A q \in Servers : TableRight(q, tree[q], Neighbours(q))
      /\ \A q \in Servers : Known(q) = InTable(tree[q])
  BY DEF TreeInv, TypeOK, Known, InTable
<1>2. \A q \in Servers : Links(q)' = IF q = s THEN Links(q) \cup new ELSE Links(q)
  <2>1. ASSUME NEW q \in Servers, NEW f
        PROVE  f \in Links(q)' <=> f \in Links(q) \/ (q = s /\ f \in new)
    BY DEF Links, EndsOf
  <2>. QED
    BY <2>1
<1>3. \A q \in Servers : Neighbours(q)' = IF q = s THEN M ELSE Neighbours(q)
  BY <1>2 DEF Neighbours
<1>4. TableRight(s, With(tree[s], x, source, r), M)
  <2>1. \/ source = s /\ r = x /\ M = Neighbours(s) \cup {x}
        \/ source \in InTable(tree[s]) /\ r = tree[s].from[source] /\ M = Neighbours(s)
    BY <1>1
  <2>. HIDE DEF M
  <2>. QED
    BY <1>1, <2>1, WithRight
<1>5. \A q \in Servers : TableRight(q, tree'[q], Neighbours(q)')
  BY <1>1, <1>3, <1>4
<1>6. tree' \in [Servers -> Tree]
  <2>1. With(tree[s], x, source, r) \in Tree
    BY <1>4 DEF TableRight
  <2>. QED
    BY <1>1, <2>1
<1>7. OneLink'
  <2>1. \A f \in Links(s) : Peer(f) # x
    BY <1>1, ServersAssumption DEF TableRight, Neighbours, InTable, Links, EndsOf
  <2>. QED
    BY <1>2, <2>1 DEF TreeInv, OneLink
<1>. QED
  BY <1>5, <1>6, <1>7 DEF TreeInv, TypeOK, Wires

-----------------------------------------------------------------------------
(* The steps *)

\* What holds in the state before.
LEMMA Invs ==
    ASSUME Inv
    PROVE  /\ TreeInv /\ Greets(status, wire)
           /\ status \in [Ends -> Statuses] /\ wire \in Wires
           /\ connects \in 0 .. MaxConnects /\ breaks \in 0 .. MaxBreaks
           /\ squits \in 0 .. MaxBreaks /\ config \in Configs
           /\ MaxConnects \in Nat /\ MaxBreaks \in Nat
  BY ServersAssumption DEF Inv, TreeInv, TypeOK, Wires

\* What is written to ends that are past the greeting, or on the way to it,
\* is not in its way.
LEMMA GreetsSent ==
    ASSUME NEW st, NEW w \in Wires, Greets(st, w), NEW To, NEW lines \in Seq(Lines),
           \A i \in 1 .. Len(lines) : lines[i].type # "server",
           \A f \in Ends : Other(f) \in To /\ status[f] # "none" =>
              /\ st[f] \notin {"none", "unknown"}
              /\ st[f] = "handshake" => st[Other(f)] # "unknown"
    PROVE  Greets(st, Sent(w, To, lines))
<1>. DEFINE v == Sent(w, To, lines)
<1>. SUFFICES ASSUME NEW f \in Ends
              PROVE  /\ st[f] = "none" => v[f] = <<>>
                     /\ st[f] = "unknown" => /\ v[f] = <<Server>>
                                             /\ st[Other(f)] \in {"handshake", "none"}
                     /\ st[f] = "handshake" /\ st[Other(f)] = "unknown" => v[f] = <<>>
                     /\ st[f] = "server" /\ v[f] # <<>> => v[f][1].type # "server"
                     /\ \A i \in 2 .. Len(v[f]) : v[f][i].type # "server"
  BY DEF Greets
<1>1. CASE Other(f) \in To /\ status[f] # "none"
  <2>1. v[f] = w[f] \o lines
    BY <1>1 DEF Sent
  <2>2. w[f] \in Seq(Lines) /\ Len(w[f]) \in Nat /\ Len(lines) \in Nat
    BY LenProperties DEF Wires
  <2>3. /\ Len(v[f]) = Len(w[f]) + Len(lines)
        /\ \A i \in 1 .. Len(w[f]) + Len(lines) :
              v[f][i] = IF i <= Len(w[f]) THEN w[f][i] ELSE lines[i - Len(w[f])]
    BY <2>1, <2>2, ConcatProperties
  <2>4. v[f] \in Seq(Lines)
    BY <2>1, <2>2, ConcatProperties
  <2>. HIDE DEF v
  <2>5. ASSUME NEW i \in 1 .. Len(v[f]), i > Len(w[f]) PROVE v[f][i].type # "server"
    <3>1. i - Len(w[f]) \in 1 .. Len(lines)
      BY <2>2, <2>3, <2>5
    <3>2. v[f][i] = lines[i - Len(w[f])]
      BY <2>2, <2>3, <2>5
    <3>. QED
      BY <3>1, <3>2
  <2>6. ASSUME NEW i \in 1 .. Len(v[f]), i <= Len(w[f]), i >= 2 \/ st[f] = "server"
        PROVE  v[f][i].type # "server"
    <3>1. i \in 1 .. Len(w[f]) /\ v[f][i] = w[f][i]
      BY <2>2, <2>3, <2>6
    <3>2. i >= 2 => w[f][i].type # "server"
      BY <3>1 DEF Greets
    <3>3. i = 1 /\ st[f] = "server" => w[f][i].type # "server"
      BY <2>2, <3>1, EmptySeq DEF Greets
    <3>. QED
      BY <2>6, <3>1, <3>2, <3>3
  <2>7. \A i \in 2 .. Len(v[f]) : v[f][i].type # "server"
    BY <2>2, <2>3, <2>5, <2>6
  <2>8. st[f] = "server" /\ v[f] # <<>> => v[f][1].type # "server"
    BY <2>2, <2>3, <2>4, <2>5, <2>6, EmptySeq
  <2>. QED
    BY <1>1, <2>7, <2>8
<1>2. CASE ~(Other(f) \in To /\ status[f] # "none")
  <2>1. v[f] = w[f]
    BY <1>2 DEF Sent
  <2>. HIDE DEF v
  <2>. QED
    BY <2>1 DEF Greets
<1>. QED
  BY <1>1, <1>2

\* Connections that are closed have nothing to read.
LEMMA GreetsCut ==
    ASSUME NEW st, NEW w, Greets(st, w), NEW X
    PROVE  Greets([f \in Ends |-> IF f \in X THEN "none" ELSE st[f]], Cut(w, X))
<1>. DEFINE n == [f \in Ends |-> IF f \in X THEN "none" ELSE st[f]]
            v == Cut(w, X)
<1>1. \A f \in Ends : Other(f) \in Ends
  BY EndFacts
<1>2. \A f \in Ends : n[f] = IF f \in X THEN "none" ELSE st[f]
  OBVIOUS
<1>3. \A f \in Ends : v[f] = IF f \in X THEN <<>> ELSE w[f]
  BY DEF Cut
<1>4. Len(<<>>) = 0
  BY EmptySeq
<1>. HIDE DEF n, v
<1>5. ASSUME NEW f \in Ends
      PROVE  /\ n[f] = "none" => v[f] = <<>>
             /\ n[f] = "unknown" => v[f] = <<Server>> /\ n[Other(f)] \in {"handshake", "none"}
             /\ n[f] = "handshake" /\ n[Other(f)] = "unknown" => v[f] = <<>>
             /\ n[f] = "server" /\ v[f] # <<>> => v[f][1].type # "server"
             /\ \A i \in 2 .. Len(v[f]) : v[f][i].type # "server"
  <2>1. CASE f \in X
    BY <1>2, <1>3, <1>4, <2>1
  <2>2. CASE f \notin X
    <3>1. n[f] = st[f] /\ v[f] = w[f]
      BY <1>2, <1>3, <2>2
    <3>2. n[Other(f)] = "none" \/ n[Other(f)] = st[Other(f)]
      BY <1>1, <1>2
    <3>. QED
      BY <3>1, <3>2 DEF Greets
  <2>. QED
    BY <2>1, <2>2
<1>6. Greets(n, v)
  BY <1>5 DEF Greets
<1>. QED
  BY <1>6 DEF n, v

\* A line is read, once the greeting is.
LEMMA GreetsParsed ==
    ASSUME Greets(status, wire), wire \in Wires, NEW e \in Ends, wire[e] # <<>>,
           status[e] # "unknown"
    PROVE  Greets(status, Parsed(e))
<1>. DEFINE v == Parsed(e)
<1>1. /\ v[e] = Tail(wire[e])
      /\ \A f \in Ends : f # e => v[f] = wire[f]
  BY DEF Parsed, Wires
<1>2. /\ wire[e] \in Seq(Lines) /\ v[e] \in Seq(Lines) /\ Len(v[e]) = Len(wire[e]) - 1
      /\ \A i \in 1 .. Len(v[e]) : v[e][i] = wire[e][i + 1]
      /\ Len(wire[e]) \in Nat \ {0}
  BY <1>1, HeadTailProperties, EmptySeq DEF Wires
<1>. HIDE DEF v
<1>3. \A i \in 1 .. Len(v[e]) : v[e][i].type # "server"
  <2>. SUFFICES ASSUME NEW i \in 1 .. Len(v[e]) PROVE v[e][i].type # "server"
    OBVIOUS
  <2>1. i + 1 \in 2 .. Len(wire[e])
    BY <1>2
  <2>. QED
    BY <1>2, <2>1 DEF Greets
<1>4. v[e] # <<>> => 1 \in 1 .. Len(v[e])
  BY <1>2, EmptySeq
<1>5. 2 .. Len(v[e]) \subseteq 1 .. Len(v[e])
  BY <1>2
<1>6. status[e] # "none" /\ ~(status[e] = "handshake" /\ status[Other(e)] = "unknown")
  BY DEF Greets
<1>7. ASSUME NEW f \in Ends
      PROVE  /\ status[f] = "none" => v[f] = <<>>
             /\ status[f] = "unknown" => /\ v[f] = <<Server>>
                                         /\ status[Other(f)] \in {"handshake", "none"}
             /\ status[f] = "handshake" /\ status[Other(f)] = "unknown" => v[f] = <<>>
             /\ status[f] = "server" /\ v[f] # <<>> => v[f][1].type # "server"
             /\ \A i \in 2 .. Len(v[f]) : v[f][i].type # "server"
  <2>1. CASE f = e
    BY <1>3, <1>4, <1>5, <1>6, <2>1
  <2>2. CASE f # e
    <3>1. v[f] = wire[f]
      BY <1>1, <2>2
    <3>. QED
      BY <3>1 DEF Greets
  <2>. QED
    BY <2>1, <2>2
<1>8. Greets(status, v)
  BY <1>7 DEF Greets
<1>. QED
  BY <1>8 DEF v

-----------------------------------------------------------------------------
(* The steps that change no table *)

\* serv_connect
LEMMA ConnectKeeps ==
    ASSUME Inv, NEW c \in Connects, Connect(c)
    PROVE  Inv'
<1>. DEFINE e == <<c, c[1]>>
<1>1. e \in Ends /\ Other(e) \in Ends /\ Other(e) # e /\ Other(Other(e)) = e
  <2>1. e \in Ends
    BY ServersAssumption DEF Ends
  <2>. QED
    BY <2>1, EndFacts
<1>2. <<>> \in Seq(Lines) /\ <<Server>> \in Seq(Lines) /\ Len(<<>>) = 0 /\ Len(<<Server>>) = 1
  BY EmptySeq, OneLine DEF Server, Lines
<1>. HIDE DEF e
<1>3. /\ status' = [status EXCEPT ![e] = "handshake", ![Other(e)] = "unknown"]
      /\ wire' = [wire EXCEPT ![e] = <<>>, ![Other(e)] = <<Server>>]
      /\ tree' = tree /\ connects' \in 0 .. MaxConnects
      /\ breaks' = breaks /\ squits' = squits /\ config' = config
      /\ status[e] = "none" /\ status[Other(e)] = "none"
  BY Invs DEF Connect, e
<1>4. wire' \in Wires /\ status' \in [Ends -> Statuses]
  BY <1>1, <1>2, <1>3, Invs DEF Wires, Statuses
<1>5. \A f \in Ends : status'[f] = "server" <=> status[f] = "server"
  BY <1>1, <1>3, Invs
<1>6. TreeInv'
  BY <1>3, <1>4, <1>5, Invs, OtherSteps
<1>7. /\ \A f \in Ends \ {e, Other(e)} : status'[f] = status[f] /\ wire'[f] = wire[f]
      /\ status'[e] = "handshake" /\ status'[Other(e)] = "unknown"
      /\ wire'[e] = <<>> /\ wire'[Other(e)] = <<Server>>
  BY <1>1, <1>3, Invs DEF Wires
<1>8. \A f \in Ends \ {e, Other(e)} : Other(f) \in Ends \ {e, Other(e)}
  BY <1>1, EndFacts
<1>9. ASSUME NEW f \in Ends
      PROVE  /\ status'[f] = "none" => wire'[f] = <<>>
             /\ status'[f] = "unknown" => /\ wire'[f] = <<Server>>
                                          /\ status'[Other(f)] \in {"handshake", "none"}
             /\ status'[f] = "handshake" /\ status'[Other(f)] = "unknown" => wire'[f] = <<>>
             /\ status'[f] = "server" /\ wire'[f] # <<>> => wire'[f][1].type # "server"
             /\ \A i \in 2 .. Len(wire'[f]) : wire'[f][i].type # "server"
  <2>1. CASE f \in {e, Other(e)}
    BY <1>1, <1>2, <1>7, <2>1
  <2>2. CASE f \notin {e, Other(e)}
    BY <1>7, <1>8, <2>2, Invs DEF Greets
  <2>. QED
    BY <2>1, <2>2
<1>10. Greets(status', wire')
  BY <1>9 DEF Greets
<1>. QED
  BY <1>6, <1>10 DEF Inv

\* Closing connections that are no links, after what w says has been written.
LEMMA ClosedKeeps ==
    ASSUME Inv, NEW X, NEW w \in Wires, Greets(status, w),
           Closed(X), wire' = Cut(w, X), \A f \in X \cap Ends : status[f] # "server",
           tree' = tree, connects' = connects, breaks' \in 0 .. MaxBreaks,
           squits' = squits, config' = config
    PROVE  Inv'
<1>1. /\ status' \in [Ends -> Statuses]
      /\ \A f \in Ends : status'[f] = "server" <=> status[f] = "server"
  BY Invs DEF Closed, Statuses
<1>2. wire' \in Wires
  BY CutType
<1>3. TreeInv'
  BY <1>1, <1>2, Invs, OtherSteps
<1>4. Greets(status', wire')
  BY GreetsCut DEF Closed
<1>. QED
  BY <1>3, <1>4 DEF Inv

\* A line at an end that is past the greeting is not a SERVER, and one at an
\* end that is not is.
LEMMA ArrivesFacts ==
    ASSUME Inv, NEW e \in Ends, NEW type, Arrives(e, type)
    PROVE  /\ wire[e] # <<>> /\ Line(e) \in Lines /\ Line(e).type = type
           /\ Parsed(e) \in Wires
           /\ status[e] # "none"
           /\ type = "server" => status[e] # "server"
           /\ type # "server" => status[e] # "unknown" /\ Greets(status, Parsed(e))
<1>1. wire[e] # <<>> /\ Line(e).type = type /\ Line(e) = wire[e][1]
  BY DEF Arrives, Line
<1>2. status[e] # "none" /\ (type = "server" => status[e] # "server")
  BY <1>1, Invs DEF Greets
<1>3. type # "server" => status[e] # "unknown"
  <2>1. status[e] = "unknown" => wire[e] = <<Server>>
    BY Invs DEF Greets
  <2>2. <<Server>>[1].type = "server"
    BY DEF Server
  <2>. QED
    BY <1>1, <2>1, <2>2
<1>. QED
  BY <1>1, <1>2, <1>3, Invs, ParsedType, GreetsParsed

\* mr_server, when the server is refused
LEMMA RejectKeeps ==
    ASSUME Inv, NEW e \in Ends, ServerRejected(e) \/ LeafRejects(e)
    PROVE  Inv'
<1>1. Arrives(e, "server")
  BY DEF ServerRejected, LeafRejects
<1>2. status[e] # "server"
  BY <1>1, ArrivesFacts
<1>3. CASE ServerRejected(e)
  BY <1>2, <1>3, Invs, ClosedKeeps DEF ServerRejected, counts
<1>4. CASE LeafRejects(e)
  <2>. DEFINE closing == {e} \cup InProgress(e[2], Peer(e))
  <2>1. \A f \in closing \cap Ends : status[f] # "server"
    BY <1>2 DEF InProgress
  <2>2. Closed(closing) /\ wire' = Cut(wire, closing)
    BY <1>4 DEF LeafRejects
  <2>. HIDE DEF closing
  <2>. QED
    BY <1>4, <2>1, <2>2, Invs, ClosedKeeps DEF LeafRejects, counts
<1>. QED
  BY <1>3, <1>4

\* parse and ms_squit, when a line is not heeded
LEMMA IgnoredKeeps ==
    ASSUME Inv, NEW e \in Ends,
           UnknownSource(e) \/ WrongDirection(e) \/ SquitMisses(e)
    PROVE  Inv'
<1>1. /\ Arrives(e, "sid") \/ Arrives(e, "squit")
      /\ tree' = tree /\ status' = status
      /\ connects' = connects /\ breaks' = breaks /\ squits' = squits /\ config' = config
  BY DEF UnknownSource, WrongDirection, SquitMisses, counts
<1>2. /\ Line(e) \in Lines /\ Parsed(e) \in Wires /\ Greets(status, Parsed(e))
      /\ status[e] \notin {"none", "unknown"}
  BY <1>1, ArrivesFacts
<1>3. ASSUME UnknownSource(e) PROVE wire' \in Wires /\ Greets(status, wire')
  <2>. DEFINE line == Squit(Line(e).source)
  <2>1. Arrives(e, "sid") /\ Line(e).type = "sid"
    BY <1>3, ArrivesFacts DEF UnknownSource
  <2>2. line \in Lines /\ line.type = "squit"
    BY <1>2, <2>1 DEF Squit, Lines
  <2>. HIDE DEF line
  <2>3. /\ <<line>> \in Seq(Lines) /\ Len(<<line>>) = 1
        /\ \A i \in 1 .. Len(<<line>>) : <<line>>[i].type # "server"
    BY <2>2, OneLine
  <2>4. ASSUME NEW f \in Ends, Other(f) \in {e}, status[f] # "none"
        PROVE  /\ status[f] \notin {"none", "unknown"}
               /\ status[f] = "handshake" => status[Other(f)] # "unknown"
    <3>1. Other(f) = e /\ Other(e) = f
      BY <2>4, EndFacts
    <3>2. status[f] = "unknown" => status[e] = "handshake"
      BY <1>2, <3>1, Invs DEF Greets
    <3>3. status[e] = "handshake" => status[f] # "unknown"
      BY <1>1, <3>1, Invs DEF Greets, Arrives
    <3>. QED
      BY <1>2, <2>4, <3>1, <3>2, <3>3
  <2>5. wire' = Sent(Parsed(e), {e}, <<line>>)
    BY <1>3 DEF UnknownSource, line
  <2>. QED
    BY <1>2, <2>3, <2>4, <2>5, SentType, GreetsSent
<1>4. wire' \in Wires /\ Greets(status, wire')
  BY <1>2, <1>3 DEF WrongDirection, SquitMisses
<1>5. TreeInv'
  BY <1>1, <1>4, Invs, OtherSteps
<1>. QED
  BY <1>1, <1>4, <1>5 DEF Inv

-----------------------------------------------------------------------------
(* The steps that change a table *)

\* exit_client of a server, with what is read, what the others are told and
\* what is closed.
LEMMA ExitKeeps ==
    ASSUME Inv, NEW s \in Servers, NEW x \in Known(s), NEW told \in SUBSET Links(s), NEW X,
           NEW w \in Wires, Greets(status, w),
           \A f \in X : status[f] # "server",
           ExitServer(s, x, told, X, w),
           connects' \in 0 .. MaxConnects, breaks' \in 0 .. MaxBreaks,
           squits' \in 0 .. MaxBreaks, config' \in Configs
    PROVE  Inv'
<1>. DEFINE closing == X \cup {e \in Links(s) : Peer(e) = x}
            v == Sent(w, told \ closing, <<Squit(x)>>)
<1>1. TreeInv'
  BY Invs, ExitSteps
<1>2. Squit(x) \in Lines /\ Squit(x).type = "squit" /\ <<Squit(x)>> \in Seq(Lines)
  BY OneLine DEF Squit, Lines, Known
<1>3. \A i \in 1 .. Len(<<Squit(x)>>) : <<Squit(x)>>[i].type # "server"
  BY <1>2
<1>4. ASSUME NEW f \in Ends, Other(f) \in told \ closing, status[f] # "none"
      PROVE  /\ status[f] \notin {"none", "unknown"}
             /\ status[f] = "handshake" => status[Other(f)] # "unknown"
  BY <1>4, Invs DEF Greets, Links
<1>. HIDE DEF closing
<1>5. Greets(status, v)
  BY <1>2, <1>3, <1>4, GreetsSent
<1>6. status' = [f \in Ends |-> IF f \in closing THEN "none" ELSE status[f]]
      /\ wire' = Cut(v, closing)
  BY DEF ExitServer, Closed, closing
<1>7. Greets(status', wire')
  BY <1>5, <1>6, GreetsCut
<1>. QED
  BY <1>1, <1>7 DEF Inv

\* ms_sid and ms_squit, when a server goes
LEMMA ParseExitKeeps ==
    ASSUME Inv, NEW e \in Ends, ServerExists(e) \/ NoHubMask(e) \/ RemoteSquit(e)
    PROVE  Inv'
<1>. DEFINE s == e[2]
            r == Peer(e)
<1>1. /\ s \in Servers /\ r \in Servers
      /\ connects' \in 0 .. MaxConnects /\ breaks' \in 0 .. MaxBreaks
      /\ squits' \in 0 .. MaxBreaks /\ config' \in Configs
  BY EndFacts, Invs DEF ServerExists, NoHubMask, RemoteSquit, counts
<1>2. CASE ServerExists(e)
  <2>1. Line(e).source \in Known(s) /\ tree[s].from[Line(e).source] = r
    BY <1>2 DEF ServerExists, Introduction
  <2>2. r \in Known(s)
    <3>1. /\ TableRight(s, tree[s], Neighbours(s))
          /\ Known(s) = InTable(tree[s])
      BY <1>1, Invs DEF TreeInv, Known, InTable
    <3>2. r \in Neighbours(s)
      BY <2>1, <3>1, FromNeighbour
    <3>. QED
      BY <1>1, <3>1, <3>2, ServersAssumption DEF TableRight, InTable
  <2>3. ExitServer(s, r, Links(s), {}, wire)
    BY <1>2 DEF ServerExists
  <2>. QED
    BY <1>1, <2>2, <2>3, Invs, ExitKeeps
<1>3. CASE NoHubMask(e)
  <2>. DEFINE X == InProgress(s, Line(e).server)
  <2>1. Arrives(e, "sid") /\ Line(e).source \in Known(s)
    BY <1>3 DEF NoHubMask, Introduction
  <2>2. Parsed(e) \in Wires /\ Greets(status, Parsed(e))
    BY <2>1, ArrivesFacts
  <2>3. \A f \in X : status[f] # "server"
    BY DEF InProgress
  <2>4. ExitServer(s, Line(e).source, Links(s), X, Parsed(e))
    BY <1>3 DEF NoHubMask
  <2>. HIDE DEF X
  <2>. QED
    BY <1>1, <2>1, <2>2, <2>3, <2>4, ExitKeeps
<1>4. CASE RemoteSquit(e)
  <2>1. Arrives(e, "squit") /\ Line(e).server \in Known(s)
    BY <1>4 DEF RemoteSquit
  <2>2. Parsed(e) \in Wires /\ Greets(status, Parsed(e))
    BY <2>1, ArrivesFacts
  <2>3. ExitServer(s, Line(e).server, Links(s) \ {e}, {}, Parsed(e))
    BY <1>4 DEF RemoteSquit
  <2>. QED
    BY <1>1, <2>1, <2>2, <2>3, ExitKeeps
<1>. QED
  BY <1>2, <1>3, <1>4

\* mo_squit
LEMMA OperSquitKeeps ==
    ASSUME Inv, NEW s \in Servers, NEW x \in Servers, OperSquit(s, x)
    PROVE  Inv'
<1>1. /\ x \in Known(s) /\ ExitServer(s, x, Links(s), {}, wire)
      /\ connects' = connects /\ breaks' = breaks /\ config' = config
      /\ squits' = squits + 1 /\ breaks + squits < MaxBreaks
  BY DEF OperSquit
<1>2. squits' \in 0 .. MaxBreaks
  BY <1>1, Invs
<1>. QED
  BY <1>1, <1>2, Invs, ExitKeeps

\* dead_link_on_read and dead_link_on_write
LEMMA LoseKeeps ==
    ASSUME Inv, NEW e \in Ends, Lose(e)
    PROVE  Inv'
<1>. DEFINE s == e[2]
<1>1. /\ connects' = connects /\ squits' = squits /\ config' = config
      /\ breaks' \in 0 .. MaxBreaks
  BY Invs DEF Lose
<1>2. CASE status[e] = "server"
  <2>1. ExitServer(s, Peer(e), Links(s), {}, wire)
    BY <1>2 DEF Lose
  <2>2. s \in Servers /\ e \in Links(s) /\ Peer(e) \in Servers
    BY <1>2, EndFacts DEF Links, EndsOf
  <2>3. TableRight(s, tree[s], Neighbours(s)) /\ Peer(e) \in Neighbours(s)
    BY <2>2, Invs DEF TreeInv, Neighbours
  <2>4. Peer(e) \in Known(s)
    BY <2>2, <2>3, ServersAssumption DEF TableRight, Known
  <2>. QED
    BY <1>1, <2>1, <2>2, <2>4, Invs, ExitKeeps
<1>3. CASE status[e] # "server"
  <2>1. Closed({e}) /\ wire' = Cut(wire, {e}) /\ tree' = tree
    BY <1>3 DEF Lose
  <2>. QED
    BY <1>1, <1>3, <2>1, Invs, ClosedKeeps
<1>. QED
  BY <1>2, <1>3

\* ms_sid
LEMMA IntroduceKeeps ==
    ASSUME Inv, NEW e \in Ends, Introduce(e)
    PROVE  Inv'
<1>. DEFINE s == e[2]
            r == Peer(e)
            m == Line(e)
            overridden == InProgress(s, m.server)
            v == Sent(Parsed(e), Links(s) \ {e}, <<m>>)
<1>1. /\ Arrives(e, "sid")
      /\ m.source \in Known(s) /\ tree[s].from[m.source] = r
      /\ m.server \notin Known(s) \cup {s}
      /\ tree' = [tree EXCEPT ![s] = With(@, m.server, m.source, r)]
      /\ Closed(overridden)
      /\ wire' = Cut(v, overridden)
      /\ connects' = connects /\ breaks' = breaks /\ squits' = squits /\ config' = config
  BY DEF Introduce, Introduction, counts
<1>2. /\ s \in Servers /\ r \in Servers
      /\ m \in Lines /\ m.type = "sid"
      /\ Parsed(e) \in Wires /\ Greets(status, Parsed(e))
  BY <1>1, ArrivesFacts, EndFacts
<1>3. m.server \in Servers /\ m.source \in Servers
  BY <1>2 DEF Lines
<1>. HIDE DEF m
<1>4. <<m>> \in Seq(Lines) /\ \A i \in 1 .. Len(<<m>>) : <<m>>[i].type # "server"
  BY <1>2, OneLine
<1>5. ASSUME NEW f \in Ends, Other(f) \in Links(s) \ {e}, status[f] # "none"
      PROVE  /\ status[f] \notin {"none", "unknown"}
             /\ status[f] = "handshake" => status[Other(f)] # "unknown"
  BY <1>5, Invs DEF Greets, Links
<1>6. Greets(status, v) /\ v \in Wires
  BY <1>2, <1>4, <1>5, GreetsSent, SentType
<1>7. \A f \in overridden : status[f] # "server"
  BY DEF InProgress
<1>. HIDE DEF overridden, v
<1>8. /\ status' \in [Ends -> Statuses] /\ wire' \in Wires
      /\ \A f \in Ends : status'[f] = "server" <=> status[f] = "server" \/ f \in {}
  BY <1>1, <1>6, <1>7, Invs, CutType DEF Closed, Statuses
<1>9. TreeInv'
  <2>. DEFINE x == m.server
              source == m.source
  <2>1. /\ x \in Servers /\ x \notin Known(s) /\ x # s /\ source \in Servers
        /\ source \in Known(s) /\ r = tree[s].from[source] /\ {} \in SUBSET Ends
        /\ tree' = [tree EXCEPT ![s] = With(@, x, source, r)]
    BY <1>1, <1>3
  <2>. DEFINE new == {}
  <2>2. /\ \/ source = s /\ r = x /\ \E f \in Ends : new = {f} /\ f[2] = s /\ Peer(f) = x
           \/ source \in Known(s) /\ r = tree[s].from[source] /\ new = {}
        /\ \A f \in Ends : status'[f] = "server" <=> status[f] = "server" \/ f \in new
        /\ new \in SUBSET Ends
    BY <1>8, <2>1
  <2>. HIDE DEF x, source, s, r, new
  <2>3. /\ connects' \in 0 .. MaxConnects /\ breaks' \in 0 .. MaxBreaks
        /\ squits' \in 0 .. MaxBreaks /\ config' \in Configs
        /\ s \in Servers /\ r \in Servers /\ TreeInv
    BY <1>1, <1>2, Invs DEF s, r
  <2>. QED
    BY <1>8, <2>1, <2>2, <2>3, EnterSteps
<1>10. Greets(status', wire')
  BY <1>1, <1>6, GreetsCut DEF Closed
<1>. QED
  BY <1>9, <1>10 DEF Inv

\* mr_server and server_estab
LEMMA EstablishKeeps ==
    ASSUME Inv, NEW e \in Ends, Establish(e)
    PROVE  Inv'
<1>. DEFINE s == e[2]
            r == Peer(e)
            overridden == InProgress(s, r) \ {e}
            reply == IF status[e] = "unknown" THEN <<Server>> ELSE <<>>
            st == [status EXCEPT ![e] = "server"]
            u == Sent(Parsed(e), Links(s), <<Sid(r, s)>>)
            v == Sent(u, {e}, reply \o Burst(s, r))
<1>1. /\ Arrives(e, "server")
      /\ r \notin Known(s)
      /\ tree' = [tree EXCEPT ![s] = With(@, r, s, r)]
      /\ status' = [f \in Ends |-> IF f = e THEN "server"
                                   ELSE IF f \in overridden THEN "none" ELSE status[f]]
      /\ wire' = Cut(v, overridden)
      /\ connects' = connects /\ breaks' = breaks /\ squits' = squits /\ config' = config
  BY DEF Establish, counts
<1>2. /\ s \in Servers /\ r \in Servers /\ r # s
      /\ Other(e) \in Ends /\ Other(e) # e /\ Other(e)[2] = r /\ Other(Other(e)) = e
      /\ wire[e] # <<>> /\ Parsed(e) \in Wires
      /\ status[e] \in {"unknown", "handshake"}
  BY <1>1, ArrivesFacts, EndFacts, Invs DEF Statuses
<1>3. /\ Sid(r, s) \in Lines /\ Sid(r, s).type = "sid"
      /\ Server \in Lines /\ Server.type = "server"
  BY <1>2 DEF Sid, Server, Lines
<1>4. /\ Burst(s, r) \in Seq(Lines)
      /\ \A i \in 1 .. Len(Burst(s, r)) : Burst(s, r)[i].type = "sid"
  BY <1>2, Invs, BurstType
<1>5. reply \in Seq(Lines) /\ reply \o Burst(s, r) \in Seq(Lines)
  <2>1. reply \in Seq(Lines)
    BY <1>3, OneLine, EmptySeq
  <2>. HIDE DEF reply
  <2>. QED
    BY <1>4, <2>1, ConcatProperties
<1>6. u \in Wires /\ v \in Wires
  <2>1. u \in Wires
    BY <1>2, <1>3, OneLine, SentType
  <2>. HIDE DEF u, reply
  <2>. QED
    BY <1>5, <2>1, SentType
<1>7. \A f \in overridden : status[f] # "server"
  BY DEF InProgress
<1>8. status' = [f \in Ends |-> IF f \in overridden THEN "none" ELSE st[f]]
  BY <1>1, Invs
<1>9. /\ \A f \in Ends \ {e} : st[f] = status[f]
      /\ st[e] = "server"
  BY Invs
<1>10. TreeInv'
  <2>. HIDE DEF overridden, v, st
  <2>1. status' \in [Ends -> Statuses]
    BY <1>1, Invs DEF Statuses
  <2>2. \A f \in Ends : status'[f] = "server" <=> status[f] = "server" \/ f \in {e}
    BY <1>1, <1>7
  <2>3. wire' \in Wires
    BY <1>1, <1>6, CutType
  <2>. QED
    BY <1>1, <1>2, <2>1, <2>2, <2>3, Invs, EnterSteps
\* The greeting has been read at this end, and at the other one the answer is
\* the first to arrive.
<1>11. \A i \in 1 .. Len(v[e]) : v[e][i].type # "server"
  <2>1. Other(e) \notin Links(s) \cup {e}
    BY <1>2 DEF Links, EndsOf
  <2>2. v[e] = Tail(wire[e])
    BY <1>2, <2>1, Invs DEF Sent, Parsed, Wires
  <2>3. /\ wire[e] \in Seq(Lines) /\ Tail(wire[e]) \in Seq(Lines)
        /\ Len(Tail(wire[e])) = Len(wire[e]) - 1
        /\ \A i \in 1 .. Len(Tail(wire[e])) : Tail(wire[e])[i] = wire[e][i + 1]
        /\ Len(wire[e]) \in Nat
    BY <1>2, Invs, HeadTailProperties, LenProperties DEF Wires
  <2>. HIDE DEF v
  <2>. SUFFICES ASSUME NEW i \in 1 .. Len(Tail(wire[e])) PROVE Tail(wire[e])[i].type # "server"
    BY <2>2
  <2>4. i + 1 \in 2 .. Len(wire[e])
    BY <2>3
  <2>. QED
    BY <2>3, <2>4, Invs DEF Greets
<1>12. LET f == Other(e) IN
       /\ status[f] = "none" => v[f] = <<>>
       /\ status[f] # "unknown"
       /\ status[f] = "server" /\ v[f] # <<>> => v[f][1].type # "server"
       /\ \A i \in 2 .. Len(v[f]) : v[f][i].type # "server"
  <2>. DEFINE f == Other(e)
              b == Burst(s, r)
              lines == reply \o b
  <2>1. v[f] = IF status[f] # "none" THEN wire[f] \o lines ELSE wire[f]
    <3>1. e \notin Links(s)
      BY <1>2 DEF Links
    <3>2. Parsed(e)[f] = wire[f]
      BY <1>2, Invs DEF Parsed, Wires
    <3>3. u[f] = wire[f]
      BY <1>2, <3>1, <3>2 DEF Sent
    <3>. HIDE DEF u, lines
    <3>. QED
      BY <1>2, <3>3 DEF Sent, lines
  <2>. HIDE DEF v, u
  <2>2. f \in Ends /\ Other(f) = e
    BY <1>2
  <2>3. CASE status[e] = "unknown"
    <3>1. reply = <<Server>> /\ reply \in Seq(Lines) /\ Len(reply) = 1
      BY <1>5, <2>3
    <3>. HIDE DEF reply, b
    <3>2. /\ lines \in Seq(Lines) /\ Len(lines) = 1 + Len(b) /\ Len(b) \in Nat
          /\ \A i \in 1 .. 1 + Len(b) : lines[i] = IF i <= 1 THEN reply[i] ELSE b[i - 1]
      BY <1>4, <3>1, ConcatProperties, LenProperties DEF b
    <3>3. ASSUME NEW i \in 2 .. Len(lines) PROVE lines[i].type # "server"
      <4>1. i - 1 \in 1 .. Len(b) /\ lines[i] = b[i - 1]
        BY <3>2
      <4>. QED
        BY <1>4, <4>1 DEF b
    <3>4. status[f] \in {"handshake", "none"} /\ wire[f] = <<>>
      BY <1>2, <2>2, <2>3, Invs DEF Greets
    <3>. HIDE DEF lines
    <3>5. status[f] = "none" \/ v[f] = lines
      BY <2>1, <3>2, <3>4, ConcatEmptySeq
    <3>6. Len(<<>>) = 0
      BY EmptySeq
    <3>. QED
      BY <2>1, <3>3, <3>4, <3>5, <3>6
  <2>4. CASE status[e] = "handshake"
    <3>1. lines = b
      BY <1>4, <2>4, ConcatEmptySeq
    <3>2. \A i \in 1 .. Len(b) : b[i].type # "server"
      BY <1>4
    <3>3. status[f] # "unknown"
      BY <1>2, <2>2, <2>4, Invs DEF Greets
    <3>. HIDE DEF b, f
    <3>4. wire[f] \in Seq(Lines) /\ Len(wire[f]) \in Nat /\ Len(b) \in Nat /\ b \in Seq(Lines)
      BY <1>4, <2>2, Invs, LenProperties DEF Wires, b
    <3>5. /\ Len(wire[f] \o b) = Len(wire[f]) + Len(b)
          /\ wire[f] \o b \in Seq(Lines)
          /\ \A i \in 1 .. Len(wire[f]) + Len(b) :
                (wire[f] \o b)[i] = IF i <= Len(wire[f]) THEN wire[f][i]
                                    ELSE b[i - Len(wire[f])]
      BY <3>4, ConcatProperties
    <3>. DEFINE c == wire[f] \o b
    <3>6. ASSUME NEW i \in 1 .. Len(c), i >= 2 \/ status[f] = "server"
          PROVE  c[i].type # "server"
      <4>1. CASE i <= Len(wire[f])
        <5>1. c[i] = wire[f][i] /\ i \in 1 .. Len(wire[f])
          BY <3>4, <3>5, <4>1
        <5>2. i >= 2 => wire[f][i].type # "server"
          BY <2>2, <5>1, Invs DEF Greets
        <5>3. i = 1 /\ status[f] = "server" => wire[f][i].type # "server"
          BY <2>2, <3>4, <5>1, EmptySeq, Invs DEF Greets
        <5>. QED
          BY <3>6, <5>1, <5>2, <5>3
      <4>2. CASE i > Len(wire[f])
        <5>1. c[i] = b[i - Len(wire[f])] /\ i - Len(wire[f]) \in 1 .. Len(b)
          BY <3>4, <3>5, <4>2
        <5>. QED
          BY <3>2, <5>1
      <4>. QED
        BY <3>4, <4>1, <4>2
    <3>7. c # <<>> => 1 \in 1 .. Len(c)
      BY <3>4, <3>5, EmptySeq
    <3>8. 2 .. Len(c) \subseteq 1 .. Len(c)
      BY <3>4, <3>5
    <3>9. status[f] = "none" => wire[f] = <<>>
      BY <2>2, Invs DEF Greets
    <3>. HIDE DEF c
    <3>10. v[f] = c \/ (status[f] = "none" /\ v[f] = <<>>)
      BY <2>1, <3>1, <3>9 DEF c
    <3>11. Len(<<>>) = 0
      BY EmptySeq
    <3>12. CASE v[f] = c
      <4>1. status[f] = "server" /\ c # <<>> => c[1].type # "server"
        BY <3>6, <3>7
      <4>2. \A i \in 2 .. Len(c) : c[i].type # "server"
        BY <3>6, <3>8
      <4>3. status[f] = "none" => v[f] = <<>>
        BY <2>1, <3>9
      <4>. QED
        BY <3>3, <3>12, <4>1, <4>2, <4>3 DEF f
    <3>13. CASE status[f] = "none" /\ v[f] = <<>>
      BY <3>11, <3>13 DEF f
    <3>. QED
      BY <3>10, <3>12, <3>13
  <2>. QED
    BY <1>2, <2>3, <2>4
<1>13. ASSUME NEW f \in Ends \ {e, Other(e)}
       PROVE  /\ status[f] = "none" => v[f] = <<>>
              /\ status[f] = "unknown" => v[f] = <<Server>> /\ st[Other(f)] \in {"handshake", "none"}
              /\ status[f] = "handshake" /\ st[Other(f)] = "unknown" => v[f] = <<>>
              /\ status[f] = "server" /\ v[f] # <<>> => v[f][1].type # "server"
              /\ \A i \in 2 .. Len(v[f]) : v[f][i].type # "server"
  <2>. DEFINE g == Sent(wire, Links(s), <<Sid(r, s)>>)
  <2>1. Greets(status, g)
    <3>1. \A i \in 1 .. Len(<<Sid(r, s)>>) : <<Sid(r, s)>>[i].type # "server"
      BY <1>3
    <3>2. ASSUME NEW h \in Ends, Other(h) \in Links(s), status[h] # "none"
          PROVE  /\ status[h] \notin {"none", "unknown"}
                 /\ status[h] = "handshake" => status[Other(h)] # "unknown"
      BY <3>2, Invs DEF Greets, Links
    <3>. QED
      BY <1>3, <3>1, <3>2, Invs, OneLine, GreetsSent
  <2>2. f \in Ends /\ f # e /\ Other(f) # e /\ Other(f) \in Ends
    BY EndFacts
  <2>3. v[f] = g[f]
    <3>1. Parsed(e)[f] = wire[f]
      BY <2>2, Invs DEF Parsed, Wires
    <3>2. v[f] = u[f]
      BY <2>2 DEF Sent
    <3>3. u[f] = g[f]
      BY <2>2, <3>1 DEF Sent
    <3>. QED
      BY <3>2, <3>3
  <2>4. st[Other(f)] = status[Other(f)]
    BY <1>9, <2>2
  <2>. HIDE DEF v, g, st
  <2>. QED
    BY <2>1, <2>2, <2>3, <2>4 DEF Greets
<1>14. Greets(st, v)
  <2>. HIDE DEF v, st
  <2>1. v[e] # <<>> => 1 \in 1 .. Len(v[e])
    BY <1>6, EmptySeq DEF Wires
  <2>2. 2 .. Len(v[e]) \subseteq 1 .. Len(v[e])
    BY <1>6, LenProperties DEF Wires
  <2>3. ASSUME NEW f \in Ends
        PROVE  /\ st[f] = "none" => v[f] = <<>>
               /\ st[f] = "unknown" => v[f] = <<Server>> /\ st[Other(f)] \in {"handshake", "none"}
               /\ st[f] = "handshake" /\ st[Other(f)] = "unknown" => v[f] = <<>>
               /\ st[f] = "server" /\ v[f] # <<>> => v[f][1].type # "server"
               /\ \A i \in 2 .. Len(v[f]) : v[f][i].type # "server"
    <3>1. CASE f = e
      BY <1>9, <1>11, <2>1, <2>2, <3>1
    <3>2. CASE f = Other(e)
      BY <1>2, <1>9, <1>12, <3>2
    <3>3. CASE f \notin {e, Other(e)}
      BY <1>9, <1>13, <3>3
    <3>. QED
      BY <3>1, <3>2, <3>3
  <2>. QED
    BY <2>3 DEF Greets
<1>15. Greets(status', wire')
  <2>. HIDE DEF v, st, overridden
  <2>. QED
    BY <1>1, <1>8, <1>14, GreetsCut
<1>. QED
  BY <1>10, <1>15 DEF Inv

-----------------------------------------------------------------------------
(* The theorems *)

LEMMA InitInv == Init => Inv
<1>. SUFFICES ASSUME Init PROVE Inv
  OBVIOUS
<1>1. <<>> \in Seq(Lines) /\ Len(<<>>) = 0 /\ <<>> \in Seq(Servers)
  BY EmptySeq
<1>2. ASSUME NEW s \in Servers
      PROVE  tree[s] \in Tree /\ TableRight(s, tree[s], Neighbours(s))
  <2>. DEFINE T == tree[s]
  <2>1. /\ T.list = <<>> /\ T.servptr = [x \in Servers |-> NoServer]
        /\ T.from = [x \in Servers |-> NoServer] /\ T.dep_servers = [x \in Servers |-> 0]
    BY DEF Init
  <2>2. T \in Tree
    BY <1>1 DEF Init, Tree
  <2>. HIDE DEF T
  <2>3. InTable(T) = {}
    BY <2>1 DEF InTable
  <2>4. Neighbours(s) = {}
    BY DEF Init, Neighbours, Links, EndsOf
  <2>5. \A r \in Servers : T.dep_servers[r] = Cardinality({x \in InTable(T) : T.from[x] = r})
    <3>1. \A r \in Servers : {x \in InTable(T) : T.from[x] = r} = {}
      BY <2>3
    <3>. QED
      BY <2>1, <3>1, FS_EmptySet
  <2>6. TableRight(s, T, {})
    BY <1>1, <2>1, <2>2, <2>3, <2>5, ServersAssumption DEF TableRight
  <2>. QED
    BY <2>2, <2>4, <2>6 DEF T
<1>3. TypeOK
  <2>1. tree \in [Servers -> Tree]
    BY <1>2 DEF Init
  <2>. QED
    BY SMTT(30), <1>1, <2>1, ServersAssumption DEF Init, TypeOK, Statuses
<1>4. OneLink
  BY DEF Init, OneLink, Links, EndsOf
<1>5. Greets(status, wire)
  BY <1>1 DEF Init, Greets
<1>. QED
  BY <1>2, <1>3, <1>4, <1>5 DEF Inv, TreeInv

LEMMA NextInv == Inv /\ [Next]_vars => Inv'
<1>. SUFFICES ASSUME Inv, [Next]_vars PROVE Inv'
  OBVIOUS
<1>1. ASSUME NEW c \in Connects, Connect(c) PROVE Inv'
  BY <1>1, ConnectKeeps
<1>2. ASSUME NEW e \in Ends, Parse(e) PROVE Inv'
  BY <1>2, RejectKeeps, EstablishKeeps, IgnoredKeeps, ParseExitKeeps, IntroduceKeeps
     DEF Parse
<1>3. ASSUME NEW e \in Ends, Lose(e) PROVE Inv'
  BY <1>3, LoseKeeps
<1>4. ASSUME NEW s \in Servers, NEW x \in Servers, OperSquit(s, x) PROVE Inv'
  BY <1>4, OperSquitKeeps
<1>5. CASE UNCHANGED vars
  <2>1. TreeInv'
    BY <1>5, Invs, OtherSteps DEF vars, counts
  <2>2. Greets(status', wire')
    BY <1>5, Invs DEF vars
  <2>. QED
    BY <2>1, <2>2 DEF Inv
<1>. QED
  BY <1>1, <1>2, <1>3, <1>4, <1>5 DEF Next

\* The invariant is what the run checks of the tables.
LEMMA InvTreeKept == Inv => TreeKept
<1>. SUFFICES ASSUME Inv PROVE TreeKept
  OBVIOUS
<1>1. ASSUME NEW s \in Servers
      PROVE  /\ {tree[s].list[i] : i \in DOMAIN tree[s].list} = Known(s)
             /\ Cardinality(Known(s)) = Len(tree[s].list)
             /\ \A i \in DOMAIN tree[s].list :
                  LET T == tree[s]
                      x == T.list[i]
                  IN  IF T.servptr[x] = s
                      THEN T.from[x] = x /\ \E e \in Links(s) : Peer(e) = x
                      ELSE /\ T.from[x] = T.from[T.servptr[x]]
                           /\ \E j \in 1 .. i - 1 : T.list[j] = T.servptr[x]
             /\ \A r \in Servers :
                  tree[s].dep_servers[r] = Cardinality({x \in Known(s) : tree[s].from[x] = r})
  <2>. DEFINE T == tree[s]
              L == Len(T.list)
  <2>1. TableRight(s, T, Neighbours(s)) /\ Known(s) = InTable(T)
    BY Invs DEF TreeInv, Known, InTable
  <2>. HIDE DEF T
  <2>2. T.list \in Seq(Servers) /\ L \in Nat /\ DOMAIN T.list = 1 .. L
    BY <2>1, LenProperties DEF TableRight, Tree
  <2>3. {T.list[i] : i \in DOMAIN T.list} = InTable(T)
    BY <2>1, <2>2 DEF TableRight
  <2>4. Cardinality(InTable(T)) = L
    <3>1. T.list \in [1 .. L -> InTable(T)]
      BY <2>1, <2>2, LenProperties DEF TableRight
    <3>2. T.list \in Injection(1 .. L, InTable(T))
      BY <2>1, <3>1 DEF Injection, IsInjective, TableRight
    <3>3. T.list \in Surjection(1 .. L, InTable(T))
      BY <2>1, <3>1 DEF Surjection, TableRight
    <3>4. ExistsBijection(1 .. L, InTable(T))
      BY <3>2, <3>3 DEF Bijection, ExistsBijection
    <3>. HIDE DEF L
    <3>. QED
      BY <2>2, <3>4, FS_CountingElements
  <2>5. ASSUME NEW i \in DOMAIN T.list
        PROVE  LET x == T.list[i] IN
               IF T.servptr[x] = s
               THEN T.from[x] = x /\ \E e \in Links(s) : Peer(e) = x
               ELSE /\ T.from[x] = T.from[T.servptr[x]]
                    /\ \E j \in 1 .. i - 1 : T.list[j] = T.servptr[x]
    <3>. DEFINE x == T.list[i]
    <3>1. x \in Servers /\ Introduced(s, T, i)
      BY <2>1, <2>2 DEF TableRight, InTable
    <3>2. T.servptr[x] = s => \E e \in Links(s) : Peer(e) = x
      BY <2>1, <3>1 DEF TableRight, Neighbours
    <3>. QED
      BY <3>1, <3>2 DEF Introduced
  <2>6. \A r \in Servers : T.dep_servers[r] = Cardinality({x \in InTable(T) : T.from[x] = r})
    BY <2>1 DEF TableRight
  <2>. QED
    BY <2>1, <2>3, <2>4, <2>5, <2>6 DEF T
<1>2. TreeRooted
  BY <1>1 DEF TreeRooted
<1>3. DependentsCounted
  BY <1>1 DEF DependentsCounted
<1>4. OneLink
  BY Invs DEF TreeInv
<1>. QED
  BY <1>2, <1>3, <1>4 DEF TreeKept

\* The tables keep their types: what exit_one_client takes from dep_servers
\* is never more than is there.
THEOREM TypeCorrect == Spec => []TypeOK
<1>1. Inv => TypeOK
  BY DEF Inv, TreeInv
<1>. QED
  BY <1>1, InitInv, NextInv, PTL DEF Spec

\* What every server knows is one tree rooted at itself, with one link to each
\* neighbour and the right counts behind each, whatever lines cross
\* (make_server, server_estab, ms_sid, remove_dependents, exit_one_client).
THEOREM TreesRooted == Spec => []TreeKept
  BY InitInv, NextInv, InvTreeKept, PTL DEF Spec

\* A SERVER is read once on a connection, and before anything else: none comes
\* on a link that is up, where mr_server would close it as a server that
\* exists already.
THEOREM GreetedOnce == Spec => []Greets(status, wire)
<1>1. Inv => Greets(status, wire)
  BY DEF Inv
<1>. QED
  BY <1>1, InitInv, NextInv, PTL DEF Spec

=============================================================================
