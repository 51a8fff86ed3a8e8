----------------------------- MODULE ListLemmas -----------------------------
(***************************************************************************)
(* What the proofs use of lists and queues, and of induction.  Induction   *)
(* is stated for sets of numbers, of which a proof defines the one it is   *)
(* about.                                                                  *)
(***************************************************************************)
EXTENDS Lists, SequenceTheorems, FiniteSetTheorems, WellFoundedInduction, TLAPS

\* A set of numbers that is not empty has a least one.
LEMMA LeastNumber ==
    ASSUME NEW S, S \subseteq Nat, S # {}
    PROVE  \E n \in S : \A m \in S : n <= m
<1>. DEFINE R == {ss \in Nat \X Nat : ss[1] < ss[2]}
<1>1. IsWellFoundedOn(R, Nat)
  BY NatLessThanWellFounded DEF OpToRel
<1>2. ASSUME NEW m \in Nat, NEW n \in Nat, m < n
      PROVE  <<m, n>> \in R
  BY <1>2
<1>. HIDE DEF R
<1>3. PICK n \in S : \A m \in S : ~ (<<m, n>> \in R)
  BY <1>1, WFMin
<1>4. ASSUME NEW m \in S PROVE n <= m
  <2>1. m \in Nat /\ n \in Nat
    OBVIOUS
  <2>2. ~ (<<m, n>> \in R)
    BY <1>3
  <2>3. ~ (m < n)
    BY <2>1, <2>2, <1>2
  <2>. QED
    BY <2>1, <2>3
<1>. QED
  BY <1>4

\* Induction up to N: what holds at 0, and one further whenever it holds.
LEMMA InductionUpTo ==
    ASSUME NEW N \in Nat, NEW G, 0 \in G,
           \A n \in 0 .. N - 1 : n \in G => n + 1 \in G
    PROVE  0 .. N \subseteq G
<1>. DEFINE S == (0 .. N) \ G
<1>1. SUFFICES ASSUME S # {} PROVE FALSE
  OBVIOUS
<1>2. S \subseteq Nat
  OBVIOUS
<1>3. PICK n \in S : \A m \in S : n <= m
  BY <1>1, <1>2, LeastNumber
<1>4. n \in 0 .. N /\ n \notin G /\ n # 0
  OBVIOUS
<1>5. n - 1 \in 0 .. N - 1 /\ n - 1 \notin S /\ (n - 1) + 1 = n
  BY <1>3, <1>4
<1>. QED
  BY <1>4, <1>5

\* What is first is in V[0], and a step from V[n - 1] leads to V[n].
Stays(N, V, first, Step) ==
    /\ first \in V[0]
    /\ \A n \in 1 .. N : \A v \in V[n - 1] : Step[<<v, n>>] \in V[n]

\* f goes from first up to N by steps, all the way in V.
Goes(f, N, V, first, Step) ==
    /\ f = [n \in 0 .. N |-> f[n]]
    /\ f[0] = first
    /\ \A n \in 1 .. N : f[n] = Step[<<f[n - 1], n>>]
    /\ \A n \in 0 .. N : f[n] \in V[n]

\* A function defined by recursion on the numbers up to N is there, when its
\* values stay in the sets V[n].
LEMMA RecursionUpTo ==
    ASSUME NEW N \in Nat, NEW V, NEW first, NEW Step, Stays(N, V, first, Step)
    PROVE  \E f : Goes(f, N, V, first, Step)
<1>. USE DEF Stays
<1>. DEFINE Def(f, m) == [n \in 0 .. m |-> IF n = 0 THEN first ELSE Step[<<f[n - 1], n>>]]
            G == {m \in 0 .. N : \E f : f = Def(f, m) /\ \A n \in 0 .. m : f[n] \in V[n]}
<1>1. 0 \in G
  <2>. DEFINE f == [n \in 0 .. 0 |-> first]
  <2>1. f = Def(f, 0) /\ \A n \in 0 .. 0 : f[n] \in V[n]
    OBVIOUS
  <2>. HIDE DEF f
  <2>. QED
    BY <2>1
<1>2. ASSUME NEW m \in 0 .. N - 1, m \in G PROVE m + 1 \in G
  <2>1. PICK f : f = Def(f, m) /\ \A n \in 0 .. m : f[n] \in V[n]
    BY <1>2
  <2>. DEFINE h == [n \in 0 .. m + 1 |-> IF n <= m THEN f[n] ELSE Step[<<f[m], m + 1>>]]
  <2>2. m + 1 \in 1 .. N /\ (m + 1) - 1 = m /\ f[m] \in V[m]
    BY <2>1
  <2>3. ASSUME NEW n \in 0 .. m + 1
        PROVE  h[n] = Def(h, m + 1)[n] /\ h[n] \in V[n]
    <3>1. CASE n <= m
      <4>1. f[n] = Def(f, m)[n] /\ f[n] \in V[n]
        BY <2>1, <3>1
      <4>2. n # 0 => h[n - 1] = f[n - 1]
        BY <3>1
      <4>. QED
        BY SMTT(30), <3>1, <4>1, <4>2
    <3>2. CASE n = m + 1
      <4>1. h[n] = Step[<<f[m], m + 1>>] /\ h[n - 1] = f[m]
        BY <2>2, <3>2
      <4>. QED
        BY <2>2, <3>2, <4>1
    <3>. QED
      BY <3>1, <3>2
  <2>4. h = Def(h, m + 1) /\ \A n \in 0 .. m + 1 : h[n] \in V[n]
    BY <2>3
  <2>. HIDE DEF h, Def
  <2>5. \E g : g = Def(g, m + 1) /\ \A n \in 0 .. m + 1 : g[n] \in V[n]
    BY <2>4
  <2>. QED
    BY <2>2, <2>5
<1>3. N \in G
  <2>. HIDE DEF G
  <2>1. 0 .. N \subseteq G
    BY <1>1, <1>2, InductionUpTo
  <2>. QED
    BY <2>1
<1>4. PICK f : f = Def(f, N) /\ \A n \in 0 .. N : f[n] \in V[n]
  BY <1>3
<1>5. Goes(f, N, V, first, Step)
  BY <1>4 DEF Goes
<1>. QED
  BY <1>5

\* What holds step by step of a function holds of it at the last.
LEMMA HoldsAtLast ==
    ASSUME NEW N \in Nat, NEW V, NEW f, f[0] \in V[0],
           \A n \in 1 .. N : f[n - 1] \in V[n - 1] => f[n] \in V[n]
    PROVE  f[N] \in V[N]
<1>. DEFINE G == {n \in 0 .. N : f[n] \in V[n]}
<1>1. 0 \in G /\ \A n \in 0 .. N - 1 : n \in G => n + 1 \in G
  <2>1. \A n \in 0 .. N - 1 : n + 1 \in 1 .. N /\ (n + 1) - 1 = n /\ n + 1 \in 0 .. N
    OBVIOUS
  <2>. QED
    BY <2>1
<1>2. 0 .. N \subseteq G
  <2>. HIDE DEF G
  <2>. QED
    BY <1>1, InductionUpTo
<1>. QED
  BY <1>2

\* A finite set in its order.
LEMMA InOrderProperties ==
    ASSUME NEW S, IsFiniteSet(S)
    PROVE  /\ Cardinality(S) \in Nat
           /\ InOrder(S) \in [1 .. Cardinality(S) -> S]
           /\ \A i, j \in 1 .. Cardinality(S) : InOrder(S)[i] = InOrder(S)[j] => i = j
           /\ \A x \in S : \E i \in 1 .. Cardinality(S) : InOrder(S)[i] = x
<1>1. PICK n \in Nat : ExistsBijection(1 .. n, S)
  BY FS_NatBijection
<1>2. Cardinality(S) = n
  BY <1>1, FS_CountingElements
<1>3. InOrder(S) \in Bijection(1 .. Cardinality(S), S)
  BY <1>1, <1>2 DEF InOrder, ExistsBijection
<1>. QED
  BY <1>2, <1>3 DEF Bijection, Injection, Surjection, IsInjective

-----------------------------------------------------------------------------
(* Remaining *)

\* The function Remaining is defined by is there.
LEMMA RemainingStep ==
    ASSUME NEW S, NEW list \in Seq(S), NEW out
    PROVE  \E left :
              /\ DOMAIN left = 0 .. Len(list)
              /\ left[0] = <<>>
              /\ \A n \in 1 .. Len(list) :
                    left[n] = IF list[n] \in out THEN left[n - 1]
                              ELSE Append(left[n - 1], list[n])
              /\ Remaining(list, out) = left[Len(list)]
<1>. DEFINE N == Len(list)
            Def(g, n) == [i \in 0 .. n |-> IF i = 0 THEN <<>>
                                           ELSE IF list[i] \in out THEN g[i - 1]
                                           ELSE Append(g[i - 1], list[i])]
            G == {n \in 0 .. N : \E g : g = Def(g, n)}
<1>1. N \in Nat
  BY LenProperties
<1>2. 0 \in G
  <2>. DEFINE g == [i \in 0 .. 0 |-> <<>>]
  <2>1. g = Def(g, 0)
    BY <1>1
  <2>. HIDE DEF g
  <2>. QED
    BY <1>1, <2>1
<1>3. ASSUME NEW n \in 0 .. N - 1, n \in G PROVE n + 1 \in G
  <2>1. PICK g : g = Def(g, n)
    BY <1>3
  <2>. DEFINE h == [i \in 0 .. n + 1 |->
                       IF i <= n THEN g[i]
                       ELSE IF list[i] \in out THEN g[i - 1] ELSE Append(g[i - 1], list[i])]
  <2>2. ASSUME NEW i \in 0 .. n + 1
        PROVE  h[i] = Def(h, n + 1)[i]
    <3>1. CASE i <= n
      <4>1. g[i] = Def(g, n)[i]
        BY <2>1
      <4>2. i # 0 => h[i - 1] = g[i - 1]
        BY <1>1, <3>1
      <4>. QED
        BY <1>1, <3>1, <4>1, <4>2
    <3>2. CASE i = n + 1
      BY <1>1, <3>2
    <3>. QED
      BY <1>1, <3>1, <3>2
  <2>3. h = Def(h, n + 1)
    BY <2>2
  <2>4. n + 1 \in 0 .. N
    BY <1>1
  <2>. HIDE DEF h, Def, N
  <2>. QED
    BY <2>3, <2>4
<1>4. N \in G
  <2>. HIDE DEF G, Def, N
  <2>1. 0 .. N \subseteq G
    BY <1>1, <1>2, <1>3, InductionUpTo, Zenon
  <2>. QED
    BY <1>1, <2>1
<1>5. PICK g : g = Def(g, N)
  BY <1>4
<1>. DEFINE left == CHOOSE f : f = Def(f, N)
<1>6. left = Def(left, N)
  BY <1>5
<1>7. Remaining(list, out) = left[N]
  BY DEF Remaining
<1>. HIDE DEF left
<1>8. DOMAIN left = 0 .. N /\ left[0] = <<>>
  BY <1>1, <1>6
<1>9. ASSUME NEW n \in 1 .. N
      PROVE  left[n] = IF list[n] \in out THEN left[n - 1]
                       ELSE Append(left[n - 1], list[n])
  <2>1. \A h : h = Def(left, N) => h[n] = Def(left, N)[n]
    OBVIOUS
  <2>2. left[n] = Def(left, N)[n]
    BY <1>6, <2>1
  <2>. QED
    BY <1>1, <2>2
<1>. QED
  BY <1>7, <1>8, <1>9

\* What remains of a list is its elements that are not out, each once if each
\* was, after all those it came after.
LEMMA RemainingProperties ==
    ASSUME NEW S, NEW list \in Seq(S), NEW out
    PROVE  LET left == Remaining(list, out) IN
           /\ left \in Seq(S)
           /\ \A b \in 1 .. Len(left) : \E i \in 1 .. Len(list) :
                 /\ left[b] = list[i] /\ list[i] \notin out
                 /\ \A j \in 1 .. i - 1 : list[j] \notin out =>
                       \E a \in 1 .. b - 1 : left[a] = list[j]
           /\ \A i \in 1 .. Len(list) : list[i] \notin out =>
                 \E b \in 1 .. Len(left) : left[b] = list[i]
           /\ (\A i, j \in 1 .. Len(list) : list[i] = list[j] => i = j) =>
                 \A a, b \in 1 .. Len(left) : left[a] = left[b] => a = b
<1>. DEFINE N == Len(list)
            Once == \A i, j \in 1 .. N : list[i] = list[j] => i = j
            From(l, n) == \A b \in 1 .. Len(l) : \E i \in 1 .. n :
                             /\ l[b] = list[i] /\ list[i] \notin out
                             /\ \A j \in 1 .. i - 1 : list[j] \notin out =>
                                   \E a \in 1 .. b - 1 : l[a] = list[j]
            All(l, n) == \A i \in 1 .. n : list[i] \notin out =>
                            \E b \in 1 .. Len(l) : l[b] = list[i]
            Each(l) == Once => \A a, b \in 1 .. Len(l) : l[a] = l[b] => a = b
            P(l, n) == l \in Seq(S) /\ From(l, n) /\ All(l, n) /\ Each(l)
<1>1. N \in Nat /\ \A i \in 1 .. N : list[i] \in S
  BY LenProperties, ElementOfSeq
<1>2. PICK left : /\ left[0] = <<>>
                  /\ \A n \in 1 .. N :
                        left[n] = IF list[n] \in out THEN left[n - 1]
                                  ELSE Append(left[n - 1], list[n])
                  /\ Remaining(list, out) = left[N]
  <2>. HIDE DEF Once, From, All, Each, P
  <2>1. PICK g : /\ g[0] = <<>>
                 /\ \A n \in 1 .. Len(list) :
                       g[n] = IF list[n] \in out THEN g[n - 1]
                              ELSE Append(g[n - 1], list[n])
                 /\ Remaining(list, out) = g[Len(list)]
    BY RemainingStep
  <2>. HIDE DEF N
  <2>. QED
    BY <2>1 DEF N
<1>. DEFINE G == {n \in 0 .. N : P(left[n], n)}
<1>3. P(<<>>, 0)
  BY EmptySeq
<1>4. ASSUME NEW l, NEW n \in 0 .. N - 1, P(l, n), list[n + 1] \in out
      PROVE  P(l, n + 1)
  <2>1. n + 1 \in 1 .. N /\ 1 .. n + 1 = (1 .. n) \cup {n + 1}
    BY <1>1
  <2>2. From(l, n + 1)
    BY <1>4, <2>1
  <2>3. All(l, n + 1)
    BY <1>4, <2>1
  <2>. QED
    BY <1>4, <2>2, <2>3
<1>5. ASSUME NEW l, NEW n \in 0 .. N - 1, P(l, n), list[n + 1] \notin out
      PROVE  P(Append(l, list[n + 1]), n + 1)
  <2>. DEFINE e == list[n + 1]
              m == Append(l, e)
              L == Len(l)
  <2>1. n + 1 \in 1 .. N /\ 1 .. n + 1 = (1 .. n) \cup {n + 1} /\ 1 .. (n + 1) - 1 = 1 .. n
    BY <1>1
  <2>2. L \in Nat /\ 1 .. L + 1 = (1 .. L) \cup {L + 1} /\ 1 .. (L + 1) - 1 = 1 .. L
    BY <1>5, LenProperties
  <2>3. /\ m \in Seq(S) /\ Len(m) = L + 1 /\ m[L + 1] = e
        /\ \A i \in 1 .. L : m[i] = l[i]
    BY <1>1, <1>5, <2>1, AppendProperties
  <2>. HIDE DEF m, L
  <2>4. From(m, n + 1)
    <3>1. ASSUME NEW b \in 1 .. L
          PROVE  \E i \in 1 .. n + 1 :
                    /\ m[b] = list[i] /\ list[i] \notin out
                    /\ \A j \in 1 .. i - 1 : list[j] \notin out =>
                          \E a \in 1 .. b - 1 : m[a] = list[j]
      <4>1. PICK i \in 1 .. n :
                    /\ l[b] = list[i] /\ list[i] \notin out
                    /\ \A j \in 1 .. i - 1 : list[j] \notin out =>
                          \E a \in 1 .. b - 1 : l[a] = list[j]
        BY <1>5 DEF L
      <4>2. i \in 1 .. n + 1 /\ 1 .. b - 1 \subseteq 1 .. L /\ b \in 1 .. L
        BY <2>1, <2>2
      <4>. QED
        BY <2>3, <4>1, <4>2
    <3>2. \A j \in 1 .. (n + 1) - 1 : list[j] \notin out =>
             \E a \in 1 .. (L + 1) - 1 : m[a] = list[j]
      BY <1>5, <2>1, <2>2, <2>3 DEF L
    <3>3. \E i \in 1 .. n + 1 :
             /\ m[L + 1] = list[i] /\ list[i] \notin out
             /\ \A j \in 1 .. i - 1 : list[j] \notin out =>
                   \E a \in 1 .. (L + 1) - 1 : m[a] = list[j]
      BY <1>5, <2>1, <2>3, <3>2
    <3>. DEFINE Q(b) == \E i \in 1 .. n + 1 :
                           /\ m[b] = list[i] /\ list[i] \notin out
                           /\ \A j \in 1 .. i - 1 : list[j] \notin out =>
                                 \E a \in 1 .. b - 1 : m[a] = list[j]
    <3>4. (\A b \in 1 .. L : Q(b)) /\ Q(L + 1)
      BY <3>1, <3>3
    <3>5. From(m, n + 1) <=> \A b \in 1 .. Len(m) : Q(b)
      OBVIOUS
    <3>. HIDE DEF Q, From
    <3>. QED
      BY <2>2, <2>3, <3>4, <3>5
  <2>5. All(m, n + 1)
    BY <1>5, <2>1, <2>2, <2>3 DEF L
  <2>6. Each(m)
    <3>. SUFFICES ASSUME Once PROVE \A a, b \in 1 .. Len(m) : m[a] = m[b] => a = b
      OBVIOUS
    <3>1. ASSUME NEW a \in 1 .. L PROVE m[a] # e
      <4>1. PICK i \in 1 .. n : l[a] = list[i]
        BY <1>5 DEF L
      <4>. QED
        BY <1>1, <2>1, <2>3, <4>1
    <3>2. \A a, b \in 1 .. L : m[a] = m[b] => a = b
      BY <1>5, <2>3 DEF L
    <3>. QED
      BY <2>2, <2>3, <3>1, <3>2
  <2>. QED
    BY <2>3, <2>4, <2>5, <2>6 DEF m
<1>6. 0 \in G
  <2>. HIDE DEF P
  <2>. QED
    BY <1>1, <1>2, <1>3
<1>7. ASSUME NEW n \in 0 .. N - 1, n \in G PROVE n + 1 \in G
  <2>1. P(left[n], n)
    BY <1>7
  <2>. HIDE DEF P
  <2>2. n + 1 \in 1 .. N /\ (n + 1) - 1 = n /\ n + 1 \in 0 .. N
    BY <1>1
  <2>3. P(left[n + 1], n + 1)
    BY <1>2, <1>4, <1>5, <2>1, <2>2
  <2>. QED
    BY <2>2, <2>3
<1>8. P(left[N], N)
  <2>. HIDE DEF G
  <2>1. 0 .. N \subseteq G
    BY <1>1, <1>6, <1>7, InductionUpTo
  <2>2. N \in G
    BY <1>1, <2>1
  <2>. HIDE DEF P
  <2>. QED
    BY <2>2 DEF G
<1>9. P(Remaining(list, out), N)
  <2>. HIDE DEF P
  <2>. QED
    BY <1>2, <1>8
<1>. QED
  BY <1>9

-----------------------------------------------------------------------------
(* Queues of lines on their way on a link *)

\* The elements of a queue.
Queued(q) == {q[i] : i \in DOMAIN q}

\* A line appended is one more on its way.
LEMMA QueuedAppend ==
    ASSUME NEW S, NEW q \in Seq(S), NEW e \in S
    PROVE  /\ Append(q, e) \in Seq(S)
           /\ Queued(Append(q, e)) = Queued(q) \cup {e}
<1>1. /\ Append(q, e) \in Seq(S) /\ Len(Append(q, e)) = Len(q) + 1
      /\ \A i \in 1 .. Len(q) : Append(q, e)[i] = q[i]
      /\ Append(q, e)[Len(q) + 1] = e
  BY AppendProperties
<1>2. DOMAIN q = 1 .. Len(q) /\ DOMAIN Append(q, e) = 1 .. Len(q) + 1 /\ Len(q) \in Nat
  BY <1>1, LenProperties
<1>. HIDE DEF Queued
<1>3. Queued(Append(q, e)) \subseteq Queued(q) \cup {e}
  BY <1>1, <1>2 DEF Queued
<1>4. Queued(q) \cup {e} \subseteq Queued(Append(q, e))
  BY <1>1, <1>2 DEF Queued
<1>. QED
  BY <1>1, <1>3, <1>4

\* The one read was on its way, and so is what is left.
LEMMA QueuedTail ==
    ASSUME NEW S, NEW q \in Seq(S), q # <<>>
    PROVE  /\ Head(q) \in S /\ Tail(q) \in Seq(S)
           /\ Queued(q) = {Head(q)} \cup Queued(Tail(q))
<1>1. /\ Head(q) \in S /\ Tail(q) \in Seq(S) /\ Len(Tail(q)) = Len(q) - 1
      /\ \A i \in 1 .. Len(Tail(q)) : Tail(q)[i] = q[i + 1]
  BY HeadTailProperties
<1>2. Len(q) \in Nat \ {0} /\ DOMAIN q = 1 .. Len(q)
      /\ DOMAIN Tail(q) = 1 .. Len(q) - 1 /\ Head(q) = q[1]
  BY <1>1, EmptySeq, LenProperties
<1>3. Queued(q) \subseteq {Head(q)} \cup Queued(Tail(q))
  <2>1. /\ Queued(q) = {q[i] : i \in 1 .. Len(q)}
        /\ Queued(Tail(q)) = {Tail(q)[j] : j \in 1 .. Len(q) - 1}
    BY <1>2 DEF Queued
  <2>. SUFFICES ASSUME NEW i \in 1 .. Len(q), i # 1
                PROVE  \E j \in 1 .. Len(q) - 1 : Tail(q)[j] = q[i]
    BY <1>2, <2>1
  <2>. QED
    BY <1>1, <1>2, i - 1 \in 1 .. Len(q) - 1, (i - 1) + 1 = i
<1>4. {Head(q)} \cup Queued(Tail(q)) \subseteq Queued(q)
  BY <1>1, <1>2 DEF Queued
<1>. QED
  BY <1>1, <1>3, <1>4

\* Nothing is on its way on an empty link.
LEMMA QueuedEmpty == Queued(<<>>) = {}
  BY DEF Queued

-----------------------------------------------------------------------------
(* Lists whose elements are there once, in their order *)

Once(list) == \A i, j \in 1 .. Len(list) : list[i] = list[j] => i = j

Before(list, x, y) ==
    \E j \in 1 .. Len(list) : \E i \in 1 .. j - 1 : list[i] = x /\ list[j] = y

LEMMA QueuedAre ==
    ASSUME NEW S, NEW list \in Seq(S), NEW x
    PROVE  x \in Queued(list) <=> \E i \in 1 .. Len(list) : list[i] = x
  BY LenProperties DEF Queued

\* The order of a list is one.
LEMMA BeforeIsAnOrder ==
    ASSUME NEW S, NEW list \in Seq(S), Once(list), NEW x, NEW y
    PROVE  /\ Before(list, x, y) => /\ x \in Queued(list) /\ y \in Queued(list) /\ x # y
                                    /\ ~Before(list, y, x)
           /\ x \in Queued(list) /\ y \in Queued(list) /\ x # y =>
                 Before(list, x, y) \/ Before(list, y, x)
           /\ \A z : Before(list, x, y) /\ Before(list, y, z) => Before(list, x, z)
<1>1. Len(list) \in Nat /\ DOMAIN list = 1 .. Len(list)
  BY LenProperties
<1>2. ASSUME Before(list, x, y)
      PROVE  /\ x \in Queued(list) /\ y \in Queued(list) /\ x # y
             /\ ~Before(list, y, x)
  BY <1>1, <1>2 DEF Before, Queued, Once
<1>3. ASSUME x \in Queued(list), y \in Queued(list), x # y
      PROVE  Before(list, x, y) \/ Before(list, y, x)
  BY <1>1, <1>3 DEF Before, Queued
<1>4. ASSUME NEW z, Before(list, x, y), Before(list, y, z) PROVE Before(list, x, z)
  BY <1>1, <1>4 DEF Before, Once
<1>. QED
  BY <1>2, <1>3, <1>4

\* What remains of a list stays in its order.
LEMMA RemainingInOrder ==
    ASSUME NEW S, NEW list \in Seq(S), Once(list), NEW out
    PROVE  LET left == Remaining(list, out) IN
           /\ left \in Seq(S) /\ Once(left)
           /\ Queued(left) = Queued(list) \ out
           /\ \A x, y : x \notin out /\ y \notin out =>
                 (Before(left, x, y) <=> Before(list, x, y))
<1>. DEFINE left == Remaining(list, out)
<1>1. /\ left \in Seq(S)
      /\ \A b \in 1 .. Len(left) : \E i \in 1 .. Len(list) :
            /\ left[b] = list[i] /\ list[i] \notin out
            /\ \A j \in 1 .. i - 1 : list[j] \notin out =>
                  \E a \in 1 .. b - 1 : left[a] = list[j]
      /\ \A i \in 1 .. Len(list) : list[i] \notin out =>
            \E b \in 1 .. Len(left) : left[b] = list[i]
      /\ Once(left)
  BY RemainingProperties DEF Once
<1>. HIDE DEF left
<1>2. /\ Len(list) \in Nat /\ DOMAIN list = 1 .. Len(list)
      /\ Len(left) \in Nat /\ DOMAIN left = 1 .. Len(left)
  BY <1>1, LenProperties
<1>3. Queued(left) = Queued(list) \ out
  <2>1. \A x : (x \in Queued(list) <=> \E i \in 1 .. Len(list) : list[i] = x)
               /\ (x \in Queued(left) <=> \E b \in 1 .. Len(left) : left[b] = x)
    BY <1>1, QueuedAre
  <2>2. \A x \in Queued(list) \ out : x \in Queued(left)
    BY <1>1, <2>1
  <2>3. ASSUME NEW x \in Queued(left) PROVE x \in Queued(list) \ out
    <3>1. PICK b \in 1 .. Len(left) : left[b] = x
      BY <2>1
    <3>2. PICK i \in 1 .. Len(list) : left[b] = list[i] /\ list[i] \notin out
      BY <1>1
    <3>. QED
      BY <2>1, <3>1, <3>2
  <2>. QED
    BY <2>2, <2>3
<1>4. ASSUME NEW x, NEW y, x \notin out, y \notin out, Before(list, x, y)
      PROVE  Before(left, x, y)
  <2>1. PICK j \in 1 .. Len(list) : \E i \in 1 .. j - 1 : list[i] = x /\ list[j] = y
    BY <1>4 DEF Before
  <2>2. PICK i \in 1 .. j - 1 : list[i] = x /\ list[j] = y
    BY <2>1
  <2>3. PICK b \in 1 .. Len(left) : left[b] = y
    BY <1>1, <1>4, <2>2
  <2>4. PICK k \in 1 .. Len(list) :
            /\ left[b] = list[k] /\ list[k] \notin out
            /\ \A m \in 1 .. k - 1 : list[m] \notin out =>
                  \E a \in 1 .. b - 1 : left[a] = list[m]
    BY <1>1
  <2>5. k = j
    BY <2>2, <2>3, <2>4 DEF Once
  <2>6. \E a \in 1 .. b - 1 : left[a] = x
    BY <1>4, <2>2, <2>4, <2>5
  <2>. QED
    BY <2>3, <2>6 DEF Before
<1>5. ASSUME NEW x, NEW y, x \notin out, y \notin out, Before(left, x, y)
      PROVE  Before(list, x, y)
  <2>1. /\ x \in Queued(left) /\ y \in Queued(left) /\ x # y /\ ~Before(left, y, x)
    BY <1>1, <1>5, BeforeIsAnOrder
  <2>2. ~Before(list, y, x)
    BY <1>4, <1>5, <2>1
  <2>. QED
    BY <1>3, <2>1, <2>2, BeforeIsAnOrder
<1>. QED
  BY <1>1, <1>3, <1>4, <1>5 DEF left

\* One more is put in front.
LEMMA PutInFront ==
    ASSUME NEW S, NEW list \in Seq(S), Once(list), NEW e \in S, e \notin Queued(list)
    PROVE  LET l == <<e>> \o list IN
           /\ l \in Seq(S) /\ Once(l)
           /\ Queued(l) = Queued(list) \cup {e}
           /\ \A x, y : Before(l, x, y) <=> \/ Before(list, x, y)
                                            \/ x = e /\ y \in Queued(list)
<1>. DEFINE l == <<e>> \o list
            N == Len(list)
<1>1. N \in Nat /\ DOMAIN list = 1 .. N
  BY LenProperties
<1>2. /\ l \in Seq(S) /\ Len(l) = N + 1 /\ l[1] = e
      /\ \A i \in 1 .. N : l[i + 1] = list[i]
  BY <1>1
<1>. HIDE DEF l, N
<1>3. /\ DOMAIN l = 1 .. N + 1
      /\ \A i \in 1 .. N : i + 1 \in 1 .. N + 1
      /\ \A k \in 1 .. N + 1 : k = 1 \/ (k - 1 \in 1 .. N /\ l[k] = list[k - 1])
  <2>1. \A k \in 1 .. N + 1 : k = 1 \/ (k - 1 \in 1 .. N /\ (k - 1) + 1 = k)
    BY <1>1
  <2>2. DOMAIN l = 1 .. N + 1
    BY <1>2, LenProperties
  <2>3. \A k \in 1 .. N + 1 : k - 1 \in 1 .. N => l[k] = list[k - 1]
    BY <1>2, <2>1
  <2>4. \A i \in 1 .. N : i + 1 \in 1 .. N + 1
    BY <1>1
  <2>. QED
    BY <2>1, <2>2, <2>3, <2>4
<1>4. Queued(l) = Queued(list) \cup {e}
  <2>1. \A x : (x \in Queued(list) <=> \E i \in 1 .. N : list[i] = x)
               /\ (x \in Queued(l) <=> \E b \in 1 .. N + 1 : l[b] = x)
    BY <1>2, QueuedAre DEF N
  <2>2. ASSUME NEW x \in Queued(l) PROVE x \in Queued(list) \cup {e}
    BY <1>2, <1>3, <2>1
  <2>3. ASSUME NEW x \in Queued(list) PROVE x \in Queued(l)
    BY <1>2, <1>3, <2>1
  <2>4. 1 \in 1 .. N + 1
    BY <1>1
  <2>. QED
    BY <1>2, <2>1, <2>2, <2>3, <2>4
<1>5. \A i \in 1 .. N : list[i] # e
  BY <1>1 DEF Queued
<1>6. Once(l)
  BY <1>1, <1>2, <1>3, <1>5 DEF Once, N
<1>7. ASSUME NEW x, NEW y, Before(l, x, y)
      PROVE  Before(list, x, y) \/ (x = e /\ y \in Queued(list))
  <2>1. PICK j \in 1 .. N + 1 : \E i \in 1 .. j - 1 : l[i] = x /\ l[j] = y
    BY <1>2, <1>7 DEF Before
  <2>2. PICK i \in 1 .. j - 1 : l[i] = x /\ l[j] = y
    BY <2>1
  <2>3. j - 1 \in 1 .. N /\ (j - 1) + 1 = j /\ list[j - 1] = y
    BY <1>1, <1>2, <2>2
  <2>4. CASE i = 1
    BY <1>1, <1>2, <2>2, <2>3, <2>4 DEF Queued
  <2>5. CASE i # 1
    <3>1. i - 1 \in 1 .. (j - 1) - 1 /\ i - 1 \in 1 .. N /\ (i - 1) + 1 = i
      BY <1>1, <2>3, <2>5
    <3>2. list[i - 1] = x
      BY <1>2, <2>2, <3>1
    <3>. QED
      BY <2>3, <3>1, <3>2 DEF Before, N
  <2>. QED
    BY <2>4, <2>5
<1>8. ASSUME NEW x, NEW y, Before(list, x, y) PROVE Before(l, x, y)
  <2>1. PICK j \in 1 .. N : \E i \in 1 .. j - 1 : list[i] = x /\ list[j] = y
    BY <1>8 DEF Before, N
  <2>2. PICK i \in 1 .. j - 1 : list[i] = x /\ list[j] = y
    BY <2>1
  <2>3. i \in 1 .. N /\ i + 1 \in 1 .. (j + 1) - 1 /\ j + 1 \in 1 .. N + 1
    BY <1>1
  <2>4. l[i + 1] = x /\ l[j + 1] = y
    BY <1>2, <2>2, <2>3
  <2>. QED
    BY <1>2, <2>3, <2>4 DEF Before
<1>9. ASSUME NEW y \in Queued(list) PROVE Before(l, e, y)
  <2>1. PICK j \in 1 .. N : list[j] = y
    BY <1>1 DEF Queued
  <2>2. 1 \in 1 .. (j + 1) - 1 /\ j + 1 \in 1 .. N + 1 /\ l[j + 1] = y
    BY <1>1, <1>2, <2>1
  <2>. QED
    BY <1>2, <2>2 DEF Before
<1>. QED
  BY <1>2, <1>4, <1>6, <1>7, <1>8, <1>9 DEF l

-----------------------------------------------------------------------------
(* Trees *)

\* R[s][x] is the next server on the way from s to x in a finite tree of the
\* servers S, and s itself when x = s; every link has two sides.
TreeWays(S, R) ==
    /\ IsFiniteSet(S)
    /\ \A s, x \in S : R[s][x] \in S
    /\ \A s, x \in S : R[s][x] = s <=> x = s
    /\ \A r, s \in S : r # s /\ (\E x \in S : R[r][x] = s) =>
         \A x \in S : R[r][x] = s <=> R[s][x] # r

\* What holds at h, and at a server whenever it holds at the next one towards
\* h, holds everywhere.
LEMMA AllAlongTheWay ==
    ASSUME NEW S, NEW R, TreeWays(S, R), NEW h \in S, NEW G, h \in G,
           \A s \in S \ {h} : R[s][h] \in G => s \in G
    PROVE  S \subseteq G
<1>. USE DEF TreeWays
<1>. DEFINE behind(s, t) == {x \in S : R[s][x] = t}
<1>1. ASSUME NEW s \in S, NEW t
      PROVE  /\ \A x : x \in behind(s, t) <=> x \in S /\ R[s][x] = t
             /\ IsFiniteSet(behind(s, t)) /\ Cardinality(behind(s, t)) \in Nat
  <2>1. IsFiniteSet(behind(s, t))
    BY FS_Subset
  <2>. QED
    BY <2>1, FS_CardinalityType
<1>. HIDE DEF behind
<1>. DEFINE far(s) == Cardinality(behind(s, R[s][h]))
            F == {far(s) : s \in S \ G}
<1>2. \A s \in S : far(s) \in Nat
  BY <1>1
<1>. HIDE DEF far
<1>. SUFFICES ASSUME S \ G # {} PROVE FALSE
  OBVIOUS
<1>3. PICK s \in S \ G : \A x \in S \ G : far(s) <= far(x)
  <2>1. F \subseteq Nat /\ F # {}
    <3>1. \A s \in S \ G : far(s) \in Nat
      BY <1>2
    <3>. QED
      BY <3>1
  <2>2. PICK n \in F : \A m \in F : n <= m
    <3>. HIDE DEF F
    <3>. QED
      BY <2>1, LeastNumber
  <2>. QED
    BY <2>2
<1>4. PICK r \in S : r = R[s][h]
  OBVIOUS
<1>5. PICK q \in S : q = R[r][h]
  OBVIOUS
<1>6. s # h /\ r # s /\ R[r][r] = r
  BY <1>4
<1>7. r \notin G /\ r # h
  BY <1>4, <1>6
<1>8. \A x \in S : R[s][x] = r <=> R[r][x] # s
  BY <1>4, <1>6
<1>9. q # r /\ q # s
  BY <1>4, <1>5, <1>7, <1>8
<1>10. behind(r, q) \subseteq behind(s, r)
  BY <1>1, <1>8, <1>9
<1>11. r \in behind(s, r) /\ r \notin behind(r, q)
  <2>1. R[s][r] = r /\ R[r][r] # q
    BY <1>6, <1>8, <1>9
  <2>. QED
    BY <1>1, <2>1
<1>12. Cardinality(behind(r, q)) < Cardinality(behind(s, r))
  <2>. DEFINE m == Cardinality(behind(r, q))
              n == Cardinality(behind(s, r))
  <2>1. m \in Nat /\ n \in Nat /\ m <= n /\ m # n
    BY <1>1, <1>10, <1>11, FS_Subset
  <2>. HIDE DEF m, n
  <2>2. m < n
    BY <2>1
  <2>. QED
    BY <2>2 DEF m, n
<1>13. far(r) < far(s)
  BY <1>4, <1>5, <1>12 DEF far
<1>14. far(s) \in Nat /\ far(r) \in Nat /\ far(s) <= far(r)
  BY <1>2, <1>3, <1>7
<1>. QED
  BY <1>13, <1>14

=============================================================================
