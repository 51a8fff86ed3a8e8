---------------------------- MODULE RehashProofs ----------------------------
(***************************************************************************)
(* What REHASH leaves right, for all files, clients, lines, descriptors    *)
(* and bounds: each part of MCRehash has its own inductive invariant.      *)
(***************************************************************************)
EXTENDS MCRehash, ListLemmas

-----------------------------------------------------------------------------
(* Bans and reservations *)

Line == [type : LineTypes, mask : Masks, temp : BOOLEAN]
Resv == {"nresv", "cresv"}

\* The states of TempLines as records.
Tables == UNION {[1 .. n -> Line] : n \in Nat}
LineRecords == [made : Nat, lines : Tables, freed : SUBSET Nat, table : SUBSET Nat,
                temporary : SUBSET Nat, saved : SUBSET (LineTypes \X Masks)]
LineStates ==
    {S \in LineRecords :
        /\ S.lines \in [1 .. S.made -> Line]
        /\ S.freed \subseteq 1 .. S.made
        /\ S.table \subseteq 1 .. S.made
        /\ S.temporary \subseteq 1 .. S.made
        /\ IsFiniteSet(S.saved)}

\* The lines of a table that have not been freed.
Live(S) == S.table \ S.freed
Key(S, i) == <<S.lines[i].type, S.lines[i].mask>>

\* The temporary lines are the live ones that are marked so; of those that are
\* freed only reservations are still on the list.
TempListed(S) ==
    /\ \A i \in S.temporary :
          /\ S.lines[i].temp
          /\ S.lines[i].type \notin Resv => i \in Live(S)
    /\ \A i \in Live(S) : S.lines[i].temp => i \in S.temporary

KeysOnce(S) == \A i, k \in Live(S) : Key(S, i) = Key(S, k) => i = k

\* A line for good is in the file, and no temporary one is.
OfTheFile(S) ==
    /\ \A i \in Live(S) : S.lines[i].temp <=> Key(S, i) \notin S.saved
    /\ \A x \in S.saved : \E i \in Live(S) : Key(S, i) = x

LinesRight(S) == S \in LineStates /\ TempListed(S) /\ KeysOnce(S) /\ OfTheFile(S)

\* What is left of it while the file is changed.
Rereadable(S) ==
    /\ S \in LineStates /\ TempListed(S) /\ KeysOnce(S)
    /\ \A i \in Live(S) : S.lines[i].temp => Key(S, i) \notin S.saved

\* Up to line n of the file has been read into S.
ReadUpTo(S, entries, n) ==
    /\ Rereadable(S)
    /\ \A i \in S.table : S.lines[i].type \in Resv => i \notin S.freed /\ ~S.lines[i].temp
    /\ \A i \in Live(S) : ~S.lines[i].temp => \E j \in 1 .. n : Key(S, i) = entries[j]
    /\ \A j \in 1 .. n : \E i \in Live(S) : ~S.lines[i].temp /\ Key(S, i) = entries[j]

\* An instance has the libraries' operators again.
LEMMA LinesInstance ==
    ASSUME NEW S
    PROVE  L!Cardinality(S) = Cardinality(S) /\ L!InOrder(S) = InOrder(S)
<1>1. L!Cardinality(S) = Cardinality(S)
  BY DEF L!Cardinality, Cardinality, L!IsFiniteSet, IsFiniteSet
<1>2. L!InOrder(S) = InOrder(S)
  BY <1>1 DEF L!InOrder, InOrder, L!Bijection, L!Injection, L!Surjection, L!IsInjective,
              Bijection, Injection, Surjection, IsInjective
<1>. QED
  BY <1>1, <1>2

LEMMA LineStateFacts ==
    ASSUME NEW S \in LineStates
    PROVE  /\ S \in LineRecords /\ S.made \in Nat
           /\ S.lines \in [1 .. S.made -> Line] /\ IsFiniteSet(S.saved)
           /\ S.freed \subseteq 1 .. S.made /\ S.table \subseteq 1 .. S.made
           /\ S.temporary \subseteq 1 .. S.made
           /\ S.saved \subseteq LineTypes \X Masks
<1>1. S \in LineRecords
  BY DEF LineStates
<1>2. S.made \in Nat /\ S.saved \subseteq LineTypes \X Masks
  BY <1>1 DEF LineRecords
<1>. QED
  BY <1>1, <1>2 DEF LineStates

\* A line made is one more, in the table.
LEMMA MadeIs ==
    ASSUME NEW S \in LineStates, NEW type \in LineTypes, NEW mask \in Masks,
           NEW temp \in BOOLEAN
    PROVE  LET T == L!Made(S, type, mask, temp)
               i == S.made + 1
           IN
           /\ T \in LineStates
           /\ T.made = i /\ T.freed = S.freed /\ T.table = S.table \cup {i}
           /\ T.temporary = S.temporary /\ T.saved = S.saved
           /\ Live(T) = Live(S) \cup {i} /\ i \notin S.table
           /\ i \notin S.temporary
           /\ T.lines[i].temp <=> temp
           /\ Key(T, i) = <<type, mask>>
           /\ \A k \in 1 .. S.made : T.lines[k] = S.lines[k] /\ Key(T, k) = Key(S, k)
<1>. DEFINE T == L!Made(S, type, mask, temp)
            i == S.made + 1
            new == [k \in 1 .. i |-> IF k = i
                       THEN [type |-> type, mask |-> mask, temp |-> temp]
                       ELSE S.lines[k]]
<1>1. S.made \in Nat /\ i \in Nat /\ 1 .. i = (1 .. S.made) \cup {i} /\ i \notin 1 .. S.made
  BY LineStateFacts
<1>2. new \in [1 .. i -> Line]
  BY <1>1, LineStateFacts DEF Line
<1>3. T = [S EXCEPT !.made = i, !.lines = new, !.table = @ \cup {i}]
  BY DEF L!Made
<1>. HIDE DEF new
<1>4. /\ T \in LineRecords
      /\ T.made = i /\ T.freed = S.freed /\ T.table = S.table \cup {i}
      /\ T.temporary = S.temporary /\ T.saved = S.saved /\ T.lines = new
  <2>1. new \in Tables
    BY <1>1, <1>2 DEF Tables
  <2>2. S \in LineRecords /\ S.table \cup {i} \in SUBSET Nat
    BY <1>1, LineStateFacts
  <2>. QED
    BY <1>1, <1>3, <2>1, <2>2 DEF LineRecords
<1>. HIDE DEF T
<1>5. T \in LineStates
  BY <1>1, <1>2, <1>4, LineStateFacts DEF LineStates
<1>6. S.freed \subseteq 1 .. S.made /\ S.table \subseteq 1 .. S.made /\ S.temporary \subseteq 1 .. S.made
  BY LineStateFacts
<1>7. Live(T) = Live(S) \cup {i}
  BY <1>1, <1>4, <1>6 DEF Live
<1>8. /\ new[i] = [type |-> type, mask |-> mask, temp |-> temp]
      /\ \A k \in 1 .. S.made : new[k] = S.lines[k]
  BY <1>1 DEF new
<1>9. Key(T, i) = <<type, mask>> /\ \A k \in 1 .. S.made : Key(T, k) = Key(S, k)
  BY <1>4, <1>8 DEF Key
<1>. QED
  BY <1>1, <1>4, <1>5, <1>6, <1>7, <1>8, <1>9 DEF T

\* Lines are taken out of the table, and freed.
LEMMA ChannelResvDeletedIs ==
    ASSUME NEW S \in LineStates, NEW out, out \subseteq 1 .. S.made
    PROVE  LET T == L!ChannelResvDeleted(S, out) IN
           /\ T \in LineStates
           /\ T.made = S.made /\ T.freed = S.freed \cup out /\ T.table = S.table \ out
           /\ T.temporary = S.temporary /\ T.saved = S.saved /\ T.lines = S.lines
           /\ Live(T) = Live(S) \ out
<1>. DEFINE T == L!ChannelResvDeleted(S, out)
<1>1. /\ S \in LineRecords /\ S.made \in Nat
      /\ S.freed \cup out \in SUBSET Nat /\ S.table \ out \in SUBSET Nat
  <2>1. /\ S \in LineRecords /\ S.made \in Nat
        /\ S.freed \subseteq 1 .. S.made /\ S.table \subseteq 1 .. S.made
    BY LineStateFacts
  <2>2. 1 .. S.made \subseteq Nat
    BY <2>1
  <2>. QED
    BY <2>1, <2>2
<1>2. /\ T \in LineRecords
      /\ T.made = S.made /\ T.freed = S.freed \cup out /\ T.table = S.table \ out
      /\ T.temporary = S.temporary /\ T.saved = S.saved /\ T.lines = S.lines
  BY <1>1 DEF L!ChannelResvDeleted, LineRecords
<1>. HIDE DEF T
<1>3. T \in LineStates
  BY <1>2, LineStateFacts DEF LineStates
<1>. QED
  BY <1>2, <1>3 DEF Live, T

\* One line of the file is read: into a line for good, since no line of that
\* name and type is there that is not a temporary K-line or X-line.
LEMMA ReadOneMore ==
    ASSUME NEW S, NEW entries, NEW N \in Nat, entries \in [1 .. N -> S.saved],
           \A i, j \in 1 .. N : entries[i] = entries[j] => i = j,
           NEW n \in 1 .. N, ReadUpTo(S, entries, n - 1)
    PROVE  LET T == L!Read(S, entries[n][1], entries[n][2]) IN
           ReadUpTo(T, entries, n) /\ T.saved = S.saved
<1>. DEFINE type == entries[n][1]
            mask == entries[n][2]
            T == L!Made(S, type, mask, FALSE)
            i == S.made + 1
<1>1. /\ S \in LineStates /\ TempListed(S) /\ KeysOnce(S)
      /\ \A k \in Live(S) : S.lines[k].temp => Key(S, k) \notin S.saved
  BY DEF ReadUpTo, Rereadable
<1>2. /\ S.saved \subseteq LineTypes \X Masks
      /\ S.table \subseteq 1 .. S.made /\ S.temporary \subseteq 1 .. S.made
  BY <1>1, LineStateFacts
<1>3. /\ entries[n] \in S.saved /\ entries[n] = <<type, mask>>
      /\ type \in LineTypes /\ mask \in Masks
  BY <1>2
<1>4. ASSUME NEW k \in Live(S), ~S.lines[k].temp PROVE Key(S, k) # entries[n]
  BY <1>4 DEF ReadUpTo
<1>5. ~ (type \in Resv /\ L!Placed(S, type, mask))
  BY <1>3, <1>4 DEF L!Placed, ReadUpTo, Live, Key
<1>6. L!Read(S, type, mask) = T
  BY <1>5 DEF L!Read, Resv
<1>. HIDE DEF type, mask, T
<1>7. /\ T \in LineStates
      /\ T.freed = S.freed /\ T.table = S.table \cup {i}
      /\ T.temporary = S.temporary /\ T.saved = S.saved
      /\ Live(T) = Live(S) \cup {i} /\ i \notin S.table /\ i \notin S.temporary
      /\ ~T.lines[i].temp
      /\ Key(T, i) = <<type, mask>>
      /\ \A k \in 1 .. S.made : T.lines[k] = S.lines[k] /\ Key(T, k) = Key(S, k)
  <2>1. PICK temp \in BOOLEAN : temp = FALSE
    OBVIOUS
  <2>2. T = L!Made(S, type, mask, temp)
    BY <2>1 DEF T
  <2>. QED
    BY <1>1, <1>3, <2>1, <2>2, MadeIs
<1>8. /\ \A k \in S.table : T.lines[k] = S.lines[k] /\ Key(T, k) = Key(S, k)
      /\ \A k \in S.temporary : T.lines[k] = S.lines[k] /\ Key(T, k) = Key(S, k)
      /\ Live(S) \subseteq S.table
  BY <1>2, <1>7 DEF Live
<1>9. TempListed(T)
  BY <1>1, <1>7, <1>8 DEF TempListed
<1>10. ASSUME NEW k \in Live(S) PROVE Key(S, k) # entries[n]
  BY <1>1, <1>3, <1>4
<1>11. KeysOnce(T)
  BY <1>1, <1>3, <1>7, <1>8, <1>10 DEF KeysOnce
<1>12. Rereadable(T)
  BY <1>1, <1>7, <1>8, <1>9, <1>11 DEF Rereadable
<1>13. \A k \in T.table : T.lines[k].type \in Resv => k \notin T.freed /\ ~T.lines[k].temp
  <2>1. i \notin S.freed
    BY <1>7 DEF Live
  <2>. QED
    BY <2>1, <1>7, <1>8 DEF ReadUpTo
<1>14. 1 .. n = (1 .. n - 1) \cup {n}
  OBVIOUS
<1>15. \A k \in Live(T) : ~T.lines[k].temp => \E j \in 1 .. n : Key(T, k) = entries[j]
  <2>1. Key(T, i) = entries[n]
    BY <1>3, <1>7
  <2>2. \A k \in Live(S) : ~T.lines[k].temp => \E j \in 1 .. n - 1 : Key(T, k) = entries[j]
    BY <1>8 DEF ReadUpTo
  <2>. QED
    BY <2>1, <2>2, <1>7, <1>14
<1>16. \A j \in 1 .. n : \E k \in Live(T) : ~T.lines[k].temp /\ Key(T, k) = entries[j]
  <2>1. Key(T, i) = entries[n] /\ ~T.lines[i].temp /\ i \in Live(T)
    BY <1>3, <1>7
  <2>2. \A j \in 1 .. n - 1 : \E k \in Live(S) : ~T.lines[k].temp /\ Key(T, k) = entries[j]
    BY <1>8 DEF ReadUpTo
  <2>. QED
    BY <2>1, <2>2, <1>7, <1>14
<1>. QED
  BY <1>6, <1>7, <1>12, <1>13, <1>15, <1>16 DEF ReadUpTo, type, mask

\* REHASH: the bans with a time stay, all others are those of the files.
LEMMA RehashedRight ==
    ASSUME NEW S, Rereadable(S)
    PROVE  LinesRight(L!Rehashed(S))
<1>. DEFINE N == Cardinality(S.saved)
            entries == InOrder(S.saved)
            first == L!Cleared(S)
            Step == [x \in LineStates \X (1 .. N) |-> L!Read(x[1], entries[x[2]][1], entries[x[2]][2])]
            V == [n \in 0 .. N |-> {T \in LineStates : T.saved = S.saved /\ ReadUpTo(T, entries, n)}]
            Def(f) == [n \in 0 .. N |-> IF n = 0 THEN first
                                        ELSE L!Read(f[n - 1], entries[n][1], entries[n][2])]
<1>1. /\ S \in LineStates /\ TempListed(S) /\ KeysOnce(S)
      /\ \A k \in Live(S) : S.lines[k].temp => Key(S, k) \notin S.saved
  BY DEF Rereadable
<1>2. /\ N \in Nat /\ entries \in [1 .. N -> S.saved]
      /\ \A i, j \in 1 .. N : entries[i] = entries[j] => i = j
      /\ \A x \in S.saved : \E i \in 1 .. N : entries[i] = x
  BY <1>1, LineStateFacts, InOrderProperties
<1>3. first \in V[0]
  <2>. DEFINE out == {i \in S.table : S.lines[i].type \in Resv \/ ~S.lines[i].temp}
  <2>1. out \subseteq 1 .. S.made /\ S.table \subseteq 1 .. S.made
    BY <1>1, LineStateFacts
  <2>2. first = L!ChannelResvDeleted(S, out)
    BY DEF L!Cleared, Resv
  <2>. HIDE DEF first
  <2>3. /\ first \in LineStates
        /\ first.freed = S.freed \cup out /\ first.table = S.table \ out
        /\ first.temporary = S.temporary /\ first.saved = S.saved /\ first.lines = S.lines
        /\ Live(first) = Live(S) \ out
    BY <1>1, <2>1, <2>2, ChannelResvDeletedIs
  <2>4. TempListed(first)
    BY <1>1, <2>3 DEF TempListed
  <2>5. KeysOnce(first) /\ \A k \in Live(first) : first.lines[k].temp => Key(first, k) \notin first.saved
    BY <1>1, <2>3 DEF KeysOnce, Key
  <2>6. ReadUpTo(first, entries, 0)
    <3>1. \A k \in first.table : first.lines[k].type \notin Resv /\ first.lines[k].temp
      BY <2>3
    <3>2. \A k \in Live(first) : first.lines[k].temp
      BY <3>1 DEF Live
    <3>. QED
      BY <2>3, <2>4, <2>5, <3>1, <3>2 DEF ReadUpTo, Rereadable
  <2>. QED
    BY <1>2, <2>3, <2>6
<1>. HIDE DEF first, entries, N
<1>4. ASSUME NEW n \in 1 .. N, NEW T \in V[n - 1]
      PROVE  /\ L!Read(T, entries[n][1], entries[n][2]) \in V[n]
             /\ Step[<<T, n>>] = L!Read(T, entries[n][1], entries[n][2])
             /\ Step[<<T, n>>] \in V[n]
  <2>1. n - 1 \in 0 .. N /\ n \in 0 .. N
    BY <1>2
  <2>2. T \in LineStates /\ T.saved = S.saved /\ ReadUpTo(T, entries, n - 1)
    BY <2>1
  <2>. DEFINE U == L!Read(T, entries[n][1], entries[n][2])
  <2>3. ReadUpTo(U, entries, n) /\ U.saved = S.saved
    BY SMTT(30), <1>2, <2>2, ReadOneMore
  <2>4. U \in LineStates
    BY <2>3 DEF ReadUpTo, Rereadable
  <2>5. Step[<<T, n>>] = U
    BY <2>2
  <2>. HIDE DEF U
  <2>6. U \in V[n]
    BY <2>1, <2>3, <2>4
  <2>. QED
    BY <2>5, <2>6 DEF U
<1>. HIDE DEF V, Step
<1>5. \E f : f = Def(f)
  <2>1. N \in Nat /\ Stays(N, V, first, Step)
    BY <1>2, <1>3, <1>4 DEF Stays
  <2>2. PICK f : Goes(f, N, V, first, Step)
    BY <2>1, RecursionUpTo
  <2>. USE DEF Goes
  <2>3. ASSUME NEW n \in 1 .. N
        PROVE  f[n] = L!Read(f[n - 1], entries[n][1], entries[n][2])
    <3>1. n - 1 \in 0 .. N
      BY <1>2
    <3>2. f[n - 1] \in V[n - 1]
      BY <2>2, <3>1
    <3>3. Step[<<f[n - 1], n>>] = L!Read(f[n - 1], entries[n][1], entries[n][2])
      BY <1>4, <3>2
    <3>. QED
      BY <2>2, <3>3
  <2>4. \A n \in 0 .. N : n # 0 => n \in 1 .. N
    BY <1>2
  <2>5. \A n \in 0 .. N : f[n] = IF n = 0 THEN first
                                 ELSE L!Read(f[n - 1], entries[n][1], entries[n][2])
    BY <2>2, <2>3, <2>4
  <2>6. f = Def(f)
    BY <2>2, <2>5
  <2>. QED
    BY <2>6
<1>. DEFINE read == CHOOSE f : f = Def(f)
<1>6. read = Def(read)
  BY <1>5
<1>7. L!Rehashed(S) = read[N]
  <2>1. L!InOrder(S.saved) = entries /\ L!Cardinality(S.saved) = N
    BY LinesInstance DEF entries, N
  <2>. QED
    BY <2>1 DEF L!Rehashed, first
<1>. HIDE DEF read
<1>8. /\ read[0] = first
      /\ \A n \in 1 .. N : read[n] = L!Read(read[n - 1], entries[n][1], entries[n][2])
  BY <1>2, <1>6
<1>9. read[N] \in V[N]
  <2>1. \A n \in 1 .. N : read[n - 1] \in V[n - 1] => read[n] \in V[n]
    BY <1>4, <1>8
  <2>2. read[0] \in V[0]
    BY <1>3, <1>8
  <2>. QED
    BY <1>2, <2>1, <2>2, HoldsAtLast
<1>. DEFINE R == read[N]
<1>10. R \in LineStates /\ R.saved = S.saved /\ ReadUpTo(R, entries, N)
  BY <1>2, <1>9 DEF V
<1>. HIDE DEF R
<1>11. OfTheFile(R)
  BY <1>2, <1>10 DEF ReadUpTo, Rereadable, OfTheFile
<1>. QED
  BY <1>7, <1>10, <1>11 DEF R, LinesRight, ReadUpTo, Rereadable

\* The file, or the list of temporary lines, is changed.
LEMMA SavedIs ==
    ASSUME NEW S \in LineStates, NEW new \in SUBSET (LineTypes \X Masks), IsFiniteSet(new)
    PROVE  LET T == [S EXCEPT !.saved = new] IN
           /\ T \in LineStates /\ T.made = S.made /\ T.lines = S.lines
           /\ T.freed = S.freed /\ T.table = S.table
           /\ T.temporary = S.temporary /\ T.saved = new
<1>. DEFINE T == [S EXCEPT !.saved = new]
<1>1. S \in LineRecords
  BY LineStateFacts
<1>2. /\ T \in LineRecords /\ T.made = S.made /\ T.lines = S.lines
      /\ T.freed = S.freed /\ T.table = S.table
      /\ T.temporary = S.temporary /\ T.saved = new
  BY <1>1 DEF LineRecords
<1>. HIDE DEF T
<1>3. T \in LineStates
  BY <1>2, LineStateFacts DEF LineStates
<1>. QED
  BY <1>2, <1>3 DEF T

LEMMA TemporaryIs ==
    ASSUME NEW S \in LineStates, NEW new \in SUBSET (1 .. S.made)
    PROVE  LET T == [S EXCEPT !.temporary = new] IN
           /\ T \in LineStates /\ T.made = S.made /\ T.lines = S.lines
           /\ T.freed = S.freed /\ T.table = S.table
           /\ T.temporary = new /\ T.saved = S.saved
<1>. DEFINE T == [S EXCEPT !.temporary = new]
<1>1. S \in LineRecords /\ S.made \in Nat
  BY LineStateFacts
<1>2. new \in SUBSET Nat
  BY <1>1
<1>3. /\ T \in LineRecords /\ T.made = S.made /\ T.lines = S.lines
      /\ T.freed = S.freed /\ T.table = S.table
      /\ T.temporary = new /\ T.saved = S.saved
  BY <1>1, <1>2 DEF LineRecords
<1>. HIDE DEF T
<1>4. T \in LineStates
  BY <1>3, LineStateFacts DEF LineStates
<1>. QED
  BY <1>3, <1>4 DEF T

LEMMA DeletedIs ==
    ASSUME NEW S \in LineStates, NEW out, out \subseteq 1 .. S.made
    PROVE  LET T == L!Deleted(S, out)
               left == {i \in out : S.lines[i].type = "cresv"}
           IN
           /\ T \in LineStates /\ T.made = S.made /\ T.lines = S.lines
           /\ T.freed = S.freed \cup out /\ T.table = S.table \ (out \ left)
           /\ T.temporary = S.temporary /\ T.saved = S.saved
           /\ Live(T) = Live(S) \ out
<1>. DEFINE T == L!Deleted(S, out)
            new == S.table \ {i \in out : S.lines[i].type # "cresv"}
<1>1. /\ S \in LineRecords /\ S.made \in Nat
      /\ S.freed \cup out \in SUBSET Nat /\ new \in SUBSET Nat
      /\ S.freed \cup out \subseteq 1 .. S.made /\ new \subseteq 1 .. S.made
  <2>1. /\ S \in LineRecords /\ S.made \in Nat
        /\ S.freed \subseteq 1 .. S.made /\ S.table \subseteq 1 .. S.made
    BY LineStateFacts
  <2>2. 1 .. S.made \subseteq Nat
    BY <2>1
  <2>. QED
    BY <2>1, <2>2
<1>2. T = [S EXCEPT !.freed = S.freed \cup out, !.table = new]
  BY DEF L!Deleted
<1>3. new = S.table \ (out \ {i \in out : S.lines[i].type = "cresv"})
  OBVIOUS
<1>. HIDE DEF new, T
<1>4. /\ T \in LineRecords
      /\ T.made = S.made /\ T.freed = S.freed \cup out /\ T.table = new
      /\ T.temporary = S.temporary /\ T.saved = S.saved /\ T.lines = S.lines
  BY <1>1, <1>2 DEF LineRecords
<1>5. T \in LineStates
  BY <1>1, <1>4, LineStateFacts DEF LineStates
<1>6. Live(T) = Live(S) \ out
  BY <1>3, <1>4 DEF Live
<1>. QED
  BY <1>3, <1>4, <1>5, <1>6 DEF T

\* Lines are taken off: those out of what is in force, some of them from the
\* list of temporary ones.
LEMMA TakenOff ==
    ASSUME NEW S, NEW U, NEW out, LinesRight(S), U \in LineStates,
           U.lines = S.lines, Live(U) = Live(S) \ out,
           U.temporary \subseteq S.temporary, U.saved \subseteq S.saved,
           \A i \in S.temporary \ U.temporary : i \notin Live(U),
           \A i \in U.temporary : S.lines[i].type \notin Resv => i \notin out
    PROVE  /\ Rereadable(U)
           /\ U.saved = S.saved /\ (\A i \in out \cap Live(S) : S.lines[i].temp)
                 => LinesRight(U)
<1>1. /\ S \in LineStates /\ TempListed(S) /\ KeysOnce(S) /\ OfTheFile(S)
      /\ \A i : Key(U, i) = Key(S, i)
  BY DEF LinesRight, Key
<1>2. TempListed(U)
  BY <1>1 DEF TempListed
<1>3. KeysOnce(U)
  BY <1>1 DEF KeysOnce
<1>4. \A i \in Live(U) : U.lines[i].temp => Key(U, i) \notin U.saved
  BY <1>1 DEF OfTheFile
<1>5. Rereadable(U)
  BY <1>2, <1>3, <1>4 DEF Rereadable
<1>6. ASSUME U.saved = S.saved, \A i \in out \cap Live(S) : S.lines[i].temp
      PROVE  OfTheFile(U)
  <2>1. ASSUME NEW x \in S.saved PROVE \E i \in Live(U) : Key(U, i) = x
    <3>1. PICK i \in Live(S) : Key(S, i) = x
      BY <1>1 DEF OfTheFile
    <3>2. i \notin out
      BY <1>1, <1>6, <3>1 DEF OfTheFile
    <3>. QED
      BY <1>1, <3>1, <3>2
  <2>. QED
    BY <1>1, <1>6, <2>1 DEF OfTheFile
<1>. QED
  BY <1>2, <1>3, <1>5, <1>6 DEF LinesRight

LEMMA RightIsRereadable ==
    ASSUME NEW S, LinesRight(S) PROVE Rereadable(S)
  BY DEF LinesRight, Rereadable, OfTheFile

\* The state is S afterwards.
LEMMA BecomesRight ==
    ASSUME NEW S, LinesRight(S), L!Become(S)
    PROVE  LinesRight(L!State)'
<1>1. S \in LineRecords
  BY LineStateFacts DEF LinesRight
<1>2. S = [made |-> S.made, lines |-> S.lines, freed |-> S.freed, table |-> S.table,
           temporary |-> S.temporary, saved |-> S.saved]
  BY <1>1 DEF LineRecords
<1>3. L!State' = S
  BY <1>2 DEF L!State, L!Become
<1>. QED
  BY <1>3

\* KLINE, XLINE and RESV
LEMMA AddKeeps ==
    ASSUME LinesRight(L!State), NEW type \in LineTypes, NEW mask \in Masks,
           NEW temp \in BOOLEAN, L!Add(type, mask, temp)
    PROVE  LinesRight(L!State)'
<1>. DEFINE S == L!State
            T == L!Made(S, type, mask, temp)
            U == [T EXCEPT !.temporary = IF temp THEN @ \cup {T.made} ELSE @,
                           !.saved = IF temp THEN @ ELSE @ \cup {<<type, mask>>}]
            i == S.made + 1
            key == <<type, mask>>
<1>1. CASE L!Fails
  BY <1>1 DEF L!Fails, L!State
<1>2. CASE ~L!TableBad(type) /\ ~L!Placed(S, type, mask) /\ L!Become(U)
  <2>1. /\ S \in LineStates /\ TempListed(S) /\ KeysOnce(S) /\ OfTheFile(S)
        /\ \A k \in Live(S) : Key(S, k) # key
    <3>1. \A k \in Live(S) : Key(S, k) # key
      BY <1>2 DEF L!Placed, Live, Key
    <3>. QED
      BY <3>1 DEF LinesRight
  <2>2. /\ T \in LineStates
        /\ T.made = i /\ T.freed = S.freed /\ T.table = S.table \cup {i}
        /\ T.temporary = S.temporary /\ T.saved = S.saved
        /\ Live(T) = Live(S) \cup {i} /\ i \notin S.table
        /\ i \notin S.temporary
        /\ T.lines[i].temp <=> temp
        /\ Key(T, i) = key
        /\ \A k \in 1 .. S.made : T.lines[k] = S.lines[k] /\ Key(T, k) = Key(S, k)
    BY <2>1, MadeIs
  <2>3. /\ S.table \subseteq 1 .. S.made /\ S.temporary \subseteq 1 .. S.made
        /\ S.saved \subseteq LineTypes \X Masks /\ S.made \in Nat /\ IsFiniteSet(S.saved)
    BY <2>1, LineStateFacts
  <2>. HIDE DEF S, T, key
  <2>4. /\ U \in LineStates /\ U.lines = T.lines
        /\ Live(U) = Live(T)
        /\ U.temporary = IF temp THEN T.temporary \cup {i} ELSE T.temporary
        /\ U.saved = IF temp THEN T.saved ELSE T.saved \cup {key}
    <3>1. CASE temp
      <4>1. U = [T EXCEPT !.temporary = T.temporary \cup {i}]
        <5>1. T \in LineRecords
          BY <2>2, LineStateFacts
        <5>. QED
          BY <2>2, <3>1, <5>1 DEF LineRecords
      <4>2. T.temporary \cup {i} \in SUBSET (1 .. T.made)
        BY <2>2, <2>3
      <4>. HIDE DEF U
      <4>3. /\ U \in LineStates /\ U.lines = T.lines
            /\ U.freed = T.freed /\ U.table = T.table
            /\ U.temporary = T.temporary \cup {i} /\ U.saved = T.saved
        BY <2>2, <4>1, <4>2, TemporaryIs
      <4>. QED
        BY <3>1, <4>3 DEF Live
    <3>2. CASE ~temp
      <4>1. U = [T EXCEPT !.saved = T.saved \cup {key}]
        <5>1. T \in LineRecords
          BY <2>2, LineStateFacts
        <5>. QED
          BY <2>2, <3>2, <5>1 DEF LineRecords, key
      <4>2. T.saved \cup {key} \in SUBSET (LineTypes \X Masks) /\ IsFiniteSet(T.saved \cup {key})
        <5>1. key \in LineTypes \X Masks
          BY DEF key
        <5>2. IsFiniteSet(S.saved \cup {key})
          BY <2>3, FS_AddElement
        <5>. QED
          BY <2>2, <2>3, <5>1, <5>2
      <4>. HIDE DEF U
      <4>3. /\ U \in LineStates /\ U.lines = T.lines
            /\ U.freed = T.freed /\ U.table = T.table
            /\ U.temporary = T.temporary /\ U.saved = T.saved \cup {key}
        BY <2>2, <4>1, <4>2, SavedIs
      <4>. QED
        BY <3>2, <4>3 DEF Live
    <3>. QED
      BY <3>1, <3>2
  <2>. HIDE DEF U
  <2>5. /\ \A k : Key(U, k) = Key(T, k)
        /\ \A k \in Live(S) : /\ U.lines[k] = S.lines[k] /\ Key(U, k) = Key(S, k)
                              /\ k # i
        /\ \A k \in S.temporary : U.lines[k] = S.lines[k] /\ Key(U, k) = Key(S, k)
        /\ Live(U) = Live(S) \cup {i} /\ Key(U, i) = key /\ (U.lines[i].temp <=> temp)
    BY <2>2, <2>3, <2>4 DEF Key, Live
  <2>6. TempListed(U)
    BY <2>1, <2>2, <2>4, <2>5 DEF TempListed
  <2>7. KeysOnce(U)
    BY <2>1, <2>5 DEF KeysOnce
  <2>8. key \notin S.saved
    BY <2>1 DEF OfTheFile
  <2>9. OfTheFile(U)
    <3>1. CASE temp
      BY <2>1, <2>2, <2>4, <2>5, <2>8, <3>1 DEF OfTheFile
    <3>2. CASE ~temp
      BY <2>1, <2>2, <2>4, <2>5, <2>8, <3>2 DEF OfTheFile
    <3>. QED
      BY <3>1, <3>2
  <2>10. LinesRight(U)
    BY <2>4, <2>6, <2>7, <2>9 DEF LinesRight
  <2>. QED
    BY <1>2, <2>10, BecomesRight
<1>. QED
  BY <1>1, <1>2 DEF L!Add

\* remove_conf_line
LEMMA FileRemovedRight ==
    ASSUME NEW S, NEW type, NEW mask, Rereadable(S), <<type, mask>> \in S.saved
    PROVE  LinesRight(L!FileRemoved(S, type, mask))
<1>. DEFINE U == [S EXCEPT !.saved = @ \ {<<type, mask>>}]
            new == S.saved \ {<<type, mask>>}
<1>1. S \in LineStates /\ S.saved \subseteq LineTypes \X Masks /\ IsFiniteSet(S.saved)
  BY LineStateFacts DEF Rereadable
<1>2. new \in SUBSET (LineTypes \X Masks) /\ IsFiniteSet(new)
  BY <1>1, FS_RemoveElement
<1>3. U = [S EXCEPT !.saved = new]
  BY <1>1
<1>. HIDE DEF U, new
<1>4. /\ U \in LineStates /\ U.lines = S.lines
      /\ U.freed = S.freed /\ U.table = S.table
      /\ U.temporary = S.temporary /\ U.saved = new
  BY <1>1, <1>2, <1>3, SavedIs
<1>5. Rereadable(U)
  BY <1>4 DEF Rereadable, TempListed, KeysOnce, Live, Key, new
<1>6. L!FileRemoved(S, type, mask) = L!Rehashed(U)
  BY DEF L!FileRemoved, U
<1>. QED
  BY <1>5, <1>6, RehashedRight

\* UNKLINE and UNXLINE
LEMMA UnlineKeeps ==
    ASSUME LinesRight(L!State), NEW type \in LineTypes, NEW mask \in Masks,
           L!Unline(type, mask)
    PROVE  LinesRight(L!State)'
<1>. DEFINE S == L!State
            found == {i \in temporary : lines[i].type = type /\ lines[i].mask = mask}
<1>1. CASE L!Fails
  BY <1>1 DEF L!Fails, L!State
<1>2. ASSUME NEW i \in found, L!Become(L!Deleted([S EXCEPT !.temporary = @ \ {i}], {i}))
      PROVE  LinesRight(L!State)'
  <2>. DEFINE T == [S EXCEPT !.temporary = @ \ {i}]
              U == L!Deleted(T, {i})
              new == S.temporary \ {i}
  <2>1. /\ S \in LineStates /\ S.temporary \subseteq 1 .. S.made
        /\ i \in S.temporary /\ S.lines[i].temp
    BY LineStateFacts DEF LinesRight, TempListed, L!State
  <2>2. new \in SUBSET (1 .. S.made) /\ {i} \subseteq 1 .. S.made
    BY <2>1
  <2>3. T = [S EXCEPT !.temporary = new]
    BY DEF L!State
  <2>. HIDE DEF S, T, new
  <2>4. /\ T \in LineStates /\ T.made = S.made /\ T.lines = S.lines
        /\ T.freed = S.freed /\ T.table = S.table
        /\ T.temporary = new /\ T.saved = S.saved
    BY <2>1, <2>2, <2>3, TemporaryIs
  <2>5. /\ U \in LineStates /\ U.lines = T.lines
        /\ U.temporary = T.temporary /\ U.saved = T.saved
        /\ Live(U) = Live(T) \ {i}
    BY <2>2, <2>4, DeletedIs
  <2>. HIDE DEF U
  <2>6. Live(T) = Live(S)
    BY <2>4 DEF Live
  <2>7. LinesRight(U)
    BY <2>1, <2>4, <2>5, <2>6, TakenOff DEF new, S
  <2>. QED
    BY <1>2, <2>7, BecomesRight DEF U, T, S
<1>3. CASE L!Become(L!FileRemoved(S, type, mask))
  <2>1. CASE <<type, mask>> \in S.saved
    BY <1>3, <2>1, FileRemovedRight, RightIsRereadable, BecomesRight
  <2>2. CASE <<type, mask>> \notin S.saved
    BY <1>3, <2>2, BecomesRight DEF L!FileRemoved
  <2>. QED
    BY <2>1, <2>2
<1>. QED
  BY <1>1, <1>2, <1>3 DEF L!Unline

\* UNRESV
LEMMA UnresvKeeps ==
    ASSUME LinesRight(L!State), NEW type \in LineTypes, NEW mask \in Masks,
           L!Unresv(type, mask)
    PROVE  LinesRight(L!State)'
<1>. DEFINE S == L!State
            found == {i \in placed : lines[i].type = type /\ lines[i].mask = mask}
<1>1. CASE L!Fails
  BY <1>1 DEF L!Fails, L!State
<1>2. ASSUME NEW i \in found, ~L!TableBad(type), type \in Resv,
             L!Become(L!FileRemoved(L!ChannelResvDeleted(S, {i}), type, mask))
      PROVE  LinesRight(L!State)'
  <2>. DEFINE U == L!ChannelResvDeleted(S, {i})
  <2>1. /\ S \in LineStates /\ S.table \subseteq 1 .. S.made /\ TempListed(S) /\ OfTheFile(S)
        /\ i \in Live(S) /\ Key(S, i) = <<type, mask>> /\ S.lines[i].type \in Resv
        /\ i \in 1 .. S.made
    <3>1. S \in LineStates /\ S.table \subseteq 1 .. S.made /\ TempListed(S) /\ OfTheFile(S)
      BY LineStateFacts DEF LinesRight
    <3>2. i \in Live(S) /\ Key(S, i) = <<type, mask>> /\ S.lines[i].type \in Resv /\ i \in S.table
      BY <1>2 DEF L!TableBad, L!OfType, Live, Key, L!State
    <3>. QED
      BY <3>1, <3>2
  <2>. HIDE DEF S
  <2>2. /\ U \in LineStates /\ U.lines = S.lines
        /\ U.temporary = S.temporary /\ U.saved = S.saved
        /\ Live(U) = Live(S) \ {i}
    BY <2>1, ChannelResvDeletedIs
  <2>. HIDE DEF U
  <2>3. /\ Rereadable(U)
        /\ S.lines[i].temp => LinesRight(U)
    BY <2>1, <2>2, TakenOff DEF S
  <2>4. CASE <<type, mask>> \in S.saved
    BY <1>2, <2>2, <2>3, <2>4, FileRemovedRight, BecomesRight DEF U, S
  <2>5. CASE <<type, mask>> \notin S.saved
    <3>1. LinesRight(U)
      BY <2>1, <2>3, <2>5 DEF OfTheFile
    <3>2. L!FileRemoved(U, type, mask) = U
      BY <2>2, <2>5 DEF L!FileRemoved
    <3>. QED
      BY <1>2, <3>1, <3>2, BecomesRight DEF U, S
  <2>. QED
    BY <2>4, <2>5
<1>. QED
  BY <1>1, <1>2 DEF L!Unresv, Resv

\* cleanup_tklines
LEMMA ExpireKeeps ==
    ASSUME LinesRight(L!State), NEW over \in SUBSET temporary, L!Expire(over)
    PROVE  LinesRight(L!State)'
<1>. DEFINE S == L!State
            T == [S EXCEPT !.temporary = @ \ over]
            U == L!Deleted(T, over)
            new == S.temporary \ over
<1>1. CASE L!Fails
  BY <1>1 DEF L!Fails, L!State
<1>2. CASE L!Become(U)
  <2>1. /\ S \in LineStates /\ S.temporary \subseteq 1 .. S.made
        /\ over \subseteq S.temporary /\ \A i \in over : S.lines[i].temp
    BY LineStateFacts DEF LinesRight, TempListed, L!State
  <2>2. new \in SUBSET (1 .. S.made) /\ over \subseteq 1 .. S.made
    BY <2>1
  <2>3. T = [S EXCEPT !.temporary = new]
    BY DEF L!State
  <2>. HIDE DEF S, T, new
  <2>4. /\ T \in LineStates /\ T.made = S.made /\ T.lines = S.lines
        /\ T.freed = S.freed /\ T.table = S.table
        /\ T.temporary = new /\ T.saved = S.saved
    BY <2>1, <2>2, <2>3, TemporaryIs
  <2>5. /\ U \in LineStates /\ U.lines = T.lines
        /\ U.temporary = T.temporary /\ U.saved = T.saved
        /\ Live(U) = Live(T) \ over
    BY <2>2, <2>4, DeletedIs
  <2>. HIDE DEF U
  <2>6. Live(T) = Live(S)
    BY <2>4 DEF Live
  <2>7. LinesRight(U)
    BY <2>1, <2>4, <2>5, <2>6, TakenOff DEF new, S
  <2>. QED
    BY <1>2, <2>7, BecomesRight DEF S
<1>. QED
  BY <1>1, <1>2 DEF L!Expire

\* REHASH
LEMMA RehashKeeps ==
    ASSUME LinesRight(L!State), L!Rehash
    PROVE  LinesRight(L!State)'
<1>1. CASE L!Fails
  BY <1>1 DEF L!Fails, L!State
<1>2. CASE L!Become(L!Rehashed(L!State))
  BY <1>2, RightIsRereadable, RehashedRight, BecomesRight
<1>. QED
  BY <1>1, <1>2 DEF L!Rehash

LEMMA LinesStart ==
    ASSUME L!Init PROVE LinesRight(L!State)
<1>. DEFINE S == L!State
<1>1. /\ made = 0 /\ lines = [i \in {} |-> 0] /\ freed = {} /\ placed = {}
      /\ temporary = {} /\ saved = {}
  BY DEF L!Init
<1>2. lines \in [1 .. 0 -> Line] /\ 1 .. 0 = {}
  BY <1>1
<1>3. lines \in Tables
  BY <1>2 DEF Tables
<1>4. S \in LineRecords
  BY <1>1, <1>3 DEF LineRecords, L!State
<1>5. S \in LineStates
  BY <1>1, <1>2, <1>4, FS_EmptySet DEF LineStates, L!State
<1>. QED
  BY <1>1, <1>5 DEF LinesRight, TempListed, KeysOnce, OfTheFile, Live, L!State

LEMMA RightInForce ==
    ASSUME LinesRight(L!State) PROVE L!LinesInForce
<1>. DEFINE S == L!State
<1>1. TempListed(S) /\ KeysOnce(S) /\ OfTheFile(S) /\ Live(S) = placed \ freed
      /\ S.lines = lines /\ S.temporary = temporary /\ S.saved = saved
  BY DEF LinesRight, Live, L!State
<1>. HIDE DEF S
<1>2. L!TempInForce
  BY <1>1 DEF TempListed, L!TempInForce, L!Ban, Resv
<1>3. L!TempExpires
  BY <1>1 DEF TempListed, L!TempExpires
<1>4. L!FilesInForce
  <2>. SUFFICES ASSUME NEW type \in LineTypes, NEW mask \in Masks
                PROVE  <<type, mask>> \in saved <=>
                       \E i \in placed \ freed : lines[i].type = type /\ lines[i].mask = mask
                                                 /\ ~lines[i].temp
    BY DEF L!FilesInForce
  <2>1. ASSUME <<type, mask>> \in saved
        PROVE  \E i \in placed \ freed : lines[i].type = type /\ lines[i].mask = mask
                                         /\ ~lines[i].temp
    <3>1. PICK i \in Live(S) : Key(S, i) = <<type, mask>>
      BY <1>1, <2>1 DEF OfTheFile
    <3>2. ~S.lines[i].temp
      BY <1>1, <2>1, <3>1 DEF OfTheFile
    <3>. QED
      BY <1>1, <3>1, <3>2 DEF Key
  <2>2. ASSUME NEW i \in placed \ freed, lines[i].type = type, lines[i].mask = mask,
               ~lines[i].temp
        PROVE  <<type, mask>> \in saved
    BY <1>1, <2>2 DEF OfTheFile, Key
  <2>. QED
    BY <2>1, <2>2
<1>5. L!PlacedOnce
  BY <1>1 DEF KeysOnce, Key, L!PlacedOnce
<1>. QED
  BY <1>2, <1>3, <1>4, <1>5 DEF L!LinesInForce

LinesInv == LinesRight(L!State)

\* The bans and reservations in force are what the commands, the files and the
\* clock say, for all masks, types and bounds (add_temp_line, cleanup_tklines,
\* rehash).
THEOREM BansInForce == PartSpec => []LinesInForce
<1>1. PartInit => LinesInv
  BY LinesStart DEF PartInit, LinesInv
<1>2. LinesInv /\ [PartNext]_partvars => LinesInv'
  <2>. SUFFICES ASSUME LinesInv, [PartNext]_partvars PROVE LinesInv'
    OBVIOUS
  <2>1. ASSUME UNCHANGED linevars PROVE LinesInv'
    BY <2>1 DEF LinesInv, linevars, L!State
  <2>2. CASE L!Next
    BY <2>2, AddKeeps, UnlineKeeps, UnresvKeeps, ExpireKeeps, RehashKeeps DEF LinesInv, L!Next
  <2>. QED
    BY <2>1, <2>2 DEF PartNext, partvars
<1>3. LinesInv => LinesInForce
  BY RightInForce DEF LinesInv, LinesInForce
<1>. QED
  BY <1>1, <1>2, <1>3, PTL DEF PartSpec

-----------------------------------------------------------------------------
(* Descriptors and listeners *)

Fds == Slots \cup Conns
Places == [F : Fds, next : Fds \cup {None}]

\* The states of the table of Descriptors as records.
FdStates == [table : Seq(Fds), open : SUBSET Fds, walk : Places \cup {None},
             due : SUBSET Fds]

\* What the walk has yet to see, the descriptor it is at left out.
Ahead(T) == T.due \ {T.walk.F}

\* What is ahead is the rest of the table from the next place on.
WalkKept(T) ==
    /\ T.walk = None => T.due = {}
    /\ T.walk # None =>
          /\ Ahead(T) \subseteq Queued(T.table)
          /\ \A x, y : x \in Ahead(T) /\ Before(T.table, x, y) => y \in Ahead(T)
          /\ T.walk.next = None => Ahead(T) = {}
          /\ T.walk.next # None =>
                /\ T.walk.next \in Ahead(T)
                /\ \A y \in Ahead(T) : y = T.walk.next \/ Before(T.table, T.walk.next, y)

FdRight(T) ==
    /\ T \in FdStates
    /\ Once(T.table)
    /\ T.open = Queued(T.table)
    /\ WalkKept(T)

LEMMA FdInstance ==
    /\ \A S : D!Cardinality(S) = Cardinality(S) /\ D!InOrder(S) = InOrder(S)
    /\ \A list, out : D!Remaining(list, out) = Remaining(list, out)
    /\ \A list : D!ToSet(list) = Queued(list)
    /\ D!Fds = Fds
<1>1. ASSUME NEW S PROVE D!Cardinality(S) = Cardinality(S) /\ D!InOrder(S) = InOrder(S)
  <2>1. D!Cardinality(S) = Cardinality(S)
    BY DEF D!Cardinality, Cardinality, D!IsFiniteSet, IsFiniteSet
  <2>2. D!InOrder(S) = InOrder(S)
    BY <2>1 DEF D!InOrder, InOrder, D!Bijection, D!Injection, D!Surjection, D!IsInjective,
                Bijection, Injection, Surjection, IsInjective
  <2>. QED
    BY <2>1, <2>2
<1>2. ASSUME NEW list, NEW out PROVE D!Remaining(list, out) = Remaining(list, out)
  BY DEF D!Remaining, Remaining
<1>3. ASSUME NEW list PROVE D!ToSet(list) = Queued(list)
  BY DEF D!ToSet, Queued
<1>4. D!Fds = Fds
  BY DEF D!Fds, Fds
<1>. QED
  BY <1>1, <1>2, <1>3, <1>4

\* F->hnext is the first of those behind F.
LEMMA AfterIs ==
    ASSUME NEW tab \in Seq(Fds), Once(tab), NEW F \in Queued(tab)
    PROVE  LET next == D!After(tab, F) IN
           /\ next \in Fds \cup {None}
           /\ next = None => \A y : ~Before(tab, F, y)
           /\ next # None => /\ Before(tab, F, next)
                             /\ \A y : Before(tab, F, y) => y = next \/ Before(tab, next, y)
<1>. DEFINE N == Len(tab)
            on == {i \in 1 .. N - 1 : tab[i] = F}
<1>1. N \in Nat /\ \A i \in 1 .. N : tab[i] \in Fds
  BY LenProperties, ElementOfSeq
<1>2. PICK k \in 1 .. N : tab[k] = F
  BY QueuedAre
<1>3. None \notin Fds
  BY FdsAssumption DEF Fds
<1>4. \A i \in 1 .. N : tab[i] = F => i = k
  BY <1>2 DEF Once
<1>5. CASE k = N
  <2>1. on = {}
    BY <1>1, <1>4, <1>5
  <2>2. D!After(tab, F) = None
    BY <2>1 DEF D!After
  <2>3. \A y : ~Before(tab, F, y)
    BY <1>1, <1>4, <1>5 DEF Before
  <2>. QED
    BY <2>2, <2>3
<1>6. CASE k # N
  <2>1. k \in 1 .. N - 1 /\ k + 1 \in 1 .. N /\ k \in 1 .. (k + 1) - 1
    BY <1>1, <1>6
  <2>2. on = {k}
    BY <1>1, <1>2, <1>4, <2>1
  <2>3. D!After(tab, F) = tab[k + 1]
    BY <2>2 DEF D!After
  <2>4. Before(tab, F, tab[k + 1])
    BY <1>2, <2>1 DEF Before
  <2>5. ASSUME NEW y, Before(tab, F, y) PROVE y = tab[k + 1] \/ Before(tab, tab[k + 1], y)
    <3>1. PICK j \in 1 .. N : k \in 1 .. j - 1 /\ tab[j] = y
      BY <1>1, <1>4, <2>5 DEF Before
    <3>2. CASE j = k + 1
      BY <3>1, <3>2
    <3>3. CASE j # k + 1
      BY <1>1, <3>1, <3>3, k + 1 \in 1 .. j - 1 DEF Before
    <3>. QED
      BY <3>2, <3>3
  <2>. QED
    BY <1>1, <1>3, <2>1, <2>3, <2>4, <2>5
<1>. QED
  BY <1>5, <1>6

LEMMA FdFacts ==
    ASSUME NEW T, FdRight(T)
    PROVE  /\ T.table \in Seq(Fds) /\ Once(T.table)
           /\ T.open = Queued(T.table) /\ T.open \subseteq Fds
           /\ T.due \subseteq Fds
           /\ T.walk # None => T.walk \in Places
  BY DEF FdRight, FdStates

\* fd_close: the walk goes on behind a descriptor that is closed.
LEMMA ClosedKeeps ==
    ASSUME ClearsFde, NEW T, FdRight(T), NEW F \in Fds
    PROVE  LET U == D!Closed(T, F) IN
           /\ FdRight(U)
           /\ Queued(U.table) = Queued(T.table) \ {F}
           /\ U.walk = None <=> T.walk = None
<1>. DEFINE U == D!Closed(T, F)
            tab == Remaining(T.table, {F})
            walk2 == IF T.walk # None /\ T.walk.next = F
                     THEN [T.walk EXCEPT !.next = D!After(T.table, F)] ELSE T.walk
<1>1. /\ T.table \in Seq(Fds) /\ Once(T.table)
      /\ T.open = Queued(T.table) /\ T.open \subseteq Fds
      /\ T.due \subseteq Fds
      /\ T.walk # None => T.walk \in Places
  BY FdFacts
<1>2. /\ tab \in Seq(Fds) /\ Once(tab)
      /\ Queued(tab) = Queued(T.table) \ {F}
      /\ \A x, y : x # F /\ y # F => (Before(tab, x, y) <=> Before(T.table, x, y))
  BY <1>1, RemainingInOrder
<1>3. None \notin Fds /\ None \notin Places
  BY FdsAssumption DEF Fds, Places
<1>4. /\ walk2 \in Places \cup {None}
      /\ walk2 = None <=> T.walk = None
      /\ T.walk # None =>
            /\ walk2.F = T.walk.F
            /\ walk2.next = IF T.walk.next = F THEN D!After(T.table, F) ELSE T.walk.next
  <2>1. CASE T.walk # None /\ T.walk.next = F
    <3>1. F \in Queued(T.table)
      BY <1>3, <2>1 DEF FdRight, WalkKept
    <3>2. D!After(T.table, F) \in Fds \cup {None}
      BY <1>1, <3>1, AfterIs
    <3>. QED
      BY <1>1, <1>3, <2>1, <3>2 DEF Places
  <2>2. CASE ~ (T.walk # None /\ T.walk.next = F)
    BY <1>1, <1>3, <2>2
  <2>. QED
    BY <2>1, <2>2
<1>5. U = [T EXCEPT !.table = tab, !.open = T.open \ {F}, !.walk = walk2, !.due = T.due \ {F}]
  BY FdInstance DEF D!Closed
<1>. HIDE DEF U, tab, walk2
<1>6. /\ U \in FdStates
      /\ U.table = tab /\ U.open = T.open \ {F} /\ U.walk = walk2 /\ U.due = T.due \ {F}
  BY <1>1, <1>2, <1>4, <1>5 DEF FdRight, FdStates
<1>7. WalkKept(U)
  <2>1. CASE T.walk = None
    BY <1>4, <1>6, <2>1 DEF FdRight, WalkKept
  <2>. SUFFICES ASSUME T.walk # None PROVE WalkKept(U)
    BY <2>1
  <2>2. Ahead(U) = Ahead(T) \ {F}
    BY <1>4, <1>6 DEF Ahead
  <2>3. /\ Ahead(T) \subseteq Queued(T.table)
        /\ \A x, y : x \in Ahead(T) /\ Before(T.table, x, y) => y \in Ahead(T)
        /\ T.walk.next = None => Ahead(T) = {}
        /\ T.walk.next # None =>
              /\ T.walk.next \in Ahead(T)
              /\ \A y \in Ahead(T) : y = T.walk.next \/ Before(T.table, T.walk.next, y)
    BY DEF FdRight, WalkKept
  <2>4. Ahead(U) \subseteq Queued(U.table)
    BY <1>2, <1>6, <2>2, <2>3
  <2>5. ASSUME NEW x, NEW y, x \in Ahead(U), Before(U.table, x, y) PROVE y \in Ahead(U)
    <3>1. x # F /\ x \in Ahead(T) /\ y \in Queued(U.table)
      BY <1>2, <1>6, <2>2, <2>5, BeforeIsAnOrder
    <3>2. y # F /\ Before(T.table, x, y)
      BY <1>2, <1>6, <2>5, <3>1
    <3>. QED
      BY <2>2, <2>3, <3>1, <3>2
  <2>6. CASE T.walk.next = F
    <3>. DEFINE next == D!After(T.table, F)
    <3>1. F \in Ahead(T) /\ F \in Queued(T.table)
      BY <1>3, <2>3, <2>6
    <3>2. /\ next = None => \A y : ~Before(T.table, F, y)
          /\ next # None =>
                /\ Before(T.table, F, next)
                /\ \A y : Before(T.table, F, y) => y = next \/ Before(T.table, next, y)
      BY <1>1, <3>1, AfterIs
    <3>3. U.walk.next = next /\ U.walk # None
      BY <1>4, <1>6, <2>6
    <3>. HIDE DEF next
    <3>4. next = None => Ahead(U) = {}
      BY <1>3, <2>2, <2>3, <2>6, <3>2
    <3>5. ASSUME next # None
          PROVE  /\ next \in Ahead(U)
                 /\ \A y \in Ahead(U) : y = next \/ Before(U.table, next, y)
      <4>1. next \in Ahead(T) /\ next # F
        BY <1>1, <2>3, <3>1, <3>2, <3>5, BeforeIsAnOrder
      <4>2. ASSUME NEW y \in Ahead(U), y # next PROVE Before(U.table, next, y)
        <5>1. y # F /\ Before(T.table, F, y)
          BY <1>3, <2>2, <2>3, <2>6, <4>2
        <5>2. Before(T.table, next, y)
          BY <3>2, <3>5, <4>2, <5>1
        <5>. QED
          BY <1>2, <1>6, <4>1, <5>1, <5>2
      <4>. QED
        BY <2>2, <4>1, <4>2
    <3>. QED
      BY <2>4, <2>5, <3>3, <3>4, <3>5 DEF WalkKept
  <2>7. CASE T.walk.next # F
    <3>1. U.walk.next = T.walk.next /\ U.walk # None
      BY <1>4, <1>6, <2>7
    <3>2. ASSUME T.walk.next # None
          PROVE  /\ T.walk.next \in Ahead(U)
                 /\ \A y \in Ahead(U) : y = T.walk.next \/ Before(U.table, T.walk.next, y)
      BY <1>2, <1>6, <2>2, <2>3, <2>7, <3>2
    <3>. QED
      BY <2>2, <2>3, <2>4, <2>5, <3>1, <3>2 DEF WalkKept
  <2>. QED
    BY <2>6, <2>7
<1>8. FdRight(U)
  BY <1>1, <1>2, <1>6, <1>7 DEF FdRight
<1>. QED
  BY <1>2, <1>4, <1>6, <1>8 DEF U

\* fd_open: what is put in front is not ahead of the walk.
LEMMA OpenedKeeps ==
    ASSUME NEW T, FdRight(T), NEW F \in Fds, F \notin Queued(T.table)
    PROVE  LET U == D!Opened(T, F) IN
           /\ FdRight(U)
           /\ Queued(U.table) = Queued(T.table) \cup {F}
           /\ U.walk = T.walk
<1>. DEFINE U == D!Opened(T, F)
            tab == <<F>> \o T.table
<1>1. /\ T.table \in Seq(Fds) /\ Once(T.table)
      /\ T.open = Queued(T.table) /\ T.open \subseteq Fds
  BY FdFacts
<1>2. /\ tab \in Seq(Fds) /\ Once(tab)
      /\ Queued(tab) = Queued(T.table) \cup {F}
      /\ \A x, y : Before(tab, x, y) <=> \/ Before(T.table, x, y)
                                         \/ x = F /\ y \in Queued(T.table)
  BY <1>1, PutInFront
<1>3. U = [T EXCEPT !.table = tab, !.open = T.open \cup {F}]
  BY DEF D!Opened
<1>. HIDE DEF U, tab
<1>4. /\ U \in FdStates
      /\ U.table = tab /\ U.open = T.open \cup {F} /\ U.walk = T.walk /\ U.due = T.due
  BY <1>1, <1>2, <1>3 DEF FdRight, FdStates
<1>5. WalkKept(U)
  <2>1. Ahead(U) = Ahead(T)
    BY <1>4 DEF Ahead
  <2>2. WalkKept(T)
    BY DEF FdRight
  <2>. QED
    BY <1>2, <1>4, <2>1, <2>2 DEF WalkKept
<1>. QED
  BY <1>1, <1>2, <1>4, <1>5 DEF FdRight, U

\* The walk goes on to the next place.
LEMMA WalkedOnKeeps ==
    ASSUME NEW T, FdRight(T), T.walk # None
    PROVE  LET U == D!WalkedOn(T) IN
           /\ FdRight(U) /\ U.table = T.table
           /\ U.walk # None => U.walk.F \in U.due
<1>. DEFINE U == D!WalkedOn(T)
            next == T.walk.next
            walk2 == IF next = None THEN None
                     ELSE [F |-> next, next |-> D!After(T.table, next)]
<1>1. /\ T.table \in Seq(Fds) /\ Once(T.table) /\ T.due \subseteq Fds
      /\ T.walk \in Places
  BY FdFacts
<1>2. /\ Ahead(T) \subseteq Queued(T.table)
      /\ \A x, y : x \in Ahead(T) /\ Before(T.table, x, y) => y \in Ahead(T)
      /\ next = None => Ahead(T) = {}
      /\ next # None =>
            /\ next \in Ahead(T)
            /\ \A y \in Ahead(T) : y = next \/ Before(T.table, next, y)
  BY DEF FdRight, WalkKept
<1>3. U = [T EXCEPT !.due = Ahead(T), !.walk = walk2]
  BY DEF D!WalkedOn, Ahead
<1>4. None \notin Fds /\ None \notin Places
  BY FdsAssumption DEF Fds, Places
<1>. HIDE DEF U, next
<1>5. CASE next = None
  <2>1. /\ U \in FdStates
        /\ U.table = T.table /\ U.open = T.open /\ U.walk = None /\ U.due = {}
    BY <1>2, <1>3, <1>5 DEF FdRight, FdStates
  <2>. QED
    BY <2>1 DEF FdRight, WalkKept, U
<1>6. CASE next # None
  <2>. DEFINE then == D!After(T.table, next)
  <2>1. /\ then \in Fds \cup {None}
        /\ then = None => \A y : ~Before(T.table, next, y)
        /\ then # None =>
              /\ Before(T.table, next, then)
              /\ \A y : Before(T.table, next, y) => y = then \/ Before(T.table, then, y)
    BY <1>1, <1>2, <1>6, AfterIs
  <2>. HIDE DEF then
  <2>2. next \in Fds
    BY <1>1, <1>2, <1>6 DEF Ahead
  <2>3. walk2 \in Places /\ walk2.F = next /\ walk2.next = then
    BY <1>6, <2>1, <2>2 DEF Places, then
  <2>. HIDE DEF walk2
  <2>4. /\ U \in FdStates
        /\ U.table = T.table /\ U.open = T.open /\ U.walk = walk2 /\ U.due = Ahead(T)
    BY <1>1, <1>3, <2>3 DEF FdRight, FdStates, Ahead
  <2>5. Ahead(U) = Ahead(T) \ {next} /\ U.walk # None /\ U.walk.next = then
    BY <1>4, <2>3, <2>4 DEF Ahead
  <2>6. ASSUME NEW x, NEW y, x \in Ahead(U), Before(T.table, x, y) PROVE y \in Ahead(U)
    <3>1. y \in Ahead(T) /\ Before(T.table, next, x)
      BY <1>2, <1>6, <2>5, <2>6
    <3>2. y # next
      BY <1>1, <2>6, <3>1, BeforeIsAnOrder
    <3>. QED
      BY <2>5, <3>1, <3>2
  <2>7. ASSUME then = None PROVE Ahead(U) = {}
    BY <1>2, <1>6, <2>1, <2>5, <2>7
  <2>8. ASSUME then # None
        PROVE  /\ then \in Ahead(U)
               /\ \A y \in Ahead(U) : y = then \/ Before(T.table, then, y)
    <3>1. then \in Ahead(T) /\ then # next
      BY <1>1, <1>2, <1>6, <2>1, <2>8, BeforeIsAnOrder
    <3>. QED
      BY <1>2, <1>6, <2>1, <2>5, <2>8, <3>1
  <2>9. WalkKept(U)
    BY <1>2, <2>4, <2>5, <2>6, <2>7, <2>8 DEF WalkKept
  <2>. QED
    BY <1>2, <1>6, <2>3, <2>4, <2>9 DEF FdRight, U
<1>. QED
  BY <1>5, <1>6

\* The descriptors closed, one after the other.
LEMMA AllClosedKeeps ==
    ASSUME ClearsFde, NEW T, FdRight(T), NEW closed \in SUBSET Fds, IsFiniteSet(closed)
    PROVE  LET U == D!AllClosed(T, closed) IN
           /\ FdRight(U)
           /\ Queued(U.table) = Queued(T.table) \ closed
           /\ U.walk = None <=> T.walk = None
<1>. DEFINE N == Cardinality(closed)
            order == InOrder(closed)
            Step == [x \in FdStates \X (1 .. N) |-> D!Closed(x[1], order[x[2]])]
            V == [n \in 0 .. N |->
                     {U \in FdStates :
                         /\ FdRight(U)
                         /\ Queued(U.table) = Queued(T.table) \ {order[i] : i \in 1 .. n}
                         /\ U.walk = None <=> T.walk = None}]
            Def(f) == [n \in 0 .. N |-> IF n = 0 THEN T ELSE D!Closed(f[n - 1], order[n])]
<1>1. /\ N \in Nat /\ order \in [1 .. N -> closed]
      /\ \A x \in closed : \E i \in 1 .. N : order[i] = x
  BY InOrderProperties
<1>. HIDE DEF N, order
<1>2. T \in V[0]
  BY <1>1 DEF FdRight
<1>3. ASSUME NEW n \in 1 .. N, NEW U \in V[n - 1]
      PROVE  /\ D!Closed(U, order[n]) \in V[n]
             /\ Step[<<U, n>>] = D!Closed(U, order[n])
  <2>1. n - 1 \in 0 .. N /\ n \in 0 .. N /\ 1 .. n = (1 .. n - 1) \cup {n}
    BY <1>1
  <2>2. /\ U \in FdStates /\ FdRight(U)
        /\ Queued(U.table) = Queued(T.table) \ {order[i] : i \in 1 .. n - 1}
        /\ U.walk = None <=> T.walk = None
    BY <2>1
  <2>. DEFINE W == D!Closed(U, order[n])
  <2>3. order[n] \in Fds
    BY <1>1
  <2>4. /\ FdRight(W)
        /\ Queued(W.table) = Queued(U.table) \ {order[n]}
        /\ W.walk = None <=> U.walk = None
    BY <2>2, <2>3, ClosedKeeps
  <2>5. Step[<<U, n>>] = W
    BY <2>2
  <2>. HIDE DEF W
  <2>6. {order[i] : i \in 1 .. n} = {order[i] : i \in 1 .. n - 1} \cup {order[n]}
    BY <2>1
  <2>7. W \in V[n]
    BY <2>1, <2>2, <2>4, <2>6 DEF FdRight
  <2>. QED
    BY <2>5, <2>7 DEF W
<1>. HIDE DEF V, Step
<1>4. \E f : f = Def(f)
  <2>1. N \in Nat /\ Stays(N, V, T, Step)
    BY <1>1, <1>2, <1>3 DEF Stays
  <2>2. PICK f : Goes(f, N, V, T, Step)
    BY <2>1, RecursionUpTo
  <2>3. /\ f = [n \in 0 .. N |-> f[n]] /\ f[0] = T
        /\ \A n \in 1 .. N : f[n] = Step[<<f[n - 1], n>>]
        /\ \A n \in 0 .. N : f[n] \in V[n]
    BY <2>2 DEF Goes
  <2>4. ASSUME NEW n \in 1 .. N PROVE f[n] = D!Closed(f[n - 1], order[n])
    <3>1. n - 1 \in 0 .. N
      BY <1>1
    <3>2. f[n - 1] \in V[n - 1]
      BY <2>3, <3>1
    <3>. QED
      BY <1>3, <2>3, <3>2
  <2>5. \A n \in 0 .. N : n # 0 => n \in 1 .. N
    BY <1>1
  <2>6. f = Def(f)
    BY <2>3, <2>4, <2>5
  <2>. QED
    BY <2>6
<1>. DEFINE left == CHOOSE f : f = Def(f)
<1>5. left = Def(left)
  BY <1>4
<1>6. D!AllClosed(T, closed) = left[N]
  BY FdInstance DEF D!AllClosed, N, order
<1>. HIDE DEF left
<1>7. left[N] \in V[N]
  <2>1. left[0] = T /\ \A n \in 1 .. N : left[n] = D!Closed(left[n - 1], order[n])
    BY <1>1, <1>5
  <2>2. \A n \in 1 .. N : left[n - 1] \in V[n - 1] => left[n] \in V[n]
    BY <1>3, <2>1
  <2>. QED
    BY <1>1, <1>2, <2>1, <2>2, HoldsAtLast
<1>8. closed = {order[i] : i \in 1 .. N}
  BY <1>1
<1>9. N \in 0 .. N
  BY <1>1
<1>. QED
  BY <1>6, <1>7, <1>8, <1>9 DEF V

-----------------------------------------------------------------------------
(* Listeners *)

Listener == [port : Ports, ref_count : Nat, active : BOOLEAN]
ListenStates == [T : FdStates, listeners : [Slots -> Listener \cup {None}]]

Up(H) == {l \in Slots : H.listeners[l] # None}
From(thr, l) == {c \in Conns : thr[c] = l}

\* A listener is counted right, is in use, listens when it says so, and is the
\* only one of its port.
ListenerRight(H, thr, l) ==
    /\ H.listeners[l].ref_count = Cardinality(From(thr, l))
    /\ H.listeners[l].active \/ H.listeners[l].ref_count > 0
    /\ H.listeners[l].active <=> l \in Queued(H.T.table)
    /\ \A k \in Up(H) : H.listeners[k].port = H.listeners[l].port => k = l

ListenersRight(H, thr) ==
    /\ H \in ListenStates /\ FdRight(H.T)
    /\ \A c \in Conns : thr[c] # None => thr[c] \in Up(H)
    /\ \A l \in Up(H) : ListenerRight(H, thr, l)
    /\ Queued(H.T.table) \cap Slots \subseteq Up(H)

Listening(H, p) ==
    \E l \in Up(H) : H.listeners[l].port = p /\ l \in Queued(H.T.table)

LEMMA ListenFacts ==
    ASSUME NEW H \in ListenStates
    PROVE  /\ H.T \in FdStates /\ H.listeners \in [Slots -> Listener \cup {None}]
           /\ \A l \in Up(H) : H.listeners[l] \in Listener
           /\ H = [T |-> H.T, listeners |-> H.listeners]
           /\ None \notin Listener
<1>1. H.T \in FdStates /\ H.listeners \in [Slots -> Listener \cup {None}]
  BY DEF ListenStates
<1>2. H = [T |-> H.T, listeners |-> H.listeners]
  BY DEF ListenStates
<1>. QED
  BY <1>1, <1>2, FdsAssumption DEF Up, Listener

\* One listener is changed, with the table and the clients that came through it.
LEMMA ListenerChanged ==
    ASSUME NEW H, NEW thr, ListenersRight(H, thr),
           NEW G \in ListenStates, NEW thr2, NEW l \in Slots, FdRight(G.T),
           Queued(G.T.table) \cap (Slots \ {l}) = Queued(H.T.table) \cap (Slots \ {l}),
           \A k \in Slots \ {l} : G.listeners[k] = H.listeners[k],
           \A c \in Conns : thr2[c] = l \/ thr2[c] = thr[c] \/ thr2[c] = None,
           \A k \in Slots \ {l} : From(thr2, k) = From(thr, k),
           l \notin Up(G) => l \notin Queued(G.T.table) /\ From(thr2, l) = {},
           l \in Up(G) =>
              /\ G.listeners[l].ref_count = Cardinality(From(thr2, l))
              /\ G.listeners[l].active \/ G.listeners[l].ref_count > 0
              /\ G.listeners[l].active <=> l \in Queued(G.T.table)
              /\ \A k \in Up(H) \ {l} : H.listeners[k].port # G.listeners[l].port
    PROVE  /\ ListenersRight(G, thr2)
           /\ \A p : Listening(H, p) => \/ Listening(G, p)
                                        \/ l \in Up(H) /\ H.listeners[l].port = p
                                           /\ l \in Queued(H.T.table)
<1>1. Up(G) \ {l} = Up(H) \ {l} /\ Up(G) \subseteq Slots
  BY DEF Up
<1>2. ASSUME NEW c \in Conns, thr2[c] # None PROVE thr2[c] \in Up(G)
  <2>1. CASE thr2[c] = l
    BY <2>1 DEF From
  <2>2. CASE thr2[c] # l
    BY <1>1, <1>2, <2>2 DEF ListenersRight
  <2>. QED
    BY <2>1, <2>2
<1>3. ASSUME NEW k \in Up(G) PROVE ListenerRight(G, thr2, k)
  <2>1. CASE k = l
    BY <1>1, <2>1 DEF ListenerRight
  <2>2. CASE k # l
    <3>1. k \in Up(H) /\ k \in Slots \ {l} /\ ListenerRight(H, thr, k)
      BY <1>1, <2>2 DEF ListenersRight
    <3>2. \A m \in Up(G) : G.listeners[m].port = G.listeners[k].port => m = k
      BY <1>1, <3>1 DEF ListenerRight
    <3>. QED
      BY <3>1, <3>2 DEF ListenerRight
  <2>. QED
    BY <2>1, <2>2
<1>4. Queued(G.T.table) \cap Slots \subseteq Up(G)
  BY <1>1 DEF ListenersRight
<1>5. ASSUME NEW p, Listening(H, p)
      PROVE  Listening(G, p) \/ (l \in Up(H) /\ H.listeners[l].port = p
                                 /\ l \in Queued(H.T.table))
  BY <1>1, <1>5 DEF Listening
<1>. QED
  BY <1>2, <1>3, <1>4, <1>5 DEF ListenersRight

\* The table is changed but for the listeners.
LEMMA TableChanged ==
    ASSUME NEW H, NEW thr, ListenersRight(H, thr), NEW G \in ListenStates, FdRight(G.T),
           G.listeners = H.listeners,
           Queued(G.T.table) \cap Slots = Queued(H.T.table) \cap Slots
    PROVE  /\ ListenersRight(G, thr)
           /\ \A p : Listening(H, p) => Listening(G, p)
<1>1. Up(G) = Up(H) /\ Up(H) \subseteq Slots
  BY DEF Up
<1>2. \A l \in Up(G) : ListenerRight(G, thr, l)
  BY <1>1 DEF ListenersRight, ListenerRight
<1>3. \A p : Listening(H, p) => Listening(G, p)
  BY <1>1 DEF Listening
<1>. QED
  BY <1>1, <1>2, <1>3 DEF ListenersRight

LEMMA FromIsFinite ==
    ASSUME NEW thr, NEW l
    PROVE  /\ IsFiniteSet(From(thr, l)) /\ Cardinality(From(thr, l)) \in Nat
           /\ Cardinality(From(thr, l)) = 0 <=> From(thr, l) = {}
<1>1. From(thr, l) \subseteq Conns /\ IsFiniteSet(Conns)
  BY FdsAssumption DEF From
<1>2. IsFiniteSet(From(thr, l))
  BY <1>1, FS_Subset
<1>. QED
  BY <1>2, FS_CardinalityType, FS_EmptySet

\* close_listener
LEMMA ListenerClosedKeeps ==
    ASSUME ClearsFde, NEW H, NEW thr, ListenersRight(H, thr), NEW l \in Up(H)
    PROVE  LET G == D!ListenerClosed(H, l) IN
           /\ ListenersRight(G, thr)
           /\ G.T.walk = None <=> H.T.walk = None
           /\ Up(H) \ {l} \subseteq Up(G)
           /\ \A p : Listening(H, p) => \/ Listening(G, p)
                                        \/ H.listeners[l].port = p
                                           /\ l \in Queued(H.T.table)
<1>. DEFINE G == D!ListenerClosed(H, l)
            T2 == IF l \in H.T.open THEN D!Closed(H.T, l) ELSE H.T
            v == IF H.listeners[l].ref_count = 0 THEN None
                 ELSE [H.listeners[l] EXCEPT !.active = FALSE]
<1>1. /\ H \in ListenStates /\ FdRight(H.T) /\ l \in Slots /\ l \in Fds
      /\ H.listeners[l] \in Listener /\ None \notin Listener
      /\ H.listeners \in [Slots -> Listener \cup {None}]
  <2>1. H \in ListenStates /\ FdRight(H.T) /\ l \in Slots /\ l \in Fds
    BY DEF ListenersRight, Up, Fds
  <2>. QED
    BY <2>1, ListenFacts
<1>2. /\ FdRight(T2) /\ T2 \in FdStates
      /\ Queued(T2.table) = Queued(H.T.table) \ {l}
      /\ T2.walk = None <=> H.T.walk = None
  <2>1. H.T.open = Queued(H.T.table)
    BY <1>1 DEF FdRight
  <2>2. CASE l \in H.T.open
    <3>1. /\ FdRight(D!Closed(H.T, l))
          /\ Queued(D!Closed(H.T, l).table) = Queued(H.T.table) \ {l}
          /\ D!Closed(H.T, l).walk = None <=> H.T.walk = None
      BY <1>1, ClosedKeeps
    <3>. QED
      BY <2>2, <3>1 DEF FdRight
  <2>3. CASE l \notin H.T.open
    BY <1>1, <2>1, <2>3 DEF FdRight
  <2>. QED
    BY <2>2, <2>3
<1>3. /\ v \in Listener \cup {None}
      /\ v = None <=> H.listeners[l].ref_count = 0
      /\ v # None => v.ref_count = H.listeners[l].ref_count
                     /\ v.port = H.listeners[l].port /\ ~v.active
  BY <1>1 DEF Listener
<1>4. G = [T |-> T2, listeners |-> [H.listeners EXCEPT ![l] = v]]
  BY DEF D!ListenerClosed
<1>. HIDE DEF G, T2, v
<1>5. /\ G \in ListenStates /\ G.T = T2
      /\ G.listeners = [H.listeners EXCEPT ![l] = v]
  BY <1>1, <1>2, <1>3, <1>4 DEF ListenStates
<1>6. /\ G.listeners[l] = v
      /\ \A k \in Slots \ {l} : G.listeners[k] = H.listeners[k]
  BY <1>1, <1>5
<1>7. /\ H.listeners[l].ref_count = Cardinality(From(thr, l))
      /\ \A k \in Up(H) : H.listeners[k].port = H.listeners[l].port => k = l
      /\ H.listeners[l].ref_count \in Nat
  BY <1>1 DEF ListenersRight, ListenerRight, Listener
<1>8. l \notin Up(G) => l \notin Queued(G.T.table) /\ From(thr, l) = {}
  BY <1>1, <1>2, <1>3, <1>5, <1>6, <1>7, FromIsFinite DEF Up
<1>9. l \in Up(G) =>
         /\ G.listeners[l].ref_count = Cardinality(From(thr, l))
         /\ G.listeners[l].active \/ G.listeners[l].ref_count > 0
         /\ G.listeners[l].active <=> l \in Queued(G.T.table)
         /\ \A k \in Up(H) \ {l} : H.listeners[k].port # G.listeners[l].port
  BY <1>2, <1>3, <1>5, <1>6, <1>7 DEF Up
<1>10. /\ ListenersRight(G, thr)
       /\ \A p : Listening(H, p) => \/ Listening(G, p)
                                    \/ l \in Up(H) /\ H.listeners[l].port = p
                                       /\ l \in Queued(H.T.table)
  <2>1. Queued(G.T.table) \cap (Slots \ {l}) = Queued(H.T.table) \cap (Slots \ {l})
    BY <1>2, <1>5
  <2>. QED
    BY <1>1, <1>2, <1>5, <1>6, <1>8, <1>9, <2>1, ListenerChanged
<1>11. Up(H) \ {l} \subseteq Up(G)
  BY <1>6 DEF Up
<1>. QED
  BY <1>2, <1>5, <1>10, <1>11 DEF G

\* close_listeners: each that is up, one after the other.
LEMMA ListenersClosedKeeps ==
    ASSUME ClearsFde, NEW H, NEW thr, ListenersRight(H, thr), H.T.walk = None,
           NEW all \in SUBSET Up(H), IsFiniteSet(all)
    PROVE  LET G == D!ListenersClosed(H, all) IN
           ListenersRight(G, thr) /\ G.T.walk = None
<1>. DEFINE N == Cardinality(all)
            order == InOrder(all)
            Step == [x \in ListenStates \X (1 .. N) |-> D!ListenerClosed(x[1], order[x[2]])]
            V == [n \in 0 .. N |->
                     {G \in ListenStates :
                         /\ ListenersRight(G, thr) /\ G.T.walk = None
                         /\ \A i \in n + 1 .. N : order[i] \in Up(G)}]
            Def(f) == [n \in 0 .. N |-> IF n = 0 THEN H
                                        ELSE D!ListenerClosed(f[n - 1], order[n])]
<1>1. /\ N \in Nat /\ order \in [1 .. N -> all]
      /\ \A i, j \in 1 .. N : order[i] = order[j] => i = j
  BY InOrderProperties
<1>. HIDE DEF N, order
<1>2. H \in V[0]
  BY <1>1 DEF ListenersRight
<1>3. ASSUME NEW n \in 1 .. N, NEW G \in V[n - 1]
      PROVE  /\ D!ListenerClosed(G, order[n]) \in V[n]
             /\ Step[<<G, n>>] = D!ListenerClosed(G, order[n])
  <2>1. /\ n - 1 \in 0 .. N /\ n \in 0 .. N /\ n \in (n - 1) + 1 .. N
        /\ \A i \in n + 1 .. N : i \in (n - 1) + 1 .. N /\ i # n /\ i \in 1 .. N
    BY <1>1
  <2>2. /\ G \in ListenStates /\ ListenersRight(G, thr) /\ G.T.walk = None
        /\ \A i \in (n - 1) + 1 .. N : order[i] \in Up(G)
    BY <2>1
  <2>. DEFINE W == D!ListenerClosed(G, order[n])
  <2>3. /\ ListenersRight(W, thr) /\ W.T.walk = None
        /\ Up(G) \ {order[n]} \subseteq Up(W)
    BY <2>1, <2>2, ListenerClosedKeeps
  <2>4. Step[<<G, n>>] = W
    BY <2>2
  <2>. HIDE DEF W
  <2>5. \A i \in n + 1 .. N : order[i] \in Up(W)
    BY <1>1, <2>1, <2>2, <2>3
  <2>6. W \in V[n]
    BY <2>1, <2>3, <2>5 DEF ListenersRight
  <2>. QED
    BY <2>4, <2>6 DEF W
<1>. HIDE DEF V, Step
<1>4. \E f : f = Def(f)
  <2>1. N \in Nat /\ Stays(N, V, H, Step)
    BY <1>1, <1>2, <1>3 DEF Stays
  <2>2. PICK f : Goes(f, N, V, H, Step)
    BY <2>1, RecursionUpTo
  <2>3. /\ f = [n \in 0 .. N |-> f[n]] /\ f[0] = H
        /\ \A n \in 1 .. N : f[n] = Step[<<f[n - 1], n>>]
        /\ \A n \in 0 .. N : f[n] \in V[n]
    BY <2>2 DEF Goes
  <2>4. ASSUME NEW n \in 1 .. N PROVE f[n] = D!ListenerClosed(f[n - 1], order[n])
    <3>1. n - 1 \in 0 .. N
      BY <1>1
    <3>2. f[n - 1] \in V[n - 1]
      BY <2>3, <3>1
    <3>. QED
      BY <1>3, <2>3, <3>2
  <2>5. \A n \in 0 .. N : n # 0 => n \in 1 .. N
    BY <1>1
  <2>6. f = Def(f)
    BY <2>3, <2>4, <2>5
  <2>. QED
    BY <2>6
<1>. DEFINE left == CHOOSE f : f = Def(f)
<1>5. left = Def(left)
  BY <1>4
<1>6. D!ListenersClosed(H, all) = left[N]
  BY FdInstance DEF D!ListenersClosed, N, order
<1>. HIDE DEF left
<1>7. left[N] \in V[N]
  <2>1. left[0] = H /\ \A n \in 1 .. N : left[n] = D!ListenerClosed(left[n - 1], order[n])
    BY <1>1, <1>5
  <2>2. \A n \in 1 .. N : left[n - 1] \in V[n - 1] => left[n] \in V[n]
    BY <1>3, <2>1
  <2>. QED
    BY <1>1, <1>2, <2>1, <2>2, HoldsAtLast
<1>8. N \in 0 .. N
  BY <1>1
<1>. QED
  BY <1>6, <1>7, <1>8 DEF V

\* find_listener
LEMMA FoundIs ==
    ASSUME NEW H \in ListenStates, NEW p
    PROVE  LET l == D!Found(H, p) IN
           /\ l # None => l \in Up(H) /\ H.listeners[l].port = p
           /\ l = None => \A k \in Up(H) : H.listeners[k].port # p
<1>. DEFINE ls == {l \in Slots : H.listeners[l] # None /\ H.listeners[l].port = p}
            up == ls \cap H.T.open
<1>1. None \notin Slots
  BY FdsAssumption
<1>2. CASE up # {}
  <2>1. D!Found(H, p) \in up
    BY <1>2 DEF D!Found
  <2>. QED
    BY <1>1, <2>1 DEF Up
<1>3. CASE up = {} /\ ls # {}
  <2>1. D!Found(H, p) \in ls
    BY <1>3 DEF D!Found
  <2>. QED
    BY <1>1, <2>1 DEF Up
<1>4. CASE up = {} /\ ls = {}
  <2>1. D!Found(H, p) = None
    BY <1>4 DEF D!Found
  <2>. QED
    BY <1>4, <2>1 DEF Up
<1>. QED
  BY <1>2, <1>3, <1>4

\* A port without a listener leaves memory for one.
LEMMA SlotLeft ==
    ASSUME NEW H, NEW thr, ListenersRight(H, thr), NEW p \in Ports,
           \A k \in Up(H) : H.listeners[k].port # p
    PROVE  \E s \in Slots : H.listeners[s] = None
<1>. SUFFICES ASSUME \A s \in Slots : H.listeners[s] # None PROVE FALSE
  OBVIOUS
<1>1. Up(H) = Slots /\ H \in ListenStates
  BY DEF Up, ListenersRight
<1>. DEFINE port == [l \in Slots |-> H.listeners[l].port]
<1>2. \A l \in Slots : port[l] \in Ports \ {p}
  BY <1>1, ListenFacts DEF Listener
<1>3. \A k, l \in Slots : port[k] = port[l] => k = l
  BY <1>1 DEF ListenersRight, ListenerRight
<1>4. port \in Injection(Slots, Ports \ {p})
  BY <1>2, <1>3 DEF Injection, IsInjective
<1>5. IsFiniteSet(Ports \ {p}) /\ Cardinality(Ports \ {p}) = Cardinality(Ports) - 1
  BY FdsAssumption, FS_RemoveElement
<1>6. Cardinality(Slots) <= Cardinality(Ports \ {p})
  BY <1>4, <1>5, FS_Injection DEF ExistsInjection
<1>7. Cardinality(Ports) \in Nat /\ Cardinality(Slots) \in Nat
  BY FdsAssumption, FS_CardinalityType
<1>. QED
  BY <1>5, <1>6, <1>7, FdsAssumption

\* A listener listens.
LEMMA ListenerOpened ==
    ASSUME NEW H, NEW thr, ListenersRight(H, thr), NEW l \in Slots,
           l \notin Queued(H.T.table), NEW v \in Listener, v.active,
           v.ref_count = Cardinality(From(thr, l)),
           \A k \in Up(H) \ {l} : H.listeners[k].port # v.port
    PROVE  LET G == [T |-> D!Opened(H.T, l), listeners |-> [H.listeners EXCEPT ![l] = v]] IN
           /\ ListenersRight(G, thr)
           /\ G.T.walk = H.T.walk
           /\ Listening(G, v.port)
           /\ \A p : Listening(H, p) => Listening(G, p)
<1>. DEFINE G == [T |-> D!Opened(H.T, l), listeners |-> [H.listeners EXCEPT ![l] = v]]
<1>1. /\ H \in ListenStates /\ FdRight(H.T) /\ l \in Fds
      /\ H.listeners \in [Slots -> Listener \cup {None}] /\ None \notin Listener
  BY ListenFacts DEF ListenersRight, Fds
<1>2. /\ FdRight(D!Opened(H.T, l))
      /\ Queued(D!Opened(H.T, l).table) = Queued(H.T.table) \cup {l}
      /\ D!Opened(H.T, l).walk = H.T.walk
  BY <1>1, OpenedKeeps
<1>3. D!Opened(H.T, l) \in FdStates
  BY <1>2 DEF FdRight
<1>4. G.T = D!Opened(H.T, l) /\ G.listeners = [H.listeners EXCEPT ![l] = v]
  OBVIOUS
<1>5. G \in ListenStates
  BY <1>1, <1>3 DEF ListenStates
<1>. HIDE DEF G
<1>6. /\ G.listeners[l] = v /\ l \in Up(G)
      /\ \A k \in Slots \ {l} : G.listeners[k] = H.listeners[k]
  BY <1>1, <1>4 DEF Up
<1>7. Queued(G.T.table) \cap (Slots \ {l}) = Queued(H.T.table) \cap (Slots \ {l})
      /\ l \in Queued(G.T.table)
  BY <1>2, <1>4
<1>8. /\ ListenersRight(G, thr)
      /\ \A p : Listening(H, p) => \/ Listening(G, p)
                                   \/ l \in Up(H) /\ H.listeners[l].port = p
                                      /\ l \in Queued(H.T.table)
  BY <1>1, <1>2, <1>4, <1>5, <1>6, <1>7, ListenerChanged
<1>9. Listening(G, v.port)
  BY <1>6, <1>7 DEF Listening
<1>. QED
  BY <1>2, <1>4, <1>8, <1>9 DEF G

\* add_listener and inetport
LEMMA ListenerAddedKeeps ==
    ASSUME ClearsFde, NEW H, NEW thr, ListenersRight(H, thr), H.T.walk = None,
           NEW p \in Ports, NEW bad
    PROVE  LET G == D!ListenerAdded(H, p, bad) IN
           /\ ListenersRight(G, thr)
           /\ G.T.walk = None
           /\ \A q : Listening(H, q) => Listening(G, q)
           /\ p \notin bad => Listening(G, p)
<1>. DEFINE G == D!ListenerAdded(H, p, bad)
            found == D!Found(H, p)
            new == [port |-> p, ref_count |-> 0, active |-> FALSE]
<1>1. /\ H \in ListenStates /\ FdRight(H.T) /\ H.T \in FdStates
      /\ H.T.open = Queued(H.T.table)
      /\ H.listeners \in [Slots -> Listener \cup {None}] /\ None \notin Listener
      /\ H = [T |-> H.T, listeners |-> H.listeners]
      /\ \A l \in Up(H) : H.listeners[l] \in Listener
  BY ListenFacts DEF ListenersRight, FdRight
<1>2. /\ found # None => found \in Up(H) /\ H.listeners[found].port = p
      /\ found = None => \A k \in Up(H) : H.listeners[k].port # p
  BY <1>1, FoundIs
<1>. HIDE DEF found
<1>3. CASE found # None
  <2>1. /\ found \in Up(H) /\ H.listeners[found].port = p /\ found \in Slots
        /\ H.listeners[found] \in Listener
        /\ ListenerRight(H, thr, found)
    BY <1>1, <1>2, <1>3 DEF ListenersRight, Up
  <2>2. CASE found \in H.T.open
    <3>1. G = H
      BY <1>3, <2>2 DEF D!ListenerAdded, found
    <3>2. Listening(H, p)
      BY <1>1, <2>1, <2>2 DEF Listening
    <3>. QED
      BY <3>1, <3>2
  <2>3. CASE found \notin H.T.open /\ p \in bad
    <3>1. G = D!ListenerClosed(H, found)
      BY <1>3, <2>3 DEF D!ListenerAdded, found
    <3>. QED
      BY <1>1, <2>1, <2>3, <3>1, ListenerClosedKeeps
  <2>4. CASE found \notin H.T.open /\ p \notin bad
    <3>. DEFINE v == [H.listeners[found] EXCEPT !.active = TRUE]
    <3>1. v \in Listener /\ v.active /\ v.port = p
          /\ v.ref_count = Cardinality(From(thr, found))
      BY <2>1 DEF Listener, ListenerRight
    <3>2. G = [T |-> D!Opened(H.T, found), listeners |-> [H.listeners EXCEPT ![found] = v]]
      BY <1>3, <2>4 DEF D!ListenerAdded, found
    <3>. HIDE DEF v, G
    <3>3. \A k \in Up(H) \ {found} : H.listeners[k].port # v.port
      BY <2>1, <3>1 DEF ListenerRight
    <3>. QED
      BY <1>1, <2>1, <2>4, <3>1, <3>2, <3>3, ListenerOpened DEF G
  <2>. QED
    BY <2>2, <2>3, <2>4
<1>4. CASE found = None
  <2>. DEFINE l == CHOOSE s \in Slots : H.listeners[s] = None
              H1 == [T |-> [H.T EXCEPT !.open = @ \ {l}],
                     listeners |-> [H.listeners EXCEPT ![l] = new]]
  <2>1. l \in Slots /\ H.listeners[l] = None
    BY <1>2, <1>4, SlotLeft
  <2>2. G = IF l \in H1.T.open THEN H
            ELSE IF p \in bad THEN D!ListenerClosed(H1, l)
            ELSE [T |-> D!Opened(H1.T, l),
                  listeners |-> [H1.listeners EXCEPT ![l] = [@ EXCEPT !.active = TRUE]]]
    BY <1>4 DEF D!ListenerAdded, found
  <2>. HIDE DEF l
  <2>3. l \notin Up(H) /\ l \notin Queued(H.T.table) /\ From(thr, l) = {}
    BY <2>1, FdsAssumption DEF Up, ListenersRight, From
  <2>4. H1.T = H.T /\ H1.listeners = [H.listeners EXCEPT ![l] = new] /\ H1.listeners[l] = new
    <3>1. H.T.open \ {l} = H.T.open
      BY <1>1, <2>3
    <3>2. [H.T EXCEPT !.open = @ \ {l}] = H.T
      BY <1>1, <3>1 DEF FdStates
    <3>. QED
      BY <1>1, <2>1, <3>2
  <2>. HIDE DEF H1
  <2>5. CASE p \in bad
    <3>1. G = D!ListenerClosed(H1, l)
      BY <1>1, <2>2, <2>3, <2>4, <2>5
    <3>2. D!ListenerClosed(H1, l) = [T |-> H.T, listeners |-> [H1.listeners EXCEPT ![l] = None]]
      BY <1>1, <2>3, <2>4 DEF D!ListenerClosed
    <3>3. [H1.listeners EXCEPT ![l] = None] = H.listeners
      BY <1>1, <2>1, <2>4
    <3>. HIDE DEF G
    <3>4. G = H
      BY <1>1, <3>1, <3>2, <3>3
    <3>. QED
      BY <2>5, <3>4 DEF G
  <2>6. CASE p \notin bad
    <3>. DEFINE v == [port |-> p, ref_count |-> 0, active |-> TRUE]
    <3>1. /\ v \in Listener /\ v.active /\ v.port = p
          /\ v.ref_count = Cardinality(From(thr, l))
      BY <2>3, FromIsFinite DEF Listener
    <3>2. G = [T |-> D!Opened(H.T, l), listeners |-> [H.listeners EXCEPT ![l] = v]]
      <4>1. G = [T |-> D!Opened(H1.T, l),
                 listeners |-> [H1.listeners EXCEPT ![l] = [@ EXCEPT !.active = TRUE]]]
        BY <1>1, <2>2, <2>3, <2>4, <2>6
      <4>2. [H1.listeners EXCEPT ![l] = [@ EXCEPT !.active = TRUE]]
            = [H.listeners EXCEPT ![l] = v]
        BY <1>1, <2>1, <2>4
      <4>. QED
        BY <2>4, <4>1, <4>2
    <3>. HIDE DEF v, G
    <3>3. \A k \in Up(H) \ {l} : H.listeners[k].port # v.port
      BY <1>2, <1>4, <3>1
    <3>4. /\ ListenersRight(G, thr) /\ G.T.walk = H.T.walk
          /\ Listening(G, v.port) /\ \A q : Listening(H, q) => Listening(G, q)
      BY <2>1, <2>3, <3>1, <3>2, <3>3, ListenerOpened
    <3>. QED
      BY <3>1, <3>4 DEF G
  <2>. QED
    BY <2>5, <2>6
<1>. QED
  BY <1>3, <1>4

\* The listen{} blocks of the file
LEMMA ListenersAddedKeeps ==
    ASSUME ClearsFde, NEW H, NEW thr, ListenersRight(H, thr), H.T.walk = None,
           NEW new \in SUBSET Ports, NEW bad
    PROVE  LET G == D!ListenersAdded(H, new, bad) IN
           /\ ListenersRight(G, thr) /\ G.T.walk = None
           /\ \A p \in new \ bad : Listening(G, p)
<1>. DEFINE N == Cardinality(new)
            order == InOrder(new)
            Step == [x \in ListenStates \X (1 .. N) |-> D!ListenerAdded(x[1], order[x[2]], bad)]
            V == [n \in 0 .. N |->
                     {G \in ListenStates :
                         /\ ListenersRight(G, thr) /\ G.T.walk = None
                         /\ \A i \in 1 .. n : order[i] \notin bad => Listening(G, order[i])}]
            Def(f) == [n \in 0 .. N |-> IF n = 0 THEN H
                                        ELSE D!ListenerAdded(f[n - 1], order[n], bad)]
<1>1. /\ N \in Nat /\ order \in [1 .. N -> new]
      /\ \A p \in new : \E i \in 1 .. N : order[i] = p
  <2>1. IsFiniteSet(new)
    BY FdsAssumption, FS_Subset
  <2>. QED
    BY <2>1, InOrderProperties
<1>. HIDE DEF N, order
<1>2. H \in V[0]
  BY <1>1 DEF ListenersRight
<1>3. ASSUME NEW n \in 1 .. N, NEW G \in V[n - 1]
      PROVE  /\ D!ListenerAdded(G, order[n], bad) \in V[n]
             /\ Step[<<G, n>>] = D!ListenerAdded(G, order[n], bad)
  <2>1. n - 1 \in 0 .. N /\ n \in 0 .. N /\ 1 .. n = (1 .. n - 1) \cup {n}
    BY <1>1
  <2>2. /\ G \in ListenStates /\ ListenersRight(G, thr) /\ G.T.walk = None
        /\ \A i \in 1 .. n - 1 : order[i] \notin bad => Listening(G, order[i])
    BY <2>1
  <2>. DEFINE W == D!ListenerAdded(G, order[n], bad)
  <2>3. /\ ListenersRight(W, thr) /\ W.T.walk = None
        /\ \A q : Listening(G, q) => Listening(W, q)
        /\ order[n] \notin bad => Listening(W, order[n])
    BY <1>1, <2>2, ListenerAddedKeeps
  <2>4. Step[<<G, n>>] = W
    BY <2>2
  <2>. HIDE DEF W
  <2>5. W \in V[n]
    BY <2>1, <2>2, <2>3 DEF ListenersRight
  <2>. QED
    BY <2>4, <2>5 DEF W
<1>. HIDE DEF V, Step
<1>4. \E f : f = Def(f)
  <2>1. N \in Nat /\ Stays(N, V, H, Step)
    BY <1>1, <1>2, <1>3 DEF Stays
  <2>2. PICK f : Goes(f, N, V, H, Step)
    BY <2>1, RecursionUpTo
  <2>3. /\ f = [n \in 0 .. N |-> f[n]] /\ f[0] = H
        /\ \A n \in 1 .. N : f[n] = Step[<<f[n - 1], n>>]
        /\ \A n \in 0 .. N : f[n] \in V[n]
    BY <2>2 DEF Goes
  <2>4. ASSUME NEW n \in 1 .. N PROVE f[n] = D!ListenerAdded(f[n - 1], order[n], bad)
    <3>1. n - 1 \in 0 .. N
      BY <1>1
    <3>2. f[n - 1] \in V[n - 1]
      BY <2>3, <3>1
    <3>. QED
      BY <1>3, <2>3, <3>2
  <2>5. \A n \in 0 .. N : n # 0 => n \in 1 .. N
    BY <1>1
  <2>6. f = Def(f)
    BY <2>3, <2>4, <2>5
  <2>. QED
    BY <2>6
<1>. DEFINE to == CHOOSE f : f = Def(f)
<1>5. to = Def(to)
  BY <1>4
<1>6. D!ListenersAdded(H, new, bad) = to[N]
  BY FdInstance DEF D!ListenersAdded, N, order
<1>. HIDE DEF to
<1>7. to[N] \in V[N]
  <2>1. to[0] = H /\ \A n \in 1 .. N : to[n] = D!ListenerAdded(to[n - 1], order[n], bad)
    BY <1>1, <1>5
  <2>2. \A n \in 1 .. N : to[n - 1] \in V[n - 1] => to[n] \in V[n]
    BY <1>3, <2>1
  <2>. QED
    BY <1>1, <1>2, <2>1, <2>2, HoldsAtLast
<1>8. N \in 0 .. N
  BY <1>1
<1>. QED
  BY <1>1, <1>6, <1>7, <1>8 DEF V

Listened == [T |-> D!Table, listeners |-> listeners]

DescriptorsInv ==
    /\ ListenersRight(Listened, through)
    /\ through \in [Conns -> Slots \cup {None}]
    /\ walk # None => walk.F \in due
    /\ \A p \in ports \ failed : Listening(Listened, p)

LEMMA BecomesTable ==
    ASSUME NEW T \in FdStates, D!Become(T)
    PROVE  /\ Listened' = [T |-> T, listeners |-> listeners']
           /\ walk' = T.walk /\ due' = T.due
<1>1. T = [table |-> T.table, open |-> T.open, walk |-> T.walk, due |-> T.due]
  BY DEF FdStates
<1>. QED
  BY <1>1 DEF D!Become, Listened, D!Table

LEMMA DescriptorFacts ==
    ASSUME DescriptorsInv
    PROVE  /\ Listened.T = D!Table /\ Listened.listeners = listeners
           /\ FdRight(D!Table) /\ D!Table \in FdStates
           /\ Listened \in ListenStates
           /\ D!Table.table = table /\ D!Table.walk = walk /\ D!Table.due = due
           /\ D!Table.open = open
           /\ D!ToSet(table) = Queued(table)
           /\ Up(Listened) = {l \in Slots : listeners[l] # None}
           /\ None \notin Fds
  BY FdInstance, FdsAssumption
     DEF DescriptorsInv, ListenersRight, FdRight, Listened, D!Table, Up, Fds

\* The table is changed, the listeners in it are not.
LEMMA ConnectionsMove ==
    ASSUME DescriptorsInv, NEW T, FdRight(T), D!Become(T),
           Queued(T.table) \cap Slots = Queued(table) \cap Slots,
           T.walk # None => T.walk.F \in T.due,
           UNCHANGED <<listeners, through, ports, failed>>
    PROVE  DescriptorsInv'
<1>. DEFINE G == [T |-> T, listeners |-> listeners]
<1>1. /\ Listened.T.table = table /\ Listened.listeners = listeners
      /\ ListenersRight(Listened, through) /\ Listened \in ListenStates
      /\ T \in FdStates
  BY DescriptorFacts DEF DescriptorsInv, FdRight
<1>2. Listened' = G /\ walk' = T.walk /\ due' = T.due
  BY <1>1, BecomesTable
<1>3. G \in ListenStates
  BY <1>1 DEF ListenStates
<1>4. G.T = T /\ G.listeners = Listened.listeners
  BY <1>1
<1>. HIDE DEF G
<1>5. /\ ListenersRight(G, through)
      /\ \A p : Listening(Listened, p) => Listening(G, p)
  BY <1>1, <1>3, <1>4, TableChanged
<1>. QED
  BY <1>2, <1>5 DEF DescriptorsInv

LEMMA WalkBeginKeeps ==
    ASSUME DescriptorsInv, D!WalkBegin PROVE DescriptorsInv'
<1>. DEFINE F == Head(table)
            next == D!After(table, F)
            T == [table |-> table, open |-> open, walk |-> [F |-> F, next |-> next],
                  due |-> Queued(table)]
<1>1. /\ table \in Seq(Fds) /\ Once(table) /\ open = Queued(table) /\ open \subseteq Fds
      /\ None \notin Fds
  BY DescriptorFacts, FdFacts
<1>2. table # <<>> /\ D!Become(T) /\ UNCHANGED <<listeners, through, ports, failed>>
  BY DescriptorFacts DEF D!WalkBegin, D!Become
<1>3. Len(table) \in Nat /\ 1 \in 1 .. Len(table) /\ F = table[1]
  BY <1>1, <1>2, LenProperties, EmptySeq
<1>4. F \in Queued(table) /\ F \in Fds
  BY <1>1, <1>3, QueuedAre
<1>5. ASSUME NEW y \in Queued(table), y # F PROVE Before(table, F, y)
  <2>1. PICK j \in 1 .. Len(table) : table[j] = y
    BY <1>1, QueuedAre
  <2>2. 1 \in 1 .. j - 1
    BY <1>3, <1>5, <2>1
  <2>. QED
    BY <1>3, <2>1, <2>2 DEF Before
<1>6. /\ next \in Fds \cup {None}
      /\ next = None => \A y : ~Before(table, F, y)
      /\ next # None => /\ Before(table, F, next)
                        /\ \A y : Before(table, F, y) => y = next \/ Before(table, next, y)
  BY <1>1, <1>4, AfterIs
<1>. HIDE DEF F, next
<1>7. T.walk \in Places /\ T.walk # None
  BY <1>4, <1>6, FdsAssumption DEF Places, Fds
<1>8. /\ T.table = table /\ T.open = open /\ T.due = Queued(table)
      /\ T.walk.F = F /\ T.walk.next = next /\ T \in FdStates
  BY <1>1, <1>7 DEF FdStates
<1>. HIDE DEF T
<1>9. WalkKept(T)
  <2>1. Ahead(T) = Queued(table) \ {F}
    BY <1>8 DEF Ahead
  <2>2. \A x, y : x \in Ahead(T) /\ Before(table, x, y) => y \in Ahead(T)
    BY <1>1, <1>5, <2>1, BeforeIsAnOrder
  <2>3. next = None => Ahead(T) = {}
    BY <1>5, <1>6, <2>1
  <2>4. next # None => next \in Ahead(T)
                       /\ \A y \in Ahead(T) : y = next \/ Before(table, next, y)
    BY <1>1, <1>5, <1>6, <2>1, BeforeIsAnOrder
  <2>. QED
    BY <1>7, <1>8, <2>1, <2>2, <2>3, <2>4 DEF WalkKept
<1>10. FdRight(T)
  BY <1>1, <1>8, <1>9 DEF FdRight
<1>. QED
  BY <1>2, <1>4, <1>8, <1>10, ConnectionsMove

LEMMA WalkStepKeeps ==
    ASSUME ClearsFde, DescriptorsInv, NEW closed \in SUBSET (D!ToSet(table) \cap Conns),
           NEW opened \in (Conns \ D!ToSet(table)) \cup {None}, D!WalkStep(closed, opened)
    PROVE  DescriptorsInv'
<1>. DEFINE T == D!AllClosed(D!Table, closed)
            U == IF opened = None THEN T ELSE D!Opened(T, opened)
            W == D!WalkedOn(U)
<1>1. /\ FdRight(D!Table) /\ D!Table.table = table /\ D!Table.walk = walk /\ walk # None
      /\ closed \in SUBSET Fds /\ closed \subseteq Conns
      /\ opened \in Conns \ Queued(table) \/ opened = None
  BY DescriptorFacts DEF D!WalkStep, Fds
<1>2. IsFiniteSet(closed)
  BY <1>1, FdsAssumption, FS_Subset
<1>3. /\ FdRight(T) /\ Queued(T.table) = Queued(table) \ closed /\ T.walk # None
  BY <1>1, <1>2, AllClosedKeeps
<1>. HIDE DEF T
<1>4. /\ FdRight(U) /\ U.walk # None
      /\ Queued(U.table) \cap Slots = Queued(table) \cap Slots
  <2>1. CASE opened = None
    BY <1>1, <1>3, <2>1, FdsAssumption
  <2>2. CASE opened # None
    <3>1. opened \in Fds /\ opened \notin Queued(T.table) /\ opened \in Conns
      BY <1>1, <1>3, <2>2 DEF Fds
    <3>2. /\ FdRight(D!Opened(T, opened))
          /\ Queued(D!Opened(T, opened).table) = Queued(T.table) \cup {opened}
          /\ D!Opened(T, opened).walk = T.walk
      BY <1>3, <3>1, OpenedKeeps
    <3>. QED
      BY <1>1, <1>3, <2>2, <3>1, <3>2, FdsAssumption
  <2>. QED
    BY <2>1, <2>2
<1>5. D!Become(W) /\ UNCHANGED <<listeners, through, ports, failed>>
  BY DEF D!WalkStep, T
<1>. HIDE DEF U
<1>6. FdRight(W) /\ W.table = U.table /\ (W.walk # None => W.walk.F \in W.due)
  BY <1>4, WalkedOnKeeps
<1>. HIDE DEF W
<1>. QED
  BY <1>4, <1>5, <1>6, ConnectionsMove

\* close_connection
LEMMA CloseKeeps ==
    ASSUME ClearsFde, DescriptorsInv, NEW c \in Conns, D!Close(c)
    PROVE  DescriptorsInv'
<1>. DEFINE T == D!Closed(D!Table, c)
<1>1. FdRight(D!Table) /\ D!Table.table = table /\ D!Table.walk = None /\ c \in Fds /\ c \notin Slots
  BY DescriptorFacts, FdsAssumption DEF D!Close, Fds
<1>2. FdRight(T) /\ Queued(T.table) = Queued(table) \ {c} /\ T.walk = None
  BY <1>1, ClosedKeeps
<1>3. D!Become(T) /\ UNCHANGED <<listeners, through, ports, failed>>
  BY DEF D!Close
<1>. HIDE DEF T
<1>4. Queued(T.table) \cap Slots = Queued(table) \cap Slots
  BY <1>1, <1>2
<1>. QED
  BY <1>2, <1>3, <1>4, ConnectionsMove

\* One listener is changed, and the client c.
LEMMA ListenerMoves ==
    ASSUME DescriptorsInv, NEW T, FdRight(T), D!Become(T), T.walk = None,
           NEW l \in Slots, NEW v \in Listener \cup {None},
           listeners' = [listeners EXCEPT ![l] = v],
           NEW c \in Conns, NEW by \in Slots \cup {None},
           through' = [through EXCEPT ![c] = by],
           by \in {l, None}, through[c] \in {l, None},
           Queued(T.table) \cap Slots = Queued(table) \cap Slots,
           v = None => l \notin Queued(table) /\ From(through', l) = {},
           v # None =>
              /\ v.ref_count = Cardinality(From(through', l))
              /\ v.active \/ v.ref_count > 0
              /\ v.active <=> l \in Queued(table)
              /\ l \in Up(Listened) /\ v.port = listeners[l].port,
           UNCHANGED <<ports, failed>>
    PROVE  DescriptorsInv'
<1>. DEFINE G == [T |-> T, listeners |-> [listeners EXCEPT ![l] = v]]
            thr2 == [through EXCEPT ![c] = by]
<1>1. /\ Listened.T.table = table /\ Listened.listeners = listeners
      /\ ListenersRight(Listened, through) /\ Listened \in ListenStates
      /\ through \in [Conns -> Slots \cup {None}]
      /\ T \in FdStates /\ None \notin Fds /\ None \notin Listener
  BY DescriptorFacts, FdsAssumption DEF DescriptorsInv, FdRight, Listener
<1>2. Listened' = G /\ walk' = None /\ due' = T.due /\ thr2 = through'
  BY <1>1, BecomesTable
<1>3. listeners \in [Slots -> Listener \cup {None}]
  BY <1>1, ListenFacts
<1>4. /\ G.T = T /\ G \in ListenStates
      /\ G.listeners[l] = v /\ \A k \in Slots \ {l} : G.listeners[k] = listeners[k]
  BY <1>1, <1>3 DEF ListenStates
<1>5. /\ thr2 \in [Conns -> Slots \cup {None}]
      /\ \A d \in Conns : thr2[d] = l \/ thr2[d] = through[d] \/ thr2[d] = None
      /\ \A k \in Slots \ {l} : From(thr2, k) = From(through, k)
  <2>1. thr2 \in [Conns -> Slots \cup {None}] /\ thr2[c] = by
        /\ \A d \in Conns \ {c} : thr2[d] = through[d]
    BY <1>1
  <2>2. ASSUME NEW k \in Slots \ {l} PROVE From(thr2, k) = From(through, k)
    <3>1. k # by /\ k # through[c]
      BY <1>1 DEF Fds
    <3>. QED
      BY <2>1, <3>1 DEF From
  <2>. QED
    BY <2>1, <2>2
<1>. HIDE DEF G, thr2
<1>6. Queued(G.T.table) \cap (Slots \ {l}) = Queued(Listened.T.table) \cap (Slots \ {l})
      /\ (l \in Queued(G.T.table) <=> l \in Queued(table))
  BY <1>1, <1>4
<1>7. l \notin Up(G) => l \notin Queued(G.T.table) /\ From(thr2, l) = {}
  BY <1>2, <1>4, <1>6 DEF Up
<1>8. l \in Up(G) =>
         /\ G.listeners[l].ref_count = Cardinality(From(thr2, l))
         /\ G.listeners[l].active \/ G.listeners[l].ref_count > 0
         /\ G.listeners[l].active <=> l \in Queued(G.T.table)
         /\ \A k \in Up(Listened) \ {l} : Listened.listeners[k].port # G.listeners[l].port
  <2>. SUFFICES ASSUME l \in Up(G)
                PROVE  /\ G.listeners[l].ref_count = Cardinality(From(thr2, l))
                       /\ G.listeners[l].active \/ G.listeners[l].ref_count > 0
                       /\ G.listeners[l].active <=> l \in Queued(G.T.table)
                       /\ \A k \in Up(Listened) \ {l} :
                             Listened.listeners[k].port # G.listeners[l].port
    OBVIOUS
  <2>1. v # None
    BY <1>4 DEF Up
  <2>2. \A k \in Up(Listened) : listeners[k].port = listeners[l].port => k = l
    BY <1>1, <2>1 DEF ListenersRight, ListenerRight
  <2>. QED
    BY <1>1, <1>2, <1>4, <1>6, <2>1, <2>2
<1>9. /\ ListenersRight(G, thr2)
      /\ \A p : Listening(Listened, p) =>
            \/ Listening(G, p)
            \/ l \in Up(Listened) /\ Listened.listeners[l].port = p
               /\ l \in Queued(Listened.T.table)
  BY <1>1, <1>4, <1>5, <1>6, <1>7, <1>8, ListenerChanged
<1>10. ASSUME NEW p, Listening(Listened, p) PROVE Listening(G, p)
  <2>1. ASSUME listeners[l].port = p, l \in Queued(table) PROVE Listening(G, p)
    <3>1. v # None /\ v.port = p
      BY <2>1
    <3>2. l \in Up(G)
      BY <1>4, <3>1 DEF Up
    <3>. QED
      BY <1>4, <1>6, <2>1, <3>1, <3>2 DEF Listening
  <2>. QED
    BY <1>1, <1>9, <1>10, <2>1
<1>. QED
  BY <1>2, <1>5, <1>9, <1>10 DEF DescriptorsInv

\* accept_connection
LEMMA AcceptKeeps ==
    ASSUME DescriptorsInv, NEW l \in Slots, NEW c \in Conns, D!Accept(l, c)
    PROVE  DescriptorsInv'
<1>. DEFINE T == D!Opened(D!Table, c)
            v == [listeners[l] EXCEPT !.ref_count = @ + 1]
<1>1. /\ FdRight(D!Table) /\ D!Table.table = table /\ D!Table.walk = None
      /\ c \in Fds /\ c \notin Queued(table) /\ l \in Queued(table) /\ through[c] = None
      /\ c \notin Slots /\ None \notin Slots
  BY DescriptorFacts, FdsAssumption DEF D!Accept, Fds
<1>2. FdRight(T) /\ Queued(T.table) = Queued(table) \cup {c} /\ T.walk = None
  BY <1>1, OpenedKeeps
<1>3. D!Become(T)
  BY DEF D!Accept
<1>. HIDE DEF T
<1>4. /\ l \in Up(Listened) /\ listeners[l] \in Listener /\ None \notin Listener
      /\ listeners[l].ref_count = Cardinality(From(through, l))
      /\ listeners[l].active
      /\ through \in [Conns -> Slots \cup {None}]
  <2>1. Listened.T.table = table /\ Listened.listeners = listeners /\ Listened \in ListenStates
    BY DescriptorFacts
  <2>2. l \in Up(Listened)
    BY <1>1, <2>1 DEF DescriptorsInv, ListenersRight
  <2>3. ListenerRight(Listened, through, l)
    BY <2>2 DEF DescriptorsInv, ListenersRight
  <2>. QED
    BY <1>1, <2>1, <2>2, <2>3, ListenFacts DEF DescriptorsInv, ListenerRight
<1>5. /\ v \in Listener /\ v.ref_count = listeners[l].ref_count + 1 /\ v.active
      /\ v.port = listeners[l].port /\ listeners[l].ref_count \in Nat
  BY <1>4 DEF Listener
<1>6. /\ listeners' = [listeners EXCEPT ![l] = v] /\ through' = [through EXCEPT ![c] = l]
      /\ UNCHANGED <<ports, failed>>
  BY DEF D!Accept
<1>. HIDE DEF v
<1>7. From(through', l) = From(through, l) \cup {c} /\ c \notin From(through, l)
  BY <1>1, <1>4, <1>6 DEF From
<1>8. v.ref_count = Cardinality(From(through', l))
  <2>1. Cardinality(From(through, l) \cup {c}) = Cardinality(From(through, l)) + 1
    BY <1>7, FromIsFinite, FS_AddElement
  <2>. QED
    BY <1>4, <1>5, <1>7, <2>1
<1>9. v # None /\ Queued(T.table) \cap Slots = Queued(table) \cap Slots
  BY <1>1, <1>2, <1>4, <1>5
<1>. QED
  BY <1>1, <1>2, <1>3, <1>4, <1>5, <1>6, <1>8, <1>9, ListenerMoves

\* free_client and free_listener
LEMMA FreeKeeps ==
    ASSUME DescriptorsInv, NEW c \in Conns, D!Free(c)
    PROVE  DescriptorsInv'
<1>. DEFINE l == through[c]
            old == listeners[l]
            v == IF old.ref_count = 1 /\ ~old.active THEN None ELSE [old EXCEPT !.ref_count = @ - 1]
<1>1. /\ FdRight(D!Table) /\ D!Table.table = table /\ D!Table.walk = None
      /\ Listened.T.table = table /\ Listened.listeners = listeners
      /\ Listened \in ListenStates
      /\ None \notin Slots /\ l # None
      /\ D!Become(D!Table)
  BY DescriptorFacts, FdsAssumption DEF D!Free, D!Become
<1>2. /\ l \in Up(Listened) /\ l \in Slots /\ old \in Listener /\ None \notin Listener
      /\ ListenerRight(Listened, through, l)
      /\ through \in [Conns -> Slots \cup {None}]
  <2>1. l \in Up(Listened)
    BY <1>1 DEF DescriptorsInv, ListenersRight
  <2>2. l \in Slots
    BY <2>1 DEF Up
  <2>. QED
    BY <1>1, <2>1, <2>2, ListenFacts DEF DescriptorsInv, ListenersRight
<1>3. /\ listeners' = [listeners EXCEPT ![l] = v] /\ through' = [through EXCEPT ![c] = None]
      /\ UNCHANGED <<ports, failed>>
  BY DEF D!Free
<1>4. From(through', l) = From(through, l) \ {c} /\ c \in From(through, l)
  BY <1>1, <1>2, <1>3 DEF From
<1>5. /\ old.ref_count = Cardinality(From(through, l))
      /\ old.ref_count \in Nat \ {0}
      /\ Cardinality(From(through', l)) = old.ref_count - 1
      /\ old.active <=> l \in Queued(table)
  <2>1. /\ old.ref_count = Cardinality(From(through, l))
        /\ old.active <=> l \in Queued(table)
    BY <1>1, <1>2 DEF ListenerRight
  <2>2. old.ref_count \in Nat \ {0}
    <3>1. From(through, l) # {}
      BY <1>4
    <3>. QED
      BY <2>1, <3>1, FromIsFinite
  <2>3. Cardinality(From(through, l) \ {c}) = Cardinality(From(through, l)) - 1
    BY <1>4, FromIsFinite, FS_RemoveElement
  <2>. QED
    BY <1>1, <1>2, <1>4, <2>1, <2>2, <2>3 DEF ListenerRight
<1>6. CASE old.ref_count = 1 /\ ~old.active
  <2>1. v = None /\ From(through', l) = {} /\ l \notin Queued(table)
    BY <1>5, <1>6, FromIsFinite
  <2>. HIDE DEF v
  <2>. QED
    BY <1>1, <1>2, <1>3, <2>1, ListenerMoves
<1>7. CASE ~ (old.ref_count = 1 /\ ~old.active)
  <2>1. /\ v \in Listener /\ v.ref_count = old.ref_count - 1 /\ v.port = old.port
        /\ v.active <=> old.active
    BY <1>2, <1>5, <1>7 DEF Listener
  <2>. HIDE DEF v
  <2>2. v.active \/ v.ref_count > 0
    BY <1>5, <1>7, <2>1
  <2>3. v # None /\ v.ref_count = Cardinality(From(through', l))
        /\ (v.active <=> l \in Queued(table)) /\ v.port = listeners[l].port
    BY <1>2, <1>5, <2>1
  <2>. QED
    BY <1>1, <1>2, <1>3, <2>1, <2>2, <2>3, ListenerMoves
<1>. QED
  BY <1>6, <1>7

\* REHASH
LEMMA ListenersRehashed ==
    ASSUME ClearsFde, DescriptorsInv, NEW new \in SUBSET Ports, NEW bad \in SUBSET new,
           D!Rehash(new, bad)
    PROVE  DescriptorsInv'
<1>. DEFINE all == {l \in Slots : D!Alive(l)}
            C == D!ListenersClosed(Listened, all)
            A == D!ListenersAdded(C, new, bad)
<1>1. /\ ListenersRight(Listened, through) /\ Listened.T.walk = None
      /\ all = Up(Listened)
  BY DescriptorFacts DEF DescriptorsInv, D!Rehash, D!Alive
<1>2. IsFiniteSet(all)
  BY FdsAssumption, FS_Subset
<1>3. /\ walk = None /\ D!Become(A.T) /\ listeners' = A.listeners
      /\ ports' = new /\ failed' = bad /\ through' = through
  BY DEF D!Rehash, Listened
<1>. HIDE DEF all
<1>4. ListenersRight(C, through) /\ C.T.walk = None
  BY <1>1, <1>2, ListenersClosedKeeps
<1>. HIDE DEF C
<1>5. /\ ListenersRight(A, through) /\ A.T.walk = None
      /\ \A p \in new \ bad : Listening(A, p)
  BY <1>4, ListenersAddedKeeps
<1>. HIDE DEF A
<1>6. A.T \in FdStates /\ A = [T |-> A.T, listeners |-> A.listeners]
  BY <1>5, ListenFacts DEF ListenersRight
<1>7. Listened' = A /\ walk' = None
  BY <1>3, <1>5, <1>6, BecomesTable
<1>. QED
  BY <1>3, <1>5, <1>7 DEF DescriptorsInv

LEMMA DescriptorsStart ==
    ASSUME D!Init PROVE DescriptorsInv
<1>1. /\ table = <<>> /\ open = {} /\ walk = None /\ due = {}
      /\ listeners = [l \in Slots |-> None] /\ through = [c \in Conns |-> None]
      /\ ports = {} /\ failed = {}
  BY DEF D!Init
<1>2. Queued(table) = {} /\ table \in Seq(Fds) /\ Once(table)
  <2>1. <<>> \in Seq(Fds) /\ Len(<<>>) = 0
    BY EmptySeq
  <2>. QED
    BY <1>1, <2>1, QueuedEmpty DEF Once
<1>3. D!Table \in FdStates /\ FdRight(D!Table) /\ D!Table.table = table
  BY <1>1, <1>2 DEF D!Table, FdStates, FdRight, WalkKept
<1>4. Listened \in ListenStates /\ Up(Listened) = {} /\ Listened.T = D!Table
  BY <1>1, <1>3 DEF Listened, ListenStates, Up
<1>5. ListenersRight(Listened, through)
  BY <1>1, <1>2, <1>3, <1>4 DEF ListenersRight
<1>. QED
  BY <1>1, <1>5 DEF DescriptorsInv

\* What holds of the descriptors in the build that clears them (fdlist.c:192).
LEMMA DescriptorsInvariant ==
    ASSUME ClearsFde
    PROVE  PartSpec => []DescriptorsInv
<1>1. PartInit => DescriptorsInv
  BY DescriptorsStart DEF PartInit
<1>2. DescriptorsInv /\ [PartNext]_partvars => DescriptorsInv'
  <2>. SUFFICES ASSUME DescriptorsInv, [PartNext]_partvars PROVE DescriptorsInv'
    OBVIOUS
  <2>1. ASSUME UNCHANGED fdvars PROVE DescriptorsInv'
    BY <2>1 DEF DescriptorsInv, fdvars, Listened, D!Table
  <2>2. CASE D!Next
    BY <2>2, WalkBeginKeeps, WalkStepKeeps, AcceptKeeps, CloseKeeps, FreeKeeps,
       ListenersRehashed DEF D!Next
  <2>. QED
    BY <2>1, <2>2 DEF PartNext, partvars
<1>. QED
  BY <1>1, <1>2, PTL DEF PartSpec

\* comm_checktimeouts sees every descriptor once, whatever its handlers close
\* and open.
THEOREM EveryDescriptorSeen ==
    ASSUME ClearsFde
    PROVE  PartSpec => []WalkSeesAll
<1>1. DescriptorsInv => WalkSeesAll
  <2>. SUFFICES ASSUME DescriptorsInv PROVE D!WalkSeesAll
    BY DEF WalkSeesAll
  <2>1. WalkKept(D!Table) /\ D!Table.walk = walk /\ D!Table.due = due
    BY DescriptorFacts DEF FdRight
  <2>. QED
    BY <2>1 DEF DescriptorsInv, WalkKept, Ahead, D!WalkSeesAll
<1>. QED
  BY <1>1, DescriptorsInvariant, PTL

\* Listeners go with their last client, there is one of a port, and REHASH
\* takes closed ones up again.
THEOREM ListenersStay ==
    ASSUME ClearsFde
    PROVE  PartSpec => []ListenersKept
<1>1. DescriptorsInv => ListenersKept
  <2>. SUFFICES ASSUME DescriptorsInv PROVE D!ListenersKept
    BY DEF ListenersKept
  <2>1. /\ Listened.T.table = table /\ Listened.listeners = listeners
        /\ ListenersRight(Listened, through) /\ D!ToSet(table) = Queued(table)
        /\ Up(Listened) = {l \in Slots : D!Alive(l)}
    BY DescriptorFacts DEF DescriptorsInv, D!Alive
  <2>2. \A c \in Conns : through[c] # None => D!Alive(through[c])
    BY <2>1 DEF ListenersRight
  <2>3. ASSUME NEW l \in Slots, D!Alive(l)
        PROVE  /\ listeners[l].ref_count = D!Cardinality({c \in Conns : through[c] = l})
               /\ listeners[l].active \/ listeners[l].ref_count > 0
               /\ listeners[l].active <=> l \in D!ToSet(table)
               /\ \A k \in Slots :
                     D!Alive(k) /\ listeners[k].port = listeners[l].port => k = l
    <3>1. ListenerRight(Listened, through, l)
      BY <2>1, <2>3 DEF ListenersRight
    <3>. QED
      BY <2>1, <3>1, FdInstance DEF ListenerRight, From
  <2>4. D!ListenersCounted
    BY <2>2, <2>3 DEF D!ListenersCounted
  <2>5. D!ListensAsConfigured
    <3>1. \A p \in ports \ failed : Listening(Listened, p)
      BY DEF DescriptorsInv
    <3>. QED
      BY <2>1, <3>1 DEF Listening, D!ListensAsConfigured
  <2>. QED
    BY <2>4, <2>5 DEF D!ListenersKept
<1>. QED
  BY <1>1, DescriptorsInvariant, PTL

-----------------------------------------------------------------------------
(* Classes and blocks *)

\* The lists of counted address blocks a class has.
Cidrs == UNION {[D1 -> Int] : D1 \in SUBSET (SUBSET Addresses)}

\* The users U of the class K, who come from the addresses ad, are as many as
\* are counted or more, altogether and in each address block.
ClassRight(K, U, ad) ==
    /\ K.curr_user_count <= Cardinality(U)
    /\ K.limits.percidr = 0 => DOMAIN K.cidr = {}
    /\ \A m \in DOMAIN K.cidr :
          /\ \E a \in Addresses : m = Block(K.limits.wide, a)
          /\ K.cidr[m] <= Cardinality({x \in U : ad[x] \in m})

\* Their types; the block of an address holds it.
LEMMA CidrFacts ==
    /\ \A D1 \in SUBSET (SUBSET Addresses) : \A f \in [D1 -> Int] : f \in Cidrs
    /\ \A f \in Cidrs : DOMAIN f \subseteq SUBSET Addresses /\ f \in [DOMAIN f -> Int]
    /\ ClassRecords = [limits : Limits, curr_user_count : Nat, cidr : Cidrs]
    /\ \A wide : \A a \in Addresses : a \in Block(wide, a) /\ Block(wide, a) \in SUBSET Addresses
<1>1. \A f \in Cidrs : DOMAIN f \subseteq SUBSET Addresses /\ f \in [DOMAIN f -> Int]
  BY DEF Cidrs
<1>2. \A D1 \in SUBSET (SUBSET Addresses) : \A f \in [D1 -> Int] : f \in Cidrs
  BY DEF Cidrs
<1>3. ClassRecords = [limits : Limits, curr_user_count : Nat, cidr : Cidrs]
  BY DEF ClassRecords, Cidrs
<1>4. \A wide : \A a \in Addresses : a \in Block(wide, a) /\ Block(wide, a) \in SUBSET Addresses
  BY DEF Block
<1>. QED
  BY <1>1, <1>2, <1>3, <1>4

\* The fields of a class.
LEMMA ClassFacts ==
    ASSUME NEW K \in ClassRecords
    PROVE  /\ K.limits \in Limits /\ K.curr_user_count \in Nat
           /\ K.cidr \in Cidrs /\ K.cidr \in [DOMAIN K.cidr -> Int]
           /\ DOMAIN K.cidr \subseteq SUBSET Addresses
           /\ K # None /\ K # Freed
<1>1. K.limits \in Limits /\ K.curr_user_count \in Nat /\ K.cidr \in Cidrs
  BY CidrFacts
<1>2. K # None /\ K # Freed
  BY HeapAssumption
<1>. QED
  BY <1>1, <1>2, CidrFacts

\* Sets of clients are finite.
LEMMA ClientSets ==
    ASSUME NEW U \in SUBSET Clients
    PROVE  /\ IsFiniteSet(U) /\ Cardinality(U) \in Nat
           /\ Cardinality(U) = 0 <=> U = {}
           /\ \A V \in SUBSET U : Cardinality(V) <= Cardinality(U)
           /\ \A c : Cardinality(U \cup {c}) = IF c \in U THEN Cardinality(U) ELSE Cardinality(U) + 1
           /\ \A c : Cardinality(U \ {c}) = IF c \in U THEN Cardinality(U) - 1 ELSE Cardinality(U)
<1>1. IsFiniteSet(U)
  BY FS_Subset, HeapAssumption
<1>2. Cardinality(U) \in Nat /\ (Cardinality(U) = 0 <=> U = {})
  BY <1>1, FS_CardinalityType, FS_EmptySet
<1>3. \A V \in SUBSET U : Cardinality(V) <= Cardinality(U)
  BY <1>1, FS_Subset
<1>4. \A c : Cardinality(U \cup {c}) = IF c \in U THEN Cardinality(U) ELSE Cardinality(U) + 1
  BY <1>1, FS_AddElement
<1>5. \A c : Cardinality(U \ {c}) = IF c \in U THEN Cardinality(U) - 1 ELSE Cardinality(U)
  BY <1>1, FS_RemoveElement
<1>. QED
  BY <1>1, <1>2, <1>3, <1>4, <1>5

\* More users than before are as many as are counted.
LEMMA MoreUsers ==
    ASSUME NEW K \in ClassRecords, NEW U \in SUBSET Clients, NEW U2 \in SUBSET Clients,
           NEW ad, ClassRight(K, U, ad), U \subseteq U2
    PROVE  ClassRight(K, U2, ad)
<1>1. K.curr_user_count \in Nat /\ K.cidr \in [DOMAIN K.cidr -> Int]
  BY ClassFacts
<1>2. Cardinality(U) <= Cardinality(U2) /\ Cardinality(U) \in Nat /\ Cardinality(U2) \in Nat
  BY ClientSets
<1>3. ASSUME NEW m \in DOMAIN K.cidr
      PROVE  K.cidr[m] <= Cardinality({x \in U2 : ad[x] \in m})
  <2>. DEFINE A == {x \in U : ad[x] \in m}
              B == {x \in U2 : ad[x] \in m}
  <2>1. A \in SUBSET Clients /\ B \in SUBSET Clients /\ A \in SUBSET B
    OBVIOUS
  <2>2. K.cidr[m] <= Cardinality(A)
    BY DEF ClassRight
  <2>. HIDE DEF A, B
  <2>3. Cardinality(A) <= Cardinality(B) /\ Cardinality(A) \in Nat /\ Cardinality(B) \in Nat
    BY <2>1, ClientSets
  <2>4. K.cidr[m] \in Int
    BY <1>1
  <2>5. K.cidr[m] <= Cardinality(B)
    BY <2>2, <2>3, <2>4
  <2>. QED
    BY <2>5 DEF B
<1>4. K.curr_user_count <= Cardinality(U2)
  BY <1>1, <1>2 DEF ClassRight
<1>5. /\ K.limits.percidr = 0 => DOMAIN K.cidr = {}
      /\ \A m \in DOMAIN K.cidr : \E a \in Addresses : m = Block(K.limits.wide, a)
  BY DEF ClassRight
<1>. QED
  BY <1>3, <1>4, <1>5 DEF ClassRight

\* attach_conf: the class counts one more.
Joined(K) == [K EXCEPT !.curr_user_count = @ + 1]

\* attach_conf: one more, from the address a.
LEMMA UserComes ==
    ASSUME NEW K \in ClassRecords, NEW U \in SUBSET Clients, NEW ad, NEW c \in Clients \ U,
           ad[c] \in Addresses, ClassRight(K, U, ad),
           NEW new, new = Joined(CidrIn(K, ad[c]))
    PROVE  /\ new \in ClassRecords /\ new.limits = K.limits
           /\ ClassRight(new, U \cup {c}, ad)
<1>. DEFINE m == Block(K.limits.wide, ad[c])
            V == U \cup {c}
            K1 == CidrIn(K, ad[c])
            K2 == Joined(K1)
            two == [x \in DOMAIN K.cidr \cup {m} |->
                       IF x # m THEN K.cidr[x]
                       ELSE IF x \in DOMAIN K.cidr THEN K.cidr[x] + 1 ELSE 1]
            three == IF K.limits.percidr = 0 THEN K.cidr ELSE two
<1>1. /\ K.curr_user_count \in Nat /\ K.cidr \in [DOMAIN K.cidr -> Int] /\ K.limits \in Limits
      /\ DOMAIN K.cidr \subseteq SUBSET Addresses /\ K.cidr \in Cidrs
  BY ClassFacts
<1>2. V \in SUBSET Clients /\ U \in SUBSET V
  OBVIOUS
<1>3. Cardinality(V) = Cardinality(U) + 1 /\ Cardinality(U) \in Nat
  BY ClientSets
<1>4. m \in SUBSET Addresses /\ ad[c] \in m
  BY CidrFacts
<1>5. K1 = [K EXCEPT !.cidr = three]
  <2>1. K = [K EXCEPT !.cidr = K.cidr]
    BY CidrFacts
  <2>2. [K EXCEPT !.cidr = two]
        = [K EXCEPT !.cidr = [x \in DOMAIN @ \cup {m} |->
              IF x # m THEN @[x] ELSE IF x \in DOMAIN @ THEN @[x] + 1 ELSE 1]]
    BY CidrFacts
  <2>. HIDE DEF two
  <2>. QED
    BY <2>1, <2>2 DEF CidrIn
<1>6. two \in [DOMAIN K.cidr \cup {m} -> Int] /\ DOMAIN two = DOMAIN K.cidr \cup {m}
  BY <1>1
<1>7. three \in Cidrs
  BY <1>1, <1>4, <1>6, CidrFacts
<1>. HIDE DEF two, three, K1, m
<1>8. /\ K2 \in ClassRecords /\ K2.limits = K.limits /\ K2.cidr = three
      /\ K2.curr_user_count = K.curr_user_count + 1
  <2>1. /\ K1 \in ClassRecords /\ K1.limits = K.limits /\ K1.cidr = three
        /\ K1.curr_user_count = K.curr_user_count
    BY <1>5, <1>7, CidrFacts
  <2>. QED
    BY <1>1, <2>1, CidrFacts DEF Joined
<1>. HIDE DEF K2
<1>9. K2.curr_user_count <= Cardinality(V)
  BY <1>1, <1>3, <1>8 DEF ClassRight
<1>10. K.limits.percidr = 0 => DOMAIN three = {}
  BY DEF three, ClassRight
<1>11. ASSUME NEW x \in DOMAIN three
       PROVE  /\ \E a \in Addresses : x = Block(K.limits.wide, a)
              /\ three[x] <= Cardinality({y \in V : ad[y] \in x})
  <2>. DEFINE A == {y \in U : ad[y] \in x}
              B == {y \in V : ad[y] \in x}
  <2>1. A \in SUBSET Clients /\ B \in SUBSET Clients /\ A \in SUBSET B
    OBVIOUS
  <2>2. c \notin A /\ (ad[c] \in x => B = A \cup {c})
    OBVIOUS
  <2>3. x \in DOMAIN K.cidr => /\ K.cidr[x] <= Cardinality(A) /\ K.cidr[x] \in Int
                               /\ \E a \in Addresses : x = Block(K.limits.wide, a)
    BY <1>1 DEF ClassRight
  <2>. HIDE DEF A, B
  <2>4. /\ Cardinality(A) <= Cardinality(B) /\ Cardinality(A) \in Nat /\ Cardinality(B) \in Nat
        /\ ad[c] \in x => Cardinality(B) = Cardinality(A) + 1
    BY <2>1, <2>2, ClientSets
  <2>5. K.limits.percidr # 0 /\ x \in DOMAIN K.cidr \cup {m} /\ three = two
    BY <1>6, <1>10 DEF three
  <2>6. x # m => x \in DOMAIN K.cidr /\ three[x] = K.cidr[x]
    BY <2>5 DEF two
  <2>7. x = m => IF x \in DOMAIN K.cidr THEN three[x] = K.cidr[x] + 1 ELSE three[x] = 1
    BY <2>5 DEF two
  <2>8. three[x] <= Cardinality(B)
    BY <1>4, <2>3, <2>4, <2>6, <2>7
  <2>9. \E a \in Addresses : x = Block(K.limits.wide, a)
    BY <2>3, <2>5 DEF m
  <2>. QED
    BY <2>8, <2>9 DEF B
<1>12. ClassRight(K2, V, ad)
  BY <1>8, <1>9, <1>10, <1>11 DEF ClassRight
<1>. QED
  BY <1>8, <1>12 DEF K2, K1

\* detach_conf: it counts one less, and never below 0.
Left(K) == [K EXCEPT !.curr_user_count = IF @ > 0 THEN @ - 1 ELSE 0]

\* detach_conf: the count goes down for every type of block.
LEMMA CountDown ==
    ASSUME NEW K \in ClassRecords, NEW U \in SUBSET Clients, NEW ad, ClassRight(K, U, ad)
    PROVE  Left(K) \in ClassRecords /\ Left(K).limits = K.limits /\ ClassRight(Left(K), U, ad)
<1>1. K.curr_user_count \in Nat
  BY ClassFacts
<1>2. Cardinality(U) \in Nat
  BY ClientSets
<1>. DEFINE K2 == Left(K)
            n == IF K.curr_user_count > 0 THEN K.curr_user_count - 1 ELSE 0
<1>3. n \in Nat /\ (K.curr_user_count <= Cardinality(U) => n <= Cardinality(U))
  BY <1>1, <1>2
<1>4. /\ K2 \in ClassRecords /\ K2.limits = K.limits /\ K2.cidr = K.cidr
      /\ K2.curr_user_count = n
  <2>1. K2 = [K EXCEPT !.curr_user_count = n]
    BY DEF Left
  <2>. HIDE DEF n, K2
  <2>. QED
    BY <1>3, <2>1, CidrFacts
<1>. HIDE DEF K2, n
<1>5. ClassRight(K2, U, ad)
  BY <1>3, <1>4 DEF ClassRight
<1>. QED
  BY <1>4, <1>5 DEF K2

\* Of the users U all but c are left in V, and maybe c.
OneGone(U, V, c) ==
    /\ U \in SUBSET Clients /\ V \in SUBSET Clients
    /\ c \in U /\ U \ {c} \subseteq V

\* The class after a user from the address a has gone.
GoesFrom(K, a, new) == new = Left(CidrOut(K, a))

\* A user goes, from the address a.
LEMMA UserGoes ==
    ASSUME NEW K \in ClassRecords, NEW U, NEW V, NEW ad, NEW c, OneGone(U, V, c),
           ad[c] \in Addresses, ClassRight(K, U, ad),
           NEW new, GoesFrom(K, ad[c], new)
    PROVE  new \in ClassRecords /\ new.limits = K.limits /\ ClassRight(new, V, ad)
<1>. DEFINE m == Block(K.limits.wide, ad[c])
            K1 == CidrOut(K, ad[c])
            K2 == Left(K1)
            less == IF K.limits.percidr = 0 \/ m \notin DOMAIN K.cidr THEN K.cidr
                    ELSE IF K.cidr[m] = 1 THEN [x \in DOMAIN K.cidr \ {m} |-> K.cidr[x]]
                    ELSE [K.cidr EXCEPT ![m] = @ - 1]
            n == IF K.curr_user_count > 0 THEN K.curr_user_count - 1 ELSE 0
<1>0. /\ U \in SUBSET Clients /\ V \in SUBSET Clients
      /\ c \in U /\ U \ {c} \subseteq V
  BY DEF OneGone
<1>1. /\ K.curr_user_count \in Nat /\ K.cidr \in [DOMAIN K.cidr -> Int] /\ K.limits \in Limits
      /\ DOMAIN K.cidr \subseteq SUBSET Addresses /\ K.cidr \in Cidrs
  BY ClassFacts
<1>2. m \in SUBSET Addresses /\ ad[c] \in m
  <2>1. ASSUME NEW wide, NEW a \in Addresses
        PROVE  Block(wide, a) \in SUBSET Addresses /\ a \in Block(wide, a)
    BY CidrFacts, Zenon
  <2>. QED
    BY <2>1
<1>3. /\ DOMAIN less \subseteq DOMAIN K.cidr /\ less \in [DOMAIN less -> Int]
      /\ \A x \in DOMAIN less : IF x = m THEN less[x] = K.cidr[x] - 1 ELSE less[x] = K.cidr[x]
  <2>1. CASE K.limits.percidr = 0 \/ m \notin DOMAIN K.cidr
    <3>1. less = K.cidr
      BY <2>1
    <3>2. m \notin DOMAIN K.cidr
      BY <2>1 DEF ClassRight
    <3>. QED
      BY <1>1, <3>1, <3>2
  <2>2. CASE K.limits.percidr # 0 /\ m \in DOMAIN K.cidr /\ K.cidr[m] = 1
    BY <1>1, <2>2
  <2>3. CASE K.limits.percidr # 0 /\ m \in DOMAIN K.cidr /\ K.cidr[m] # 1
    BY <1>1, <2>3
  <2>. QED
    BY <2>1, <2>2, <2>3
<1>4. K1 = [K EXCEPT !.cidr = less]
  <2>1. K = [K EXCEPT !.cidr = K.cidr]
    BY CidrFacts
  <2>2. CASE K.limits.percidr = 0 \/ m \notin DOMAIN K.cidr
    BY <2>1, <2>2 DEF CidrOut
  <2>3. CASE K.limits.percidr # 0 /\ m \in DOMAIN K.cidr /\ K.cidr[m] = 1
    BY <2>3, CidrFacts DEF CidrOut
  <2>4. CASE K.limits.percidr # 0 /\ m \in DOMAIN K.cidr /\ K.cidr[m] # 1
    <3>1. less = [K.cidr EXCEPT ![m] = @ - 1]
      BY <2>4
    <3>2. K1 = [K EXCEPT !.cidr = [K.cidr EXCEPT ![m] = @ - 1]]
      BY <2>4 DEF CidrOut
    <3>. HIDE DEF less, K1, m
    <3>. QED
      BY <3>1, <3>2
  <2>. HIDE DEF less, K1, m
  <2>5. \/ K.limits.percidr = 0 \/ m \notin DOMAIN K.cidr
        \/ K.limits.percidr # 0 /\ m \in DOMAIN K.cidr /\ K.cidr[m] = 1
        \/ K.limits.percidr # 0 /\ m \in DOMAIN K.cidr /\ K.cidr[m] # 1
    OBVIOUS
  <2>. QED
    BY <2>2, <2>3, <2>4, <2>5
<1>5. less \in Cidrs
  <2>. HIDE DEF less
  <2>1. DOMAIN less \in SUBSET (SUBSET Addresses)
    BY <1>1, <1>3
  <2>. QED
    BY <1>3, <2>1, CidrFacts
<1>. HIDE DEF less, K1, m
<1>6. K1 \in ClassRecords /\ K1.limits = K.limits /\ K1.cidr = less
      /\ K1.curr_user_count = K.curr_user_count
  BY <1>4, <1>5, CidrFacts
<1>7. n \in Nat /\ (K.curr_user_count <= Cardinality(U) => n <= Cardinality(V))
  <2>1. Cardinality(U \ {c}) = Cardinality(U) - 1 /\ Cardinality(U) \in Nat \ {0}
    BY <1>0, ClientSets
  <2>2. Cardinality(U \ {c}) <= Cardinality(V) /\ Cardinality(V) \in Nat
    BY <1>0, ClientSets
  <2>. QED
    BY <1>1, <2>1, <2>2
<1>8. K2 \in ClassRecords /\ K2.limits = K.limits /\ K2.cidr = less /\ K2.curr_user_count = n
  <2>1. K2 = [K1 EXCEPT !.curr_user_count = n]
    BY <1>6 DEF Left
  <2>. HIDE DEF n, K2
  <2>. QED
    BY <1>6, <1>7, <2>1, CidrFacts
<1>. HIDE DEF K2, n
<1>9. K.limits.percidr = 0 => DOMAIN less = {}
  BY <1>3 DEF ClassRight
<1>10. ASSUME NEW x \in DOMAIN less
       PROVE  /\ \E a \in Addresses : x = Block(K.limits.wide, a)
              /\ less[x] <= Cardinality({y \in V : ad[y] \in x})
  <2>. DEFINE A == {y \in U : ad[y] \in x}
              B == {y \in V : ad[y] \in x}
  <2>1. A \in SUBSET Clients /\ B \in SUBSET Clients /\ A \ {c} \in SUBSET B
    BY <1>0
  <2>2. /\ K.cidr[x] <= Cardinality(A) /\ K.cidr[x] \in Int
        /\ \E a \in Addresses : x = Block(K.limits.wide, a)
    BY <1>1, <1>3 DEF ClassRight
  <2>3. c \in A => x = m
    <3>1. PICK a \in Addresses : x = Block(K.limits.wide, a)
      BY <2>2
    <3>. QED
      BY <3>1 DEF Block, m
  <2>. HIDE DEF A, B
  <2>4. /\ Cardinality(A \ {c}) = IF c \in A THEN Cardinality(A) - 1 ELSE Cardinality(A)
        /\ Cardinality(A) \in Nat
    BY <2>1, ClientSets
  <2>5. Cardinality(A \ {c}) <= Cardinality(B) /\ Cardinality(B) \in Nat
    BY <2>1, ClientSets
  <2>6. IF x = m THEN less[x] = K.cidr[x] - 1 ELSE less[x] = K.cidr[x]
    BY <1>3
  <2>7. less[x] <= Cardinality(B)
    BY <2>2, <2>3, <2>4, <2>5, <2>6
  <2>. QED
    BY <2>2, <2>7 DEF B
<1>11. ClassRight(K2, V, ad)
  BY <1>7, <1>8, <1>9, <1>10 DEF ClassRight
<1>. QED
  BY <1>8, <1>11 DEF K2, K1, GoesFrom

-----------------------------------------------------------------------------
(* The heap *)

\* The types of the parts of a heap.
ClassMaps == [ClassIds -> ClassRecords \cup {None, Freed}]
BlockMaps == [BlockIds -> BlockRecords \cup {None, Freed}]
ConfMaps == [Clients -> SUBSET BlockIds]
HeapStates == [classes : ClassMaps, items : Seq(ClassIds), blocks : BlockMaps,
               confs : ConfMaps, fault : BOOLEAN]

\* The connections that are attached to a block, and the users of a class.
On(co, b) == {x \in Clients : b \in co[x]}
UsersIn(co, bl, k) ==
    {x \in Clients : \E b \in co[x] : b[1] = "auth" /\ Alive(bl[b]) /\ bl[b].class = k}

\* Nobody is attached to what was never there, nor to an auth, oper or hub block
\* that is gone.
ConfsRight(co, bl, ad) ==
    \A x \in Clients : \A b \in co[x] :
        /\ bl[b] # None
        /\ b[1] # "server" => Alive(bl[b])
        /\ b[1] = "auth" => ad[x] \in Addresses

\* A block counts those who are attached, or more once freed memory has been met.
CountRight(co, bl, fault1, b) ==
    IF b[1] = "hub" THEN On(co, b) # {} => bl[b].clients > 0
    ELSE /\ Cardinality(On(co, b)) <= bl[b].clients
         /\ ~fault1 => /\ bl[b].clients = Cardinality(On(co, b))
                       /\ bl[b].illegal => bl[b].clients > 0
\* So do all of them.
CountsRight(co, bl, fault1) ==
    \A b \in BlockIds : Alive(bl[b]) => CountRight(co, bl, fault1, b)

\* No class that is there counts more users than it has.
PlacesRight(cl, co, bl, ad) ==
    \A k \in ClassIds : Alive(cl[k]) => ClassRight(cl[k], UsersIn(co, bl, k), ad)

\* Whoever may be attached to a block finds a class that is not marked.
ClassThere(cl, B) ==
    /\ B.class \in ClassIds /\ cl[B.class] # None
    /\ ~B.illegal => Alive(cl[B.class]) /\ cl[B.class].limits.max >= 0
\* That goes for every block that has a class.
ClassesThere(cl, bl) ==
    \A b \in BlockIds : Alive(bl[b]) /\ b[1] # "hub" => ClassThere(cl, bl[b])

\* The default class is never marked: it is the last of the list, or not in it.
DefaultClass == <<Default, 0>>
\* The classes of the list are there, each once.
ItemsRight(cl, items) ==
    /\ Once(items)
    /\ \A k \in Queued(items) : Alive(cl[k])
    /\ \A k \in ClassIds : ~Before(items, DefaultClass, k)
    /\ Alive(cl[DefaultClass]) /\ cl[DefaultClass].limits.max >= 0

\* What always holds of a heap, the users coming from the addresses ad.
HeapRight(H, ad) ==
    /\ H \in HeapStates
    /\ ConfsRight(H.confs, H.blocks, ad)
    /\ CountsRight(H.confs, H.blocks, H.fault)
    /\ PlacesRight(H.classes, H.confs, H.blocks, ad)
    /\ ClassesThere(H.classes, H.blocks)
    /\ ItemsRight(H.classes, H.items)

\* The parts of a heap.
LEMMA HeapFacts ==
    ASSUME NEW H \in HeapStates
    PROVE  /\ H.classes \in ClassMaps /\ H.items \in Seq(ClassIds) /\ H.blocks \in BlockMaps
           /\ H.confs \in ConfMaps /\ H.fault \in BOOLEAN
           /\ H = [classes |-> H.classes, items |-> H.items, blocks |-> H.blocks,
                   confs |-> H.confs, fault |-> H.fault]
           /\ \A k \in ClassIds : Alive(H.classes[k]) <=> H.classes[k] \in ClassRecords
           /\ \A b \in BlockIds : Alive(H.blocks[b]) <=> H.blocks[b] \in BlockRecords
<1>1. /\ H.classes \in ClassMaps /\ H.items \in Seq(ClassIds) /\ H.blocks \in BlockMaps
      /\ H.confs \in ConfMaps /\ H.fault \in BOOLEAN
      /\ H = [classes |-> H.classes, items |-> H.items, blocks |-> H.blocks,
              confs |-> H.confs, fault |-> H.fault]
  BY DEF HeapStates
<1>2. \A k \in ClassIds : Alive(H.classes[k]) <=> H.classes[k] \in ClassRecords
  BY <1>1, HeapAssumption DEF ClassMaps, Alive
<1>3. \A b \in BlockIds : Alive(H.blocks[b]) <=> H.blocks[b] \in BlockRecords
  BY <1>1, HeapAssumption DEF BlockMaps, Alive
<1>. QED
  BY <1>1, <1>2, <1>3

\* A heap made of its parts.
LEMMA HeapOf ==
    ASSUME NEW cl \in ClassMaps, NEW items \in Seq(ClassIds), NEW bl \in BlockMaps,
           NEW co \in ConfMaps, NEW bad \in BOOLEAN, NEW ad,
           ConfsRight(co, bl, ad), CountsRight(co, bl, bad), PlacesRight(cl, co, bl, ad),
           ClassesThere(cl, bl), ItemsRight(cl, items),
           NEW new, new = [classes |-> cl, items |-> items, blocks |-> bl, confs |-> co,
                           fault |-> bad]
    PROVE  HeapRight(new, ad)
<1>. DEFINE G == [classes |-> cl, items |-> items, blocks |-> bl, confs |-> co, fault |-> bad]
<1>1. G \in HeapStates
  BY DEF HeapStates
<1>2. G.classes = cl /\ G.items = items /\ G.blocks = bl /\ G.confs = co /\ G.fault = bad
  OBVIOUS
<1>. HIDE DEF G
<1>3. HeapRight(G, ad)
  BY <1>1, <1>2 DEF HeapRight
<1>. QED
  BY <1>3 DEF G

\* A class that is in use is changed, but not in what marks it.
LEMMA ClassChanged ==
    ASSUME NEW cl \in ClassMaps, NEW items \in Seq(ClassIds), NEW bl \in BlockMaps,
           ClassesThere(cl, bl), ItemsRight(cl, items),
           NEW k \in ClassIds, Alive(cl[k]),
           NEW K \in ClassRecords, K.limits.max = cl[k].limits.max,
           NEW new, new = [cl EXCEPT ![k] = K]
    PROVE  /\ new \in ClassMaps /\ ClassesThere(new, bl) /\ ItemsRight(new, items)
<1>1. new \in ClassMaps /\ \A m \in ClassIds : new[m] = IF m = k THEN K ELSE cl[m]
  BY DEF ClassMaps
<1>2. Alive(K) /\ K # None
  BY HeapAssumption DEF Alive
<1>3. \A m \in ClassIds : /\ Alive(cl[m]) => Alive(new[m]) /\ new[m].limits.max = cl[m].limits.max
                          /\ cl[m] # None => new[m] # None
  BY <1>1, <1>2
<1>4. ASSUME NEW b \in BlockIds, Alive(bl[b]), b[1] # "hub" PROVE ClassThere(new, bl[b])
  <2>1. ClassThere(cl, bl[b])
    BY <1>4 DEF ClassesThere
  <2>. QED
    BY <1>3, <2>1 DEF ClassThere
<1>5. Queued(items) \subseteq ClassIds /\ DefaultClass \in ClassIds
  BY DEF ClassIds, DefaultClass, Queued
<1>6. ItemsRight(new, items)
  BY <1>3, <1>5 DEF ItemsRight
<1>. QED
  BY <1>1, <1>4, <1>6 DEF ClassesThere

-----------------------------------------------------------------------------
(* The state *)

\* Files that are still to be read have made no blocks.
Unread(bl, g) == \A b \in BlockIds : b[2] >= g => bl[b] = None

\* Where a connection is in its life, and the users that are counted at an address.
Statuses == {"none", "unknown", "captured", "client", "oper", "connecting", "server"}
IsUser(s) == s \in {"client", "oper"}
UsersAt(st, ad, a) == {x \in Clients : ad[x] = a /\ IsUser(st[x])}

\* The users are those in the hash of addresses, and counted there.
UsersCounted(st, ad, ih, n) ==
    /\ st \in [Clients -> Statuses]
    /\ ad \in [Clients -> Addresses \cup {None}]
    /\ ih = {x \in Clients : IsUser(st[x])}
    /\ n \in [Addresses -> Nat]
    /\ \A a \in Addresses : n[a] = Cardinality(UsersAt(st, ad, a))
    /\ \A x \in Clients : st[x] \in {"unknown", "captured", "client", "oper"} =>
                             ad[x] \in Addresses

\* Only users have an auth block, and nobody who is not registered has any.
AttachedIn(st, co) ==
    \A x \in Clients :
        /\ st[x] \in {"none", "unknown", "captured"} => co[x] = {}
        /\ \A b \in co[x] : b[1] = "auth" => IsUser(st[x])

\* What always holds of the blocks.
BlocksRight ==
    /\ file \in Files /\ gen \in Gens
    /\ HeapRight(Heap, ip)
    /\ Unread(blocks, gen + 1)
    /\ dns \subseteq {b \in BlockIds : b[1] = "server"}
    /\ UsersCounted(status, ip, iphash, count)
    /\ AttachedIn(status, confs)

-----------------------------------------------------------------------------
(* Attaching *)

\* The block B with n clients.
Counting(B, n) == [B EXCEPT !.clients = n]

\* b counts n clients in new.
CountedAs(bl, b, n, new) == new = [bl EXCEPT ![b] = Counting(bl[b], n)]

\* The count of a block is all that changes of it.
LEMMA BlockCounted ==
    ASSUME NEW bl \in BlockMaps, NEW b \in BlockIds, Alive(bl[b]), NEW n \in Nat,
           NEW new, CountedAs(bl, b, n, new)
    PROVE  /\ new \in BlockMaps /\ Alive(new[b]) /\ new[b].clients = n
           /\ \A x \in BlockIds :
                 /\ (new[x] = None <=> bl[x] = None) /\ (Alive(new[x]) <=> Alive(bl[x]))
                 /\ x # b => new[x] = bl[x]
                 /\ Alive(bl[x]) => /\ new[x].class = bl[x].class
                                    /\ new[x].illegal = bl[x].illegal
           /\ \A co \in ConfMaps : \A k : UsersIn(co, new, k) = UsersIn(co, bl, k)
           /\ \A cl : ClassesThere(cl, bl) => ClassesThere(cl, new)
<1>. DEFINE B2 == Counting(bl[b], n)
<1>1. bl[b] \in BlockRecords
  BY HeapAssumption DEF BlockMaps, Alive
<1>2. /\ B2 \in BlockRecords /\ B2.clients = n /\ B2.class = bl[b].class
      /\ B2.illegal = bl[b].illegal
  BY <1>1 DEF BlockRecords, Counting
<1>3. Alive(B2) /\ B2 # None
  BY <1>2, HeapAssumption DEF Alive
<1>4. new = [bl EXCEPT ![b] = B2]
  BY DEF CountedAs
<1>. HIDE DEF B2
<1>5. new \in BlockMaps /\ \A x \in BlockIds : new[x] = IF x = b THEN B2 ELSE bl[x]
  BY <1>2, <1>4 DEF BlockMaps
<1>6. \A x \in BlockIds :
         /\ (new[x] = None <=> bl[x] = None) /\ (Alive(new[x]) <=> Alive(bl[x]))
         /\ x # b => new[x] = bl[x]
         /\ Alive(bl[x]) => new[x].class = bl[x].class /\ new[x].illegal = bl[x].illegal
  <2>1. bl[b] # None
    BY DEF Alive
  <2>. QED
    BY <1>2, <1>3, <1>5, <2>1
<1>7. ASSUME NEW co \in ConfMaps, NEW k PROVE UsersIn(co, new, k) = UsersIn(co, bl, k)
  <2>1. \A x \in Clients : co[x] \subseteq BlockIds
    BY DEF ConfMaps
  <2>. QED
    BY <1>6, <2>1 DEF UsersIn
<1>8. ASSUME NEW cl, ClassesThere(cl, bl) PROVE ClassesThere(cl, new)
  BY <1>6, <1>8 DEF ClassesThere, ClassThere
<1>. QED
  BY <1>2, <1>3, <1>5, <1>6, <1>7, <1>8 DEF B2

\* attach_conf keeps the heap right.
LEMMA AttachKeeps ==
    ASSUME NEW H, NEW ad, HeapRight(H, ad), NEW c \in Clients, NEW b \in BlockIds,
           Alive(H.blocks[b]), b \notin H.confs[c],
           b[1] = "auth" => /\ ad[c] \in Addresses /\ ~H.blocks[b].illegal
                            /\ \A x \in H.confs[c] : x[1] # "auth",
           ip = ad
    PROVE  /\ HeapRight(Attached(H, c, b), ad)
           /\ Attached(H, c, b).confs = [H.confs EXCEPT ![c] = @ \cup {b}]
           /\ \A x \in BlockIds : /\ Attached(H, c, b).blocks[x] = None <=> H.blocks[x] = None
                                  /\ Alive(H.blocks[x]) => Alive(Attached(H, c, b).blocks[x])
<1>. DEFINE B == H.blocks[b]
            n == IF b[1] = "hub" THEN 1 ELSE B.clients + 1
            bl == [H.blocks EXCEPT ![b] = [B EXCEPT !.clients = n]]
            co == [H.confs EXCEPT ![c] = @ \cup {b}]
            K == [CidrIn(H.classes[B.class], ip[c]) EXCEPT !.curr_user_count = @ + 1]
            cl == IF b[1] # "auth" THEN H.classes ELSE [H.classes EXCEPT ![B.class] = K]
<1>1. H \in HeapStates
  BY DEF HeapRight
<1>2. /\ H.classes \in ClassMaps /\ H.items \in Seq(ClassIds) /\ H.blocks \in BlockMaps
      /\ H.confs \in ConfMaps /\ H.fault \in BOOLEAN
      /\ B \in BlockRecords
  BY <1>1, HeapFacts
<1>3. B.clients \in Nat /\ n \in Nat /\ B.class \in ClassIds \cup {None}
  BY <1>2 DEF BlockRecords
<1>4. Attached(H, c, b) = [classes |-> cl, items |-> H.items, blocks |-> bl, confs |-> co,
                           fault |-> H.fault]
  <2>1. H = [classes |-> H.classes, items |-> H.items, blocks |-> H.blocks,
             confs |-> H.confs, fault |-> H.fault]
    BY <1>1, HeapFacts
  <2>. HIDE DEF K
  <2>2. CASE b[1] # "auth"
    BY <2>1, <2>2 DEF Attached
  <2>3. CASE b[1] = "auth"
    <3>. DEFINE G == [H EXCEPT !.blocks = bl, !.confs = co]
    <3>1. Attached(H, c, b) = [G EXCEPT !.classes = [H.classes EXCEPT ![B.class] = K]]
      BY <2>3 DEF Attached, K
    <3>2. G = [classes |-> H.classes, items |-> H.items, blocks |-> bl, confs |-> co,
               fault |-> H.fault]
      <4>1. G = [H EXCEPT !.blocks = bl, !.confs = co]
        OBVIOUS
      <4>. HIDE DEF G, bl, co
      <4>. QED
        BY <2>1, <4>1
    <3>. HIDE DEF G
    <3>. QED
      BY <2>3, <3>1, <3>2
  <2>. QED
    BY <2>2, <2>3
<1>5. /\ bl \in BlockMaps /\ Alive(bl[b]) /\ bl[b].clients = n
      /\ \A x \in BlockIds :
            /\ (bl[x] = None <=> H.blocks[x] = None) /\ (Alive(bl[x]) <=> Alive(H.blocks[x]))
            /\ x # b => bl[x] = H.blocks[x]
            /\ Alive(H.blocks[x]) => /\ bl[x].class = H.blocks[x].class
                                     /\ bl[x].illegal = H.blocks[x].illegal
      /\ \A co1 \in ConfMaps : \A k : UsersIn(co1, bl, k) = UsersIn(co1, H.blocks, k)
      /\ \A cl1 : ClassesThere(cl1, H.blocks) => ClassesThere(cl1, bl)
  <2>1. CountedAs(H.blocks, b, n, bl)
    BY DEF Counting, CountedAs
  <2>. HIDE DEF n, bl, B
  <2>. QED
    BY <1>2, <1>3, <2>1, BlockCounted
<1>6. /\ co \in ConfMaps
      /\ \A x \in Clients : co[x] = IF x = c THEN H.confs[c] \cup {b} ELSE H.confs[x]
      /\ On(co, b) = On(H.confs, b) \cup {c}
      /\ \A y : y # b => On(co, y) = On(H.confs, y)
      /\ \A k : UsersIn(co, H.blocks, k) = IF b[1] = "auth" /\ B.class = k
                                           THEN UsersIn(H.confs, H.blocks, k) \cup {c}
                                           ELSE UsersIn(H.confs, H.blocks, k)
  <2>1. co \in ConfMaps /\ \A x \in Clients : co[x] = IF x = c THEN H.confs[c] \cup {b} ELSE H.confs[x]
    BY <1>2 DEF ConfMaps
  <2>. HIDE DEF K, n, bl, cl, co
  <2>2. On(co, b) = On(H.confs, b) \cup {c} /\ \A y : y # b => On(co, y) = On(H.confs, y)
    BY <2>1 DEF On
  <2>3. ASSUME NEW k
        PROVE  UsersIn(co, H.blocks, k) = IF b[1] = "auth" /\ B.class = k
                                          THEN UsersIn(H.confs, H.blocks, k) \cup {c}
                                          ELSE UsersIn(H.confs, H.blocks, k)
    <3>1. \A x \in Clients \ {c} : x \in UsersIn(co, H.blocks, k)
                                      <=> x \in UsersIn(H.confs, H.blocks, k)
      BY <2>1 DEF UsersIn
    <3>2. c \in UsersIn(co, H.blocks, k)
          <=> (c \in UsersIn(H.confs, H.blocks, k) \/ (b[1] = "auth" /\ B.class = k))
      <4>1. co[c] = H.confs[c] \cup {b}
        BY <2>1
      <4>. QED
        BY <4>1 DEF UsersIn
    <3>3. UsersIn(co, H.blocks, k) \subseteq Clients
          /\ UsersIn(H.confs, H.blocks, k) \subseteq Clients
      BY DEF UsersIn
    <3>4. CASE b[1] = "auth" /\ B.class = k
      BY <3>1, <3>2, <3>3, <3>4
    <3>5. CASE ~(b[1] = "auth" /\ B.class = k)
      BY <3>1, <3>2, <3>3, <3>5
    <3>. QED
      BY <3>4, <3>5
  <2>. QED
    BY <2>1, <2>2, <2>3
<1>7. \A x \in BlockIds : /\ bl[x] = None <=> H.blocks[x] = None
                          /\ Alive(H.blocks[x]) => Alive(bl[x])
  <2>. HIDE DEF bl
  <2>. QED
    BY <1>5
<1>. HIDE DEF bl, co, K
<1>8. ConfsRight(co, bl, ad)
  <2>1. ConfsRight(H.confs, H.blocks, ad) /\ B # None
    BY DEF HeapRight, Alive
  <2>2. \A x \in Clients : \A y \in co[x] : y \in BlockIds /\ (y \in H.confs[x] \/ (x = c /\ y = b))
    BY <1>2, <1>6 DEF ConfMaps
  <2>. QED
    BY <1>5, <2>1, <2>2 DEF ConfsRight
<1>9. CountsRight(co, bl, H.fault)
  <2>1. ASSUME NEW x \in BlockIds, Alive(bl[x]) PROVE CountRight(co, bl, H.fault, x)
    <3>1. CountRight(H.confs, H.blocks, H.fault, x)
      BY <1>5, <2>1 DEF HeapRight, CountsRight
    <3>2. CASE x # b
      BY <1>5, <1>6, <3>1, <3>2 DEF CountRight
    <3>3. CASE x = b /\ b[1] = "hub"
      BY <1>5, <3>3 DEF CountRight
    <3>4. CASE x = b /\ b[1] # "hub"
      <4>1. On(H.confs, b) \in SUBSET Clients /\ c \notin On(H.confs, b)
        BY DEF On
      <4>2. Cardinality(On(co, b)) = Cardinality(On(H.confs, b)) + 1
            /\ Cardinality(On(H.confs, b)) \in Nat
        BY <1>6, <4>1, ClientSets
      <4>3. bl[b].clients = B.clients + 1
        BY <1>5, <3>4
      <4>. HIDE DEF n
      <4>. QED
        BY <1>3, <3>1, <3>4, <4>2, <4>3 DEF CountRight
    <3>. QED
      BY <3>2, <3>3, <3>4
  <2>. QED
    BY <2>1 DEF CountsRight
<1>10. \A k : UsersIn(co, bl, k) = IF b[1] = "auth" /\ B.class = k
                                   THEN UsersIn(H.confs, H.blocks, k) \cup {c}
                                   ELSE UsersIn(H.confs, H.blocks, k)
  <2>. HIDE DEF B, n, cl
  <2>1. \A k : UsersIn(co, bl, k) = UsersIn(co, H.blocks, k)
    BY <1>5, <1>6
  <2>. QED
    BY <1>6, <2>1
<1>11. PlacesRight(H.classes, H.confs, H.blocks, ad) /\ ClassesThere(H.classes, H.blocks)
       /\ ItemsRight(H.classes, H.items)
  BY DEF HeapRight
<1>12. cl \in ClassMaps /\ PlacesRight(cl, co, bl, ad) /\ ClassesThere(cl, bl)
       /\ ItemsRight(cl, H.items)
  <2>1. CASE b[1] # "auth"
    BY <1>2, <1>5, <1>10, <1>11, <2>1 DEF PlacesRight
  <2>2. CASE b[1] = "auth"
    <3>. DEFINE k == B.class
                U == UsersIn(H.confs, H.blocks, k)
    <3>1. k \in ClassIds /\ Alive(H.classes[k])
      BY <1>11, <2>2 DEF ClassesThere, ClassThere
    <3>2. H.classes[k] \in ClassRecords
      BY <1>1, <3>1, HeapFacts
    <3>3. U \in SUBSET Clients /\ c \in Clients \ U
      BY <2>2 DEF UsersIn
    <3>4. ClassRight(H.classes[k], U, ad)
      BY <1>11, <3>1 DEF PlacesRight
    <3>. HIDE DEF U, k
    <3>5. /\ K \in ClassRecords /\ K.limits = H.classes[k].limits
          /\ ClassRight(K, U \cup {c}, ad)
      <4>1. K = Joined(CidrIn(H.classes[k], ad[c]))
        BY DEF K, k, Joined
      <4>. HIDE DEF B, cl
      <4>2. ad[c] \in Addresses
        BY <2>2
      <4>. QED
        BY <3>2, <3>3, <3>4, <4>1, <4>2, UserComes
    <3>6. cl = [H.classes EXCEPT ![k] = K]
      BY <2>2 DEF k
    <3>. HIDE DEF cl
    <3>7. /\ cl \in ClassMaps /\ ClassesThere(cl, H.blocks) /\ ItemsRight(cl, H.items)
      BY <1>2, <1>11, <3>1, <3>5, <3>6, ClassChanged
    <3>8. ASSUME NEW m \in ClassIds, Alive(cl[m]) PROVE ClassRight(cl[m], UsersIn(co, bl, m), ad)
      <4>1. CASE m = k
        <5>1. cl[m] = K
          BY <1>2, <3>6, <4>1 DEF ClassMaps
        <5>2. UsersIn(co, bl, m) = U \cup {c}
          BY <1>10, <2>2, <4>1 DEF U, k
        <5>. QED
          BY <3>5, <5>1, <5>2
      <4>2. CASE m # k
        <5>1. cl[m] = H.classes[m]
          BY <1>2, <3>6, <4>2 DEF ClassMaps
        <5>2. UsersIn(co, bl, m) = UsersIn(H.confs, H.blocks, m)
          BY <1>10, <4>2 DEF k
        <5>. QED
          BY <1>11, <3>8, <5>1, <5>2 DEF PlacesRight
      <4>. QED
        BY <4>1, <4>2
    <3>. QED
      BY <1>5, <3>7, <3>8 DEF PlacesRight
  <2>. QED
    BY <2>1, <2>2
<1>. HIDE DEF cl
<1>13. HeapRight(Attached(H, c, b), ad)
  BY <1>2, <1>4, <1>5, <1>6, <1>8, <1>9, <1>12, HeapOf
<1>14. Attached(H, c, b).confs = co /\ Attached(H, c, b).blocks = bl
  BY <1>4
<1>. QED
  BY <1>7, <1>13, <1>14 DEF co

-----------------------------------------------------------------------------
(* Detaching *)

\* dlinkDelete leaves no element there that was not, nor another order.
LEMMA UnlinkedItems ==
    ASSUME NEW items \in Seq(ClassIds), Once(items), NEW k
    PROVE  /\ Unlinked(items, k) \in Seq(ClassIds) /\ Once(Unlinked(items, k))
           /\ Queued(Unlinked(items, k)) \subseteq Queued(items) \ {k}
           /\ \A x, y : Before(Unlinked(items, k), x, y) => Before(items, x, y)
<1>1. CASE Contains(items, k)
  <2>. DEFINE left == Remaining(items, {k})
  <2>1. /\ left \in Seq(ClassIds) /\ Once(left) /\ Queued(left) = Queued(items) \ {k}
        /\ \A x, y : x \notin {k} /\ y \notin {k} => (Before(left, x, y) <=> Before(items, x, y))
    BY RemainingInOrder
  <2>. HIDE DEF left
  <2>2. \A x, y : Before(left, x, y) => x \in Queued(left) /\ y \in Queued(left)
    BY <2>1, BeforeIsAnOrder
  <2>3. Unlinked(items, k) = left
    BY <1>1 DEF Unlinked, left
  <2>. QED
    BY <2>1, <2>2, <2>3
<1>2. CASE ~Contains(items, k)
  <2>1. Unlinked(items, k) = <<>>
    BY <1>2 DEF Unlinked
  <2>2. Len(<<>>) = 0 /\ <<>> \in Seq(ClassIds)
    BY EmptySeq
  <2>3. Once(<<>>) /\ \A x, y : ~Before(<<>>, x, y)
    BY <2>2 DEF Once, Before
  <2>. QED
    BY <2>1, <2>2, <2>3, QueuedEmpty
<1>. QED
  BY <1>1, <1>2

\* delete_conf_item of a class that is marked.
LEMMA ClassGone ==
    ASSUME NEW cl \in ClassMaps, NEW items \in Seq(ClassIds), NEW bl \in BlockMaps,
           ClassesThere(cl, bl), ItemsRight(cl, items),
           NEW k \in ClassIds, Alive(cl[k]), cl[k].limits.max < 0,
           NEW new, new = [cl EXCEPT ![k] = Freed]
    PROVE  /\ new \in ClassMaps /\ ClassesThere(new, bl)
           /\ Unlinked(items, k) \in Seq(ClassIds) /\ ItemsRight(new, Unlinked(items, k))
<1>1. new \in ClassMaps /\ \A m \in ClassIds : new[m] = IF m = k THEN Freed ELSE cl[m]
  BY DEF ClassMaps
<1>2. ASSUME NEW b \in BlockIds, Alive(bl[b]), b[1] # "hub" PROVE ClassThere(new, bl[b])
  <2>1. ClassThere(cl, bl[b])
    BY <1>2 DEF ClassesThere
  <2>2. cl[k].limits.max \in Int
    <3>1. cl[k] \in ClassRecords
      BY HeapAssumption DEF ClassMaps, Alive
    <3>. QED
      BY <3>1, ClassFacts DEF Limits
  <2>. QED
    BY <1>1, <2>1, <2>2, HeapAssumption DEF ClassThere
<1>3. DefaultClass \in ClassIds /\ DefaultClass # k
  <2>1. cl[DefaultClass] \in ClassRecords /\ DefaultClass \in ClassIds
    BY HeapAssumption DEF ClassMaps, Alive, ItemsRight, ClassIds, DefaultClass
  <2>2. cl[DefaultClass].limits.max \in Int
    BY <2>1, ClassFacts DEF Limits
  <2>. QED
    BY <2>1, <2>2 DEF ItemsRight
<1>4. /\ Unlinked(items, k) \in Seq(ClassIds) /\ Once(Unlinked(items, k))
      /\ Queued(Unlinked(items, k)) \subseteq Queued(items) \ {k}
      /\ \A x, y : Before(Unlinked(items, k), x, y) => Before(items, x, y)
  BY UnlinkedItems DEF ItemsRight
<1>5. Queued(items) \subseteq ClassIds
  BY DEF Queued
<1>6. ItemsRight(new, Unlinked(items, k))
  BY <1>1, <1>3, <1>4, <1>5 DEF ItemsRight
<1>. QED
  BY <1>1, <1>2, <1>4, <1>6 DEF ClassesThere

\* less are the attachments co without the one of c to b.
WithoutOne(co, c, b, less) ==
    /\ less \in ConfMaps
    /\ \A x \in Clients : less[x] = IF x = c THEN co[c] \ {b} ELSE co[x]

\* That is what the code's assignment leaves.
LEMMA OneTaken ==
    ASSUME NEW co \in ConfMaps, NEW c \in Clients, NEW b \in BlockIds
    PROVE  WithoutOne(co, c, b, [co EXCEPT ![c] = @ \ {b}])
  BY DEF ConfMaps, WithoutOne

\* Who is on a block once c has left b.
LEMMA OneLess ==
    ASSUME NEW co \in ConfMaps, NEW c \in Clients, NEW b \in BlockIds, b \in co[c],
           NEW less, WithoutOne(co, c, b, less)
    PROVE  /\ less \in ConfMaps
           /\ \A x \in Clients : less[x] \subseteq co[x]
           /\ On(less, b) = On(co, b) \ {c} /\ c \in On(co, b)
           /\ \A y : y # b => On(less, y) = On(co, y)
<1>1. less \in ConfMaps
  BY DEF WithoutOne
<1>2. \A x \in Clients : less[x] = IF x = c THEN co[c] \ {b} ELSE co[x]
  BY DEF WithoutOne
<1>3. \A x \in Clients : less[x] \subseteq co[x]
  BY <1>2
<1>4. /\ On(less, b) = On(co, b) \ {c} /\ c \in On(co, b)
      /\ \A y : y # b => On(less, y) = On(co, y)
  BY <1>2 DEF On
<1>. QED
  BY <1>1, <1>2, <1>3, <1>4

\* And whom the classes have: only the class of b may have lost him.
LEMMA UsersLess ==
    ASSUME NEW co \in ConfMaps, NEW bl \in BlockMaps, NEW c \in Clients,
           NEW b \in BlockIds, b \in co[c],
           NEW less, WithoutOne(co, c, b, less), NEW k
    PROVE  /\ UsersIn(co, bl, k) \in SUBSET Clients /\ UsersIn(less, bl, k) \in SUBSET Clients
           /\ UsersIn(co, bl, k) \ {c} \subseteq UsersIn(less, bl, k)
           /\ ~(b[1] = "auth" /\ bl[b].class = k) =>
                 UsersIn(co, bl, k) \subseteq UsersIn(less, bl, k)
<1>1. \A x \in Clients : less[x] = IF x = c THEN co[c] \ {b} ELSE co[x]
  BY DEF WithoutOne
<1>2. UsersIn(co, bl, k) \ {c} \subseteq UsersIn(less, bl, k)
  BY <1>1 DEF UsersIn
<1>3. ASSUME ~(b[1] = "auth" /\ bl[b].class = k), c \in UsersIn(co, bl, k)
      PROVE  c \in UsersIn(less, bl, k)
  <2>1. PICK y \in co[c] : y[1] = "auth" /\ Alive(bl[y]) /\ bl[y].class = k
    BY <1>3 DEF UsersIn
  <2>2. y \in less[c]
    BY <1>1, <1>3, <2>1
  <2>. QED
    BY <2>1, <2>2 DEF UsersIn
<1>4. UsersIn(co, bl, k) \in SUBSET Clients /\ UsersIn(less, bl, k) \in SUBSET Clients
  BY DEF UsersIn
<1>. QED
  BY <1>2, <1>3, <1>4

\* The class k of b loses a client from the address a: out is what is left of
\* it, new are the classes with it, and gone those without.
ClassSteps(cl, k, b, a, out, new, gone) ==
    /\ out = Left(IF b[1] = "auth" THEN CidrOut(cl[k], a) ELSE cl[k])
    /\ new = [cl EXCEPT ![k] = out]
    /\ gone = [new EXCEPT ![k] = Freed]

\* detach_conf: the class loses a client who came from ad[c], and goes if it
\* was the last one of a marked class.
LEMMA ClassLeaves ==
    ASSUME NEW cl \in ClassMaps, NEW items \in Seq(ClassIds), NEW bl \in BlockMaps,
           ClassesThere(cl, bl), ItemsRight(cl, items), NEW ad,
           NEW co \in ConfMaps, PlacesRight(cl, co, bl, ad),
           NEW c \in Clients, NEW b \in BlockIds, b \in co[c], Alive(bl[b]),
           NEW k \in ClassIds, k = bl[b].class, Alive(cl[k]),
           b[1] = "auth" => ad[c] \in Addresses,
           NEW less, WithoutOne(co, c, b, less),
           NEW out, NEW new, NEW gone, ClassSteps(cl, k, b, ad[c], out, new, gone)
    PROVE  /\ new \in ClassMaps /\ PlacesRight(new, less, bl, ad) /\ ClassesThere(new, bl)
           /\ ItemsRight(new, items)
           /\ out.limits.max < 0 =>
                 /\ gone \in ClassMaps /\ PlacesRight(gone, less, bl, ad)
                 /\ ClassesThere(gone, bl) /\ Unlinked(items, k) \in Seq(ClassIds)
                 /\ ItemsRight(gone, Unlinked(items, k))
<1>. DEFINE U(m) == UsersIn(co, bl, m)
            V(m) == UsersIn(less, bl, m)
<1>0. /\ out = Left(IF b[1] = "auth" THEN CidrOut(cl[k], ad[c]) ELSE cl[k])
      /\ new = [cl EXCEPT ![k] = out]
      /\ gone = [new EXCEPT ![k] = Freed]
  BY DEF ClassSteps
<1>1. cl[k] \in ClassRecords
  BY HeapAssumption DEF ClassMaps, Alive
<1>2. \A m : /\ U(m) \in SUBSET Clients /\ V(m) \in SUBSET Clients
             /\ U(m) \ {c} \subseteq V(m)
             /\ ~(b[1] = "auth" /\ bl[b].class = m) => U(m) \subseteq V(m)
  BY UsersLess
<1>3. b[1] = "auth" => c \in U(k)
  BY DEF UsersIn
<1>4. \A m \in ClassIds : Alive(cl[m]) => ClassRight(cl[m], U(m), ad)
  BY DEF PlacesRight
<1>. HIDE DEF U, V
<1>5. out \in ClassRecords /\ out.limits = cl[k].limits /\ ClassRight(out, V(k), ad)
  <2>1. CASE b[1] = "auth"
    <3>1. GoesFrom(cl[k], ad[c], out)
      BY <1>0, <2>1 DEF GoesFrom
    <3>2. OneGone(U(k), V(k), c) /\ ClassRight(cl[k], U(k), ad) /\ ad[c] \in Addresses
      BY <1>2, <1>3, <1>4, <2>1 DEF OneGone
    <3>. QED
      BY <1>1, <3>1, <3>2, UserGoes
  <2>2. CASE b[1] # "auth"
    <3>1. out = Left(cl[k])
      BY <1>0, <2>2
    <3>2. U(k) \in SUBSET Clients /\ V(k) \in SUBSET Clients /\ U(k) \subseteq V(k)
          /\ ClassRight(cl[k], U(k), ad)
      BY <1>2, <1>4, <2>2
    <3>3. ClassRight(cl[k], V(k), ad)
      BY <1>1, <3>2, MoreUsers
    <3>. QED
      BY <1>1, <3>1, <3>2, <3>3, CountDown
  <2>. QED
    BY <2>1, <2>2
<1>6. new \in ClassMaps /\ ClassesThere(new, bl) /\ ItemsRight(new, items)
  BY <1>0, <1>5, ClassChanged
<1>7. \A m \in ClassIds : new[m] = IF m = k THEN out ELSE cl[m]
  BY <1>0 DEF ClassMaps
<1>8. ASSUME NEW m \in ClassIds, Alive(new[m]) PROVE ClassRight(new[m], V(m), ad)
  <2>1. CASE m = k
    BY <1>5, <1>7, <2>1
  <2>2. CASE m # k
    <3>1. new[m] = cl[m] /\ Alive(cl[m])
      BY <1>7, <1>8, <2>2
    <3>2. cl[m] \in ClassRecords
      BY <3>1, HeapAssumption DEF ClassMaps, Alive
    <3>3. U(m) \in SUBSET Clients /\ V(m) \in SUBSET Clients /\ U(m) \subseteq V(m)
          /\ ClassRight(cl[m], U(m), ad)
      BY <1>2, <1>4, <2>2, <3>1
    <3>4. ClassRight(cl[m], V(m), ad)
      BY <3>2, <3>3, MoreUsers
    <3>. QED
      BY <3>1, <3>4
  <2>. QED
    BY <2>1, <2>2
<1>9. PlacesRight(new, less, bl, ad)
  BY <1>8 DEF PlacesRight, V
<1>10. ASSUME out.limits.max < 0
       PROVE  /\ gone \in ClassMaps /\ PlacesRight(gone, less, bl, ad)
              /\ ClassesThere(gone, bl) /\ Unlinked(items, k) \in Seq(ClassIds)
              /\ ItemsRight(gone, Unlinked(items, k))
  <2>1. Alive(new[k]) /\ new[k].limits.max < 0
    BY <1>5, <1>7, <1>10, HeapAssumption DEF Alive
  <2>2. /\ gone \in ClassMaps /\ ClassesThere(gone, bl)
        /\ Unlinked(items, k) \in Seq(ClassIds) /\ ItemsRight(gone, Unlinked(items, k))
    BY <1>0, <1>6, <2>1, ClassGone
  <2>3. \A m \in ClassIds : gone[m] = IF m = k THEN Freed ELSE new[m]
    BY <1>0, <1>6 DEF ClassMaps
  <2>4. PlacesRight(gone, less, bl, ad)
    BY <1>9, <2>3 DEF PlacesRight, Alive
  <2>. QED
    BY <2>2, <2>4
<1>. QED
  BY <1>6, <1>9, <1>10

\* What detach_conf leaves of a block that was not freed before.
LeftOf(bl, b) ==
    IF bl[b].illegal /\ bl[b].clients = 1 THEN [bl EXCEPT ![b] = Freed]
    ELSE [bl EXCEPT ![b] = Counting(bl[b], bl[b].clients - 1)]

\* c leaves the block b, which goes if it is illegal and c was the last.
LEMMA BlockLeaves ==
    ASSUME NEW cl, NEW bl \in BlockMaps, NEW co \in ConfMaps, NEW ad, NEW bad \in BOOLEAN,
           NEW c \in Clients, NEW b \in BlockIds, b \in co[c], Alive(bl[b]), b[1] # "hub",
           NEW less, WithoutOne(co, c, b, less),
           ConfsRight(co, bl, ad), CountsRight(co, bl, bad),
           PlacesRight(cl, less, bl, ad), ClassesThere(cl, bl),
           NEW new, new = LeftOf(bl, b)
    PROVE  /\ new \in BlockMaps
           /\ ConfsRight(less, new, ad) /\ CountsRight(less, new, bad)
           /\ PlacesRight(cl, less, new, ad) /\ ClassesThere(cl, new)
           /\ \A x \in BlockIds : new[x] = None <=> bl[x] = None
<1>1. /\ less \in ConfMaps /\ \A x \in Clients : less[x] \subseteq co[x]
      /\ On(less, b) = On(co, b) \ {c} /\ c \in On(co, b)
      /\ \A y : y # b => On(less, y) = On(co, y)
  BY OneLess
<1>2. bl[b] \in BlockRecords
  BY HeapAssumption DEF BlockMaps, Alive
<1>3. bl[b].clients \in Nat
  BY <1>2 DEF BlockRecords
<1>4. /\ Cardinality(On(co, b)) = Cardinality(On(less, b)) + 1
      /\ Cardinality(On(less, b)) \in Nat
      /\ Cardinality(On(less, b)) = 0 <=> On(less, b) = {}
  <2>1. On(co, b) \in SUBSET Clients /\ On(less, b) \in SUBSET Clients
    BY DEF On
  <2>2. Cardinality(On(less, b)) = Cardinality(On(co, b)) - 1 /\ Cardinality(On(co, b)) \in Nat
    <3>1. \A S \in SUBSET Clients : c \in S =>
             Cardinality(S \ {c}) = Cardinality(S) - 1 /\ Cardinality(S) \in Nat
      BY ClientSets
    <3>. QED
      BY <1>1, <2>1, <3>1
  <2>3. /\ Cardinality(On(less, b)) \in Nat
        /\ Cardinality(On(less, b)) = 0 <=> On(less, b) = {}
    BY <2>1, ClientSets
  <2>. QED
    BY <2>2, <2>3
<1>5. /\ Cardinality(On(co, b)) <= bl[b].clients
      /\ ~bad => bl[b].clients = Cardinality(On(co, b))
  BY DEF CountsRight, CountRight
<1>6. \A x \in Clients : less[x] \subseteq BlockIds
  BY <1>1 DEF ConfMaps
<1>7. CASE bl[b].illegal /\ bl[b].clients = 1
  <2>1. new = [bl EXCEPT ![b] = Freed]
    BY <1>7 DEF LeftOf
  <2>2. new \in BlockMaps /\ \A x \in BlockIds : new[x] = IF x = b THEN Freed ELSE bl[x]
    BY <2>1 DEF BlockMaps
  <2>3. On(less, b) = {}
    BY <1>4, <1>5, <1>7
  <2>4. \A x \in Clients : \A y \in less[x] : y # b /\ new[y] = bl[y]
    BY <1>6, <2>2, <2>3 DEF On
  <2>5. ConfsRight(less, new, ad)
    BY <1>1, <2>4 DEF ConfsRight
  <2>6. CountsRight(less, new, bad)
    <3>1. ASSUME NEW x \in BlockIds, Alive(new[x]) PROVE CountRight(less, new, bad, x)
      <4>1. x # b /\ new[x] = bl[x]
        BY <2>2, <3>1 DEF Alive
      <4>2. CountRight(co, bl, bad, x) /\ On(less, x) = On(co, x)
        BY <1>1, <3>1, <4>1 DEF CountsRight
      <4>. QED
        BY <4>1, <4>2 DEF CountRight
    <3>. QED
      BY <3>1 DEF CountsRight
  <2>7. \A k : UsersIn(less, new, k) = UsersIn(less, bl, k)
    BY <2>4 DEF UsersIn
  <2>8. PlacesRight(cl, less, new, ad)
    BY <2>7 DEF PlacesRight
  <2>9. ClassesThere(cl, new)
    BY <2>2 DEF ClassesThere, Alive
  <2>10. \A x \in BlockIds : new[x] = None <=> bl[x] = None
    BY <2>2, HeapAssumption DEF Alive
  <2>. QED
    BY <2>2, <2>5, <2>6, <2>8, <2>9, <2>10
<1>8. CASE ~(bl[b].illegal /\ bl[b].clients = 1)
  <2>. DEFINE n == bl[b].clients - 1
  <2>1. CountedAs(bl, b, n, new)
    BY <1>8 DEF LeftOf, CountedAs
  <2>2. n \in Nat
    BY <1>3, <1>4, <1>5
  <2>3. /\ Cardinality(On(less, b)) <= n
        /\ ~bad => n = Cardinality(On(less, b)) /\ (bl[b].illegal => n > 0)
    BY <1>3, <1>4, <1>5, <1>8
  <2>. HIDE DEF n
  <2>4. /\ new \in BlockMaps /\ Alive(new[b]) /\ new[b].clients = n
        /\ \A x \in BlockIds :
              /\ (new[x] = None <=> bl[x] = None) /\ (Alive(new[x]) <=> Alive(bl[x]))
              /\ x # b => new[x] = bl[x]
              /\ Alive(bl[x]) => /\ new[x].class = bl[x].class
                                 /\ new[x].illegal = bl[x].illegal
        /\ \A co1 \in ConfMaps : \A k : UsersIn(co1, new, k) = UsersIn(co1, bl, k)
        /\ \A cl1 : ClassesThere(cl1, bl) => ClassesThere(cl1, new)
    BY <2>1, <2>2, BlockCounted
  <2>5. ConfsRight(less, new, ad)
    <3>1. \A x \in Clients : \A y \in less[x] : y \in co[x] /\ y \in BlockIds
      BY <1>1, <1>6
    <3>. QED
      BY <2>4, <3>1 DEF ConfsRight
  <2>6. CountsRight(less, new, bad)
    <3>1. ASSUME NEW x \in BlockIds, Alive(new[x]) PROVE CountRight(less, new, bad, x)
      <4>1. CASE x # b
        <5>1. new[x] = bl[x] /\ On(less, x) = On(co, x)
          BY <1>1, <2>4, <4>1
        <5>2. CountRight(co, bl, bad, x)
          BY <3>1, <5>1 DEF CountsRight
        <5>. QED
          BY <5>1, <5>2 DEF CountRight
      <4>2. CASE x = b
        <5>1. new[b].clients = n /\ new[b].illegal = bl[b].illegal
          BY <2>4
        <5>. QED
          BY <2>3, <4>2, <5>1 DEF CountRight
      <4>. QED
        BY <4>1, <4>2
    <3>. QED
      BY <3>1 DEF CountsRight
  <2>7. PlacesRight(cl, less, new, ad)
    <3>1. \A k : UsersIn(less, new, k) = UsersIn(less, bl, k)
      BY <1>1, <2>4
    <3>. QED
      BY <3>1 DEF PlacesRight
  <2>. QED
    BY <2>4, <2>5, <2>6, <2>7
<1>. QED
  BY <1>7, <1>8

\* A heap made of its parts.
HeapOfParts(cl, items, bl, co, bad) ==
    [classes |-> cl, items |-> items, blocks |-> bl, confs |-> co, fault |-> bad]

\* Every heap is made of its parts, which are right if it is.
LEMMA HeapParts ==
    ASSUME NEW H, NEW ad, HeapRight(H, ad)
    PROVE  \E cl \in ClassMaps : \E items \in Seq(ClassIds) : \E bl \in BlockMaps :
           \E co \in ConfMaps : \E bad \in BOOLEAN :
              /\ H = HeapOfParts(cl, items, bl, co, bad)
              /\ ConfsRight(co, bl, ad) /\ CountsRight(co, bl, bad)
              /\ PlacesRight(cl, co, bl, ad) /\ ClassesThere(cl, bl) /\ ItemsRight(cl, items)
<1>1. H \in HeapStates
  BY DEF HeapRight
<1>2. /\ H.classes \in ClassMaps /\ H.items \in Seq(ClassIds) /\ H.blocks \in BlockMaps
      /\ H.confs \in ConfMaps /\ H.fault \in BOOLEAN
      /\ H = HeapOfParts(H.classes, H.items, H.blocks, H.confs, H.fault)
  BY <1>1, HeapFacts DEF HeapOfParts
<1>3. /\ ConfsRight(H.confs, H.blocks, ad) /\ CountsRight(H.confs, H.blocks, H.fault)
      /\ PlacesRight(H.classes, H.confs, H.blocks, ad) /\ ClassesThere(H.classes, H.blocks)
      /\ ItemsRight(H.classes, H.items)
  BY DEF HeapRight
<1>. QED
  BY <1>2, <1>3

\* The parts are found again.
LEMMA PartsOf ==
    ASSUME NEW cl, NEW items, NEW bl, NEW co, NEW bad,
           NEW H, H = HeapOfParts(cl, items, bl, co, bad)
    PROVE  H.classes = cl /\ H.items = items /\ H.blocks = bl /\ H.confs = co /\ H.fault = bad
  BY DEF HeapOfParts

\* A heap is right when its parts are.
LEMMA PartsRight ==
    ASSUME NEW cl \in ClassMaps, NEW items \in Seq(ClassIds), NEW bl \in BlockMaps,
           NEW co \in ConfMaps, NEW bad \in BOOLEAN, NEW ad,
           ConfsRight(co, bl, ad), CountsRight(co, bl, bad), PlacesRight(cl, co, bl, ad),
           ClassesThere(cl, bl), ItemsRight(cl, items),
           NEW H, H = HeapOfParts(cl, items, bl, co, bad)
    PROVE  HeapRight(H, ad)
  BY HeapOf DEF HeapOfParts

\* What the calls do to the parts.
GivenClasses(H, x, y) == [H EXCEPT !.classes = x, !.items = y]
\* The class k is freed in new.
FreedIn(cl, k, new) == new = [cl EXCEPT ![k] = Freed]

\* A heap that is given other classes.
LEMMA GivenClassesParts ==
    ASSUME NEW cl, NEW items, NEW bl, NEW co, NEW bad, NEW x, NEW y
    PROVE  GivenClasses(HeapOfParts(cl, items, bl, co, bad), x, y)
           = HeapOfParts(x, y, bl, co, bad)
<1>. SUFFICES ASSUME NEW H, H = [classes |-> cl, items |-> items, blocks |-> bl,
                                 confs |-> co, fault |-> bad],
                     NEW G, G = [H EXCEPT !.classes = x, !.items = y]
              PROVE  G = [classes |-> x, items |-> y, blocks |-> bl, confs |-> co,
                          fault |-> bad]
  BY Zenon DEF GivenClasses, HeapOfParts
<1>. QED
  OBVIOUS

\* delete_conf_item of a class, on the parts.
LEMMA ClassFreedParts ==
    ASSUME NEW cl, NEW items, NEW bl, NEW co, NEW bad,
           NEW H, H = HeapOfParts(cl, items, bl, co, bad), NEW k,
           NEW cl2, FreedIn(cl, k, cl2)
    PROVE  ClassFreed(H, k) = HeapOfParts(cl2, Unlinked(items, k), bl, co, bad)
<1>. DEFINE it2 == Unlinked(items, k)
            G == ClassFreed(H, k)
<1>1. H.classes = cl /\ H.items = items
  BY DEF HeapOfParts
<1>2. G = GivenClasses(H, cl2, it2)
  BY <1>1 DEF ClassFreed, FreedIn, GivenClasses
<1>. HIDE DEF it2, G
<1>3. G = HeapOfParts(cl2, it2, bl, co, bad)
  BY <1>2, GivenClassesParts
<1>. QED
  BY <1>3 DEF it2, G

\* A block loses a client, on the parts.
LEMMA BlockLeftParts ==
    ASSUME NEW cl, NEW items, NEW bl, NEW co, NEW bad,
           NEW H, H = HeapOfParts(cl, items, bl, co, bad), NEW b
    PROVE  BlockLeft(H, b) = HeapOfParts(cl, items, LeftOf(bl, b), co, bad)
<1>1. H = [classes |-> cl, items |-> items, blocks |-> bl, confs |-> co, fault |-> bad]
      /\ H.blocks = bl
  BY DEF HeapOfParts
<1>. DEFINE one == [bl EXCEPT ![b] = Freed]
            two == [bl EXCEPT ![b] = Counting(bl[b], bl[b].clients - 1)]
            gone == bl[b].illegal /\ bl[b].clients = 1
<1>2. gone => BlockLeft(H, b) = [H EXCEPT !.blocks = one]
  BY <1>1 DEF BlockLeft, BlockFreed
<1>3. ~gone => BlockLeft(H, b) = [H EXCEPT !.blocks = two]
  BY <1>1 DEF BlockLeft, Counting
<1>4. LeftOf(bl, b) = IF gone THEN one ELSE two
  BY DEF LeftOf
<1>. HIDE DEF one, two, gone
<1>. QED
  BY <1>1, <1>2, <1>3, <1>4 DEF HeapOfParts

\* A class that is marked has lost its last client.
Empties(K) == K.limits.max < 0 /\ K.curr_user_count = 0

\* detach_conf keeps the heap right, and takes the one block from the client.
LEMMA DetachKeeps ==
    ASSUME NEW H, HeapRight(H, ip), NEW c \in Clients, NEW b \in BlockIds, b \in H.confs[c]
    PROVE  /\ HeapRight(Detached(H, c, b), ip)
           /\ WithoutOne(H.confs, c, b, Detached(H, c, b).confs)
           /\ \A x \in BlockIds : Detached(H, c, b).blocks[x] = None <=> H.blocks[x] = None
<1>1. PICK cl \in ClassMaps, items \in Seq(ClassIds), bl \in BlockMaps, co \in ConfMaps,
           bad \in BOOLEAN :
              /\ H = HeapOfParts(cl, items, bl, co, bad)
              /\ ConfsRight(co, bl, ip) /\ CountsRight(co, bl, bad)
              /\ PlacesRight(cl, co, bl, ip) /\ ClassesThere(cl, bl) /\ ItemsRight(cl, items)
  BY HeapParts
<1>2. H.classes = cl /\ H.items = items /\ H.blocks = bl /\ H.confs = co /\ H.fault = bad
  BY <1>1, PartsOf
<1>3. PICK yes \in BOOLEAN : yes = TRUE
  OBVIOUS
<1>. DEFINE less == [co EXCEPT ![c] = @ \ {b}]
            d == [H EXCEPT !.confs = less]
            D1 == Detached(H, c, b)
            used == bl[b] = Freed \/ (b[1] # "hub" /\ cl[bl[b].class] = Freed)
<1>4. D1 = IF used THEN [d EXCEPT !.fault = yes]
           ELSE IF b[1] = "hub"
           THEN IF bl[b].clients = 0 /\ bl[b].illegal THEN BlockFreed(d, b) ELSE d
           ELSE BlockLeft(ClassLeft(d, c, b), b)
  BY <1>3, <1>2 DEF Detached
<1>5. WithoutOne(co, c, b, less)
  BY OneTaken
<1>. HIDE DEF less
<1>6. d = HeapOfParts(cl, items, bl, less, bad)
  BY <1>1 DEF HeapOfParts
<1>. HIDE DEF d
<1>7. [d EXCEPT !.fault = yes] = HeapOfParts(cl, items, bl, less, yes)
  BY <1>6 DEF HeapOfParts
<1>8. b \in co[c]
  BY <1>2
<1>9. /\ less \in ConfMaps /\ \A x \in Clients : less[x] \subseteq co[x]
      /\ On(less, b) = On(co, b) \ {c} /\ c \in On(co, b)
      /\ \A y : y # b => On(less, y) = On(co, y)
  BY <1>5, <1>8, OneLess
<1>10. /\ bl[b] # None /\ (b[1] # "server" => Alive(bl[b]))
       /\ b[1] = "auth" => ip[c] \in Addresses
  BY <1>1, <1>8 DEF ConfsRight
<1>. HIDE DEF D1, used
<1>11. ConfsRight(less, bl, ip)
  BY <1>1, <1>9 DEF ConfsRight
<1>12. \A S \in SUBSET Clients : \A R \in SUBSET S :
          Cardinality(R) <= Cardinality(S) /\ Cardinality(R) \in Nat /\ Cardinality(S) \in Nat
  BY ClientSets
<1>13. \A x : On(less, x) \subseteq On(co, x) /\ On(co, x) \subseteq Clients
  BY <1>9 DEF On
<1>14. CASE used
  <2>1. D1 = HeapOfParts(cl, items, bl, less, yes)
    BY <1>4, <1>7, <1>14
  <2>2. CountsRight(less, bl, yes)
    <3>1. ASSUME NEW x \in BlockIds, Alive(bl[x]) PROVE CountRight(less, bl, yes, x)
      <4>1. CountRight(co, bl, bad, x)
        BY <1>1, <3>1 DEF CountsRight
      <4>2. CASE x[1] = "hub"
        BY <1>13, <4>1, <4>2 DEF CountRight
      <4>3. CASE x[1] # "hub"
        <5>1. Cardinality(On(less, x)) <= Cardinality(On(co, x))
              /\ Cardinality(On(less, x)) \in Nat /\ Cardinality(On(co, x)) \in Nat
          BY <1>12, <1>13
        <5>2. bl[x].clients \in Nat
          <6>1. bl[x] \in BlockRecords
            BY <3>1, HeapAssumption DEF BlockMaps, Alive
          <6>. QED
            BY <6>1 DEF BlockRecords
        <5>3. Cardinality(On(co, x)) <= bl[x].clients
          BY <4>1, <4>3 DEF CountRight
        <5>4. Cardinality(On(less, x)) <= bl[x].clients
          BY <5>1, <5>2, <5>3
        <5>. QED
          BY <1>3, <4>3, <5>4 DEF CountRight
      <4>. QED
        BY <4>2, <4>3
    <3>. QED
      BY <3>1 DEF CountsRight
  <2>3. PlacesRight(cl, less, bl, ip)
    <3>1. ASSUME NEW k \in ClassIds, Alive(cl[k]) PROVE ClassRight(cl[k], UsersIn(less, bl, k), ip)
      <4>1. ~(b[1] = "auth" /\ bl[b].class = k)
        <5>1. b[1] = "auth" => bl[b] # Freed /\ b[1] # "hub"
          BY <1>10 DEF Alive
        <5>2. bl[b].class = k => cl[bl[b].class] # Freed
          BY <3>1 DEF Alive
        <5>3. bl[b] = Freed \/ (b[1] # "hub" /\ cl[bl[b].class] = Freed)
          BY <1>14 DEF used
        <5>. QED
          BY <5>1, <5>2, <5>3
      <4>2. UsersIn(co, bl, k) \in SUBSET Clients /\ UsersIn(less, bl, k) \in SUBSET Clients
            /\ UsersIn(co, bl, k) \subseteq UsersIn(less, bl, k)
        BY <1>5, <1>8, <4>1, UsersLess
      <4>3. cl[k] \in ClassRecords
        BY <3>1, HeapAssumption DEF ClassMaps, Alive
      <4>4. ClassRight(cl[k], UsersIn(co, bl, k), ip)
        BY <1>1, <3>1 DEF PlacesRight
      <4>. QED
        BY <4>2, <4>3, <4>4, MoreUsers
    <3>. QED
      BY <3>1 DEF PlacesRight
  <2>4. HeapRight(D1, ip)
    BY <1>1, <1>9, <1>11, <2>1, <2>2, <2>3, PartsRight
  <2>5. D1.confs = less /\ D1.blocks = bl
    BY <2>1, PartsOf
  <2>. QED
    BY <1>2, <1>5, <2>4, <2>5 DEF D1
<1>15. CASE ~used /\ b[1] = "hub"
  <2>1. bl[b].clients > 0 /\ bl[b].clients # 0
    <3>1. bl[b].clients > 0
      <4>1. Alive(bl[b]) /\ b \in BlockIds
        BY <1>10, <1>15 DEF Alive
      <4>2. CountRight(co, bl, bad, b) /\ On(co, b) # {}
        BY <1>1, <1>9, <4>1 DEF CountsRight
      <4>. QED
        BY <1>15, <4>2 DEF CountRight
    <3>2. bl[b] \in BlockRecords
      <4>1. Alive(bl[b])
        BY <1>10, <1>15
      <4>. QED
        BY <4>1, HeapAssumption DEF BlockMaps, Alive
    <3>3. bl[b].clients \in Nat
      BY <3>2 DEF BlockRecords
    <3>. QED
      BY <3>1, <3>3
  <2>2. D1 = HeapOfParts(cl, items, bl, less, bad)
    BY <1>4, <1>6, <1>15, <2>1
  <2>3. CountsRight(less, bl, bad)
    <3>1. ASSUME NEW x \in BlockIds, Alive(bl[x]) PROVE CountRight(less, bl, bad, x)
      <4>1. CountRight(co, bl, bad, x)
        BY <1>1, <3>1 DEF CountsRight
      <4>2. x # b => On(less, x) = On(co, x)
        BY <1>9
      <4>. QED
        BY <1>15, <2>1, <4>1, <4>2 DEF CountRight
    <3>. QED
      BY <3>1 DEF CountsRight
  <2>4. PlacesRight(cl, less, bl, ip)
    <3>1. ASSUME NEW k \in ClassIds, Alive(cl[k]) PROVE ClassRight(cl[k], UsersIn(less, bl, k), ip)
      <4>1. UsersIn(co, bl, k) \in SUBSET Clients /\ UsersIn(less, bl, k) \in SUBSET Clients
            /\ UsersIn(co, bl, k) \subseteq UsersIn(less, bl, k)
        BY <1>5, <1>8, <1>15, UsersLess
      <4>2. cl[k] \in ClassRecords
        BY <3>1, HeapAssumption DEF ClassMaps, Alive
      <4>3. ClassRight(cl[k], UsersIn(co, bl, k), ip)
        BY <1>1, <3>1 DEF PlacesRight
      <4>. QED
        BY <4>1, <4>2, <4>3, MoreUsers
    <3>. QED
      BY <3>1 DEF PlacesRight
  <2>5. HeapRight(D1, ip)
    BY <1>1, <1>9, <1>11, <2>2, <2>3, <2>4, PartsRight
  <2>6. D1.confs = less /\ D1.blocks = bl
    BY <2>2, PartsOf
  <2>. QED
    BY <1>2, <1>5, <2>5, <2>6 DEF D1
<1>16. CASE ~used /\ b[1] # "hub"
  <2>. DEFINE k == bl[b].class
              out == Left(IF b[1] = "auth" THEN CidrOut(cl[k], ip[c]) ELSE cl[k])
              new == [cl EXCEPT ![k] = out]
              gone == [new EXCEPT ![k] = Freed]
              none == Empties(out)
              two == IF none THEN gone ELSE new
              it2 == IF none THEN Unlinked(items, k) ELSE items
              bl2 == LeftOf(bl, b)
  <2>1. Alive(bl[b]) /\ k \in ClassIds /\ Alive(cl[k])
    <3>1. Alive(bl[b]) /\ cl[k] # Freed
      <4>1. ~ (bl[b] = Freed \/ (b[1] # "hub" /\ cl[bl[b].class] = Freed))
        BY <1>16 DEF used
      <4>2. bl[b] # Freed /\ cl[k] # Freed
        BY <1>16, <4>1
      <4>. QED
        BY <1>10, <4>2 DEF Alive
    <3>2. ClassThere(cl, bl[b])
      BY <1>1, <1>16, <3>1 DEF ClassesThere
    <3>. QED
      BY <3>1, <3>2 DEF ClassThere, Alive
  <2>2. /\ none => ClassLeft(d, c, b) = HeapOfParts(gone, Unlinked(items, k), bl, less, bad)
        /\ ~none => ClassLeft(d, c, b) = HeapOfParts(new, items, bl, less, bad)
    <3>1. k = bl[b].class /\ ClassSteps(cl, k, b, ip[c], out, new, gone)
      BY DEF ClassSteps
    <3>. HIDE DEF k, out, new, gone, none
    <3>2. d = [classes |-> cl, items |-> items, blocks |-> bl, confs |-> less, fault |-> bad]
          /\ d.blocks = bl /\ d.classes = cl
      BY <1>6 DEF HeapOfParts
    <3>3. PICK counted : counted = [d EXCEPT !.classes = new]
      OBVIOUS
    <3>4. ClassLeft(d, c, b) = IF Empties(out) THEN ClassFreed(counted, k) ELSE counted
      BY <3>1, <3>2, <3>3 DEF ClassLeft, Left, ClassSteps, Empties
    <3>5. counted = HeapOfParts(new, items, bl, less, bad)
      BY <3>2, <3>3 DEF HeapOfParts
    <3>6. FreedIn(new, k, gone)
      BY <3>1 DEF FreedIn, ClassSteps
    <3>7. ClassFreed(counted, k) = HeapOfParts(gone, Unlinked(items, k), bl, less, bad)
      BY <3>5, <3>6, ClassFreedParts
    <3>. QED
      BY <3>4, <3>5, <3>7 DEF none
  <2>3. /\ new \in ClassMaps /\ PlacesRight(new, less, bl, ip) /\ ClassesThere(new, bl)
        /\ ItemsRight(new, items)
        /\ out.limits.max < 0 =>
              /\ gone \in ClassMaps /\ PlacesRight(gone, less, bl, ip)
              /\ ClassesThere(gone, bl) /\ Unlinked(items, k) \in Seq(ClassIds)
              /\ ItemsRight(gone, Unlinked(items, k))
    <3>1. k = bl[b].class /\ ClassSteps(cl, k, b, ip[c], out, new, gone)
      BY DEF ClassSteps
    <3>. HIDE DEF k, out, new, gone, none
    <3>. QED
      BY <1>1, <1>5, <1>8, <1>10, <2>1, <3>1, ClassLeaves
  <2>. HIDE DEF new, gone, out, k
  <2>4. ClassLeft(d, c, b) = HeapOfParts(two, it2, bl, less, bad)
    BY <2>2
  <2>5. /\ two \in ClassMaps /\ PlacesRight(two, less, bl, ip) /\ ClassesThere(two, bl)
        /\ it2 \in Seq(ClassIds) /\ ItemsRight(two, it2)
    BY <2>3 DEF Empties
  <2>. HIDE DEF none, two, it2
  <2>6. D1 = HeapOfParts(two, it2, bl2, less, bad)
    <3>1. D1 = BlockLeft(ClassLeft(d, c, b), b)
      BY <1>4, <1>16
    <3>. QED
      BY <2>4, <3>1, BlockLeftParts
  <2>7. /\ bl2 \in BlockMaps
        /\ ConfsRight(less, bl2, ip) /\ CountsRight(less, bl2, bad)
        /\ PlacesRight(two, less, bl2, ip) /\ ClassesThere(two, bl2)
        /\ \A x \in BlockIds : bl2[x] = None <=> bl[x] = None
    BY <1>1, <1>5, <1>8, <1>16, <2>1, <2>5, BlockLeaves
  <2>. HIDE DEF bl2
  <2>8. HeapRight(D1, ip)
    BY <1>9, <2>5, <2>6, <2>7, PartsRight
  <2>9. D1.confs = less /\ D1.blocks = bl2
    BY <2>6, PartsOf
  <2>. QED
    BY <1>2, <1>5, <2>7, <2>8, <2>9 DEF D1
<1>. QED
  BY <1>14, <1>15, <1>16

\* There are finitely many blocks and classes.
LEMMA BlockIdsFinite == IsFiniteSet(BlockIds) /\ IsFiniteSet(ClassIds)
<1>1. IsFiniteSet(Gens)
  BY ConfBlocksAssumption, FS_Interval DEF Gens
<1>2. IsFiniteSet(Types)
  <2>1. IsFiniteSet({"auth"})
    BY FS_Singleton
  <2>2. IsFiniteSet({"auth"} \cup {"oper"})
    BY <2>1, FS_AddElement
  <2>3. IsFiniteSet(({"auth"} \cup {"oper"}) \cup {"server"})
    BY <2>2, FS_AddElement
  <2>4. IsFiniteSet((({"auth"} \cup {"oper"}) \cup {"server"}) \cup {"hub"})
    BY <2>3, FS_AddElement
  <2>5. Types = (({"auth"} \cup {"oper"}) \cup {"server"}) \cup {"hub"}
    BY DEF Types
  <2>. QED
    BY <2>4, <2>5
<1>3. IsFiniteSet(Types \X Gens) /\ IsFiniteSet(Classes \X Gens)
  BY <1>1, <1>2, FS_Product, HeapAssumption
<1>4. IsFiniteSet({<<Default, 0>>}) /\ IsFiniteSet({<<Default, 0>>} \cup (Classes \X Gens))
  BY <1>3, FS_Singleton, FS_Union
<1>. QED
  BY <1>3, <1>4 DEF BlockIds, ClassIds

\* detach_conf of all blocks of a client: he is the only one who loses any.
LEMMA DetachedAllKeeps ==
    ASSUME NEW H, HeapRight(H, ip), NEW c \in Clients
    PROVE  /\ HeapRight(DetachedAll(H, c), ip)
           /\ \A x \in Clients : DetachedAll(H, c).confs[x] = IF x = c THEN {} ELSE H.confs[x]
           /\ \A x \in BlockIds : DetachedAll(H, c).blocks[x] = None <=> H.blocks[x] = None
<1>. DEFINE mine == H.confs[c]
            N == Cardinality(mine)
            order == InOrder(mine)
            Step == [x \in HeapStates \X (1 .. N) |-> Detached(x[1], c, order[x[2]])]
            V == [n \in 0 .. N |->
                     {U \in HeapStates :
                         /\ HeapRight(U, ip)
                         /\ \A x \in Clients :
                               U.confs[x] = IF x = c THEN mine \ {order[i] : i \in 1 .. n}
                                            ELSE H.confs[x]
                         /\ \A x \in BlockIds : U.blocks[x] = None <=> H.blocks[x] = None}]
            Def(f) == [n \in 0 .. N |-> IF n = 0 THEN H ELSE Detached(f[n - 1], c, order[n])]
<1>0. H \in HeapStates /\ mine \in SUBSET BlockIds /\ IsFiniteSet(mine)
  <2>1. H \in HeapStates
    BY DEF HeapRight
  <2>2. H.confs \in ConfMaps
    BY <2>1, HeapFacts
  <2>3. mine \in SUBSET BlockIds
    BY <2>2 DEF ConfMaps
  <2>. QED
    BY <2>1, <2>3, BlockIdsFinite, FS_Subset
<1>1. /\ N \in Nat /\ order \in [1 .. N -> mine]
      /\ \A i, j \in 1 .. N : order[i] = order[j] => i = j
      /\ \A x \in mine : \E i \in 1 .. N : order[i] = x
  BY <1>0, InOrderProperties
<1>a. mine = H.confs[c]
  OBVIOUS
<1>. HIDE DEF N, order, mine
<1>2. H \in V[0]
  <2>1. mine \ {order[i] : i \in 1 .. 0} = mine
    OBVIOUS
  <2>2. \A x \in Clients :
           H.confs[x] = IF x = c THEN mine \ {order[i] : i \in 1 .. 0} ELSE H.confs[x]
    BY <1>a, <2>1
  <2>3. 0 \in 0 .. N
    BY <1>1
  <2>. QED
    BY <1>0, <2>2, <2>3
<1>3. ASSUME NEW n \in 1 .. N, NEW U \in V[n - 1]
      PROVE  /\ Detached(U, c, order[n]) \in V[n]
             /\ Step[<<U, n>>] = Detached(U, c, order[n])
  <2>1. n - 1 \in 0 .. N /\ n \in 0 .. N /\ 1 .. n = (1 .. n - 1) \cup {n}
    BY <1>1
  <2>2. /\ U \in HeapStates /\ HeapRight(U, ip)
        /\ \A x \in Clients :
              U.confs[x] = IF x = c THEN mine \ {order[i] : i \in 1 .. n - 1} ELSE H.confs[x]
        /\ \A x \in BlockIds : U.blocks[x] = None <=> H.blocks[x] = None
    BY <2>1
  <2>. DEFINE W == Detached(U, c, order[n])
  <2>3. order[n] \in BlockIds /\ order[n] \in mine /\ order[n] \notin {order[i] : i \in 1 .. n - 1}
    BY <1>0, <1>1
  <2>4. order[n] \in U.confs[c]
    BY <2>2, <2>3
  <2>5. /\ HeapRight(W, ip) /\ WithoutOne(U.confs, c, order[n], W.confs)
        /\ \A x \in BlockIds : W.blocks[x] = None <=> U.blocks[x] = None
    BY <2>2, <2>3, <2>4, DetachKeeps
  <2>6. Step[<<U, n>>] = W
    BY <2>2
  <2>. HIDE DEF W
  <2>7. {order[i] : i \in 1 .. n} = {order[i] : i \in 1 .. n - 1} \cup {order[n]}
    BY <2>1
  <2>8. \A x \in Clients :
           W.confs[x] = IF x = c THEN mine \ {order[i] : i \in 1 .. n} ELSE H.confs[x]
    <3>. DEFINE A == {order[i] : i \in 1 .. n - 1}
    <3>1. \A x \in Clients : U.confs[x] = IF x = c THEN mine \ A ELSE H.confs[x]
      BY <2>2
    <3>2. \A x \in Clients : W.confs[x] = IF x = c THEN U.confs[c] \ {order[n]} ELSE U.confs[x]
      BY <2>5 DEF WithoutOne
    <3>3. (mine \ A) \ {order[n]} = mine \ (A \cup {order[n]})
      OBVIOUS
    <3>. HIDE DEF A
    <3>4. \A x \in Clients : W.confs[x] = IF x = c THEN mine \ (A \cup {order[n]}) ELSE H.confs[x]
      BY <3>1, <3>2, <3>3
    <3>. QED
      BY <2>7, <3>4 DEF A
  <2>9. W \in V[n]
    BY <2>1, <2>2, <2>5, <2>8 DEF HeapRight
  <2>. QED
    BY <2>6, <2>9 DEF W
<1>. HIDE DEF V, Step
<1>4. \E f : f = Def(f)
  <2>1. N \in Nat /\ Stays(N, V, H, Step)
    BY <1>1, <1>2, <1>3 DEF Stays
  <2>2. PICK f : Goes(f, N, V, H, Step)
    BY <2>1, RecursionUpTo
  <2>3. /\ f = [n \in 0 .. N |-> f[n]] /\ f[0] = H
        /\ \A n \in 1 .. N : f[n] = Step[<<f[n - 1], n>>]
        /\ \A n \in 0 .. N : f[n] \in V[n]
    BY <2>2 DEF Goes
  <2>4. ASSUME NEW n \in 1 .. N PROVE f[n] = Detached(f[n - 1], c, order[n])
    <3>1. n - 1 \in 0 .. N
      BY <1>1
    <3>2. f[n - 1] \in V[n - 1]
      BY <2>3, <3>1
    <3>. QED
      BY <1>3, <2>3, <3>2
  <2>5. \A n \in 0 .. N : n # 0 => n \in 1 .. N
    BY <1>1
  <2>6. f = Def(f)
    BY <2>3, <2>4, <2>5
  <2>. QED
    BY <2>6
<1>. DEFINE left == CHOOSE f : f = Def(f)
<1>5. left = Def(left)
  BY <1>4
<1>6. DetachedAll(H, c) = left[N]
  BY DEF DetachedAll, N, order, mine
<1>. HIDE DEF left
<1>7. left[N] \in V[N]
  <2>1. left[0] = H /\ \A n \in 1 .. N : left[n] = Detached(left[n - 1], c, order[n])
    BY <1>1, <1>5
  <2>2. \A n \in 1 .. N : left[n - 1] \in V[n - 1] => left[n] \in V[n]
    BY <1>3, <2>1
  <2>. QED
    BY <1>1, <1>2, <2>1, <2>2, HoldsAtLast
<1>8. mine \ {order[i] : i \in 1 .. N} = {}
  BY <1>1
<1>9. N \in 0 .. N
  BY <1>1
<1>. QED
  BY <1>6, <1>7, <1>8, <1>9 DEF V

\* The addresses matter for those who have blocks.
LEMMA AddressChanged ==
    ASSUME NEW H, NEW ad, NEW ad2, HeapRight(H, ad),
           \A x \in Clients : H.confs[x] # {} => ad2[x] = ad[x]
    PROVE  HeapRight(H, ad2)
<1>1. /\ H \in HeapStates
      /\ ConfsRight(H.confs, H.blocks, ad)
      /\ CountsRight(H.confs, H.blocks, H.fault)
      /\ PlacesRight(H.classes, H.confs, H.blocks, ad)
      /\ ClassesThere(H.classes, H.blocks)
      /\ ItemsRight(H.classes, H.items)
  BY DEF HeapRight
<1>2. ConfsRight(H.confs, H.blocks, ad2)
  BY <1>1 DEF ConfsRight
<1>3. PlacesRight(H.classes, H.confs, H.blocks, ad2)
  <2>1. ASSUME NEW k \in ClassIds, Alive(H.classes[k])
        PROVE  ClassRight(H.classes[k], UsersIn(H.confs, H.blocks, k), ad2)
    <3>. DEFINE U == UsersIn(H.confs, H.blocks, k)
    <3>1. ClassRight(H.classes[k], U, ad)
      BY <1>1, <2>1 DEF PlacesRight
    <3>2. \A x \in U : ad2[x] = ad[x]
      BY DEF UsersIn
    <3>. HIDE DEF U
    <3>3. \A m : {x \in U : ad2[x] \in m} = {x \in U : ad[x] \in m}
      BY <3>2
    <3>4. ClassRight(H.classes[k], U, ad2)
      BY <3>1, <3>3 DEF ClassRight
    <3>. QED
      BY <3>4 DEF U
  <2>. QED
    BY <2>1 DEF PlacesRight
<1>. QED
  BY <1>1, <1>2, <1>3 DEF HeapRight

-----------------------------------------------------------------------------
(* REHASH *)

\* All blocks that are there are illegal.
AllIllegal(bl) == \A b \in BlockIds : Alive(bl[b]) => bl[b].illegal

\* A heap that is given other blocks and classes.
GivenBlocks(H, x, y) == [H EXCEPT !.blocks = x, !.classes = y]

\* That, on the parts.
LEMMA GivenBlocksParts ==
    ASSUME NEW cl, NEW items, NEW bl, NEW co, NEW bad, NEW x, NEW y
    PROVE  GivenBlocks(HeapOfParts(cl, items, bl, co, bad), x, y)
           = HeapOfParts(y, items, x, co, bad)
<1>1. PICK H : H = [classes |-> cl, items |-> items, blocks |-> bl, confs |-> co,
                    fault |-> bad]
  OBVIOUS
<1>2. PICK A : A = [H EXCEPT !.blocks = x]
  OBVIOUS
<1>3. A = [classes |-> cl, items |-> items, blocks |-> x, confs |-> co, fault |-> bad]
  BY <1>1, <1>2
<1>4. PICK B : B = [A EXCEPT !.classes = y]
  OBVIOUS
<1>5. B = [classes |-> y, items |-> items, blocks |-> x, confs |-> co, fault |-> bad]
  BY <1>3, <1>4
<1>6. [H EXCEPT !.blocks = x, !.classes = y] = B
  BY <1>2, <1>4, Zenon
<1>7. H = HeapOfParts(cl, items, bl, co, bad) /\ B = HeapOfParts(y, items, x, co, bad)
  BY <1>1, <1>5, Zenon DEF HeapOfParts
<1>. QED
  BY <1>6, <1>7, Zenon DEF GivenBlocks

\* clear_out_old_conf: blocks nobody is on go, the others become illegal.
LEMMA BlocksClearedRight ==
    ASSUME NEW bl \in BlockMaps, NEW co \in ConfMaps, NEW ad, NEW bad \in BOOLEAN,
           ConfsRight(co, bl, ad), CountsRight(co, bl, bad),
           NEW new, new = BlocksCleared(bl)
    PROVE  /\ new \in BlockMaps /\ AllIllegal(new)
           /\ ConfsRight(co, new, ad) /\ CountsRight(co, new, bad)
           /\ \A k : UsersIn(co, new, k) = UsersIn(co, bl, k)
           /\ \A x \in BlockIds : /\ new[x] = None <=> bl[x] = None
                                  /\ Alive(new[x]) => Alive(bl[x]) /\ new[x].class = bl[x].class
<1>1. \A b \in BlockIds : bl[b] \in BlockRecords \cup {None, Freed}
                          /\ (Alive(bl[b]) <=> bl[b] \in BlockRecords)
  BY HeapAssumption DEF BlockMaps, Alive
<1>2. \A b \in BlockIds :
         new[b] = IF ~Alive(bl[b]) \/ bl[b].illegal THEN bl[b]
                  ELSE IF bl[b].clients = 0 THEN Freed
                  ELSE [bl[b] EXCEPT !.illegal = TRUE]
  BY DEF BlocksCleared
<1>3. \A b \in BlockIds :
         \/ ~Alive(bl[b]) /\ new[b] = bl[b]
         \/ Alive(bl[b]) /\ new[b] = Freed /\ bl[b].clients = 0
         \/ /\ Alive(bl[b]) /\ new[b] \in BlockRecords /\ Alive(new[b]) /\ new[b].illegal
            /\ new[b].class = bl[b].class /\ new[b].clients = bl[b].clients
            /\ bl[b].illegal \/ bl[b].clients # 0
  <2>1. ASSUME NEW b \in BlockIds, Alive(bl[b]), ~bl[b].illegal, bl[b].clients # 0
        PROVE  /\ new[b] \in BlockRecords /\ Alive(new[b]) /\ new[b].illegal
               /\ new[b].class = bl[b].class /\ new[b].clients = bl[b].clients
    <3>1. bl[b] \in BlockRecords /\ new[b] = [bl[b] EXCEPT !.illegal = TRUE]
      BY <1>1, <1>2, <2>1
    <3>2. /\ new[b] \in BlockRecords /\ new[b].illegal /\ new[b].class = bl[b].class
          /\ new[b].clients = bl[b].clients
      BY <3>1 DEF BlockRecords
    <3>. QED
      BY <3>2, HeapAssumption DEF Alive
  <2>. QED
    BY <1>1, <1>2, <2>1
<1>4. new \in BlockMaps
  <2>1. new = [b \in BlockIds |-> new[b]]
    BY DEF BlocksCleared
  <2>2. \A b \in BlockIds : new[b] \in BlockRecords \cup {None, Freed}
    BY <1>1, <1>3
  <2>. QED
    BY <2>1, <2>2 DEF BlockMaps
<1>5. AllIllegal(new)
  BY <1>3 DEF AllIllegal, Alive
<1>6. \A x \in Clients : \A b \in co[x] : b \in BlockIds
  BY DEF ConfMaps
<1>7. \A b \in BlockIds : Alive(bl[b]) => bl[b].clients \in Nat
  BY <1>1 DEF BlockRecords
<1>8. ASSUME NEW b \in BlockIds, Alive(bl[b]), new[b] = Freed PROVE On(co, b) = {}
  <2>1. bl[b].clients = 0
    BY <1>3, <1>8 DEF Alive
  <2>2. CountRight(co, bl, bad, b)
    BY <1>8 DEF CountsRight
  <2>3. On(co, b) \in SUBSET Clients
    BY DEF On
  <2>4. Cardinality(On(co, b)) \in Nat /\ (Cardinality(On(co, b)) = 0 <=> On(co, b) = {})
    BY <2>3, ClientSets
  <2>. QED
    BY <2>1, <2>2, <2>4 DEF CountRight
<1>9. \A x \in Clients : \A b \in co[x] :
          /\ Alive(bl[b]) => Alive(new[b]) /\ new[b].class = bl[b].class
          /\ Alive(new[b]) => Alive(bl[b])
          /\ bl[b] # None => new[b] # None
  BY <1>3, <1>6, <1>8, HeapAssumption DEF On, Alive
<1>10. ConfsRight(co, new, ad)
  BY <1>9 DEF ConfsRight
<1>11. CountsRight(co, new, bad)
  <2>1. ASSUME NEW b \in BlockIds, Alive(new[b]) PROVE CountRight(co, new, bad, b)
    <3>1. /\ Alive(bl[b]) /\ new[b].clients = bl[b].clients
          /\ bl[b].illegal \/ bl[b].clients # 0
      BY <1>3, <2>1 DEF Alive
    <3>2. CountRight(co, bl, bad, b) /\ bl[b].clients \in Nat
      BY <1>7, <3>1 DEF CountsRight
    <3>. QED
      BY <3>1, <3>2 DEF CountRight
  <2>. QED
    BY <2>1 DEF CountsRight
<1>12. \A k : UsersIn(co, new, k) = UsersIn(co, bl, k)
  BY <1>9 DEF UsersIn
<1>13. \A x \in BlockIds : /\ new[x] = None <=> bl[x] = None
                           /\ Alive(new[x]) => Alive(bl[x]) /\ new[x].class = bl[x].class
  BY <1>3, HeapAssumption DEF Alive
<1>. QED
  BY <1>4, <1>5, <1>10, <1>11, <1>12, <1>13

\* And the classes are marked, but for the default one.
LEMMA ClassesMarkedRight ==
    ASSUME NEW cl \in ClassMaps, NEW items \in Seq(ClassIds), ItemsRight(cl, items),
           NEW co, NEW bl, NEW ad, PlacesRight(cl, co, bl, ad),
           NEW new, new = ClassesMarked(cl, items)
    PROVE  /\ new \in ClassMaps /\ ItemsRight(new, items) /\ PlacesRight(new, co, bl, ad)
           /\ \A k \in ClassIds : new[k] = None <=> cl[k] = None
<1>. DEFINE marked(k) == Contains(items, k) /\ k # Last(items)
<1>1. \A k \in ClassIds : new[k] = IF marked(k) THEN [cl[k] EXCEPT !.limits.max = -1] ELSE cl[k]
  BY DEF ClassesMarked
<1>2. ASSUME NEW k \in ClassIds, marked(k) PROVE k # DefaultClass /\ cl[k] \in ClassRecords
  <2>1. PICK i \in 1 .. Len(items) : items[i] = k
    BY <1>2 DEF Contains
  <2>2. Len(items) \in Nat /\ Last(items) = items[Len(items)] /\ i \in 1 .. Len(items) - 1
    BY <1>2, <2>1, LenProperties DEF Last
  <2>3. k \in Queued(items)
    BY <2>1, QueuedAre
  <2>4. Before(items, k, Last(items)) /\ Last(items) \in ClassIds
    <3>1. Len(items) \in 1 .. Len(items)
      BY <2>2
    <3>. QED
      BY <2>1, <2>2, <3>1 DEF Before
  <2>5. k # DefaultClass
    BY <2>4 DEF ItemsRight
  <2>6. cl[k] \in ClassRecords
    BY <2>3, HeapAssumption DEF ItemsRight, ClassMaps, Alive
  <2>. QED
    BY <2>5, <2>6
<1>3. \A K \in ClassRecords : LET M1 == [K EXCEPT !.limits.max = -1] IN
         /\ M1 \in ClassRecords /\ M1.curr_user_count = K.curr_user_count /\ M1.cidr = K.cidr
         /\ M1.limits.percidr = K.limits.percidr /\ M1.limits.wide = K.limits.wide
         /\ M1 # None /\ M1 # Freed
  BY CidrFacts, HeapAssumption DEF Limits
<1>. HIDE DEF marked
<1>4. \A k \in ClassIds :
         /\ new[k] \in ClassRecords \cup {None, Freed}
         /\ Alive(cl[k]) <=> Alive(new[k])
         /\ cl[k] = None <=> new[k] = None
         /\ Alive(cl[k]) => /\ new[k].curr_user_count = cl[k].curr_user_count
                            /\ new[k].cidr = cl[k].cidr
                            /\ new[k].limits.percidr = cl[k].limits.percidr
                            /\ new[k].limits.wide = cl[k].limits.wide
  <2>1. \A k \in ClassIds : cl[k] \in ClassRecords \cup {None, Freed}
    BY DEF ClassMaps
  <2>2. ASSUME NEW k \in ClassIds, marked(k)
        PROVE  /\ new[k] \in ClassRecords /\ Alive(cl[k]) /\ Alive(new[k])
               /\ new[k].curr_user_count = cl[k].curr_user_count
               /\ new[k].cidr = cl[k].cidr
               /\ new[k].limits.percidr = cl[k].limits.percidr
               /\ new[k].limits.wide = cl[k].limits.wide
    <3>1. cl[k] \in ClassRecords /\ new[k] = [cl[k] EXCEPT !.limits.max = -1]
      BY <1>1, <1>2, <2>2
    <3>2. cl[k] # None /\ cl[k] # Freed
      BY <3>1, HeapAssumption
    <3>. QED
      BY <1>3, <3>1, <3>2 DEF Alive
  <2>. QED
    BY <1>1, <2>1, <2>2 DEF Alive
<1>5. new = [k \in ClassIds |-> new[k]]
  BY DEF ClassesMarked
<1>6. new \in ClassMaps
  BY <1>4, <1>5 DEF ClassMaps
<1>7. PlacesRight(new, co, bl, ad)
  BY <1>4 DEF PlacesRight, ClassRight
<1>8. ItemsRight(new, items)
  <2>1. DefaultClass \in ClassIds /\ ~marked(DefaultClass)
    BY <1>2 DEF ClassIds, DefaultClass
  <2>2. new[DefaultClass] = cl[DefaultClass]
    BY <1>1, <2>1
  <2>3. Queued(items) \subseteq ClassIds
    BY DEF Queued
  <2>. QED
    BY <1>4, <2>2, <2>3 DEF ItemsRight
<1>. QED
  BY <1>4, <1>6, <1>7, <1>8

\* clear_out_old_conf keeps the heap right, and leaves illegal blocks only.
LEMMA ClearedKeeps ==
    ASSUME NEW H, NEW ad, HeapRight(H, ad)
    PROVE  /\ HeapRight(Cleared(H), ad) /\ AllIllegal(Cleared(H).blocks)
           /\ Cleared(H).confs = H.confs
           /\ \A x \in BlockIds : Cleared(H).blocks[x] = None <=> H.blocks[x] = None
<1>1. PICK cl \in ClassMaps, items \in Seq(ClassIds), bl \in BlockMaps, co \in ConfMaps,
           bad \in BOOLEAN :
              /\ H = HeapOfParts(cl, items, bl, co, bad)
              /\ ConfsRight(co, bl, ad) /\ CountsRight(co, bl, bad)
              /\ PlacesRight(cl, co, bl, ad) /\ ClassesThere(cl, bl) /\ ItemsRight(cl, items)
  BY HeapParts
<1>2. H.classes = cl /\ H.items = items /\ H.blocks = bl /\ H.confs = co /\ H.fault = bad
  BY <1>1, PartsOf
<1>. DEFINE bl2 == BlocksCleared(bl)
            cl2 == ClassesMarked(cl, items)
<1>3. Cleared(H) = GivenBlocks(H, bl2, cl2)
  BY <1>2 DEF Cleared, GivenBlocks
<1>. HIDE DEF bl2, cl2
<1>4. Cleared(H) = HeapOfParts(cl2, items, bl2, co, bad)
  BY <1>1, <1>3, GivenBlocksParts
<1>5. /\ bl2 \in BlockMaps /\ AllIllegal(bl2)
      /\ ConfsRight(co, bl2, ad) /\ CountsRight(co, bl2, bad)
      /\ \A k : UsersIn(co, bl2, k) = UsersIn(co, bl, k)
      /\ \A x \in BlockIds : /\ bl2[x] = None <=> bl[x] = None
                             /\ Alive(bl2[x]) => Alive(bl[x]) /\ bl2[x].class = bl[x].class
  BY <1>1, BlocksClearedRight DEF bl2
<1>6. /\ cl2 \in ClassMaps /\ ItemsRight(cl2, items) /\ PlacesRight(cl2, co, bl, ad)
      /\ \A k \in ClassIds : cl2[k] = None <=> cl[k] = None
  BY <1>1, ClassesMarkedRight DEF cl2
<1>7. PlacesRight(cl2, co, bl2, ad)
  BY <1>5, <1>6 DEF PlacesRight
<1>8. ClassesThere(cl2, bl2)
  BY <1>1, <1>5, <1>6 DEF ClassesThere, ClassThere, AllIllegal
<1>9. HeapRight(Cleared(H), ad)
  BY <1>1, <1>4, <1>5, <1>6, <1>7, <1>8, PartsRight
<1>10. Cleared(H).confs = co /\ Cleared(H).blocks = bl2
  BY <1>4, PartsOf
<1>. QED
  BY <1>2, <1>5, <1>9, <1>10

\* A class of the file is written over, when no block in force is of it.
LEMMA ClassGiven ==
    ASSUME NEW cl \in ClassMaps, NEW items \in Seq(ClassIds), ItemsRight(cl, items),
           NEW bl \in BlockMaps, AllIllegal(bl), ClassesThere(cl, bl),
           NEW co \in ConfMaps, NEW ad, PlacesRight(cl, co, bl, ad),
           NEW k \in ClassIds, k # DefaultClass, NEW K \in ClassRecords,
           ClassRight(K, UsersIn(co, bl, k), ad),
           NEW new, new = [cl EXCEPT ![k] = K]
    PROVE  /\ new \in ClassMaps /\ ItemsRight(new, items) /\ ClassesThere(new, bl)
           /\ PlacesRight(new, co, bl, ad) /\ Alive(new[k])
<1>1. new \in ClassMaps /\ \A m \in ClassIds : new[m] = IF m = k THEN K ELSE cl[m]
  BY DEF ClassMaps
<1>2. K # None /\ Alive(K)
  BY HeapAssumption DEF Alive
<1>3. Queued(items) \subseteq ClassIds /\ DefaultClass \in ClassIds
  BY DEF ClassIds, DefaultClass, Queued
<1>4. ItemsRight(new, items)
  BY <1>1, <1>2, <1>3 DEF ItemsRight
<1>5. ClassesThere(new, bl)
  BY <1>1, <1>2 DEF ClassesThere, ClassThere, AllIllegal
<1>6. PlacesRight(new, co, bl, ad)
  BY <1>1 DEF PlacesRight
<1>. QED
  BY <1>1, <1>2, <1>4, <1>5, <1>6

\* A class without users.
LEMMA EmptyClass ==
    ASSUME NEW limits \in Limits
    PROVE  /\ Class(limits) \in ClassRecords /\ Class(limits).limits = limits
           /\ Class(limits).curr_user_count = 0 /\ Class(limits).cidr = NoCidr
           /\ NoCidr \in Cidrs /\ DOMAIN NoCidr = {}
<1>1. NoCidr \in [{} -> Int] /\ DOMAIN NoCidr = {} /\ {} \in SUBSET (SUBSET Addresses)
  BY DEF NoCidr
<1>2. NoCidr \in Cidrs
  BY <1>1, CidrFacts
<1>. QED
  BY <1>1, <1>2, CidrFacts DEF Class

\* class_entry: the class is empty, but for the lists of its address blocks,
\* which count no one who is not attached.
LEMMA RebuiltRight ==
    ASSUME NEW H, HeapRight(H, ip), NEW k \in ClassIds, Alive(H.classes[k]),
           NEW limits \in Limits, NEW K, K = [Class(limits) EXCEPT !.cidr = Rebuilt(H, k, limits)]
    PROVE  K \in ClassRecords /\ ClassRight(K, UsersIn(H.confs, H.blocks, k), ip)
<1>. DEFINE U == UsersIn(H.confs, H.blocks, k)
            old == H.classes[k]
            C == {c \in Clients : \E b \in H.confs[c] : b[1] = "auth" /\ H.blocks[b].class = k}
            on(m) == Cardinality({c \in C : Block(limits.wide, ip[c]) = m})
            lists == {Block(limits.wide, ip[c]) : c \in C}
            again == [m \in lists |-> on(m)]
            R == Rebuilt(H, k, limits)
<1>1. H \in HeapStates /\ ConfsRight(H.confs, H.blocks, ip)
      /\ PlacesRight(H.classes, H.confs, H.blocks, ip)
  BY DEF HeapRight
<1>2. old \in ClassRecords /\ ClassRight(old, U, ip)
  BY <1>1, HeapFacts DEF PlacesRight
<1>3. C = U /\ \A c \in C : ip[c] \in Addresses
  <2>1. \A c \in Clients : \A b \in H.confs[c] :
           b[1] = "auth" => Alive(H.blocks[b]) /\ ip[c] \in Addresses
    BY <1>1 DEF ConfsRight
  <2>. QED
    BY <2>1 DEF UsersIn
<1>4. U \in SUBSET Clients
  BY DEF UsersIn
<1>5. R = IF old.limits.percidr = 0 \/ limits.percidr = 0 THEN NoCidr
          ELSE IF old.limits.wide = limits.wide THEN old.cidr ELSE again
  BY DEF Rebuilt
<1>. HIDE DEF U, C, R
<1>6. /\ old.cidr \in Cidrs /\ DOMAIN old.cidr \subseteq SUBSET Addresses
      /\ old.cidr \in [DOMAIN old.cidr -> Int]
  BY <1>2, ClassFacts
<1>7. again \in Cidrs
  <2>1. \A m : on(m) \in Int
    <3>1. ASSUME NEW m PROVE on(m) \in Int
      <4>1. {c \in C : Block(limits.wide, ip[c]) = m} \in SUBSET Clients
        BY <1>3, <1>4
      <4>2. on(m) \in Nat
        BY <4>1, ClientSets
      <4>. QED
        BY <4>2
    <3>. QED
      BY <3>1
  <2>2. lists \in SUBSET (SUBSET Addresses)
    BY <1>3, CidrFacts
  <2>. HIDE DEF lists, on
  <2>3. again \in [lists -> Int]
    BY <2>1
  <2>. QED
    BY <2>2, <2>3, CidrFacts
<1>8. R \in Cidrs
  <2>. HIDE DEF again
  <2>. QED
    BY <1>5, <1>6, <1>7, EmptyClass
<1>9. /\ K \in ClassRecords /\ K.limits = limits /\ K.curr_user_count = 0 /\ K.cidr = R
  <2>1. K = [Class(limits) EXCEPT !.cidr = R]
    BY DEF R
  <2>. QED
    BY <1>8, <2>1, EmptyClass, CidrFacts
<1>10. limits.percidr = 0 => DOMAIN R = {}
  BY <1>5, EmptyClass
<1>11. ASSUME NEW m \in DOMAIN R
       PROVE  /\ \E a \in Addresses : m = Block(limits.wide, a)
              /\ R[m] <= Cardinality({x \in U : ip[x] \in m})
  <2>1. CASE R = NoCidr
    BY <1>11, <2>1, EmptyClass
  <2>2. CASE R = old.cidr /\ old.limits.wide = limits.wide
    BY <1>2, <1>11, <2>2 DEF ClassRight
  <2>3. CASE R = again
    <3>1. m \in lists /\ R[m] = on(m)
      BY <1>11, <2>3
    <3>2. PICK c \in C : m = Block(limits.wide, ip[c])
      BY <3>1
    <3>. DEFINE A == {x \in C : Block(limits.wide, ip[x]) = m}
                B == {x \in U : ip[x] \in m}
    <3>3. A \in SUBSET B /\ B \in SUBSET Clients
      BY <1>3, <1>4, CidrFacts
    <3>4. R[m] = Cardinality(A)
      BY <3>1
    <3>. HIDE DEF A, B
    <3>5. Cardinality(A) <= Cardinality(B)
      BY <3>3, ClientSets
    <3>. QED
      BY <1>3, <3>2, <3>4, <3>5 DEF B
  <2>. HIDE DEF again
  <2>. QED
    BY <1>5, <2>1, <2>2, <2>3
<1>12. K.curr_user_count <= Cardinality(U)
  <2>1. Cardinality(U) \in Nat
    BY <1>4, ClientSets
  <2>. QED
    BY <1>9, <2>1
<1>13. ClassRight(K, U, ip)
  BY <1>9, <1>10, <1>11, <1>12 DEF ClassRight
<1>. QED
  BY <1>9, <1>13 DEF U

\* class_entry keeps the heap right.
LEMMA ClassReadKeeps ==
    ASSUME NEW H, HeapRight(H, ip), AllIllegal(H.blocks), NEW n \in Classes,
           NEW limits \in Limits, NEW g \in Gens
    PROVE  /\ HeapRight(ClassRead(H, n, limits, g), ip)
           /\ ClassRead(H, n, limits, g).blocks = H.blocks
           /\ ClassRead(H, n, limits, g).confs = H.confs
           /\ ClassRead(H, n, limits, g).fault = H.fault
<1>1. PICK cl \in ClassMaps, items \in Seq(ClassIds), bl \in BlockMaps, co \in ConfMaps,
           bad \in BOOLEAN :
              /\ H = HeapOfParts(cl, items, bl, co, bad)
              /\ ConfsRight(co, bl, ip) /\ CountsRight(co, bl, bad)
              /\ PlacesRight(cl, co, bl, ip) /\ ClassesThere(cl, bl) /\ ItemsRight(cl, items)
  BY HeapParts
<1>2. H.classes = cl /\ H.items = items /\ H.blocks = bl /\ H.confs = co /\ H.fault = bad
  BY <1>1, PartsOf
<1>. DEFINE W == ClassRead(H, n, limits, g)
<1>3. AllIllegal(bl)
  BY <1>2
<1>4. \A x : x \in Named(items, n) <=> x \in Queued(items) /\ x[1] = n
  BY DEF Named, ToSet, Queued
<1>5. Queued(items) \subseteq ClassIds /\ Default # n
  BY ConfBlocksAssumption DEF Queued
<1>6. CASE Named(items, n) = {}
  <2>. DEFINE k == <<n, g>>
              K == Class(limits)
              cl2 == [cl EXCEPT ![k] = K]
              it2 == <<k>> \o items
  <2>1. W = GivenClasses(H, cl2, it2)
    BY <1>2, <1>6 DEF ClassRead, GivenClasses
  <2>2. k \in ClassIds /\ k # DefaultClass /\ k \notin Queued(items)
    <3>1. k[1] = n /\ k \in ClassIds
      BY DEF ClassIds
    <3>2. k # DefaultClass
      BY <1>5, <3>1 DEF DefaultClass
    <3>. QED
      BY <1>4, <1>6, <3>1, <3>2
  <2>3. ClassRight(K, UsersIn(co, bl, k), ip) /\ K \in ClassRecords
    <3>1. UsersIn(co, bl, k) \in SUBSET Clients
      BY DEF UsersIn
    <3>2. Cardinality(UsersIn(co, bl, k)) \in Nat
      BY <3>1, ClientSets
    <3>. QED
      BY <3>2, EmptyClass DEF ClassRight
  <2>. HIDE DEF k, K
  <2>4. /\ cl2 \in ClassMaps /\ ItemsRight(cl2, items) /\ ClassesThere(cl2, bl)
        /\ PlacesRight(cl2, co, bl, ip) /\ Alive(cl2[k])
    <3>1. cl2 = [cl EXCEPT ![k] = K]
      OBVIOUS
    <3>. HIDE DEF cl2
    <3>. QED
      BY <1>1, <1>3, <2>2, <2>3, <3>1, ClassGiven
  <2>. HIDE DEF cl2
  <2>5. /\ it2 \in Seq(ClassIds) /\ Once(it2) /\ Queued(it2) = Queued(items) \cup {k}
        /\ \A x, y : Before(it2, x, y) <=> Before(items, x, y) \/ (x = k /\ y \in Queued(items))
    <3>1. Once(items)
      BY <1>1 DEF ItemsRight
    <3>. QED
      BY <2>2, <3>1, PutInFront
  <2>. HIDE DEF it2
  <2>6. ItemsRight(cl2, it2)
    BY <2>2, <2>4, <2>5 DEF ItemsRight
  <2>7. W = HeapOfParts(cl2, it2, bl, co, bad)
    BY <1>1, <2>1, GivenClassesParts
  <2>. HIDE DEF W
  <2>8. HeapRight(W, ip)
    BY <1>1, <2>4, <2>5, <2>6, <2>7, PartsRight
  <2>9. W.blocks = bl /\ W.confs = co /\ W.fault = bad
    BY <2>7, PartsOf
  <2>. QED
    BY <1>2, <2>8, <2>9 DEF W
<1>7. CASE Named(items, n) # {}
  <2>. DEFINE k == CHOOSE x \in Named(items, n) : TRUE
              K == [Class(limits) EXCEPT !.cidr = Rebuilt(H, k, limits)]
              cl2 == [cl EXCEPT ![k] = K]
  <2>1. W = [H EXCEPT !.classes = cl2]
    BY <1>2, <1>7 DEF ClassRead
  <2>2. k \in ClassIds /\ k # DefaultClass /\ Alive(cl[k])
    <3>1. k \in Queued(items) /\ k[1] = n
      BY <1>4, <1>7
    <3>. HIDE DEF k
    <3>2. k # DefaultClass
      BY <1>5, <3>1 DEF DefaultClass
    <3>3. Alive(cl[k])
      BY <1>1, <3>1 DEF ItemsRight
    <3>. QED
      BY <1>5, <3>1, <3>2, <3>3
  <2>3. K \in ClassRecords /\ ClassRight(K, UsersIn(co, bl, k), ip)
    <3>1. K = [Class(limits) EXCEPT !.cidr = Rebuilt(H, k, limits)]
      OBVIOUS
    <3>. HIDE DEF k, K
    <3>. QED
      BY <1>2, <2>2, <3>1, RebuiltRight
  <2>. HIDE DEF k, K
  <2>4. /\ cl2 \in ClassMaps /\ ItemsRight(cl2, items) /\ ClassesThere(cl2, bl)
        /\ PlacesRight(cl2, co, bl, ip) /\ Alive(cl2[k])
    <3>1. cl2 = [cl EXCEPT ![k] = K]
      OBVIOUS
    <3>. HIDE DEF cl2
    <3>. QED
      BY <1>1, <1>3, <2>2, <2>3, <3>1, ClassGiven
  <2>. HIDE DEF cl2, W
  <2>5. W = HeapOfParts(cl2, items, bl, co, bad)
    BY <1>1, <2>1 DEF HeapOfParts
  <2>6. HeapRight(W, ip)
    BY <1>1, <2>4, <2>5, PartsRight
  <2>7. W.blocks = bl /\ W.confs = co /\ W.fault = bad
    BY <2>5, PartsOf
  <2>. QED
    BY <1>2, <2>6, <2>7 DEF W
<1>. QED
  BY <1>6, <1>7

\* The classes of a file, one after the other.
LEMMA ClassesReadKeeps ==
    ASSUME NEW H, HeapRight(H, ip), AllIllegal(H.blocks), NEW f \in Files, NEW g \in Gens
    PROVE  /\ HeapRight(ClassesRead(H, f, g), ip)
           /\ ClassesRead(H, f, g).blocks = H.blocks
           /\ ClassesRead(H, f, g).confs = H.confs
           /\ ClassesRead(H, f, g).fault = H.fault
<1>. DEFINE names == {n \in Classes : f.classes[n] # None}
            N == Cardinality(names)
            order == InOrder(names)
            Made(U, n) == ClassRead(U, order[n], f.classes[order[n]], g)
            Step == [x \in HeapStates \X (1 .. N) |-> Made(x[1], x[2])]
            V == [n \in 0 .. N |->
                     {U \in HeapStates : HeapRight(U, ip) /\ U.blocks = H.blocks
                                         /\ U.confs = H.confs /\ U.fault = H.fault}]
            Def(h) == [n \in 0 .. N |-> IF n = 0 THEN H ELSE Made(h[n - 1], n)]
<1>0. H \in HeapStates /\ IsFiniteSet(names) /\ \A n \in names : n \in Classes /\ f.classes[n] \in Limits
  BY HeapAssumption, FS_Subset DEF HeapRight
<1>1. N \in Nat /\ order \in [1 .. N -> names]
  BY <1>0, InOrderProperties
<1>. HIDE DEF N, order, names
<1>2. H \in V[0]
  <2>1. 0 \in 0 .. N
    BY <1>1
  <2>. QED
    BY <1>0, <2>1
<1>3. ASSUME NEW n \in 1 .. N, NEW U \in V[n - 1]
      PROVE  Made(U, n) \in V[n] /\ Step[<<U, n>>] = Made(U, n)
  <2>1. n - 1 \in 0 .. N /\ n \in 0 .. N
    BY <1>1
  <2>2. U \in HeapStates /\ HeapRight(U, ip) /\ U.blocks = H.blocks /\ U.confs = H.confs
        /\ U.fault = H.fault
    BY <2>1
  <2>3. order[n] \in Classes /\ f.classes[order[n]] \in Limits
    BY <1>0, <1>1
  <2>4. Step[<<U, n>>] = Made(U, n)
    BY <2>2
  <2>5. /\ HeapRight(Made(U, n), ip) /\ Made(U, n).blocks = U.blocks
        /\ Made(U, n).confs = U.confs /\ Made(U, n).fault = U.fault
    BY <2>2, <2>3, ClassReadKeeps
  <2>. HIDE DEF Made
  <2>6. Made(U, n) \in V[n]
    BY <2>1, <2>2, <2>5 DEF HeapRight
  <2>. QED
    BY <2>4, <2>6
<1>. HIDE DEF V, Step, Made
<1>4. \E h : h = Def(h)
  <2>1. N \in Nat /\ Stays(N, V, H, Step)
    BY <1>1, <1>2, <1>3 DEF Stays
  <2>2. PICK h : Goes(h, N, V, H, Step)
    BY <2>1, RecursionUpTo
  <2>3. /\ h = [n \in 0 .. N |-> h[n]] /\ h[0] = H
        /\ \A n \in 1 .. N : h[n] = Step[<<h[n - 1], n>>]
        /\ \A n \in 0 .. N : h[n] \in V[n]
    BY <2>2 DEF Goes
  <2>4. ASSUME NEW n \in 1 .. N PROVE h[n] = Made(h[n - 1], n)
    <3>1. n - 1 \in 0 .. N
      BY <1>1
    <3>2. h[n - 1] \in V[n - 1]
      BY <2>3, <3>1
    <3>. QED
      BY <1>3, <2>3, <3>2
  <2>5. \A n \in 0 .. N : n # 0 => n \in 1 .. N
    BY <1>1
  <2>6. h = Def(h)
    BY <2>3, <2>4, <2>5
  <2>. QED
    BY <2>6
<1>. DEFINE read == CHOOSE h : h = Def(h)
<1>5. read = Def(read)
  BY <1>4
<1>6. ClassesRead(H, f, g) = read[N]
  BY DEF ClassesRead, N, order, names, Made
<1>. HIDE DEF read
<1>7. read[N] \in V[N]
  <2>1. read[0] = H /\ \A n \in 1 .. N : read[n] = Made(read[n - 1], n)
    BY <1>1, <1>5
  <2>2. \A n \in 1 .. N : read[n - 1] \in V[n - 1] => read[n] \in V[n]
    BY <1>3, <2>1
  <2>. QED
    BY <1>1, <1>2, <2>1, <2>2, HoldsAtLast
<1>8. N \in 0 .. N
  BY <1>1
<1>. QED
  BY <1>6, <1>7, <1>8 DEF V

\* conf_add_class_to_conf finds a class that is not marked.
LEMMA ClassForRight ==
    ASSUME NEW H, NEW ad, HeapRight(H, ad), NEW n
    PROVE  LET k == ClassFor(H, n) IN
           k \in ClassIds /\ Alive(H.classes[k]) /\ H.classes[k].limits.max >= 0
<1>. DEFINE ks == {k \in Named(H.items, n) : H.classes[k].limits.max >= 0}
<1>1. H.items \in Seq(ClassIds) /\ ItemsRight(H.classes, H.items)
  BY HeapFacts DEF HeapRight
<1>2. \A k \in ks : k \in Queued(H.items)
  BY DEF Named, ToSet, Queued
<1>3. CASE ks = {}
  <2>1. ClassFor(H, n) = DefaultClass
    BY <1>3 DEF ClassFor, DefaultClass
  <2>. QED
    BY <1>1, <2>1 DEF ItemsRight, ClassIds, DefaultClass
<1>4. CASE ks # {}
  <2>1. ClassFor(H, n) \in ks
    BY <1>4 DEF ClassFor
  <2>. QED
    BY <1>1, <1>2, <2>1 DEF ItemsRight, Queued
<1>. QED
  BY <1>3, <1>4

\* The blocks of the file that is read as the g-th, of classes that are there.
LEMMA BlocksReadKeeps ==
    ASSUME NEW H, NEW ad, HeapRight(H, ad), NEW f, NEW g \in Gens, Unread(H.blocks, g)
    PROVE  /\ HeapRight(BlocksRead(H, f, g), ad)
           /\ Unread(BlocksRead(H, f, g).blocks, g + 1)
           /\ BlocksRead(H, f, g).confs = H.confs /\ BlocksRead(H, f, g).fault = H.fault
<1>1. PICK cl \in ClassMaps, items \in Seq(ClassIds), bl \in BlockMaps, co \in ConfMaps,
           bad \in BOOLEAN :
              /\ H = HeapOfParts(cl, items, bl, co, bad)
              /\ ConfsRight(co, bl, ad) /\ CountsRight(co, bl, bad)
              /\ PlacesRight(cl, co, bl, ad) /\ ClassesThere(cl, bl) /\ ItemsRight(cl, items)
  BY HeapParts
<1>2. H.classes = cl /\ H.items = items /\ H.blocks = bl /\ H.confs = co /\ H.fault = bad
  BY <1>1, PartsOf
<1>. DEFINE W == BlocksRead(H, f, g)
            old(b) == b[2] # g \/ f.blocks[b[1]] = None
            kind(b) == IF b[1] = "hub" THEN None ELSE ClassFor(H, f.blocks[b[1]])
            new == [b \in BlockIds |->
                       IF old(b) THEN bl[b]
                       ELSE [class |-> kind(b), clients |-> 0, illegal |-> FALSE]]
<1>3. W = [H EXCEPT !.blocks = new]
  BY <1>2 DEF BlocksRead
<1>4. \A b \in BlockIds : /\ kind(b) \in ClassIds \cup {None}
                          /\ b[1] # "hub" => /\ kind(b) \in ClassIds /\ Alive(cl[kind(b)])
                                             /\ cl[kind(b)].limits.max >= 0
  BY <1>2, ClassForRight
<1>. HIDE DEF kind, old
<1>5. \A b \in BlockIds :
         \/ old(b) /\ new[b] = bl[b]
         \/ /\ ~old(b) /\ new[b] \in BlockRecords /\ new[b].class = kind(b)
            /\ new[b].clients = 0 /\ new[b].illegal = FALSE
  BY <1>4 DEF BlockRecords
<1>6. new \in BlockMaps
  BY <1>5 DEF BlockMaps
<1>7. \A b \in BlockIds : b[2] \in Nat /\ (~old(b) => b[2] = g)
  BY ConfBlocksAssumption DEF BlockIds, Gens, old
<1>8. g \in Nat
  BY ConfBlocksAssumption DEF Gens
<1>9. \A b \in BlockIds : b[2] >= g => bl[b] = None
  BY <1>2 DEF Unread
<1>. HIDE DEF new, W
<1>10. W = HeapOfParts(cl, items, new, co, bad)
  BY <1>1, <1>3 DEF HeapOfParts
<1>11. \A b \in BlockIds : new[b] # None /\ ~old(b) => Alive(new[b])
  BY <1>5, HeapAssumption DEF Alive
<1>12. \A b \in BlockIds : ~old(b) => bl[b] = None
  BY <1>7, <1>8, <1>9
<1>13. \A x \in Clients : \A b \in co[x] : b \in BlockIds /\ new[b] = bl[b]
  <2>1. \A x \in Clients : \A b \in co[x] : b \in BlockIds /\ bl[b] # None
    BY <1>1 DEF ConfMaps, ConfsRight
  <2>. QED
    BY <1>5, <1>12, <2>1
<1>14. ConfsRight(co, new, ad)
  BY <1>1, <1>13 DEF ConfsRight
<1>15. CountsRight(co, new, bad)
  <2>1. ASSUME NEW b \in BlockIds, Alive(new[b]) PROVE CountRight(co, new, bad, b)
    <3>1. CASE old(b)
      <4>1. new[b] = bl[b] /\ CountRight(co, bl, bad, b)
        BY <1>1, <1>5, <2>1, <3>1 DEF CountsRight
      <4>. QED
        BY <4>1 DEF CountRight
    <3>2. CASE ~old(b)
      <4>1. On(co, b) = {}
        BY <1>1, <1>12, <3>2 DEF ConfsRight, On
      <4>2. Cardinality(On(co, b)) = 0
        BY <4>1, FS_EmptySet
      <4>3. new[b].clients = 0 /\ ~new[b].illegal
        BY <1>5, <3>2
      <4>. QED
        BY <4>1, <4>2, <4>3 DEF CountRight
    <3>. QED
      BY <3>1, <3>2
  <2>. QED
    BY <2>1 DEF CountsRight
<1>16. \A k : UsersIn(co, new, k) = UsersIn(co, bl, k)
  BY <1>13 DEF UsersIn
<1>17. PlacesRight(cl, co, new, ad)
  BY <1>1, <1>16 DEF PlacesRight
<1>18. ClassesThere(cl, new)
  <2>1. ASSUME NEW b \in BlockIds, Alive(new[b]), b[1] # "hub" PROVE ClassThere(cl, new[b])
    <3>1. CASE old(b)
      BY <1>1, <1>5, <2>1, <3>1 DEF ClassesThere
    <3>2. CASE ~old(b)
      BY <1>4, <1>5, <2>1, <3>2 DEF ClassThere, Alive
    <3>. QED
      BY <3>1, <3>2
  <2>. QED
    BY <2>1 DEF ClassesThere
<1>19. HeapRight(W, ad)
  BY <1>1, <1>6, <1>10, <1>14, <1>15, <1>17, <1>18, PartsRight
<1>20. W.blocks = new /\ W.confs = co /\ W.fault = bad
  BY <1>10, PartsOf
<1>21. Unread(new, g + 1)
  <2>1. ASSUME NEW b \in BlockIds, b[2] >= g + 1 PROVE new[b] = None
    <3>1. b[2] # g /\ b[2] >= g
      BY <1>7, <1>8, <2>1
    <3>. QED
      BY <1>5, <1>9, <3>1, <1>7
  <2>. QED
    BY <2>1 DEF Unread
<1>. QED
  BY <1>2, <1>19, <1>20, <1>21 DEF W

\* check_class keeps the heap right, and leaves the other classes alone.
LEMMA ClassCheckedKeeps ==
    ASSUME NEW H, NEW ad, HeapRight(H, ad), NEW k \in ClassIds,
           Alive(H.classes[k]), H.classes[k].limits.max < 0
    PROVE  /\ HeapRight(ClassChecked(H, k), ad)
           /\ ClassChecked(H, k).blocks = H.blocks
           /\ ClassChecked(H, k).confs = H.confs
           /\ \A m \in ClassIds : m # k => ClassChecked(H, k).classes[m] = H.classes[m]
<1>1. PICK cl \in ClassMaps, items \in Seq(ClassIds), bl \in BlockMaps, co \in ConfMaps,
           bad \in BOOLEAN :
              /\ H = HeapOfParts(cl, items, bl, co, bad)
              /\ ConfsRight(co, bl, ad) /\ CountsRight(co, bl, bad)
              /\ PlacesRight(cl, co, bl, ad) /\ ClassesThere(cl, bl) /\ ItemsRight(cl, items)
  BY HeapParts
<1>2. H.classes = cl /\ H.items = items /\ H.blocks = bl /\ H.confs = co /\ H.fault = bad
  BY <1>1, PartsOf
<1>. DEFINE W == ClassChecked(H, k)
            K == [cl[k] EXCEPT !.cidr = NoCidr]
            empty == [cl EXCEPT ![k] = K]
            gone == [cl EXCEPT ![k] = Freed]
            it2 == Unlinked(items, k)
<1>3. Alive(cl[k]) /\ cl[k].limits.max < 0 /\ cl[k] \in ClassRecords
  BY <1>2, HeapAssumption DEF ClassMaps, Alive
<1>4. CASE cl[k].curr_user_count > 0
  <2>1. W = GivenClasses(H, empty, it2)
    BY <1>2, <1>4 DEF ClassChecked, GivenClasses
  <2>2. /\ K \in ClassRecords /\ K.limits = cl[k].limits /\ K.cidr = NoCidr
        /\ K.curr_user_count = cl[k].curr_user_count
    BY <1>3, CidrFacts, EmptyClass
  <2>3. empty = [cl EXCEPT ![k] = K] /\ \A m \in ClassIds : empty[m] = IF m = k THEN K ELSE cl[m]
    BY DEF ClassMaps
  <2>. HIDE DEF empty, K, it2
  <2>4. empty \in ClassMaps /\ ClassesThere(empty, bl) /\ ItemsRight(empty, items)
    BY <1>1, <1>3, <2>2, <2>3, ClassChanged
  <2>5. PlacesRight(empty, co, bl, ad)
    <3>1. ASSUME NEW m \in ClassIds, Alive(empty[m])
          PROVE  ClassRight(empty[m], UsersIn(co, bl, m), ad)
      <4>1. CASE m = k
        <5>1. ClassRight(cl[k], UsersIn(co, bl, k), ad)
          BY <1>1, <1>3 DEF PlacesRight
        <5>. DEFINE U == UsersIn(co, bl, k)
        <5>2. K.curr_user_count <= Cardinality(U)
          BY <2>2, <5>1 DEF ClassRight
        <5>3. DOMAIN K.cidr = {}
          BY <1>3, <2>2, ClassFacts, EmptyClass
        <5>. HIDE DEF U
        <5>4. ClassRight(K, U, ad)
          BY <5>2, <5>3 DEF ClassRight
        <5>. QED
          BY <2>3, <4>1, <5>4 DEF U
      <4>2. CASE m # k
        BY <1>1, <2>3, <3>1, <4>2 DEF PlacesRight
      <4>. QED
        BY <4>1, <4>2
    <3>. QED
      BY <3>1 DEF PlacesRight
  <2>6. /\ it2 \in Seq(ClassIds) /\ Once(it2) /\ Queued(it2) \subseteq Queued(items) \ {k}
        /\ \A x, y : Before(it2, x, y) => Before(items, x, y)
    BY <2>4, UnlinkedItems DEF ItemsRight, it2
  <2>7. ItemsRight(empty, it2)
    BY <2>4, <2>6 DEF ItemsRight
  <2>8. W = HeapOfParts(empty, it2, bl, co, bad)
    BY <1>1, <2>1, GivenClassesParts
  <2>. HIDE DEF W
  <2>9. HeapRight(W, ad)
    BY <1>1, <2>4, <2>5, <2>6, <2>7, <2>8, PartsRight
  <2>10. W.classes = empty /\ W.blocks = bl /\ W.confs = co
    BY <2>8, PartsOf
  <2>. QED
    BY <1>2, <2>3, <2>9, <2>10 DEF W
<1>5. CASE ~(cl[k].curr_user_count > 0)
  <2>1. W = ClassFreed(H, k)
    BY <1>2, <1>5 DEF ClassChecked
  <2>2. FreedIn(cl, k, gone) /\ gone = [cl EXCEPT ![k] = Freed]
        /\ \A m \in ClassIds : gone[m] = IF m = k THEN Freed ELSE cl[m]
    BY DEF FreedIn, ClassMaps
  <2>3. W = HeapOfParts(gone, it2, bl, co, bad)
    BY <1>1, <2>1, <2>2, ClassFreedParts
  <2>. HIDE DEF gone, W
  <2>4. /\ gone \in ClassMaps /\ ClassesThere(gone, bl)
        /\ it2 \in Seq(ClassIds) /\ ItemsRight(gone, it2)
    BY <1>1, <1>3, <2>2, ClassGone
  <2>. HIDE DEF it2
  <2>5. PlacesRight(gone, co, bl, ad)
    BY <1>1, <2>2 DEF PlacesRight, Alive
  <2>6. HeapRight(W, ad)
    BY <1>1, <2>3, <2>4, <2>5, PartsRight
  <2>7. W.classes = gone /\ W.blocks = bl /\ W.confs = co
    BY <2>3, PartsOf
  <2>. QED
    BY <1>2, <2>2, <2>6, <2>7 DEF W
<1>. QED
  BY <1>4, <1>5

\* check_class for all the marked classes.
LEMMA ClassesCheckedKeeps ==
    ASSUME NEW H, NEW ad, HeapRight(H, ad)
    PROVE  /\ HeapRight(ClassesChecked(H), ad)
           /\ ClassesChecked(H).blocks = H.blocks
           /\ ClassesChecked(H).confs = H.confs
<1>. DEFINE marked == {k \in ToSet(H.items) : H.classes[k].limits.max < 0}
            N == Cardinality(marked)
            order == InOrder(marked)
            Step == [x \in HeapStates \X (1 .. N) |-> ClassChecked(x[1], order[x[2]])]
            V == [n \in 0 .. N |->
                     {U \in HeapStates :
                         /\ HeapRight(U, ad) /\ U.blocks = H.blocks /\ U.confs = H.confs
                         /\ \A k \in ClassIds : k \notin {order[i] : i \in 1 .. n} =>
                               U.classes[k] = H.classes[k]}]
            Def(h) == [n \in 0 .. N |-> IF n = 0 THEN H ELSE ClassChecked(h[n - 1], order[n])]
<1>0. /\ H \in HeapStates /\ IsFiniteSet(marked)
      /\ \A k \in marked : k \in ClassIds /\ Alive(H.classes[k]) /\ H.classes[k].limits.max < 0
  <2>1. H \in HeapStates /\ H.items \in Seq(ClassIds) /\ ItemsRight(H.classes, H.items)
    BY HeapFacts DEF HeapRight
  <2>2. \A k \in marked : k \in Queued(H.items)
    BY DEF ToSet, Queued
  <2>3. \A k \in marked : k \in ClassIds /\ Alive(H.classes[k])
    BY <2>1, <2>2 DEF ItemsRight, Queued
  <2>4. marked \in SUBSET ClassIds
    BY <2>3
  <2>. QED
    BY <2>1, <2>3, <2>4, BlockIdsFinite, FS_Subset
<1>1. /\ N \in Nat /\ order \in [1 .. N -> marked]
      /\ \A i, j \in 1 .. N : order[i] = order[j] => i = j
  BY <1>0, InOrderProperties
<1>. HIDE DEF N, order, marked
<1>2. H \in V[0]
  <2>1. 0 \in 0 .. N
    BY <1>1
  <2>. QED
    BY <1>0, <2>1
<1>3. ASSUME NEW n \in 1 .. N, NEW U \in V[n - 1]
      PROVE  /\ ClassChecked(U, order[n]) \in V[n]
             /\ Step[<<U, n>>] = ClassChecked(U, order[n])
  <2>1. n - 1 \in 0 .. N /\ n \in 0 .. N /\ 1 .. n = (1 .. n - 1) \cup {n}
    BY <1>1
  <2>2. /\ U \in HeapStates /\ HeapRight(U, ad) /\ U.blocks = H.blocks /\ U.confs = H.confs
        /\ \A k \in ClassIds : k \notin {order[i] : i \in 1 .. n - 1} =>
              U.classes[k] = H.classes[k]
    BY <2>1
  <2>. DEFINE W == ClassChecked(U, order[n])
  <2>3. order[n] \in marked /\ order[n] \in ClassIds /\ order[n] \notin {order[i] : i \in 1 .. n - 1}
    BY <1>0, <1>1
  <2>4. Alive(U.classes[order[n]]) /\ U.classes[order[n]].limits.max < 0
    BY <1>0, <2>2, <2>3
  <2>5. /\ HeapRight(W, ad) /\ W.blocks = U.blocks /\ W.confs = U.confs
        /\ \A m \in ClassIds : m # order[n] => W.classes[m] = U.classes[m]
    BY <2>2, <2>3, <2>4, ClassCheckedKeeps
  <2>6. Step[<<U, n>>] = W
    BY <2>2
  <2>. HIDE DEF W
  <2>7. {order[i] : i \in 1 .. n} = {order[i] : i \in 1 .. n - 1} \cup {order[n]}
    BY <2>1
  <2>8. \A k \in ClassIds : k \notin {order[i] : i \in 1 .. n} => W.classes[k] = H.classes[k]
    BY <2>2, <2>5, <2>7
  <2>9. W \in V[n]
    BY <2>1, <2>2, <2>5, <2>8 DEF HeapRight
  <2>. QED
    BY <2>6, <2>9 DEF W
<1>. HIDE DEF V, Step
<1>4. \E h : h = Def(h)
  <2>1. N \in Nat /\ Stays(N, V, H, Step)
    BY <1>1, <1>2, <1>3 DEF Stays
  <2>2. PICK h : Goes(h, N, V, H, Step)
    BY <2>1, RecursionUpTo
  <2>3. /\ h = [n \in 0 .. N |-> h[n]] /\ h[0] = H
        /\ \A n \in 1 .. N : h[n] = Step[<<h[n - 1], n>>]
        /\ \A n \in 0 .. N : h[n] \in V[n]
    BY <2>2 DEF Goes
  <2>4. ASSUME NEW n \in 1 .. N PROVE h[n] = ClassChecked(h[n - 1], order[n])
    <3>1. n - 1 \in 0 .. N
      BY <1>1
    <3>2. h[n - 1] \in V[n - 1]
      BY <2>3, <3>1
    <3>. QED
      BY <1>3, <2>3, <3>2
  <2>5. \A n \in 0 .. N : n # 0 => n \in 1 .. N
    BY <1>1
  <2>6. h = Def(h)
    BY <2>3, <2>4, <2>5
  <2>. QED
    BY <2>6
<1>. DEFINE left == CHOOSE h : h = Def(h)
<1>5. left = Def(left)
  BY <1>4
<1>6. ClassesChecked(H) = left[N]
  BY DEF ClassesChecked, N, order, marked
<1>. HIDE DEF left
<1>7. left[N] \in V[N]
  <2>1. left[0] = H /\ \A n \in 1 .. N : left[n] = ClassChecked(left[n - 1], order[n])
    BY <1>1, <1>5
  <2>2. \A n \in 1 .. N : left[n - 1] \in V[n - 1] => left[n] \in V[n]
    BY <1>3, <2>1
  <2>. QED
    BY <1>1, <1>2, <2>1, <2>2, HoldsAtLast
<1>8. N \in 0 .. N
  BY <1>1
<1>. QED
  BY <1>6, <1>7, <1>8 DEF V

-----------------------------------------------------------------------------
(* Users and their addresses *)

\* c moves between states in which it is no user, or both times the same one.
LEMMA UserMoves ==
    ASSUME NEW st, NEW ad, NEW ih, NEW n, UsersCounted(st, ad, ih, n),
           NEW c \in Clients, NEW s \in Statuses, IsUser(s) <=> IsUser(st[c]),
           NEW a2 \in Addresses \cup {None}, IsUser(s) => a2 = ad[c],
           s \in {"unknown", "captured", "client", "oper"} => a2 \in Addresses,
           NEW st2, st2 = [st EXCEPT ![c] = s], NEW ad2, ad2 = [ad EXCEPT ![c] = a2]
    PROVE  UsersCounted(st2, ad2, ih, n)
<1>1. /\ st2 \in [Clients -> Statuses] /\ ad2 \in [Clients -> Addresses \cup {None}]
      /\ \A x \in Clients : /\ st2[x] = IF x = c THEN s ELSE st[x]
                            /\ ad2[x] = IF x = c THEN a2 ELSE ad[x]
  BY DEF UsersCounted
<1>2. ih = {x \in Clients : IsUser(st2[x])}
  BY <1>1 DEF UsersCounted
<1>3. \A a : UsersAt(st2, ad2, a) = UsersAt(st, ad, a)
  BY <1>1 DEF UsersAt
<1>4. \A x \in Clients : st2[x] \in {"unknown", "captured", "client", "oper"} =>
                            ad2[x] \in Addresses
  BY <1>1 DEF UsersCounted
<1>. QED
  BY <1>1, <1>2, <1>3, <1>4 DEF UsersCounted

\* c becomes a user.
LEMMA UserCounted ==
    ASSUME NEW st, NEW ad, NEW ih, NEW n, UsersCounted(st, ad, ih, n),
           NEW c \in Clients, st[c] = "unknown",
           NEW st2, st2 = [st EXCEPT ![c] = "client"],
           NEW n2, n2 = [n EXCEPT ![ad[c]] = n[ad[c]] + 1]
    PROVE  UsersCounted(st2, ad, ih \cup {c}, n2)
<1>1. /\ st2 \in [Clients -> Statuses]
      /\ \A x \in Clients : st2[x] = IF x = c THEN "client" ELSE st[x]
  BY DEF UsersCounted, Statuses
<1>2. ad[c] \in Addresses
  BY DEF UsersCounted
<1>3. /\ n2 \in [Addresses -> Nat]
      /\ \A a \in Addresses : n2[a] = IF a = ad[c] THEN n[a] + 1 ELSE n[a]
  BY <1>2 DEF UsersCounted
<1>4. ASSUME NEW a \in Addresses PROVE n2[a] = Cardinality(UsersAt(st2, ad, a))
  <2>1. c \notin UsersAt(st, ad, a) /\ UsersAt(st, ad, a) \in SUBSET Clients
    BY DEF UsersAt, IsUser
  <2>2. UsersAt(st2, ad, a) = IF a = ad[c] THEN UsersAt(st, ad, a) \cup {c}
                              ELSE UsersAt(st, ad, a)
    BY <1>1 DEF UsersAt, IsUser
  <2>3. n[a] = Cardinality(UsersAt(st, ad, a))
    BY DEF UsersCounted
  <2>. QED
    BY <1>3, <2>1, <2>2, <2>3, ClientSets
<1>5. ih \cup {c} = {x \in Clients : IsUser(st2[x])}
  BY <1>1 DEF UsersCounted, IsUser
<1>6. \A x \in Clients : st2[x] \in {"unknown", "captured", "client", "oper"} =>
                            ad[x] \in Addresses
  BY <1>1 DEF UsersCounted
<1>7. ad \in [Clients -> Addresses \cup {None}]
  BY DEF UsersCounted
<1>. QED
  BY <1>1, <1>3, <1>4, <1>5, <1>6, <1>7 DEF UsersCounted

\* c is gone.
LEMMA UserGone ==
    ASSUME NEW st, NEW ad, NEW ih, NEW n, UsersCounted(st, ad, ih, n),
           NEW c \in Clients,
           NEW st2, st2 = [st EXCEPT ![c] = "none"],
           NEW ad2, ad2 = [ad EXCEPT ![c] = None],
           NEW n2, n2 = IF c \in ih THEN [n EXCEPT ![ad[c]] = @ - 1] ELSE n
    PROVE  UsersCounted(st2, ad2, ih \ {c}, n2)
<1>1. /\ st2 \in [Clients -> Statuses] /\ ad2 \in [Clients -> Addresses \cup {None}]
      /\ \A x \in Clients : /\ st2[x] = IF x = c THEN "none" ELSE st[x]
                            /\ ad2[x] = IF x = c THEN None ELSE ad[x]
  BY DEF UsersCounted, Statuses
<1>2. c \in ih <=> IsUser(st[c])
  BY DEF UsersCounted
<1>3. IsUser(st[c]) => ad[c] \in Addresses
  BY DEF UsersCounted, IsUser
<1>4. /\ DOMAIN n2 = Addresses
      /\ \A a \in Addresses : n2[a] = IF IsUser(st[c]) /\ a = ad[c] THEN n[a] - 1 ELSE n[a]
  BY <1>2, <1>3 DEF UsersCounted
<1>5. ASSUME NEW a \in Addresses
      PROVE  n2[a] = Cardinality(UsersAt(st2, ad2, a)) /\ n2[a] \in Nat
  <2>1. UsersAt(st, ad, a) \in SUBSET Clients
        /\ (c \in UsersAt(st, ad, a) <=> IsUser(st[c]) /\ a = ad[c])
    BY DEF UsersAt
  <2>2. UsersAt(st2, ad2, a) = UsersAt(st, ad, a) \ {c}
    BY <1>1 DEF UsersAt, IsUser
  <2>3. n[a] = Cardinality(UsersAt(st, ad, a))
    BY DEF UsersCounted
  <2>4. UsersAt(st2, ad2, a) \in SUBSET Clients
    BY DEF UsersAt
  <2>. DEFINE U == UsersAt(st, ad, a)
  <2>5. Cardinality(U \ {c}) = IF c \in U THEN Cardinality(U) - 1 ELSE Cardinality(U)
    BY <2>1, ClientSets
  <2>6. Cardinality(UsersAt(st2, ad2, a)) \in Nat
    BY <2>4, ClientSets
  <2>7. n2[a] = IF c \in U THEN n[a] - 1 ELSE n[a]
    BY <1>4, <2>1
  <2>8. Cardinality(UsersAt(st2, ad2, a)) = IF c \in U THEN n[a] - 1 ELSE n[a]
    BY <2>2, <2>3, <2>5
  <2>. QED
    BY <2>6, <2>7, <2>8
<1>6. n2 \in [Addresses -> Nat]
  <2>1. n2 = [a \in Addresses |-> n2[a]]
    BY DEF UsersCounted
  <2>. HIDE DEF UsersCounted
  <2>. QED
    BY <1>5, <2>1
<1>7. ih \ {c} = {x \in Clients : IsUser(st2[x])}
  BY <1>1 DEF UsersCounted, IsUser
<1>8. \A x \in Clients : st2[x] \in {"unknown", "captured", "client", "oper"} =>
                            ad2[x] \in Addresses
  BY <1>1 DEF UsersCounted
<1>. QED
  BY <1>1, <1>5, <1>6, <1>7, <1>8 DEF UsersCounted

-----------------------------------------------------------------------------
(* The steps *)

\* The heap after a step.
LEMMA HeapSet ==
    ASSUME NEW H, NEW ad, HeapRight(H, ad), SetHeap(H)
    PROVE  Heap' = H /\ blocks' = H.blocks /\ confs' = H.confs
<1>1. H \in HeapStates
  BY DEF HeapRight
<1>2. H = [classes |-> H.classes, items |-> H.items, blocks |-> H.blocks,
           confs |-> H.confs, fault |-> H.fault]
  BY <1>1, HeapFacts
<1>. QED
  BY <1>2 DEF SetHeap, Heap

\* The parts of the heap as it is.
LEMMA HeapNow ==
    /\ Heap.classes = classes /\ Heap.items = class_items /\ Heap.blocks = blocks
    /\ Heap.confs = confs /\ Heap.fault = fault
BY DEF Heap

\* A step that leads to the heap H, and reads no file.
LEMMA StepRight ==
    ASSUME BlocksRight, NEW H, HeapRight(H, ip'), SetHeap(H),
           \A x \in BlockIds : blocks[x] = None => H.blocks[x] = None,
           UNCHANGED <<file, gen>>, dns' \subseteq dns,
           UsersCounted(status', ip', iphash', count'), AttachedIn(status', H.confs)
    PROVE  BlocksRight'
<1>1. Heap' = H /\ blocks' = H.blocks /\ confs' = H.confs
  BY HeapSet
<1>2. Unread(blocks', gen' + 1)
  BY <1>1 DEF BlocksRight, Unread
<1>3. HeapRight(Heap', ip')
  BY <1>1
<1>. QED
  BY <1>1, <1>2, <1>3 DEF BlocksRight

\* What a connection that is not here, or no user, is attached to.
LEMMA ConfsNow ==
    ASSUME BlocksRight, NEW c \in Clients
    PROVE  /\ confs \in ConfMaps /\ confs[c] \subseteq BlockIds
           /\ status[c] \in {"none", "unknown", "captured"} => confs[c] = {}
           /\ ~IsUser(status[c]) => \A b \in confs[c] : b[1] # "auth"
<1>1. confs \in ConfMaps
  BY HeapFacts, HeapNow DEF BlocksRight, HeapRight
<1>. QED
  BY <1>1 DEF BlocksRight, AttachedIn, ConfMaps

\* Types of the state; a block in use is there and is not illegal.
LEMMA UsableNow ==
    ASSUME BlocksRight
    PROVE  /\ ip \in [Clients -> Addresses \cup {None}] /\ status \in [Clients -> Statuses]
           /\ gen \in Gens /\ gen \in Nat
           /\ \A type \in Types : Current(type) \in BlockIds
           /\ \A b \in BlockIds : Usable(b) => Alive(Heap.blocks[b]) /\ ~Heap.blocks[b].illegal
           /\ \A b \in BlockIds : blocks[b] = None => Heap.blocks[b] = None
BY ConfBlocksAssumption DEF BlocksRight, UsersCounted, Gens, Current, BlockIds, Usable, Heap

\* A connection comes in: nothing is attached to it yet.
LEMMA AcceptedKeeps ==
    ASSUME BlocksRight, NEW c \in Clients, NEW a \in Addresses, Accept(c, a)
    PROVE  BlocksRight'
<1>. DEFINE st2 == [status EXCEPT ![c] = "unknown"]
            ad2 == [ip EXCEPT ![c] = a]
<1>1. /\ status' = st2 /\ ip' = ad2 /\ iphash' = iphash /\ count' = count
      /\ UNCHANGED <<file, gen>> /\ dns' = dns /\ SetHeap(Heap) /\ status[c] = "none"
  BY HeapNow DEF Accept, SetHeap
<1>2. UsersCounted(st2, ad2, iphash, count)
  BY <1>1, UserMoves DEF BlocksRight, Statuses, IsUser
<1>3. \A x \in Clients : confs[x] # {} => ad2[x] = ip[x]
  BY <1>1, ConfsNow, UsableNow
<1>4. HeapRight(Heap, ad2)
  <2>1. HeapRight(Heap, ip) /\ Heap.confs = confs
    BY HeapNow DEF BlocksRight
  <2>. HIDE DEF ad2
  <2>. QED
    BY <1>3, <2>1, AddressChanged
<1>5. AttachedIn(st2, confs)
  BY <1>1, ConfsNow, UsableNow DEF AttachedIn, BlocksRight
<1>. HIDE DEF st2, ad2
<1>. QED
  BY <1>1, <1>2, <1>4, <1>5, HeapNow, UsableNow, StepRight

\* An auth block is not there before c is a user, and a user has one of them.
LEMMA RegisterKeeps ==
    ASSUME BlocksRight, NEW c \in Clients, Register(c)
    PROVE  BlocksRight'
<1>. DEFINE b == Current("auth")
            n == count[ip[c]] + 1
            to(s) == [status EXCEPT ![c] = s]
<1>1. /\ UNCHANGED <<file, gen>> /\ dns' = dns /\ status[c] = "unknown"
      /\ ip[c] \in Addresses /\ b \in BlockIds /\ HeapRight(Heap, ip)
  BY UsableNow DEF Register, BlocksRight, UsersCounted, Types
<1>2. CASE status' = to("captured") /\ SetHeap(Heap) /\ UNCHANGED <<ip, iphash, count>>
  <2>. DEFINE st2 == to("captured")
  <2>1. UsersCounted(st2, ip, iphash, count)
    <3>1. ip = [ip EXCEPT ![c] = ip[c]]
      BY UsableNow
    <3>. QED
      BY <1>1, <3>1, UserMoves DEF BlocksRight, Statuses, IsUser
  <2>2. AttachedIn(st2, confs)
    BY <1>1, ConfsNow, UsableNow DEF AttachedIn, BlocksRight, IsUser
  <2>. HIDE DEF st2
  <2>. QED
    BY <1>1, <1>2, <2>1, <2>2, HeapNow, UsableNow, StepRight DEF st2
<1>3. CASE /\ status' = to("none") /\ SetHeap(Heap) /\ UNCHANGED <<iphash, count>>
           /\ ip' = [ip EXCEPT ![c] = None]
  <2>. DEFINE st2 == to("none")
              ad2 == [ip EXCEPT ![c] = None]
  <2>1. UsersCounted(st2, ad2, iphash, count)
    BY <1>1, UserMoves DEF BlocksRight, Statuses, IsUser
  <2>2. AttachedIn(st2, confs)
    BY <1>1, ConfsNow, UsableNow DEF AttachedIn, BlocksRight, IsUser
  <2>3. \A x \in Clients : Heap.confs[x] # {} => ad2[x] = ip[x]
    BY <1>1, ConfsNow, UsableNow, HeapNow
  <2>4. HeapRight(Heap, ad2)
    <3>. HIDE DEF ad2
    <3>. QED
      BY <1>1, <2>3, AddressChanged
  <2>. HIDE DEF st2, ad2
  <2>. QED
    BY <1>1, <1>3, <2>1, <2>2, <2>4, HeapNow, UsableNow, StepRight DEF st2, ad2
<1>4. CASE /\ Usable(b) /\ ~Refuses(Heap, c, b) /\ SetHeap(Attached(Heap, c, b))
           /\ status' = to("client") /\ iphash' = iphash \cup {c}
           /\ count' = [count EXCEPT ![ip[c]] = n] /\ UNCHANGED ip
  <2>. DEFINE st2 == to("client")
              n2 == [count EXCEPT ![ip[c]] = n]
              H == Attached(Heap, c, b)
  <2>1. UsersCounted(st2, ip, iphash \cup {c}, n2)
    BY <1>1, UserCounted DEF BlocksRight
  <2>2. /\ HeapRight(H, ip)
        /\ H.confs = [confs EXCEPT ![c] = @ \cup {b}]
        /\ \A x \in BlockIds : H.blocks[x] = None <=> blocks[x] = None
    <3>1. /\ Alive(Heap.blocks[b]) /\ ~Heap.blocks[b].illegal /\ Heap.confs = confs
          /\ Heap.blocks = blocks /\ confs[c] = {}
      BY <1>1, <1>4, UsableNow, HeapNow, ConfsNow
    <3>2. b \notin Heap.confs[c] /\ \A x \in Heap.confs[c] : x[1] # "auth"
      BY <3>1
    <3>. QED
      BY <1>1, <3>1, <3>2, AttachKeeps
  <2>3. AttachedIn(st2, H.confs)
    BY <1>1, <2>2, ConfsNow, UsableNow DEF AttachedIn, BlocksRight, IsUser, ConfMaps
  <2>. HIDE DEF st2, n2, H
  <2>. QED
    BY <1>1, <1>4, <2>1, <2>2, <2>3, StepRight DEF st2, n2, H
<1>. QED
  BY <1>2, <1>3, <1>4 DEF Register

\* H is the heap, but that c may be attached to more blocks, none an auth block.
MoreAttached(H, c) ==
    /\ HeapRight(H, ip)
    /\ \A x \in BlockIds : /\ H.blocks[x] = None <=> blocks[x] = None
                           /\ Alive(blocks[x]) => Alive(H.blocks[x])
    /\ \A x \in Clients : /\ x # c => H.confs[x] = confs[x]
                          /\ \A y \in H.confs[x] : y[1] = "auth" => y \in confs[x]

\* The heap as it is is one of them.
LEMMA AttachedNow ==
    ASSUME BlocksRight, NEW c \in Clients
    PROVE  MoreAttached(Heap, c)
<1>1. Heap.confs = confs /\ Heap.blocks = blocks /\ HeapRight(Heap, ip)
  BY HeapNow DEF BlocksRight
<1>. QED
  BY <1>1 DEF MoreAttached

\* One more block is attached, no auth block.
LEMMA OtherAttached ==
    ASSUME BlocksRight, NEW c \in Clients, NEW H, MoreAttached(H, c), NEW b \in BlockIds,
           Usable(b), b \notin H.confs[c], b[1] # "auth",
           NEW G, G = Attached(H, c, b)
    PROVE  MoreAttached(G, c)
<1>0. /\ HeapRight(H, ip) /\ Alive(H.blocks[b])
      /\ \A x \in BlockIds : /\ H.blocks[x] = None <=> blocks[x] = None
                             /\ Alive(blocks[x]) => Alive(H.blocks[x])
      /\ \A x \in Clients : /\ x # c => H.confs[x] = confs[x]
                            /\ \A y \in H.confs[x] : y[1] = "auth" => y \in confs[x]
  BY DEF MoreAttached, Usable
<1>1. /\ HeapRight(G, ip) /\ G.confs = [H.confs EXCEPT ![c] = @ \cup {b}]
      /\ \A x \in BlockIds : /\ G.blocks[x] = None <=> H.blocks[x] = None
                             /\ Alive(H.blocks[x]) => Alive(G.blocks[x])
  BY <1>0, AttachKeeps
<1>2. H.confs \in ConfMaps
  BY <1>0, HeapFacts DEF HeapRight
<1>3. \A x \in Clients : G.confs[x] = IF x = c THEN H.confs[c] \cup {b} ELSE H.confs[x]
  BY <1>1, <1>2 DEF ConfMaps
<1>. QED
  BY <1>0, <1>1, <1>3 DEF MoreAttached

\* c moves on, with the attachments co, and stays what it is with them.
LEMMA ConnectionMoves ==
    ASSUME BlocksRight, NEW c \in Clients, NEW s \in Statuses,
           s \notin {"none", "unknown", "captured"},
           IsUser(s) <=> IsUser(status[c]),
           NEW co, \A x \in Clients : /\ x # c => co[x] = confs[x]
                                      /\ \A y \in co[x] : y[1] = "auth" => y \in confs[x],
           NEW st2, st2 = [status EXCEPT ![c] = s]
    PROVE  UsersCounted(st2, ip, iphash, count) /\ AttachedIn(st2, co)
<1>1. ip = [ip EXCEPT ![c] = ip[c]] /\ ip[c] \in Addresses \cup {None}
  BY UsableNow
<1>2. IsUser(s) => ip[c] \in Addresses
  BY DEF BlocksRight, UsersCounted, IsUser
<1>3. UsersCounted(st2, ip, iphash, count)
  <2>. DEFINE a == ip[c]
  <2>1. /\ UsersCounted(status, ip, iphash, count) /\ a \in Addresses \cup {None}
        /\ IsUser(s) => a = ip[c]
        /\ s \in {"unknown", "captured", "client", "oper"} => a \in Addresses
    BY <1>1, <1>2 DEF BlocksRight, IsUser
  <2>2. PICK ad2 : ad2 = [ip EXCEPT ![c] = a]
    OBVIOUS
  <2>3. ad2 = ip
    BY <1>1, <2>2
  <2>. HIDE DEF a
  <2>4. UsersCounted(st2, ad2, iphash, count)
    BY <2>1, <2>2, UserMoves
  <2>. QED
    BY <2>3, <2>4
<1>4. AttachedIn(st2, co)
  <2>1. \A x \in Clients : st2[x] = IF x = c THEN s ELSE status[x]
    BY UsableNow
  <2>2. \A x \in Clients : IsUser(st2[x]) <=> IsUser(status[x])
    BY <2>1
  <2>3. ASSUME NEW x \in Clients, st2[x] \in {"none", "unknown", "captured"}
        PROVE  co[x] = {}
    BY <2>1, <2>3 DEF BlocksRight, AttachedIn
  <2>4. ASSUME NEW x \in Clients, NEW y \in co[x], y[1] = "auth"
        PROVE  IsUser(st2[x])
    BY <2>2, <2>4 DEF BlocksRight, AttachedIn
  <2>. QED
    BY <2>3, <2>4 DEF AttachedIn
<1>. QED
  BY <1>3, <1>4

\* c moves on and the heap is H.
LEMMA MovesOn ==
    ASSUME BlocksRight, NEW c \in Clients, NEW H, MoreAttached(H, c), SetHeap(H),
           UNCHANGED <<file, gen, ip, iphash, count>>, dns' = dns,
           NEW s \in Statuses \ {"none", "unknown", "captured"},
           IsUser(s) <=> IsUser(status[c]), status' = [status EXCEPT ![c] = s]
    PROVE  BlocksRight'
<1>. DEFINE st2 == [status EXCEPT ![c] = s]
<1>1. /\ HeapRight(H, ip) /\ \A x \in BlockIds : H.blocks[x] = None <=> blocks[x] = None
      /\ \A x \in Clients : /\ x # c => H.confs[x] = confs[x]
                            /\ \A y \in H.confs[x] : y[1] = "auth" => y \in confs[x]
  BY DEF MoreAttached
<1>2. UsersCounted(st2, ip, iphash, count) /\ AttachedIn(st2, H.confs)
  BY <1>1, ConnectionMoves
<1>3. status' = st2
  OBVIOUS
<1>. HIDE DEF st2
<1>. QED
  BY <1>1, <1>2, <1>3, StepRight

\* OPER attaches the oper block.
LEMMA OperKeeps ==
    ASSUME BlocksRight, NEW c \in Clients, Oper(c)
    PROVE  BlocksRight'
<1>. DEFINE b == Current("oper")
            H == Attached(Heap, c, b)
<1>1. /\ UNCHANGED <<file, gen, ip, iphash, count>> /\ dns' = dns /\ status[c] = "client"
      /\ Usable(b) /\ ~Refuses(Heap, c, b) /\ SetHeap(H)
      /\ status' = [status EXCEPT ![c] = "oper"]
  BY DEF Oper
<1>2. b \in BlockIds /\ b[1] = "oper" /\ b \notin Heap.confs[c]
  BY <1>1, UsableNow DEF Types, Refuses, Current
<1>. HIDE DEF b
<1>3. MoreAttached(H, c)
  BY <1>1, <1>2, AttachedNow, OtherAttached
<1>. HIDE DEF H
<1>. QED
  BY <1>1, <1>3, MovesOn DEF Statuses, IsUser

\* serv_connect attaches the connect block.
LEMMA ConnectKeeps ==
    ASSUME BlocksRight, NEW c \in Clients, Connect(c)
    PROVE  BlocksRight'
<1>. DEFINE b == Current("server")
            H == Attached(Heap, c, b)
<1>1. /\ UNCHANGED <<file, gen, ip, iphash, count>> /\ dns' = dns /\ status[c] = "none"
      /\ Usable(b) /\ SetHeap(H) /\ status' = [status EXCEPT ![c] = "connecting"]
  BY DEF Connect
<1>2. b \in BlockIds /\ b[1] = "server" /\ b \notin Heap.confs[c]
  BY <1>1, UsableNow, HeapNow, ConfsNow DEF Types, Current
<1>. HIDE DEF b
<1>3. MoreAttached(H, c)
  BY <1>1, <1>2, AttachedNow, OtherAttached
<1>. HIDE DEF H
<1>. QED
  BY <1>1, <1>3, MovesOn DEF Statuses, IsUser

\* The end of a connection.
LEMMA ExitedKeeps ==
    ASSUME BlocksRight, NEW c \in Clients, Exited(Heap, c), UNCHANGED <<file, gen, dns>>
    PROVE  BlocksRight'
<1>. DEFINE H == DetachedAll(Heap, c)
            st2 == [status EXCEPT ![c] = "none"]
            ad2 == [ip EXCEPT ![c] = None]
            n2 == IF c \in iphash THEN [count EXCEPT ![ip[c]] = @ - 1] ELSE count
<1>1. /\ SetHeap(H) /\ status' = st2 /\ ip' = ad2 /\ iphash' = iphash \ {c} /\ count' = n2
  BY DEF Exited
<1>2. /\ HeapRight(H, ip)
      /\ \A x \in Clients : H.confs[x] = IF x = c THEN {} ELSE confs[x]
      /\ \A x \in BlockIds : H.blocks[x] = None <=> blocks[x] = None
  <2>1. HeapRight(Heap, ip) /\ Heap.confs = confs /\ Heap.blocks = blocks
    BY HeapNow DEF BlocksRight
  <2>. QED
    BY <2>1, DetachedAllKeeps
<1>3. UsersCounted(st2, ad2, iphash \ {c}, n2)
  BY UserGone DEF BlocksRight
<1>. HIDE DEF H
<1>4. \A x \in Clients : /\ ad2[x] = IF x = c THEN None ELSE ip[x]
                         /\ st2[x] = IF x = c THEN "none" ELSE status[x]
  BY UsableNow
<1>5. AttachedIn(st2, H.confs)
  BY <1>2, <1>4 DEF BlocksRight, AttachedIn
<1>. HIDE DEF st2, ad2, n2
<1>6. HeapRight(H, ad2)
  BY <1>2, <1>4, AddressChanged
<1>. QED
  BY <1>1, <1>2, <1>3, <1>5, <1>6, StepRight

\* The connect block and the hub block, one after the other, each if it is
\* there and c has not got it.
LEMMA ServerKeeps ==
    ASSUME BlocksRight, NEW c \in Clients, Server(c)
    PROVE  BlocksRight'
<1>. DEFINE b == Current("server")
            h == Current("hub")
            G == IF Usable(b) /\ ~Refuses(Heap, c, b) THEN Attached(Heap, c, b) ELSE Heap
            H == IF Usable(h) /\ ~Refuses(G, c, h) THEN Attached(G, c, h) ELSE G
<1>1. /\ UNCHANGED <<file, gen>> /\ dns' = dns /\ ~IsUser(status[c])
      /\ \/ /\ SetHeap(H) /\ UNCHANGED <<ip, iphash, count>>
            /\ status' = [status EXCEPT ![c] = "server"]
         \/ Exited(Heap, c)
  BY DEF Server, IsUser
<1>2. CASE Exited(Heap, c)
  BY <1>1, <1>2, ExitedKeeps
<1>3. CASE /\ SetHeap(H) /\ UNCHANGED <<ip, iphash, count>>
           /\ status' = [status EXCEPT ![c] = "server"]
  <2>1. b \in BlockIds /\ h \in BlockIds /\ b[1] = "server" /\ h[1] = "hub"
    BY UsableNow DEF Types, Current
  <2>. HIDE DEF b, h
  <2>2. MoreAttached(G, c)
    <3>1. CASE Usable(b) /\ ~Refuses(Heap, c, b)
      <4>1. b \notin Heap.confs[c] /\ G = Attached(Heap, c, b)
        BY <3>1 DEF Refuses
      <4>. HIDE DEF G
      <4>. QED
        BY <2>1, <3>1, <4>1, AttachedNow, OtherAttached
    <3>2. CASE ~(Usable(b) /\ ~Refuses(Heap, c, b))
      BY <3>2, AttachedNow
    <3>. QED
      BY <3>1, <3>2
  <2>. HIDE DEF G
  <2>3. MoreAttached(H, c)
    <3>1. CASE Usable(h) /\ ~Refuses(G, c, h)
      <4>1. h \notin G.confs[c] /\ H = Attached(G, c, h)
        BY <3>1 DEF Refuses
      <4>. HIDE DEF H
      <4>. QED
        BY <2>1, <2>2, <3>1, <4>1, OtherAttached
    <3>2. CASE ~(Usable(h) /\ ~Refuses(G, c, h))
      BY <2>2, <3>2
    <3>. QED
      BY <3>1, <3>2
  <2>. HIDE DEF H
  <2>. QED
    BY <1>1, <1>3, <2>3, MovesOn DEF Statuses, IsUser
<1>. QED
  BY <1>1, <1>2, <1>3

\* A connection ends.
LEMMA ExitKeeps ==
    ASSUME BlocksRight, NEW c \in Clients, Exit(c)
    PROVE  BlocksRight'
BY ExitedKeeps DEF Exit

\* Of some blocks of one type there is a last.
LEMMA LastOne ==
    ASSUME NEW bs, bs \subseteq BlockIds, bs # {}
    PROVE  \E b \in bs : \A x \in bs : x[2] <= b[2]
<1>. DEFINE S == {MaxRehash - b[2] : b \in bs}
<1>1. \A b \in bs : b[2] \in 0 .. MaxRehash
  BY DEF BlockIds, Gens
<1>2. S \subseteq Nat /\ S # {}
  BY <1>1, ConfBlocksAssumption
<1>3. PICK n \in S : \A m \in S : n <= m
  <2>. HIDE DEF S
  <2>. QED
    BY <1>2, LeastNumber
<1>4. PICK b \in bs : n = MaxRehash - b[2]
  OBVIOUS
<1>5. \A x \in bs : MaxRehash - b[2] <= MaxRehash - x[2]
  BY <1>3, <1>4
<1>. QED
  BY <1>1, <1>4, <1>5, ConfBlocksAssumption

\* MODE -o detaches the oper block that is attached last.
LEMMA DeoperKeeps ==
    ASSUME BlocksRight, NEW c \in Clients, Deoper(c)
    PROVE  BlocksRight'
<1>. DEFINE bs == {b \in Heap.confs[c] : b[1] = "oper"}
            H == DetachedType(Heap, c, "oper")
<1>1. /\ UNCHANGED <<file, gen, ip, iphash, count>> /\ dns' = dns /\ status[c] = "oper"
      /\ SetHeap(H) /\ status' = [status EXCEPT ![c] = "client"]
  BY DEF Deoper
<1>2. Heap.confs = confs /\ Heap.blocks = blocks /\ HeapRight(Heap, ip)
      /\ confs \in ConfMaps /\ bs \subseteq BlockIds
  BY HeapNow, ConfsNow DEF BlocksRight
<1>3. /\ HeapRight(H, ip) /\ \A x \in BlockIds : H.blocks[x] = None <=> blocks[x] = None
      /\ \A x \in Clients : H.confs[x] \subseteq confs[x] /\ (x # c => H.confs[x] = confs[x])
  <2>1. CASE bs = {}
    <3>1. H = Heap
      BY <2>1 DEF DetachedType
    <3>. QED
      BY <1>2, <3>1
  <2>2. CASE bs # {}
    <3>. DEFINE b == CHOOSE b \in bs : \A x \in bs : x[2] <= b[2]
    <3>1. H = Detached(Heap, c, b)
      BY <2>2 DEF DetachedType
    <3>. HIDE DEF H
    <3>2. b \in bs
      <4>. HIDE DEF bs
      <4>. QED
        BY <1>2, <2>2, LastOne
    <3>3. b \in BlockIds /\ b \in Heap.confs[c]
      BY <1>2, <3>2
    <3>. HIDE DEF b, bs
    <3>4. /\ HeapRight(H, ip) /\ WithoutOne(confs, c, b, H.confs)
          /\ \A x \in BlockIds : H.blocks[x] = None <=> blocks[x] = None
      BY <1>2, <3>1, <3>3, DetachKeeps
    <3>. QED
      BY <3>4 DEF WithoutOne
  <2>. QED
    BY <2>1, <2>2
<1>. HIDE DEF H, bs
<1>4. status[c] = "oper" /\ \A x \in Clients : /\ x # c => H.confs[x] = confs[x]
                            /\ \A y \in H.confs[x] : y[1] = "auth" => y \in confs[x]
  BY <1>1, <1>3
<1>5. UsersCounted(status', ip, iphash, count) /\ AttachedIn(status', H.confs)
  BY <1>1, <1>4, ConnectionMoves DEF Statuses, IsUser
<1>. QED
  BY <1>1, <1>3, <1>5, StepRight

\* A connect block may be deleted while somebody is attached to it.
LEMMA ConnectBlockFreed ==
    ASSUME NEW H, NEW ad, HeapRight(H, ad), NEW b \in BlockIds, b[1] = "server",
           Alive(H.blocks[b])
    PROVE  /\ HeapRight(BlockFreed(H, b), ad) /\ BlockFreed(H, b).confs = H.confs
           /\ \A x \in BlockIds : BlockFreed(H, b).blocks[x] = None <=> H.blocks[x] = None
<1>1. PICK cl \in ClassMaps, items \in Seq(ClassIds), bl \in BlockMaps, co \in ConfMaps,
           bad \in BOOLEAN :
              /\ H = HeapOfParts(cl, items, bl, co, bad)
              /\ ConfsRight(co, bl, ad) /\ CountsRight(co, bl, bad)
              /\ PlacesRight(cl, co, bl, ad) /\ ClassesThere(cl, bl) /\ ItemsRight(cl, items)
  BY HeapParts
<1>2. H.classes = cl /\ H.items = items /\ H.blocks = bl /\ H.confs = co /\ H.fault = bad
  BY <1>1, PartsOf
<1>. DEFINE new == [bl EXCEPT ![b] = Freed]
            W == BlockFreed(H, b)
<1>3. W = HeapOfParts(cl, items, new, co, bad)
  <2>1. H = [classes |-> cl, items |-> items, blocks |-> bl, confs |-> co, fault |-> bad]
    BY <1>1 DEF HeapOfParts
  <2>2. W = [H EXCEPT !.blocks = new]
    BY <1>2 DEF BlockFreed
  <2>. HIDE DEF new, W
  <2>. QED
    BY <2>1, <2>2 DEF HeapOfParts
<1>4. new \in BlockMaps /\ \A x \in BlockIds : new[x] = IF x = b THEN Freed ELSE bl[x]
  BY DEF BlockMaps
<1>5. bl[b] # None /\ Freed # None /\ ~Alive(Freed)
  BY <1>2, HeapAssumption DEF Alive
<1>. HIDE DEF new, W
<1>6. \A x \in Clients : co[x] \subseteq BlockIds
  BY DEF ConfMaps
<1>7. ConfsRight(co, new, ad)
  BY <1>1, <1>4, <1>5, <1>6 DEF ConfsRight
<1>8. CountsRight(co, new, bad)
  BY <1>1, <1>4, <1>5 DEF CountsRight, CountRight
<1>9. \A k : UsersIn(co, new, k) = UsersIn(co, bl, k)
  BY <1>4, <1>6 DEF UsersIn
<1>10. PlacesRight(cl, co, new, ad)
  BY <1>1, <1>9 DEF PlacesRight
<1>11. ClassesThere(cl, new)
  BY <1>1, <1>4, <1>5 DEF ClassesThere
<1>12. HeapRight(W, ad)
  BY <1>1, <1>3, <1>4, <1>7, <1>8, <1>10, <1>11, PartsRight
<1>13. W.blocks = new /\ W.confs = co
  BY <1>3, PartsOf
<1>. QED
  BY <1>2, <1>4, <1>5, <1>12, <1>13 DEF W

\* conf_dns_callback may delete the block.
LEMMA DnsAnswerKeeps ==
    ASSUME BlocksRight, NEW b \in BlockIds, DnsAnswer(b)
    PROVE  BlocksRight'
<1>1. /\ UNCHANGED <<file, gen, status, ip, iphash, count>> /\ dns' \subseteq dns
      /\ b[1] = "server" /\ Alive(blocks[b])
  BY DEF DnsAnswer, BlocksRight, conns
<1>2. Heap.confs = confs /\ Heap.blocks = blocks /\ HeapRight(Heap, ip)
  BY HeapNow DEF BlocksRight
<1>3. PICK H : /\ SetHeap(H) /\ HeapRight(H, ip) /\ H.confs = confs
               /\ \A x \in BlockIds : H.blocks[x] = None <=> blocks[x] = None
  <2>1. CASE SetHeap(Heap)
    BY <1>2, <2>1
  <2>2. CASE SetHeap(BlockFreed(Heap, b))
    BY <1>1, <1>2, <2>2, ConnectBlockFreed
  <2>. QED
    BY <2>1, <2>2 DEF DnsAnswer
<1>4. UsersCounted(status', ip', iphash', count') /\ AttachedIn(status', H.confs)
  BY <1>1, <1>3 DEF BlocksRight
<1>. QED
  BY <1>1, <1>3, <1>4, StepRight

\* REHASH: the blocks and classes are cleared, the new file is read, and the
\* classes that are not in it are checked.
LEMMA BlocksRehashed ==
    ASSUME BlocksRight, NEW f \in Files, Rehash(f)
    PROVE  BlocksRight'
<1>. DEFINE g == gen + 1
            H1 == Cleared(Heap)
            H2 == ClassesRead(H1, f, g)
            H3 == BlocksRead(H2, f, g)
            H4 == ClassesChecked(H3)
<1>1. /\ file' = f /\ gen' = g /\ UNCHANGED <<status, ip, iphash, count>> /\ SetHeap(H4)
      /\ gen < MaxRehash /\ dns' \subseteq dns \cup {<<"server", g>>}
  BY DEF Rehash, conns
<1>2. Heap.confs = confs /\ Heap.blocks = blocks /\ HeapRight(Heap, ip) /\ Unread(blocks, g)
  BY HeapNow DEF BlocksRight
<1>3. g \in Gens
  BY <1>1, ConfBlocksAssumption DEF BlocksRight, Gens
<1>. HIDE DEF g
<1>4. /\ HeapRight(H1, ip) /\ AllIllegal(H1.blocks) /\ H1.confs = confs
      /\ Unread(H1.blocks, g)
  BY <1>2, ClearedKeeps DEF Unread
<1>. HIDE DEF H1
<1>5. HeapRight(H2, ip) /\ H2.blocks = H1.blocks /\ H2.confs = confs
  BY <1>3, <1>4, ClassesReadKeeps
<1>. HIDE DEF H2
<1>6. HeapRight(H3, ip) /\ Unread(H3.blocks, g + 1) /\ H3.confs = confs
  BY <1>3, <1>4, <1>5, BlocksReadKeeps
<1>. HIDE DEF H3
<1>7. HeapRight(H4, ip) /\ Unread(H4.blocks, g + 1) /\ H4.confs = confs
  BY <1>6, ClassesCheckedKeeps
<1>. HIDE DEF H4
<1>8. Heap' = H4 /\ blocks' = H4.blocks /\ confs' = H4.confs
  BY <1>1, <1>7, HeapSet
<1>9. dns' \subseteq {b \in BlockIds : b[1] = "server"}
  <2>1. <<"server", g>> \in BlockIds
    BY <1>3 DEF BlockIds, Types
  <2>. QED
    BY <1>1, <2>1 DEF BlocksRight
<1>10. UsersCounted(status', ip', iphash', count') /\ AttachedIn(status', confs')
  BY <1>1, <1>7, <1>8 DEF BlocksRight
<1>11. HeapRight(Heap', ip') /\ Unread(blocks', gen' + 1) /\ file' \in Files /\ gen' \in Gens
  BY <1>1, <1>3, <1>7, <1>8
<1>. QED
  BY <1>9, <1>10, <1>11 DEF BlocksRight

\* The first file, read into what init_class leaves.
LEMMA FirstFile ==
    ASSUME Init
    PROVE  BlocksRight
<1>. DEFINE cl == [k \in ClassIds |->
                      IF k[1] = Default
                      THEN Class([max |-> 0, perip |-> 0, percidr |-> 0, wide |-> FALSE])
                      ELSE None]
            items == <<<<Default, 0>>>>
            bl == [b \in BlockIds |-> None]
            co == [c \in Clients |-> {}]
            none == [classes |-> cl, items |-> items, blocks |-> bl, confs |-> co,
                     fault |-> FALSE]
            H == BlocksRead(ClassesRead(none, file, 0), file, 0)
<1>1. /\ file \in Files /\ gen = 0 /\ classes = H.classes /\ class_items = H.items
      /\ blocks = H.blocks /\ dns = {b \in BlockIds : b[1] = "server" /\ Alive(H.blocks[b])}
      /\ confs = co /\ fault = FALSE
      /\ status = [c \in Clients |-> "none"] /\ ip = [c \in Clients |-> None]
      /\ iphash = {} /\ count = [a \in Addresses |-> 0]
  BY DEF Init
<1>2. 0 \in Gens /\ gen + 1 = 0 + 1
  BY <1>1, ConfBlocksAssumption DEF Gens
<1>3. HeapRight(none, ip) /\ AllIllegal(none.blocks) /\ Unread(none.blocks, 0)
      /\ none.confs = co /\ none.fault = FALSE
  <2>. DEFINE limits == [max |-> 0, perip |-> 0, percidr |-> 0, wide |-> FALSE]
              K == Class(limits)
  <2>1. limits \in Limits /\ limits.max = 0
    BY DEF Limits
  <2>. HIDE DEF limits
  <2>2. K \in ClassRecords /\ K.limits.max = 0 /\ K.curr_user_count = 0 /\ DOMAIN K.cidr = {}
    BY <2>1, EmptyClass
  <2>3. K \notin {None, Freed}
    BY <2>2, HeapAssumption
  <2>. HIDE DEF K
  <2>4. /\ cl \in ClassMaps
        /\ \A k \in ClassIds : Alive(cl[k]) => k = DefaultClass /\ cl[k] = K
        /\ DefaultClass \in ClassIds /\ cl[DefaultClass] = K /\ Alive(K)
    <3>1. cl = [k \in ClassIds |-> IF k[1] = Default THEN K ELSE None]
      BY DEF K, limits
    <3>2. DefaultClass \in ClassIds
          /\ \A k \in ClassIds : k[1] = Default <=> k = DefaultClass
      BY ConfBlocksAssumption DEF ClassIds, DefaultClass
    <3>. HIDE DEF cl
    <3>. QED
      BY <2>2, <2>3, <3>1, <3>2 DEF ClassMaps, Alive
  <2>5. items \in Seq(ClassIds) /\ Len(items) = 1 /\ items[1] = DefaultClass
    BY <2>4 DEF DefaultClass
  <2>6. Once(items) /\ Queued(items) = {DefaultClass} /\ \A x, y : ~Before(items, x, y)
    <3>. HIDE DEF items
    <3>. QED
      BY <2>5 DEF Once, Queued, Before
  <2>7. bl \in BlockMaps /\ \A b \in BlockIds : ~Alive(bl[b]) /\ bl[b] = None
    BY DEF BlockMaps, Alive
  <2>8. co \in ConfMaps /\ \A x \in Clients : co[x] = {}
    BY DEF ConfMaps
  <2>9. none = HeapOfParts(cl, items, bl, co, FALSE)
    BY Zenon DEF HeapOfParts
  <2>. HIDE DEF cl, items, bl, co, none
  <2>10. /\ ConfsRight(co, bl, ip) /\ CountsRight(co, bl, FALSE) /\ ClassesThere(cl, bl)
         /\ AllIllegal(bl) /\ Unread(bl, 0)
    BY <2>7, <2>8 DEF ConfsRight, CountsRight, ClassesThere, AllIllegal, Unread
  <2>11. ItemsRight(cl, items)
    BY <2>2, <2>4, <2>6 DEF ItemsRight
  <2>12. PlacesRight(cl, co, bl, ip)
    <3>1. ASSUME NEW U \in SUBSET Clients PROVE ClassRight(K, U, ip)
      <4>1. Cardinality(U) \in Nat
        BY ClientSets
      <4>. QED
        BY <2>2, <4>1 DEF ClassRight
    <3>2. \A k : UsersIn(co, bl, k) \in SUBSET Clients
      BY DEF UsersIn
    <3>. QED
      BY <2>4, <3>1, <3>2 DEF PlacesRight
  <2>13. /\ none.blocks = bl /\ none.confs = co /\ none.fault = FALSE
    BY <2>9 DEF HeapOfParts
  <2>14. FALSE \in BOOLEAN
    OBVIOUS
  <2>15. HeapRight(none, ip)
    BY <2>4, <2>5, <2>7, <2>8, <2>9, <2>10, <2>11, <2>12, <2>14, PartsRight
  <2>. QED
    BY <2>10, <2>13, <2>15
<1>. HIDE DEF none
<1>4. /\ HeapRight(ClassesRead(none, file, 0), ip)
      /\ ClassesRead(none, file, 0).blocks = none.blocks
      /\ ClassesRead(none, file, 0).confs = co /\ ClassesRead(none, file, 0).fault = FALSE
  BY <1>1, <1>2, <1>3, ClassesReadKeeps
<1>5. HeapRight(H, ip) /\ Unread(H.blocks, 0 + 1) /\ H.confs = co /\ H.fault = FALSE
  BY <1>2, <1>3, <1>4, BlocksReadKeeps
<1>. HIDE DEF H, co
<1>6. Heap = H
  <2>1. H \in HeapStates
    BY <1>5 DEF HeapRight
  <2>2. H = [classes |-> H.classes, items |-> H.items, blocks |-> H.blocks,
             confs |-> H.confs, fault |-> H.fault]
    BY <2>1, HeapFacts
  <2>. QED
    BY <1>1, <1>5, <2>2 DEF Heap
<1>7. UsersCounted(status, ip, iphash, count)
  <2>1. \A a : UsersAt(status, ip, a) = {}
    BY <1>1 DEF UsersAt, IsUser
  <2>2. Cardinality({}) = 0
    BY FS_EmptySet
  <2>. QED
    BY <1>1, <2>1, <2>2 DEF UsersCounted, IsUser, Statuses
<1>8. AttachedIn(status, confs)
  BY <1>1 DEF AttachedIn, co
<1>. QED
  BY <1>1, <1>2, <1>5, <1>6, <1>7, <1>8 DEF BlocksRight

\* The invariant of the blocks; the other parts leave them alone.
LEMMA BlocksAlways == PartSpec => []BlocksRight
<1>1. PartInit => BlocksRight
  BY FirstFile DEF PartInit
<1>2. BlocksRight /\ [PartNext]_partvars => BlocksRight'
  <2>. SUFFICES ASSUME BlocksRight, [PartNext]_partvars PROVE BlocksRight'
    OBVIOUS
  <2>1. ASSUME UNCHANGED vars PROVE BlocksRight'
    BY <2>1 DEF BlocksRight, vars, conns, Heap
  <2>2. CASE Next
    <3>1. ASSUME NEW c \in Clients, NEW a \in Addresses, Accept(c, a) PROVE BlocksRight'
      BY <3>1, AcceptedKeeps
    <3>2. ASSUME NEW c \in Clients, Register(c) PROVE BlocksRight'
      BY <3>2, RegisterKeeps
    <3>3. ASSUME NEW c \in Clients, Oper(c) PROVE BlocksRight'
      BY <3>3, OperKeeps
    <3>4. ASSUME NEW c \in Clients, Deoper(c) PROVE BlocksRight'
      BY <3>4, DeoperKeeps
    <3>5. ASSUME NEW c \in Clients, Connect(c) PROVE BlocksRight'
      BY <3>5, ConnectKeeps
    <3>6. ASSUME NEW c \in Clients, Server(c) PROVE BlocksRight'
      BY <3>6, ServerKeeps
    <3>7. ASSUME NEW c \in Clients, Exit(c) PROVE BlocksRight'
      BY <3>7, ExitKeeps
    <3>8. ASSUME NEW b \in BlockIds, DnsAnswer(b) PROVE BlocksRight'
      BY <3>8, DnsAnswerKeeps
    <3>9. ASSUME NEW f \in Files, Rehash(f) PROVE BlocksRight'
      BY <3>9, BlocksRehashed
    <3>. QED
      BY <2>2, <3>1, <3>2, <3>3, <3>4, <3>5, <3>6, <3>7, <3>8, <3>9 DEF Next
  <2>. QED
    BY <2>1, <2>2 DEF PartNext, partvars
<1>. QED
  BY <1>1, <1>2, PTL DEF PartSpec

\* A block of an earlier configuration stays as long as somebody is attached to
\* it, and no longer.
THEOREM BlocksStay == PartSpec => []BlocksKeptThere
<1>1. BlocksRight => BlocksKeptThere
  <2>. SUFFICES ASSUME BlocksRight PROVE BlocksKept
    BY DEF BlocksKeptThere
  <2>1. /\ ConfsRight(confs, blocks, ip) /\ CountsRight(confs, blocks, fault)
        /\ confs \in ConfMaps
    BY HeapNow, HeapFacts DEF BlocksRight, HeapRight
  <2>2. BlocksCounted
    BY <2>1 DEF BlocksCounted, CountsRight, CountRight, On, AttachedTo
  <2>3. AttachedAlive
    BY <2>1 DEF AttachedAlive, ConfsRight
  <2>. QED
    BY <2>2, <2>3 DEF BlocksKept
<1>. QED
  BY <1>1, BlocksAlways, PTL

\* No place of a class, an address block or an address is lost for good.
THEOREM PlacesStay == PartSpec => []NoPlaceLostThere
<1>1. BlocksRight => NoPlaceLostThere
  <2>. SUFFICES ASSUME BlocksRight PROVE NoPlaceLost
    BY DEF NoPlaceLostThere
  <2>1. PlacesRight(classes, confs, blocks, ip)
    BY HeapNow DEF BlocksRight, HeapRight
  <2>2. \A k : UsersOf(k) = UsersIn(confs, blocks, k)
    BY DEF UsersOf, UsersIn
  <2>3. ClassPlaces /\ CidrPlaces
    BY <2>1, <2>2 DEF ClassPlaces, CidrPlaces, PlacesRight, ClassRight
  <2>4. AddressPlaces
    BY DEF AddressPlaces, BlocksRight, UsersCounted, UsersAt, IsUser
  <2>. QED
    BY <2>3, <2>4 DEF NoPlaceLost
<1>. QED
  BY <1>1, BlocksAlways, PTL

=============================================================================
