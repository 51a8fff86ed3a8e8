-------------------------------- MODULE Lists --------------------------------
(***************************************************************************)
(* The linked lists of the server (src/list.c), as sequences: what several *)
(* modules do with them.  Recursion is by functions, as the proofs about   *)
(* these modules need it.                                                  *)
(***************************************************************************)
EXTENDS Integers, Sequences, FiniteSets, Functions

\* What is left of a list, in its order, when the elements of out are taken
\* off it.
Remaining(list, out) ==
    LET left[n \in 0 .. Len(list)] ==
            IF n = 0 THEN <<>>
            ELSE IF list[n] \in out THEN left[n - 1]
            ELSE Append(left[n - 1], list[n])
    IN left[Len(list)]

\* The elements of a finite set in some order, as a program that goes through
\* them meets them.
InOrder(S) == CHOOSE e \in Bijection(1 .. Cardinality(S), S) : TRUE

=============================================================================
