------------------------------ MODULE Selections ------------------------------
(***************************************************************************)
(* Selections from a sequence by the places of the elements, written as    *)
(* recursive functions so that what they select can be proved by induction *)
(* on places.                                                              *)
(***************************************************************************)
EXTENDS Integers, Sequences

\* The elements of s at the places in I, in their order.
SelectAt(s, I) ==
    LET upTo[n \in 0..Len(s)] ==
            IF n = 0 THEN <<>>
            ELSE IF n \in I THEN Append(upTo[n - 1], s[n]) ELSE upTo[n - 1]
    IN  upTo[Len(s)]

\* The first of some places.
First(I) == CHOOSE i \in I : \A j \in I : i <= j
===============================================================================
