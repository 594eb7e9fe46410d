------------------------------ MODULE Selection -------------------------------
(***************************************************************************)
(* The loop that copies some elements of a list to another one, as the     *)
(* library does with certificates, key records and station locations.  It  *)
(* is a recursive function and not SelectSeq, so that what it returns can  *)
(* be proved.                                                              *)
(***************************************************************************)
EXTENDS Naturals, Sequences

\* The elements of s whose positions are in T, in their order.
Only(s, T) ==
    LET only[n \in 0..Len(s)] ==
            IF n = 0 THEN << >>
            ELSE IF n \in T THEN Append(only[n - 1], s[n]) ELSE only[n - 1]
    IN  only[Len(s)]
===============================================================================
