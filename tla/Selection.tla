------------------------------ MODULE Selection ------------------------------
(***************************************************************************)
(* Selecting from a sequence, as the comprehensions over the messages of a *)
(* chat do.  Written as a recursive function, which the provers can use.   *)
(***************************************************************************)
EXTENDS Integers, Sequences

\* The members of S in the sequence s, in its order.
Only(s, S) ==
    LET upTo[n \in 0..Len(s)] ==
            IF n = 0 THEN <<>>
            ELSE IF s[n] \in S THEN Append(upTo[n - 1], s[n]) ELSE upTo[n - 1]
    IN upTo[Len(s)]
=============================================================================
