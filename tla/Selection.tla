------------------------------ MODULE Selection ------------------------------
(***************************************************************************)
(* Those elements of a list that are in a set, in their order: what the    *)
(* Python code writes as a comprehension or a loop with a condition; and   *)
(* lists put one after the other.                                          *)
(***************************************************************************)
EXTENDS Integers, Sequences

Those(s, S) ==
    LET upTo[i \in 0 .. Len(s)] ==
            IF i = 0 THEN <<>>
            ELSE IF s[i] \in S THEN Append(upTo[i - 1], s[i]) ELSE upTo[i - 1]
    IN  upTo[Len(s)]

Chained(lists) ==
    LET upTo[i \in 0 .. Len(lists)] == IF i = 0 THEN <<>> ELSE upTo[i - 1] \o lists[i]
    IN  upTo[Len(lists)]
=============================================================================
