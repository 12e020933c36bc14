------------------------------- MODULE Lists -------------------------------
(***************************************************************************)
(* Linked lists and queues as sequences: what the code does when it unlinks *)
(* members or walks over those that pass a test.                           *)
(***************************************************************************)
EXTENDS Naturals, Sequences

\* The members of a list that are in S, in their order.  It is SelectSeq with a
\* set for the test, as a recursive function, which the provers can expand.
Keep(list, S) ==
    LET kept[n \in 0 .. Len(list)] ==
            IF n = 0 THEN <<>>
            ELSE IF list[n] \in S THEN Append(kept[n - 1], list[n])
            ELSE kept[n - 1]
    IN  kept[Len(list)]

Members(list) == {list[i] : i \in DOMAIN list}

=============================================================================
