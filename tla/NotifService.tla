---------------------------- MODULE NotifService ----------------------------
(***************************************************************************)
(* What the notification daemon promises the programs that use it.  Each   *)
(* notification has a number of its own, is on display from the answer to  *)
(* Notify on, and leaves the display once, for one reason that is told     *)
(* exactly when it happens; only a notification that another one replaces  *)
(* leaves without a word.  At most Max are on display, and to make room    *)
(* the oldest goes.  Module Notif is shown to implement this one.          *)
(***************************************************************************)
EXTENDS Naturals, FiniteSets

CONSTANTS Max,     \* the most that are on display
          MaxId    \* numbers that are given out (bound)

VARIABLE status    \* of each number

Id == 1 .. MaxId
Reason == {"expired", "dismissed", "closed"}
Status == {"unused", "open", "replaced"} \cup Reason

Open == {n \in Id : status[n] = "open"}

\* The numbers are given out in turn.
Unused(n) == status[n] = "unused" /\ \A k \in 1 .. n - 1 : status[k] # "unused"

\* A notification old, when it is still on display, gives way to the new one;
\* if Max others are left, the oldest of them makes room.
Notify(n, old) ==
    LET others  == Open \ {old}
        dropped == IF Cardinality(others) < Max THEN {}
                   ELSE {k \in others : \A l \in others : k <= l}
    IN
    /\ Unused(n)
    /\ status' = [k \in Id |-> IF k = n THEN "open"
                               ELSE IF k \in dropped THEN "closed"
                               ELSE IF k = old /\ status[k] = "open" THEN "replaced"
                               ELSE status[k]]

Close(n, reason) ==
    /\ n \in Open
    /\ status' = [status EXCEPT ![n] = reason]

\* The daemon ends, and another one counts from the beginning.
Restart == status' = [n \in Id |-> "unused"]

Init == status = [n \in Id |-> "unused"]

Next ==
    \/ \E n \in Id, old \in Id \cup {0} : Notify(n, old)
    \/ \E n \in Id, reason \in Reason : Close(n, reason)
    \/ Restart

Spec == Init /\ [][Next]_status
=============================================================================
