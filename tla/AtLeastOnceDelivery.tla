------------------------ MODULE AtLeastOnceDelivery -------------------------
(***************************************************************************)
(* What the consumer promises to those who publish events, without the     *)
(* processes, buffers and services in between: items are appended to a     *)
(* log, are delivered in any order and any number of times, are never      *)
(* taken back, and the mark from which the log is read again after a       *)
(* failure never passes an item that was not delivered.  The mark may move *)
(* backwards: then items are delivered again.                              *)
(***************************************************************************)
EXTENDS Naturals, Sequences

CONSTANT Items

VARIABLES log,        \* the items published so far
          delivered,  \* the items that reached their destination
          mark        \* the items log[1 .. mark] will not be read again

deliveryVars == <<log, delivered, mark>>

DeliveredUpTo(o) == \A i \in 1 .. o : log[i] \in delivered

Init ==
    /\ log \in Seq(Items)
    /\ delivered = {}
    /\ mark = 0

Publish ==
    /\ \E item \in Items : log' = Append(log, item)
    /\ UNCHANGED <<delivered, mark>>

Deliver ==
    /\ \E S \in SUBSET {log[i] : i \in DOMAIN log} : delivered' = delivered \cup S
    /\ UNCHANGED <<log, mark>>

Commit ==
    /\ mark' \in {o \in 0 .. Len(log) : DeliveredUpTo(o)}
    /\ UNCHANGED <<log, delivered>>

Next == Publish \/ Deliver \/ Commit

Spec == Init /\ [][Next]_deliveryVars
=============================================================================
