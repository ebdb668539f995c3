---------------------------- MODULE BoundedFifo ----------------------------
(***************************************************************************)
(* What a bounded queue promises to one producer and one consumer: items   *)
(* come out once each, in the order they went in, and at most Capacity are *)
(* inside.                                                                 *)
(***************************************************************************)
EXTENDS Naturals, Sequences

CONSTANTS Item, Capacity

VARIABLES items,    \* what is inside
          out       \* the item that came out last

Init == items = << >> /\ out \in Item

Put(x) ==
  /\ Len(items) < Capacity
  /\ items' = Append(items, x)
  /\ UNCHANGED out

Get ==
  /\ items # << >>
  /\ out' = Head(items) /\ items' = Tail(items)

Next == Get \/ \E x \in Item : Put(x)

Spec == Init /\ [][Next]_<<items, out>>
=============================================================================
