----------------------------- MODULE ByteStream -----------------------------
(***************************************************************************)
(* What the collecting thread of src/main.c promises the decoder: a prefix *)
(* of the trace, byte for byte and in order, however the kernel's rings    *)
(* wrap.  The bytes are numbered from 0 in the order they were traced, so  *)
(* that a byte lost, repeated, overwritten or out of place is another one. *)
(***************************************************************************)
EXTENDS Integers, Sequences

VARIABLES
  sent,      \* bytes traced
  received   \* the bytes handed to the decoder

Init == sent = 0 /\ received = << >>

Send == sent' \in Nat /\ sent' > sent /\ UNCHANGED received

Receive ==
  /\ \E n \in 1 .. sent - Len(received) :
       received' = received \o [k \in 1 .. n |-> Len(received) + k - 1]
  /\ UNCHANGED sent

Spec == Init /\ [][Send \/ Receive]_<<sent, received>>
=============================================================================
