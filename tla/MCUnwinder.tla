----------------------------- MODULE MCUnwinder -----------------------------
(***************************************************************************)
(* Three instructions of the process and one of the kernel; two addresses  *)
(* share each place in a cache.  Stacks that end well, in an instruction   *)
(* without a row, outside the table, and with 0.                           *)
(***************************************************************************)
EXTENDS Unwinder, TLC

I(addr, length) == [addr |-> addr, length |-> length, type |-> "NONE", category |-> "OTHER",
                    iret |-> FALSE, target |-> 0]
Row(addr, undefined) == [addr |-> addr, undefined |-> undefined]

MCInsts  == (0 :> I(10, 2)) @@ (1 :> I(12, 1)) @@ (2 :> I(14, 3)) @@ (3 :> I(40, 2))
MCRows   == (0 :> Row(10, FALSE)) @@ (1 :> Row(12, TRUE)) @@ (2 :> Row(14, FALSE)) @@ (3 :> Row(40, FALSE))
MCStacks == {<<14, 11, 12>>, <<10, 14>>, <<10, 40>>, <<40>>, <<13>>}
=============================================================================
