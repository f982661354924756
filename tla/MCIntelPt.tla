----------------------------- MODULE MCIntelPt -----------------------------
(***************************************************************************)
(* The packet decoder against every sequence of packets over a small       *)
(* program: user code that branches, calls, jumps and enters the kernel,   *)
(* and a handler that calls, branches and returns with an IRET.            *)
(***************************************************************************)
EXTENDS IntelPt, TLC

I(addr, type, category, target) ==
  [addr |-> addr, length |-> 1, type |-> type, category |-> category,
   iret |-> FALSE, target |-> target]

MCNoInsts == 6
MCInsts ==
  (0 :> I(10, "COND_BRANCH", "COND_BR", 12)) @@
  (1 :> I(11, "UNCOND_DIRECT_BRANCH", "CALL", 20)) @@
  (2 :> I(12, "INDIRECT_BRANCH", "CALL", 0)) @@
  (3 :> I(20, "NONE", "OTHER", 0)) @@
  (4 :> I(21, "INDIRECT_BRANCH", "RET", 0)) @@
  (5 :> [I(22, "FAR_TRANSFER", "RET", 0) EXCEPT !.iret = TRUE])

P(type, val, tnt) == [type |-> type, val |-> val, tnt |-> tnt]
Plain(types) == {P(type, 0, << >>) : type \in types}

\* The packets that move the walk, with a target of each kind: in the table
\* and in a mapping without code (14).
MovePackets ==
  {P("TIP", ip, << >>) : ip \in {12, 14, 22}} \cup
  {P("SHORT_TNT", 0, tnt) : tnt \in {<<TRUE>>, <<FALSE, TRUE>>}} \cup
  {P("FUP", 12, << >>), P("TIP_PGE", 10, << >>), P("TIP_PGD", 0, << >>), P("PIP", 2, << >>)} \cup
  Plain({"OVF", "MTC"})

\* The packets that the scans of the history tell apart, one of each sort (a
\* TIP_PGE stops them as a BBP does), and those that are an error.  All are at
\* the IRET, which keeps the states of the walk few.
HistoryPackets ==
  {P(type, 22, << >>) : type \in {"FUP", "TIP"}} \cup
  {P("TIP_PGD", 0, << >>), P("PIP", 1, << >>), P("BEP", 1, << >>), P("PTW", 1, << >>)} \cup
  {P("TSC", 1, << >>), P("TSC_MTC", 2, << >>)} \cup
  {P("BBP", 4, << >>), P("BBP", 6, << >>), P("BIP", 0, << >>)} \cup
  Plain({"OVF", "LONG_TNT"})
=============================================================================
