---------------------------- MODULE StickySearch ----------------------------
(***************************************************************************)
(* The binary search of xed_unwind_find_inst and kmod_find_addr: its       *)
(* midpoint is a static variable, and a search starts with the entry the   *)
(* last one ended at, unless that is entry 0.                              *)
(***************************************************************************)
EXTENDS Integers

\* The entries from t[1] to t[2] are left; t[3] is the midpoint.
Rounds(size) == (0 .. size) \X (-1 .. size - 1) \X (0 .. size)

\* A search among the entries of an array of size entries looks for one in
\* hits, and goes up from one in below.  What it ends with, from any round: the
\* midpoint and whether it is a hit.
Loop(size, hits, below) ==
  LET loop[t \in Rounds(size)] ==
        LET k == (t[1] + t[2]) \div 2
        IN  IF t[1] > t[2] THEN [m |-> t[3], hit |-> FALSE]
            ELSE IF k \in hits THEN [m |-> k, hit |-> TRUE]
            ELSE loop[IF k \in below THEN <<k + 1, t[2], k>> ELSE <<t[1], k - 1, k>>]
  IN  loop

\* A search among the entries 0 .. count - 1, of which mid may be any of the array.
Search(count, size, mid, hits, below) ==
  IF mid # 0 /\ mid \in hits
    THEN [m |-> mid, hit |-> TRUE]
    ELSE Loop(size, hits, below)[IF mid = 0 THEN <<0, count - 1, mid>>
                                 ELSE IF mid \in below THEN <<mid + 1, count - 1, mid>>
                                 ELSE <<0, mid - 1, mid>>]
=============================================================================
