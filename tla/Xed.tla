-------------------------------- MODULE Xed --------------------------------
(***************************************************************************)
(* The control-flow reconstruction of src/xed.c: a stack of contexts (one  *)
(* per nested interrupt), each with its position in the table of decoded   *)
(* instructions, its call stack and the queues of branch bits (TNT) and    *)
(* of branch targets (TIP) the trace delivered and the walk has not        *)
(* consumed.  The static variables of xed.c are the fields of one record,  *)
(* so that a packet handler that calls several functions of xed.c in a row *)
(* is the composition of their operators.                                  *)
(*                                                                         *)
(* One walk of xed_process_branches is a sequence of steps, one per turn   *)
(* of its loop.  An error message followed by for(;;){} is the field       *)
(* fatal: the program prints, spins, and does nothing more.                *)
(***************************************************************************)
EXTENDS InstTable, Sequences

CONSTANTS MAX_NO_CTXS, NO_INIT_CTXS, CALL_STACK_LEN, TNT_QUEUE_LEN, TIP_QUEUE_LEN

ASSUME SizesAssumption ==
  /\ MAX_NO_CTXS \in Nat \ {0} /\ NO_INIT_CTXS \in Nat
  /\ CALL_STACK_LEN \in Nat \ {0}
  /\ TNT_QUEUE_LEN \in Nat \ {0} /\ TIP_QUEUE_LEN \in Nat \ {0}

VARIABLE xed        \* the static variables of xed.c

CtxType == [async_src: Nat, last_inst: {NoInst} \cup 0 .. NoInsts - 1,
            call_stack: Seq(1 .. NoInsts), tnt_queue: Seq(Seq(BOOLEAN)),
            tip_queue: Seq(Nat)]

\* The error messages of xed.c, and those of intel_pt.c, which has the same way
\* to stop.
Messages == {"none", "BR Queue full", "TIP out of bounds", "TIP Queue full",
             "XED Instruction in module", "XED Instruction not found",
             "async enter", "async exit", "TIP_PGD", "Full ctxs", "Full stack",
             "Non-empty stack", "last_inst >= no_insts",
             "ip_decode error 0", "ip_decode error 2", "ip_decode error 4",
             "PSB error", "tsc_mtc error 0", "tsc_mtc error 1", "BBP", "unsupported packet"}

XedType == [ctx: [0 .. MAX_NO_CTXS - 1 -> CtxType], ctx_idx: 0 .. MAX_NO_CTXS - 1,
            this_pgd: Pgds \cup {NoPgd}, walking: BOOLEAN, fatal: Messages]

\* Every static variable of xed.c has a value of its type: ctx_idx stays a
\* valid index of ctx and last_inst -1 or a valid index of insts.
TypeOK == xed \in XedType

-----------------------------------------------------------------------------
(* The functions of xed.c, as operators from one state d to the next.      *)

Ok(d)       == d.fatal = "none"
Fatal(d, m) == [d EXCEPT !.fatal = m]
Return(d)   == [d EXCEPT !.walking = FALSE]

xed_is_enabled(d, addr) == d.this_pgd = PerfedPgd \/ addr \in Kernel

this_ctx(d)   == d.ctx[d.ctx_idx]
SetCtx(d, c)  == [d EXCEPT !.ctx = [@ EXCEPT ![d.ctx_idx] = c]]
MoveTo(d, i)  == SetCtx(d, [this_ctx(d) EXCEPT !.last_inst = i])

\* Faults: definitions named <operator>_<fault> are the operator as a plausible
\* mistake would have it.  Nothing uses them: they show what the properties
\* detect (see README.md).
add_tnt_TakesEmpty(d, tnt) ==
  IF Ok(d) THEN SetCtx(d, [this_ctx(d) EXCEPT !.tnt_queue = Append(@, tnt)]) ELSE d

add_tnt_NewestFirst(d, tnt) ==
  IF ~Ok(d) \/ tnt = << >> THEN d
  ELSE IF Len(this_ctx(d).tnt_queue) + 1 >= TNT_QUEUE_LEN THEN Fatal(d, "BR Queue full")
  ELSE SetCtx(d, [this_ctx(d) EXCEPT !.tnt_queue =
                    Append(@, [k \in 1 .. Len(tnt) |-> tnt[Len(tnt) + 1 - k]])])

add_tnt(d, tnt) ==
  IF ~Ok(d) \/ tnt = << >> THEN d
  ELSE IF Len(this_ctx(d).tnt_queue) + 1 >= TNT_QUEUE_LEN THEN Fatal(d, "BR Queue full")
  ELSE SetCtx(d, [this_ctx(d) EXCEPT !.tnt_queue = Append(@, tnt)])

add_tip_OffByOne(d, tip) ==
  IF ~Ok(d) \/ tip = NoAddr THEN d
  ELSE IF tip > Insts[NoInsts - 1].addr THEN Fatal(d, "TIP out of bounds")
  ELSE IF Len(this_ctx(d).tip_queue) + 1 > TIP_QUEUE_LEN THEN Fatal(d, "TIP Queue full")
  ELSE SetCtx(d, [this_ctx(d) EXCEPT !.tip_queue = Append(@, tip)])

add_tip(d, tip) ==
  IF ~Ok(d) \/ tip = NoAddr THEN d
  ELSE IF tip > Insts[NoInsts - 1].addr THEN Fatal(d, "TIP out of bounds")
  ELSE IF Len(this_ctx(d).tip_queue) + 1 >= TIP_QUEUE_LEN THEN Fatal(d, "TIP Queue full")
  ELSE SetCtx(d, [this_ctx(d) EXCEPT !.tip_queue = Append(@, tip)])

xed_update_last_inst_EveryProcess(d, addr) ==
  IF ~Ok(d) THEN d
  ELSE LET lost == MoveTo(d, xed_unwind_find_inst(addr))
       IN  IF xed_unwind_find_inst(addr) # NoInst THEN lost
           ELSE IF addr \in Modules THEN Fatal(lost, "XED Instruction in module")
           ELSE IF addr \in Anon THEN lost
           ELSE Fatal(lost, "XED Instruction not found")

xed_update_last_inst_Stays(d, addr) ==
  IF ~Ok(d) \/ xed_unwind_find_inst(addr) = NoInst THEN d
  ELSE MoveTo(d, xed_unwind_find_inst(addr))

\* A target outside the table leaves the context lost; it is an error unless
\* another address space runs or the target is in an anonymous mapping.
xed_update_last_inst(d, addr) ==
  IF ~Ok(d) THEN d
  ELSE LET lost == MoveTo(d, xed_unwind_find_inst(addr))
       IN  IF \/ xed_unwind_find_inst(addr) # NoInst
              \/ ~xed_is_enabled(d, addr) THEN lost
           ELSE IF addr \in Modules THEN Fatal(lost, "XED Instruction in module")
           ELSE IF addr \in Anon THEN lost
           ELSE Fatal(lost, "XED Instruction not found")

\* The part of xed_process_branches before its loop.
xed_process_branches(d, tnt, tip) ==
  IF ~Ok(d) \/ this_ctx(d).last_inst = NoInst THEN d
  ELSE [add_tip(add_tnt(d, tnt), tip) EXCEPT !.walking = TRUE]

ResetCtx_KeepsCalls(c) == [c EXCEPT !.last_inst = NoInst,
                                    !.tnt_queue = << >>, !.tip_queue = << >>]

ResetCtx(c) == [c EXCEPT !.call_stack = << >>, !.last_inst = NoInst,
                         !.tnt_queue = << >>, !.tip_queue = << >>]

xed_async_reset_KeepsIdx(d) ==
  [d EXCEPT !.ctx = [i \in 0 .. MAX_NO_CTXS - 1 |->
                       IF i <= d.ctx_idx THEN ResetCtx(d.ctx[i]) ELSE d.ctx[i]]]

\* async_src survives: only xed_async_enter writes it.
xed_async_reset(d) ==
  [d EXCEPT !.ctx = [i \in 0 .. MAX_NO_CTXS - 1 |->
                       IF i <= d.ctx_idx THEN ResetCtx(d.ctx[i]) ELSE d.ctx[i]],
            !.ctx_idx = 0]

NoInput_SkipsTnt(d, where) ==
  IF Ok(d) /\ this_ctx(d).tip_queue # << >> THEN Fatal(d, where) ELSE d

\* A context is left, interrupted or stopped only when the walk has consumed
\* its input.  The messages for the two queues are one error here.
NoInput(d, where) ==
  IF Ok(d) /\ (this_ctx(d).tnt_queue # << >> \/ this_ctx(d).tip_queue # << >>)
    THEN Fatal(d, where) ELSE d

xed_async_enter_WritesOuter(d, src) ==
  IF ~Ok(d) \/ d.ctx_idx + 1 >= MAX_NO_CTXS THEN d
  ELSE [SetCtx(d, [this_ctx(d) EXCEPT !.async_src = src]) EXCEPT !.ctx_idx = @ + 1]

\* The new context is used as its previous occupant left it: neither its
\* queues nor its call stack are cleared here.
xed_async_enter(d, src) ==
  LET e == NoInput(d, "async enter")
  IN  IF ~Ok(e) THEN e
      ELSE IF d.ctx_idx + 1 >= MAX_NO_CTXS THEN Fatal(d, "Full ctxs")
      ELSE LET inner == [d EXCEPT !.ctx_idx = @ + 1]
           IN  SetCtx(inner, [this_ctx(inner) EXCEPT !.async_src = src])

xed_intel_pt_tip_disable(d) == NoInput(d, "TIP_PGD")
xed_intel_pt_ovf(d)         == xed_async_reset([d EXCEPT !.this_pgd = NoPgd])
xed_intel_pt_pip(d, pgd)    == [d EXCEPT !.this_pgd = pgd]

-----------------------------------------------------------------------------
(* One turn of the loop of xed_process_branches, by kind of instruction.   *)

inst == Insts[this_ctx(xed).last_inst]

Walking    == Ok(xed) /\ xed.walking
WalkingAt(type) == Walking /\ this_ctx(xed).last_inst # NoInst /\ inst.type = type

\* An entry whose last bit was consumed is dropped only when the walk
\* reaches the next branch.
DropExhausted(c) ==
  IF c.tnt_queue # << >> /\ Head(c.tnt_queue) = << >>
    THEN [c EXCEPT !.tnt_queue = Tail(@)] ELSE c

AtBranch == SetCtx(xed, DropExhausted(this_ctx(xed)))

Advance(d) ==
  IF this_ctx(d).last_inst + 1 >= NoInsts
    THEN Fatal(d, "last_inst >= no_insts")
    ELSE MoveTo(d, this_ctx(d).last_inst + 1)

PushCall_CallSite(d) ==
  IF Len(this_ctx(d).call_stack) + 1 >= CALL_STACK_LEN
    THEN Fatal(d, "Full stack")
    ELSE SetCtx(d, [this_ctx(d) EXCEPT !.call_stack = Append(@, this_ctx(d).last_inst)])

PushCall(d) ==
  IF Len(this_ctx(d).call_stack) + 1 >= CALL_STACK_LEN
    THEN Fatal(d, "Full stack")
    ELSE SetCtx(d, [this_ctx(d) EXCEPT !.call_stack = Append(@, this_ctx(d).last_inst + 1)])

\* A return that goes elsewhere than its call says forgets the whole stack.
PopCall(d, tip) ==
  LET c == this_ctx(d)
      n == Len(c.call_stack)
  IN  IF n = 0 THEN d
      ELSE SetCtx(d, [c EXCEPT !.call_stack =
                        IF RetAddr(c.call_stack[n]) = tip THEN SubSeq(@, 1, n - 1) ELSE << >>])

PopTip(d) == SetCtx(d, [this_ctx(d) EXCEPT !.tip_queue = Tail(@)])

\* Follow the tip that an indirect branch or far transfer consumes.
TakeTip(d, tip) ==
  LET moved == xed_update_last_inst(d, tip) IN IF Ok(moved) THEN PopTip(moved) ELSE moved

Leave_NoFloor(d)   == [d EXCEPT !.ctx_idx = @ - 1]
Leave_Stays(d)     == d
Leave_HandsOver(d) ==
  IF d.ctx_idx = 0 THEN d
  ELSE MoveTo([d EXCEPT !.ctx_idx = @ - 1], this_ctx(d).last_inst)

\* Go back from the current context to the one below.
Leave(d) == IF d.ctx_idx >= 1 THEN [d EXCEPT !.ctx_idx = @ - 1] ELSE d

CallsReturned_Unchecked(d) == d

CallsReturned(d) ==
  IF Ok(d) /\ this_ctx(d).call_stack # << >> THEN Fatal(d, "Non-empty stack") ELSE d

\* An IRET was followed to tip.  When that is not where the context was
\* interrupted, or not in the table, all contexts are reset.
AsyncExit(d, tip) ==
  LET c      == this_ctx(d)
      adjust == c.async_src # NoAddr /\ c.async_src # tip
      e      == NoInput(CallsReturned(d), "async exit")
  IN  IF ~Ok(e) THEN e
      ELSE Leave(IF adjust \/ c.last_inst = NoInst THEN xed_async_reset(e) ELSE e)

WalkLost == Walking /\ this_ctx(xed).last_inst = NoInst /\ xed' = Return(xed)

WalkPlain == WalkingAt("NONE") /\ xed' = Advance(xed)

WalkCond ==
  /\ WalkingAt("COND_BRANCH")
  /\ LET d == AtBranch
         c == this_ctx(d)
         e == SetCtx(d, [c EXCEPT !.tnt_queue = << Tail(Head(@)) >> \o Tail(@)])
     IN  IF c.tnt_queue = << >> THEN xed' = Return(d)
         ELSE IF Head(Head(c.tnt_queue))
           THEN xed' = xed_update_last_inst(e, inst.target)
           ELSE xed' = Advance(e)

WalkDirect_NoJump ==
  /\ WalkingAt("UNCOND_DIRECT_BRANCH")
  /\ xed' = IF inst.category = "CALL"
              THEN xed_update_last_inst(PushCall(AtBranch), inst.target) ELSE AtBranch

\* A direct branch that is neither a call nor a jump leaves the walk where it
\* is, and the loop turns for ever.
WalkDirect ==
  /\ WalkingAt("UNCOND_DIRECT_BRANCH")
  /\ xed' = CASE inst.category = "CALL"      -> xed_update_last_inst(PushCall(AtBranch), inst.target)
              [] inst.category = "UNCOND_BR" -> xed_update_last_inst(AtBranch, inst.target)
              [] OTHER                       -> AtBranch

WalkIndirect ==
  /\ WalkingAt("INDIRECT_BRANCH")
  /\ LET d   == AtBranch
         tip == Head(this_ctx(d).tip_queue)
     IN  IF this_ctx(d).tip_queue = << >> THEN xed' = Return(d)
         ELSE xed' = TakeTip(CASE inst.category = "CALL" -> PushCall(d)
                               [] inst.category = "RET"  -> PopCall(d, tip)
                               [] OTHER                  -> d, tip)

WalkFar ==
  /\ WalkingAt("FAR_TRANSFER")
  /\ LET d   == AtBranch
         tip == Head(this_ctx(d).tip_queue)
     IN  IF this_ctx(d).tip_queue = << >> THEN xed' = Return(d)
         ELSE xed' = IF inst.iret THEN AsyncExit(TakeTip(d, tip), tip) ELSE TakeTip(d, tip)

Walk == WalkLost \/ WalkPlain \/ WalkCond \/ WalkDirect \/ WalkIndirect \/ WalkFar

-----------------------------------------------------------------------------
(* The static initialiser names NO_INIT_CTXS contexts; the others start     *)
(* zeroed, that is at instruction 0 and not at an unknown position.         *)
XedInit ==
  xed = [ctx |-> [i \in 0 .. MAX_NO_CTXS - 1 |->
                    [async_src |-> NoAddr, call_stack |-> << >>,
                     last_inst |-> IF i < NO_INIT_CTXS THEN NoInst ELSE 0,
                     tnt_queue |-> << >>, tip_queue |-> << >>]],
         ctx_idx |-> 0, this_pgd |-> NoPgd, walking |-> FALSE, fatal |-> "none"]
=============================================================================
