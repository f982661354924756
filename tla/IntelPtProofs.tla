--------------------------- MODULE IntelPtProofs ---------------------------
(***************************************************************************)
(* The safety invariants of the decoder, for every instruction table, every *)
(* size of the queues and every sequence of packets.  The conjunction of    *)
(* the type invariant and the four invariants the runs check is inductive:  *)
(* Sound states it of any state d of xed.c, so that it can be carried       *)
(* through the operators a handler is composed of, one lemma each.          *)
(*                                                                         *)
(* Behind them the theorems about steps: what interrupts a context leaves  *)
(* it as it was or resets it, the walk restarts no context that lost its   *)
(* position, and a context is opened by a TIP alone, at the FUP of the     *)
(* same interrupt.                                                         *)
(***************************************************************************)
EXTENDS IntelPt, FiniteSetTheorems, SequenceTheorems, TLAPS

\* What holds of each context alone.
Good(c) ==
  /\ c \in CtxType
  /\ \A k \in 2 .. Len(c.tnt_queue) : c.tnt_queue[k] # << >>
  /\ Len(c.call_stack) < CALL_STACK_LEN
  /\ Len(c.tnt_queue) < TNT_QUEUE_LEN
  /\ Len(c.tip_queue) < TIP_QUEUE_LEN

Empty(c) == c.tnt_queue = << >> /\ c.tip_queue = << >>

\* What holds of the contexts together.
Sound(d) ==
  /\ d \in XedType
  /\ \A i \in Ctxs : Good(d.ctx[i])
  /\ \A i \in Ctxs \ {d.ctx_idx} : Empty(d.ctx[i])
  /\ \A i \in Ctxs : i > d.ctx_idx => d.ctx[i].call_stack = << >>

InstRange == {NoInst} \cup 0 .. NoInsts - 1

\* The inductive invariant.
Inv ==
  /\ Sound(xed)
  /\ hist \in HistType
  /\ last_psb \in Nat /\ last_bep_fup \in Nat /\ last_ptw_fup \in Nat /\ last_bbp \in {0, 1}

-----------------------------------------------------------------------------
(* The table.                                                              *)

\* The search returns -1 or an index of the table.
LEMMA FindInRange ==
  ASSUME NEW addr
  PROVE  xed_unwind_find_inst(addr) \in InstRange
<1>1. CASE \E i \in 0 .. NoInsts - 1 : Covers(i, addr)
  <2>1. (CHOOSE i \in 0 .. NoInsts - 1 : Covers(i, addr)) \in 0 .. NoInsts - 1
    BY <1>1
  <2>2. QED
    BY <1>1, <2>1 DEF xed_unwind_find_inst, InstRange
<1>2. CASE ~ \E i \in 0 .. NoInsts - 1 : Covers(i, addr)
  BY <1>2 DEF xed_unwind_find_inst, InstRange
<1>3. QED
  BY <1>1, <1>2

-----------------------------------------------------------------------------
(* One context.                                                            *)

\* The fields of a context that the operators change, one at a time.
LEMMA CtxFields ==
  ASSUME NEW c \in CtxType
  PROVE  /\ c.async_src \in Nat /\ c.last_inst \in InstRange
         /\ c.call_stack \in Seq(1 .. NoInsts)
         /\ c.tnt_queue \in Seq(Seq(BOOLEAN)) /\ c.tip_queue \in Seq(Nat)
BY DEF CtxType, InstRange

\* Changing the queue of bits changes nothing else of a context.
LEMMA CtxTnt ==
  ASSUME NEW c \in CtxType, NEW q \in Seq(Seq(BOOLEAN))
  PROVE  LET d == [c EXCEPT !.tnt_queue = q] IN
         /\ d \in CtxType /\ d.tnt_queue = q
         /\ d.tip_queue = c.tip_queue /\ d.call_stack = c.call_stack
BY DEF CtxType

\* Changing the queue of targets changes nothing else of it.
LEMMA CtxTip ==
  ASSUME NEW c \in CtxType, NEW q \in Seq(Nat)
  PROVE  LET d == [c EXCEPT !.tip_queue = q] IN
         /\ d \in CtxType /\ d.tip_queue = q
         /\ d.tnt_queue = c.tnt_queue /\ d.call_stack = c.call_stack
BY DEF CtxType

\* Changing the call stack changes nothing else of it.
LEMMA CtxCalls ==
  ASSUME NEW c \in CtxType, NEW s \in Seq(1 .. NoInsts)
  PROVE  LET d == [c EXCEPT !.call_stack = s] IN
         /\ d \in CtxType /\ d.call_stack = s
         /\ d.tnt_queue = c.tnt_queue /\ d.tip_queue = c.tip_queue
BY DEF CtxType

\* Changing the position changes nothing else of it.
LEMMA CtxMove ==
  ASSUME NEW c \in CtxType, NEW i \in InstRange
  PROVE  LET d == [c EXCEPT !.last_inst = i] IN
         /\ d \in CtxType /\ d.last_inst = i /\ d.call_stack = c.call_stack
         /\ d.tnt_queue = c.tnt_queue /\ d.tip_queue = c.tip_queue
BY DEF CtxType, InstRange

\* A context may be moved to any position of the table.
LEMMA GoodMove ==
  ASSUME NEW c, Good(c), NEW i \in InstRange
  PROVE  Good([c EXCEPT !.last_inst = i])
BY CtxMove DEF Good

\* Resetting a context makes it empty.
LEMMA GoodReset ==
  ASSUME NEW c, Good(c)
  PROVE  /\ Good(ResetCtx(c)) /\ Empty(ResetCtx(c))
         /\ ResetCtx(c).call_stack = << >>
<1>1. << >> \in Seq(1 .. NoInsts) /\ << >> \in Seq(Seq(BOOLEAN)) /\ << >> \in Seq(Nat)
  OBVIOUS
<1>2. Len(<< >>) = 0
  OBVIOUS
<1>3. c \in CtxType
  BY DEF Good
<1> DEFINE a == [c EXCEPT !.call_stack = << >>]
           b == [a EXCEPT !.last_inst = NoInst]
           e == [b EXCEPT !.tnt_queue = << >>]
<1>4. a \in CtxType /\ a.call_stack = << >>
  BY <1>1, <1>3, CtxCalls
<1> HIDE DEF a
<1>5. b \in CtxType /\ b.call_stack = << >>
  <2>1. NoInst \in InstRange
    BY DEF InstRange
  <2>2. QED
    BY <1>4, <2>1, CtxMove
<1> HIDE DEF b
<1>6. e \in CtxType /\ e.call_stack = << >> /\ e.tnt_queue = << >>
  BY <1>1, <1>5, CtxTnt
<1> HIDE DEF e
<1> DEFINE f == [e EXCEPT !.tip_queue = << >>]
<1>7. ResetCtx(c) = f
  BY DEF ResetCtx, a, b, e
<1>8. /\ f \in CtxType /\ f.call_stack = << >>
      /\ f.tnt_queue = << >> /\ f.tip_queue = << >>
  BY <1>1, <1>6, CtxTip
<1> HIDE DEF f
<1>9. QED
  BY <1>2, <1>7, <1>8, SizesAssumption DEF Good, Empty

\* After the exhausted entry is dropped every entry has a bit to give.
LEMMA GoodDrop ==
  ASSUME NEW c, Good(c)
  PROVE  /\ Good(DropExhausted(c))
         /\ \A k \in 1 .. Len(DropExhausted(c).tnt_queue) :
              DropExhausted(c).tnt_queue[k] # << >>
<1> DEFINE q == c.tnt_queue
<1>1. q \in Seq(Seq(BOOLEAN)) /\ c \in CtxType
  BY CtxFields DEF Good
<1>2. CASE q # << >> /\ Head(q) = << >>
  <2>1. /\ Tail(q) \in Seq(Seq(BOOLEAN)) /\ Len(Tail(q)) = Len(q) - 1
        /\ \A k \in 1 .. Len(Tail(q)) : Tail(q)[k] = q[k + 1]
    BY <1>1, <1>2, HeadTailProperties
  <2>2. \A k \in 1 .. Len(Tail(q)) : k + 1 \in 2 .. Len(q)
    BY <1>1, <2>1
  <2>3. \A k \in 1 .. Len(Tail(q)) : Tail(q)[k] # << >>
    BY <2>1, <2>2 DEF Good
  <2> DEFINE e == [c EXCEPT !.tnt_queue = Tail(q)]
  <2>4. DropExhausted(c) = e
    BY <1>2 DEF DropExhausted
  <2>5. Len(q) \in Nat
    BY <1>1
  <2>6. /\ e \in CtxType /\ e.tnt_queue = Tail(q)
        /\ e.tip_queue = c.tip_queue /\ e.call_stack = c.call_stack
    BY <1>1, <2>1, CtxTnt
  <2> HIDE DEF e
  <2>7. QED
    BY <2>1, <2>3, <2>4, <2>5, <2>6, SizesAssumption DEF Good
<1>3. CASE ~(q # << >> /\ Head(q) = << >>)
  <2>1. DropExhausted(c) = c
    BY <1>3 DEF DropExhausted
  <2>2. Len(q) > 0 => q[1] # << >>
    BY <1>1, <1>3
  <2>3. QED
    BY <1>1, <2>1, <2>2 DEF Good
<1>4. QED
  BY <1>2, <1>3

\* Taking a bit from the oldest entry leaves the others as they are.
LEMMA GoodBit ==
  ASSUME NEW c, Good(c), c.tnt_queue # << >>, Head(c.tnt_queue) # << >>
  PROVE  Good([c EXCEPT !.tnt_queue = << Tail(Head(@)) >> \o Tail(@)])
<1> DEFINE q == c.tnt_queue
           r == << Tail(Head(q)) >> \o Tail(q)
           e == [c EXCEPT !.tnt_queue = r]
<1>1. q \in Seq(Seq(BOOLEAN)) /\ c \in CtxType /\ q # << >>
  BY CtxFields DEF Good
<1>2. Head(q) \in Seq(BOOLEAN) /\ Tail(Head(q)) \in Seq(BOOLEAN)
  BY <1>1, HeadTailProperties
<1>3. /\ Tail(q) \in Seq(Seq(BOOLEAN)) /\ Len(Tail(q)) = Len(q) - 1
      /\ \A k \in 1 .. Len(Tail(q)) : Tail(q)[k] = q[k + 1]
  BY <1>1, HeadTailProperties
<1>4. << Tail(Head(q)) >> \in Seq(Seq(BOOLEAN)) /\ Len(<< Tail(Head(q)) >>) = 1
  BY <1>2
<1>5. /\ r \in Seq(Seq(BOOLEAN)) /\ Len(r) = Len(q)
      /\ \A k \in 2 .. Len(q) : r[k] = q[k]
  BY <1>1, <1>3, <1>4, ConcatProperties
<1>6. /\ e \in CtxType /\ e.tnt_queue = r
      /\ e.tip_queue = c.tip_queue /\ e.call_stack = c.call_stack
  BY <1>1, <1>5, CtxTnt
<1>7. QED
  BY <1>5, <1>6 DEF Good

\* A packet's bits, if any, may be appended while the ring has a free slot.
LEMMA GoodAddTnt ==
  ASSUME NEW c, Good(c), NEW tnt \in Seq(BOOLEAN), tnt # << >>,
         Len(c.tnt_queue) + 1 < TNT_QUEUE_LEN
  PROVE  Good([c EXCEPT !.tnt_queue = Append(@, tnt)])
<1> DEFINE q == c.tnt_queue
           e == [c EXCEPT !.tnt_queue = Append(q, tnt)]
<1>1. q \in Seq(Seq(BOOLEAN)) /\ c \in CtxType
  BY CtxFields DEF Good
<1>2. /\ Append(q, tnt) \in Seq(Seq(BOOLEAN)) /\ Len(Append(q, tnt)) = Len(q) + 1
      /\ \A k \in 1 .. Len(q) : Append(q, tnt)[k] = q[k]
      /\ Append(q, tnt)[Len(q) + 1] = tnt
  BY <1>1
<1>3. \A k \in 2 .. Len(q) + 1 : Append(q, tnt)[k] # << >>
  BY <1>1, <1>2 DEF Good
<1>4. /\ e \in CtxType /\ e.tnt_queue = Append(q, tnt)
      /\ e.tip_queue = c.tip_queue /\ e.call_stack = c.call_stack
  BY <1>1, <1>2, CtxTnt
<1>5. QED
  BY <1>1, <1>2, <1>3, <1>4 DEF Good

\* The same for a target.
LEMMA GoodAddTip ==
  ASSUME NEW c, Good(c), NEW tip \in Nat, Len(c.tip_queue) + 1 < TIP_QUEUE_LEN
  PROVE  Good([c EXCEPT !.tip_queue = Append(@, tip)])
<1> DEFINE e == [c EXCEPT !.tip_queue = Append(c.tip_queue, tip)]
<1>1. c \in CtxType /\ c.tip_queue \in Seq(Nat)
  BY CtxFields DEF Good
<1>2. /\ Append(c.tip_queue, tip) \in Seq(Nat)
      /\ Len(Append(c.tip_queue, tip)) = Len(c.tip_queue) + 1
  BY <1>1, AppendProperties
<1>3. /\ e \in CtxType /\ e.tip_queue = Append(c.tip_queue, tip)
      /\ e.tnt_queue = c.tnt_queue /\ e.call_stack = c.call_stack
  BY <1>1, <1>2, CtxTip
<1> HIDE DEF e
<1>4. Good(e)
  BY <1>1, <1>2, <1>3 DEF Good
<1>5. QED
  BY <1>4 DEF e

\* Consuming the oldest target leaves a good context.
LEMMA GoodPopTip ==
  ASSUME NEW c, Good(c), c.tip_queue # << >>
  PROVE  Good([c EXCEPT !.tip_queue = Tail(@)])
<1> DEFINE e == [c EXCEPT !.tip_queue = Tail(c.tip_queue)]
<1>1. c \in CtxType /\ c.tip_queue \in Seq(Nat)
  BY CtxFields DEF Good
<1>2. Tail(c.tip_queue) \in Seq(Nat) /\ Len(Tail(c.tip_queue)) = Len(c.tip_queue) - 1
  BY <1>1, HeadTailProperties
<1>3. /\ e \in CtxType /\ e.tip_queue = Tail(c.tip_queue)
      /\ e.tnt_queue = c.tnt_queue /\ e.call_stack = c.call_stack
  BY <1>1, <1>2, CtxTip
<1>4. Len(c.tip_queue) \in Nat
  BY <1>1
<1> HIDE DEF e
<1>5. Good(e)
  BY <1>2, <1>3, <1>4, SizesAssumption DEF Good
<1>6. QED
  BY <1>5 DEF e

\* Any call stack that is short enough will do.
LEMMA GoodCalls ==
  ASSUME NEW c, Good(c), NEW s \in Seq(1 .. NoInsts), Len(s) < CALL_STACK_LEN
  PROVE  Good([c EXCEPT !.call_stack = s])
BY CtxCalls DEF Good

-----------------------------------------------------------------------------
(* The state of xed.c.                                                     *)

\* What the other lemmas need of the current context.
LEMMA SoundFields ==
  ASSUME NEW d, Sound(d)
  PROVE  /\ d.ctx_idx \in Ctxs /\ d.ctx \in [Ctxs -> CtxType]
         /\ Good(this_ctx(d)) /\ this_ctx(d) \in CtxType
BY DEF Sound, XedType, Ctxs, Good, this_ctx

\* A good context may take the place of the current one.
LEMMA SoundSetCtx ==
  ASSUME NEW d, Sound(d), NEW c, Good(c)
  PROVE  /\ Sound(SetCtx(d, c)) /\ this_ctx(SetCtx(d, c)) = c
         /\ SetCtx(d, c).ctx_idx = d.ctx_idx /\ SetCtx(d, c).fatal = d.fatal
<1> DEFINE e == SetCtx(d, c)
<1>1. d \in XedType /\ d.ctx_idx \in Ctxs /\ c \in CtxType
  BY DEF Sound, XedType, Ctxs, Good
<1>2. /\ e \in XedType /\ e.ctx_idx = d.ctx_idx /\ e.fatal = d.fatal
      /\ e.ctx = [d.ctx EXCEPT ![d.ctx_idx] = c]
  BY <1>1 DEF XedType, SetCtx, Ctxs
<1>3. d.ctx \in [Ctxs -> CtxType]
  BY <1>1 DEF XedType, Ctxs
<1>4. e.ctx[e.ctx_idx] = c /\ \A i \in Ctxs \ {d.ctx_idx} : e.ctx[i] = d.ctx[i]
  BY <1>1, <1>2, <1>3
<1> HIDE DEF e
<1>5. Sound(e) /\ this_ctx(e) = c
  BY <1>1, <1>2, <1>4 DEF Sound, this_ctx, Ctxs
<1>6. QED
  BY <1>2, <1>5 DEF e

\* The scalars of xed.c that Sound says nothing of but their type.
LEMMA SoundScalars ==
  ASSUME NEW d, Sound(d)
  PROVE  /\ \A m \in Messages : Sound(Fatal(d, m)) /\ Fatal(d, m).fatal = m
         /\ Sound(Return(d))
         /\ Sound([d EXCEPT !.walking = TRUE])
         /\ \A pgd \in Pgds \cup {NoPgd} : Sound([d EXCEPT !.this_pgd = pgd])
<1>1. d \in XedType
  BY DEF Sound
<1>2. \A m \in Messages : LET e == Fatal(d, m) IN
        e \in XedType /\ e.ctx = d.ctx /\ e.ctx_idx = d.ctx_idx /\ e.fatal = m
  BY <1>1 DEF XedType, Fatal
<1>3. LET e == Return(d) IN e \in XedType /\ e.ctx = d.ctx /\ e.ctx_idx = d.ctx_idx
  BY <1>1 DEF XedType, Return
<1>4. LET e == [d EXCEPT !.walking = TRUE] IN
        e \in XedType /\ e.ctx = d.ctx /\ e.ctx_idx = d.ctx_idx
  BY <1>1 DEF XedType
<1>5. \A pgd \in Pgds \cup {NoPgd} : LET e == [d EXCEPT !.this_pgd = pgd] IN
        e \in XedType /\ e.ctx = d.ctx /\ e.ctx_idx = d.ctx_idx
  BY <1>1 DEF XedType
<1>6. QED
  BY <1>2, <1>3, <1>4, <1>5 DEF Sound

-----------------------------------------------------------------------------
(* The functions of xed.c.                                                 *)

\* Moving the current context leaves its queues alone.
LEMMA SoundMove ==
  ASSUME NEW d, Sound(d), NEW i \in InstRange
  PROVE  /\ Sound(MoveTo(d, i)) /\ MoveTo(d, i).fatal = d.fatal
         /\ this_ctx(MoveTo(d, i)).tip_queue = this_ctx(d).tip_queue
<1> DEFINE c == [this_ctx(d) EXCEPT !.last_inst = i]
<1>1. Good(c) /\ c.tip_queue = this_ctx(d).tip_queue
  BY SoundFields, GoodMove, CtxMove
<1> HIDE DEF c
<1>2. Sound(SetCtx(d, c)) /\ SetCtx(d, c).fatal = d.fatal /\ this_ctx(SetCtx(d, c)) = c
  BY <1>1, SoundSetCtx
<1>3. QED
  BY <1>1, <1>2 DEF MoveTo, c

\* add_tnt appends no empty entry and stops the program when the ring is full.
LEMMA SoundAddTnt ==
  ASSUME NEW d, Sound(d), NEW tnt \in Seq(BOOLEAN)
  PROVE  Sound(add_tnt(d, tnt))
<1> DEFINE c == this_ctx(d)
<1>1. Good(c) /\ c.tnt_queue \in Seq(Seq(BOOLEAN))
  BY SoundFields, CtxFields
<1>2. CASE ~Ok(d) \/ tnt = << >>
  BY <1>2 DEF add_tnt
<1>3. CASE ~(~Ok(d) \/ tnt = << >>) /\ Len(c.tnt_queue) + 1 >= TNT_QUEUE_LEN
  BY <1>3, SoundScalars DEF add_tnt, Messages
<1>4. CASE ~(~Ok(d) \/ tnt = << >>) /\ ~(Len(c.tnt_queue) + 1 >= TNT_QUEUE_LEN)
  <2>1. Len(c.tnt_queue) + 1 < TNT_QUEUE_LEN
    BY <1>1, <1>4, SizesAssumption
  <2>2. Good([c EXCEPT !.tnt_queue = Append(@, tnt)])
    BY <1>1, <1>4, <2>1, GoodAddTnt
  <2>3. add_tnt(d, tnt) = SetCtx(d, [c EXCEPT !.tnt_queue = Append(@, tnt)])
    BY <1>4 DEF add_tnt
  <2>4. QED
    BY <2>2, <2>3, SoundSetCtx
<1>5. QED
  BY <1>2, <1>3, <1>4

\* add_tip stops the program when the ring is full.
LEMMA SoundAddTip ==
  ASSUME NEW d, Sound(d), NEW tip \in Nat
  PROVE  Sound(add_tip(d, tip))
<1> DEFINE c == this_ctx(d)
           stops == ~Ok(d) \/ tip = NoAddr \/ tip > Insts[NoInsts - 1].addr
<1>1. Good(c) /\ c.tip_queue \in Seq(Nat)
  BY SoundFields, CtxFields
<1>2. CASE stops
  BY <1>2, SoundScalars DEF add_tip, Messages
<1>3. CASE ~stops /\ Len(c.tip_queue) + 1 >= TIP_QUEUE_LEN
  BY <1>3, SoundScalars DEF add_tip, Messages
<1>4. CASE ~stops /\ ~(Len(c.tip_queue) + 1 >= TIP_QUEUE_LEN)
  <2>1. Len(c.tip_queue) + 1 < TIP_QUEUE_LEN
    BY <1>1, <1>4, SizesAssumption
  <2>2. Good([c EXCEPT !.tip_queue = Append(@, tip)])
    BY <1>1, <2>1, GoodAddTip
  <2>3. add_tip(d, tip) = SetCtx(d, [c EXCEPT !.tip_queue = Append(@, tip)])
    BY <1>4 DEF add_tip
  <2>4. QED
    BY <2>2, <2>3, SoundSetCtx
<1>5. QED
  BY <1>2, <1>3, <1>4

\* Following a branch moves the current context or stops the program: its
\* targets are still there to be consumed.
LEMMA SoundUpdate ==
  ASSUME NEW d, Sound(d), NEW addr
  PROVE  /\ Sound(xed_update_last_inst(d, addr))
         /\ this_ctx(xed_update_last_inst(d, addr)).tip_queue = this_ctx(d).tip_queue
<1> DEFINE lost == MoveTo(d, xed_unwind_find_inst(addr))
           e == xed_update_last_inst(d, addr)
<1>1. Sound(lost) /\ this_ctx(lost).tip_queue = this_ctx(d).tip_queue
  BY FindInRange, SoundMove
<1>2. \A m \in Messages : Sound(Fatal(lost, m)) /\ this_ctx(Fatal(lost, m)) = this_ctx(lost)
  <2> HIDE DEF lost
  <2>1. \A m \in Messages : Fatal(lost, m).ctx = lost.ctx /\ Fatal(lost, m).ctx_idx = lost.ctx_idx
    BY <1>1 DEF Fatal, Sound, XedType
  <2>2. QED
    BY <1>1, <2>1, SoundScalars DEF this_ctx
<1>3. e \in {d, lost} \cup {Fatal(lost, m) : m \in Messages}
  <2> HIDE DEF lost
  <2>1. lost = MoveTo(d, xed_unwind_find_inst(addr))
    BY DEF lost
  <2>2. QED
    BY <2>1 DEF xed_update_last_inst, Messages
<1> HIDE DEF lost, e
<1>4. QED
  BY <1>1, <1>2, <1>3 DEF e

\* Taking what a packet brings, before the loop.
LEMMA SoundProcess ==
  ASSUME NEW d, Sound(d), NEW tnt \in Seq(BOOLEAN), NEW tip \in Nat
  PROVE  Sound(xed_process_branches(d, tnt, tip))
<1>1. Sound(add_tip(add_tnt(d, tnt), tip))
  BY SoundAddTnt, SoundAddTip
<1>2. Sound([add_tip(add_tnt(d, tnt), tip) EXCEPT !.walking = TRUE])
  BY <1>1, SoundScalars
<1>3. QED
  BY <1>2 DEF xed_process_branches

\* Where no input may be left the state passes unchanged or stops the program.
LEMMA SoundNoInput ==
  ASSUME NEW d, Sound(d), NEW where \in Messages
  PROVE  /\ Sound(NoInput(d, where))
         /\ Ok(NoInput(d, where)) /\ where # "none" =>
              NoInput(d, where) = d /\ Ok(d) /\ Empty(this_ctx(d))
BY SoundScalars DEF NoInput, Ok, Empty

\* The assertion at an IRET stops the program or leaves the state alone.
LEMMA SoundCallsReturned ==
  ASSUME NEW d, Sound(d)
  PROVE  /\ Sound(CallsReturned(d))
         /\ Ok(CallsReturned(d)) => CallsReturned(d) = d /\ this_ctx(d).call_stack = << >>
BY SoundScalars DEF CallsReturned, Ok, Messages

\* A reset empties every context up to the current one; those above it were
\* empty, and fresh, before.
LEMMA SoundReset ==
  ASSUME NEW d, Sound(d)
  PROVE  Sound(xed_async_reset(d)) /\ xed_async_reset(d).ctx_idx = 0
<1> DEFINE f == [i \in 0 .. MAX_NO_CTXS - 1 |->
                   IF i <= d.ctx_idx THEN ResetCtx(d.ctx[i]) ELSE d.ctx[i]]
           e == [d EXCEPT !.ctx = f, !.ctx_idx = 0]
<1>1. d \in XedType /\ d.ctx_idx \in Ctxs /\ d.ctx \in [Ctxs -> CtxType]
  BY SoundFields DEF Sound
<1>2. \A i \in Ctxs : Good(f[i]) /\ Empty(f[i]) /\ f[i].call_stack = << >>
  <2> SUFFICES ASSUME NEW i \in Ctxs
               PROVE  Good(f[i]) /\ Empty(f[i]) /\ f[i].call_stack = << >>
    OBVIOUS
  <2>1. CASE i <= d.ctx_idx
    BY <2>1, GoodReset DEF Sound, Ctxs
  <2>2. CASE ~(i <= d.ctx_idx)
    <3>1. i > d.ctx_idx /\ i # d.ctx_idx /\ f[i] = d.ctx[i]
      BY <1>1, <2>2 DEF Ctxs
    <3>2. QED
      BY <3>1 DEF Sound
  <2>3. QED
    BY <2>1, <2>2
<1>3. f \in [Ctxs -> CtxType]
  BY <1>2 DEF Good, Ctxs
<1> HIDE DEF f
<1>4. 0 \in Ctxs
  BY SizesAssumption DEF Ctxs
<1>5. e \in XedType /\ e.ctx = f /\ e.ctx_idx = 0
  BY <1>1, <1>3, <1>4 DEF XedType, Ctxs
<1>6. Sound(e)
  <2> HIDE DEF e
  <2>1. QED
    BY <1>2, <1>5 DEF Sound
<1>7. QED
  BY <1>5, <1>6 DEF xed_async_reset, e, f

\* The index the test of xed_async_enter lets through is one of ctx.
LEMMA NextIdx ==
  ASSUME NEW i \in Ctxs, ~(i + 1 >= MAX_NO_CTXS)
  PROVE  i + 1 \in Ctxs
BY SizesAssumption DEF Ctxs

\* The context that is opened is empty already; the one that is left is, too.
LEMMA SoundEnter ==
  ASSUME NEW d, Sound(d), NEW src \in Nat
  PROVE  Sound(xed_async_enter(d, src))
<1> DEFINE n == NoInput(d, "async enter")
<1>1. Sound(n) /\ (Ok(n) => n = d /\ Empty(this_ctx(d)))
  BY SoundNoInput DEF Messages
<1>2. CASE ~Ok(n)
  BY <1>1, <1>2 DEF xed_async_enter
<1>3. CASE Ok(n) /\ d.ctx_idx + 1 >= MAX_NO_CTXS
  BY <1>3, SoundScalars DEF xed_async_enter, Messages
<1>4. CASE Ok(n) /\ ~(d.ctx_idx + 1 >= MAX_NO_CTXS)
  <2>1. d \in XedType /\ d.ctx_idx \in Ctxs /\ d.ctx \in [Ctxs -> CtxType]
    BY SoundFields DEF Sound
  <2> DEFINE inner == [d EXCEPT !.ctx_idx = d.ctx_idx + 1]
             c == [this_ctx(inner) EXCEPT !.async_src = src]
  <2>2. d.ctx_idx + 1 \in Ctxs
    BY <1>4, <2>1, NextIdx
  <2>3. inner \in XedType /\ inner.ctx = d.ctx /\ inner.ctx_idx = d.ctx_idx + 1
    BY <2>1, <2>2 DEF XedType, Ctxs
  <2>4. \A i \in Ctxs : Empty(d.ctx[i])
    BY <1>1, <1>4, <2>1 DEF Sound, this_ctx
  <2>5. \A i \in Ctxs : i > d.ctx_idx + 1 => i > d.ctx_idx
    BY <2>1 DEF Ctxs
  <2> HIDE DEF inner
  <2>6. Sound(inner)
    BY <2>3, <2>4, <2>5 DEF Sound
  <2>7. Good(this_ctx(inner))
    BY <2>6, SoundFields
  <2>8. /\ c \in CtxType /\ c.call_stack = this_ctx(inner).call_stack
        /\ c.tnt_queue = this_ctx(inner).tnt_queue
        /\ c.tip_queue = this_ctx(inner).tip_queue
    BY <2>7 DEF Good, CtxType
  <2> HIDE DEF c
  <2>9. Good(c)
    BY <2>7, <2>8 DEF Good
  <2>10. xed_async_enter(d, src) = SetCtx(inner, c)
    BY <1>1, <1>4 DEF xed_async_enter, inner, c
  <2>11. QED
    BY <2>6, <2>9, <2>10, SoundSetCtx
<1>5. QED
  BY <1>2, <1>3, <1>4

\* A context may be left when it is empty and all its calls have returned.
LEMMA SoundLeave ==
  ASSUME NEW d, Sound(d), d.ctx_idx = 0 \/ Empty(this_ctx(d)),
         d.ctx_idx = 0 \/ this_ctx(d).call_stack = << >>
  PROVE  Sound(Leave(d))
<1>1. CASE ~(d.ctx_idx >= 1)
  BY <1>1 DEF Leave
<1>2. CASE d.ctx_idx >= 1
  <2> DEFINE e == [d EXCEPT !.ctx_idx = d.ctx_idx - 1]
  <2>1. d \in XedType /\ d.ctx_idx \in Ctxs
    BY SoundFields DEF Sound
  <2>2. e \in XedType /\ e.ctx = d.ctx /\ e.ctx_idx = d.ctx_idx - 1
    <3>1. d.ctx_idx - 1 \in Ctxs
      BY <1>2, <2>1, SizesAssumption DEF Ctxs
    <3>2. \A k \in Ctxs : [d EXCEPT !.ctx_idx = k] \in XedType
      BY <2>1 DEF XedType, Ctxs
    <3>3. e.ctx = d.ctx /\ e.ctx_idx = d.ctx_idx - 1
      BY <2>1 DEF XedType
    <3>4. QED
      BY <3>1, <3>2, <3>3
  <2>3. \A i \in Ctxs : Empty(d.ctx[i])
    BY <1>2, <2>1 DEF Sound, this_ctx, Ctxs
  <2>4. \A i \in Ctxs : i > d.ctx_idx - 1 => d.ctx[i].call_stack = << >>
    BY <1>2, <2>1 DEF Sound, this_ctx, Ctxs
  <2>5. Sound(e)
    <3> HIDE DEF e
    <3>1. QED
      BY <2>2, <2>3, <2>4 DEF Sound
  <2>6. QED
    BY <1>2, <2>5 DEF Leave
<1>3. QED
  BY <1>1, <1>2

\* The end of an interrupt leaves an empty context, or resets them all.
LEMMA SoundExit ==
  ASSUME NEW d, Sound(d), NEW tip
  PROVE  Sound(AsyncExit(d, tip))
<1> DEFINE n == CallsReturned(d)
           e == NoInput(n, "async exit")
<1>1. Sound(n) /\ (Ok(n) => n = d /\ this_ctx(d).call_stack = << >>)
  BY SoundCallsReturned
<1>2. Sound(e) /\ (Ok(e) => e = n /\ Ok(n) /\ Empty(this_ctx(n)))
  <2> HIDE DEF n
  <2>1. QED
    BY <1>1, SoundNoInput DEF Messages
<1> HIDE DEF n, e
<1>3. Ok(e) => Sound(Leave(e)) /\ Sound(Leave(xed_async_reset(e)))
  BY <1>1, <1>2, SoundLeave, SoundReset
<1>4. QED
  BY <1>2, <1>3 DEF AsyncExit, n, e

-----------------------------------------------------------------------------
(* One turn of the walk.                                                   *)

\* Going on to the next instruction stays in the table.
LEMMA SoundAdvance ==
  ASSUME NEW d, Sound(d), this_ctx(d).last_inst # NoInst
  PROVE  Sound(Advance(d))
<1> DEFINE i == this_ctx(d).last_inst
<1>1. i \in 0 .. NoInsts - 1
  BY SoundFields, CtxFields DEF InstRange
<1> HIDE DEF i
<1>2. CASE i + 1 >= NoInsts
  BY <1>2, SoundScalars DEF Advance, Messages, i
<1>3. CASE ~(i + 1 >= NoInsts)
  <2>1. i + 1 \in InstRange
    BY <1>1, <1>3, InstsAssumption DEF InstRange
  <2>2. Sound(MoveTo(d, i + 1))
    BY <2>1, SoundMove
  <2>3. QED
    BY <1>3, <2>2 DEF Advance, i
<1>4. QED
  BY <1>2, <1>3

\* A call is pushed only while the stack has room for it.
LEMMA SoundPush ==
  ASSUME NEW d, Sound(d), this_ctx(d).last_inst # NoInst
  PROVE  /\ Sound(PushCall(d))
         /\ this_ctx(PushCall(d)).tip_queue = this_ctx(d).tip_queue
<1> DEFINE c == this_ctx(d)
           s == Append(c.call_stack, c.last_inst + 1)
<1>1. Good(c) /\ c \in CtxType /\ c.call_stack \in Seq(1 .. NoInsts)
  BY SoundFields, CtxFields
<1>2. c.last_inst + 1 \in 1 .. NoInsts
  BY <1>1, CtxFields, InstsAssumption DEF InstRange
<1>3. CASE Len(c.call_stack) + 1 >= CALL_STACK_LEN
  <2>1. PushCall(d) = Fatal(d, "Full stack")
    BY <1>3 DEF PushCall
  <2>2. Fatal(d, "Full stack").ctx = d.ctx /\ Fatal(d, "Full stack").ctx_idx = d.ctx_idx
    BY DEF Fatal, Sound, XedType
  <2>3. QED
    BY <2>1, <2>2, SoundScalars DEF Messages, this_ctx
<1>4. CASE ~(Len(c.call_stack) + 1 >= CALL_STACK_LEN)
  <2>1. s \in Seq(1 .. NoInsts) /\ Len(s) = Len(c.call_stack) + 1
    BY <1>1, <1>2, AppendProperties
  <2>2. Len(s) < CALL_STACK_LEN
    BY <1>1, <1>4, <2>1, SizesAssumption
  <2> DEFINE e == [c EXCEPT !.call_stack = s]
  <2>3. PushCall(d) = SetCtx(d, e)
    BY <1>4 DEF PushCall
  <2>4. Good(e) /\ e.tip_queue = c.tip_queue
    BY <1>1, <2>1, <2>2, GoodCalls, CtxCalls
  <2> HIDE DEF e
  <2>5. QED
    BY <2>3, <2>4, SoundSetCtx
<1>5. QED
  BY <1>3, <1>4

\* A sequence without its last element.
LEMMA WithoutLast ==
  ASSUME NEW S, NEW s \in Seq(S), Len(s) # 0
  PROVE  /\ SubSeq(s, 1, Len(s) - 1) \in Seq(S)
         /\ Len(SubSeq(s, 1, Len(s) - 1)) = Len(s) - 1
<1>1. PICK n \in Nat : n = Len(s) - 1
  OBVIOUS
<1>2. \A i \in 1 .. n : s[i] \in S
  BY <1>1, ElementOfSeq
<1>3. 1 \in Int /\ n \in Int
  OBVIOUS
<1>4. SubSeq(s, 1, n) \in Seq(S) /\ Len(SubSeq(s, 1, n)) = IF 1 <= n THEN n - 1 + 1 ELSE 0
  BY <1>2, <1>3, SubSeqProperties
<1>5. (IF 1 <= n THEN n - 1 + 1 ELSE 0) = n
  OBVIOUS
<1>6. QED
  BY <1>1, <1>4, <1>5

\* A return takes calls from the stack and adds none.
LEMMA SoundPop ==
  ASSUME NEW d, Sound(d), NEW tip
  PROVE  /\ Sound(PopCall(d, tip))
         /\ this_ctx(PopCall(d, tip)).tip_queue = this_ctx(d).tip_queue
<1> DEFINE c == this_ctx(d)
           n == Len(c.call_stack)
           s == IF RetAddr(c.call_stack[n]) = tip THEN SubSeq(c.call_stack, 1, n - 1) ELSE << >>
<1>1. Good(c) /\ c \in CtxType /\ c.call_stack \in Seq(1 .. NoInsts)
  BY SoundFields, CtxFields
<1>2. CASE n = 0
  BY <1>2 DEF PopCall
<1>3. CASE n # 0
  <2>1. n \in Nat /\ n < CALL_STACK_LEN
    BY <1>1 DEF Good
  <2>2. /\ SubSeq(c.call_stack, 1, n - 1) \in Seq(1 .. NoInsts)
        /\ Len(SubSeq(c.call_stack, 1, n - 1)) = n - 1
    BY <1>1, <1>3, WithoutLast
  <2>3. << >> \in Seq(1 .. NoInsts) /\ Len(<< >>) = 0
    OBVIOUS
  <2>4. n - 1 < CALL_STACK_LEN /\ 0 < CALL_STACK_LEN
    BY <2>1, SizesAssumption
  <2>5. s \in Seq(1 .. NoInsts) /\ Len(s) < CALL_STACK_LEN
    <3>1. CASE RetAddr(c.call_stack[n]) = tip
      BY <2>2, <2>4, <3>1
    <3>2. CASE RetAddr(c.call_stack[n]) # tip
      BY <2>3, <2>4, <3>2
    <3>3. QED
      BY <3>1, <3>2
  <2> HIDE DEF s
  <2> DEFINE e == [c EXCEPT !.call_stack = s]
  <2>6. PopCall(d, tip) = SetCtx(d, e)
    BY <1>3 DEF PopCall, s
  <2>7. Good(e) /\ e.tip_queue = c.tip_queue
    BY <1>1, <2>5, GoodCalls, CtxCalls
  <2> HIDE DEF e
  <2>8. QED
    BY <2>6, <2>7, SoundSetCtx
<1>4. QED
  BY <1>2, <1>3

\* A target is consumed only when there is one.
LEMMA SoundTakeTip ==
  ASSUME NEW d, Sound(d), this_ctx(d).tip_queue # << >>, NEW tip
  PROVE  Sound(TakeTip(d, tip))
<1> DEFINE e == xed_update_last_inst(d, tip)
<1>1. Sound(e) /\ this_ctx(e).tip_queue # << >>
  BY SoundUpdate
<1> HIDE DEF e
<1>2. Good([this_ctx(e) EXCEPT !.tip_queue = Tail(@)])
  BY <1>1, SoundFields, GoodPopTip
<1>3. Sound(PopTip(e))
  BY <1>1, <1>2, SoundSetCtx DEF PopTip
<1>4. QED
  BY <1>1, <1>3 DEF TakeTip, e

\* At a branch the oldest entry, if there is any, has a bit.
LEMMA SoundAtBranch ==
  ASSUME Sound(xed)
  PROVE  /\ Sound(AtBranch)
         /\ this_ctx(AtBranch).last_inst = this_ctx(xed).last_inst
         /\ \A k \in 1 .. Len(this_ctx(AtBranch).tnt_queue) :
              this_ctx(AtBranch).tnt_queue[k] # << >>
<1> DEFINE c == this_ctx(xed)
<1>1. Good(c) /\ c \in CtxType
  BY SoundFields
<1>2. DropExhausted(c).last_inst = c.last_inst
  BY <1>1 DEF DropExhausted, CtxType
<1>3. QED
  BY <1>1, <1>2, GoodDrop, SoundSetCtx DEF AtBranch

\* Every turn of the loop of xed_process_branches keeps the state sound.
LEMMA WalkSound ==
  ASSUME Sound(xed), Walk
  PROVE  Sound(xed')
<1> DEFINE d == AtBranch
           c == this_ctx(d)
<1>1. Sound(d) /\ c.last_inst = this_ctx(xed).last_inst
  BY SoundAtBranch
<1>2. CASE WalkLost
  BY <1>2, SoundScalars DEF WalkLost
<1>3. CASE WalkPlain
  BY <1>3, SoundAdvance DEF WalkPlain, WalkingAt
<1>4. CASE WalkCond
  <2> DEFINE bit == [c EXCEPT !.tnt_queue = << Tail(Head(@)) >> \o Tail(@)]
             e == SetCtx(d, bit)
  <2>1. this_ctx(xed).last_inst # NoInst
    BY <1>4 DEF WalkCond, WalkingAt
  <2>2. CASE c.tnt_queue = << >>
    <3>1. xed' = Return(d)
      BY <1>4, <2>2 DEF WalkCond
    <3>2. QED
      BY <1>1, <3>1, SoundScalars
  <2>3. CASE c.tnt_queue # << >>
    <3>1. Good(c) /\ c.tnt_queue \in Seq(Seq(BOOLEAN)) /\ c \in CtxType
      BY <1>1, SoundFields, CtxFields
    <3>2. Len(c.tnt_queue) \in Nat /\ Len(c.tnt_queue) >= 1
      BY <2>3, <3>1
    <3>3. Head(c.tnt_queue) # << >>
      BY <2>3, <3>1, <3>2, SoundAtBranch
    <3>4. Good(bit)
      BY <2>3, <3>1, <3>3, GoodBit
    <3>5. bit.last_inst = c.last_inst
      BY <3>1 DEF CtxType
    <3> HIDE DEF bit
    <3>6. Sound(e) /\ this_ctx(e).last_inst # NoInst
      BY <1>1, <2>1, <3>4, <3>5, SoundSetCtx
    <3>7. xed' = xed_update_last_inst(e, inst.target) \/ xed' = Advance(e)
      BY <1>4, <2>3 DEF WalkCond, bit
    <3> HIDE DEF e
    <3>8. QED
      BY <3>6, <3>7, SoundUpdate, SoundAdvance
  <2>4. QED
    BY <2>2, <2>3
<1>5. CASE WalkDirect
  <2>1. Sound(PushCall(d))
    BY <1>1, <1>5, SoundPush DEF WalkDirect, WalkingAt
  <2>2. \/ xed' = xed_update_last_inst(PushCall(d), inst.target)
        \/ xed' = xed_update_last_inst(d, inst.target)
        \/ xed' = d
    BY <1>5 DEF WalkDirect
  <2> HIDE DEF d
  <2>3. QED
    BY <1>1, <2>1, <2>2, SoundUpdate
<1>6. CASE WalkIndirect
  <2> DEFINE tip == Head(c.tip_queue)
  <2>1. CASE c.tip_queue = << >>
    <3>1. xed' = Return(d)
      BY <1>6, <2>1 DEF WalkIndirect
    <3>2. QED
      BY <1>1, <3>1, SoundScalars
  <2>2. CASE c.tip_queue # << >>
    <3>1. /\ Sound(PushCall(d)) /\ this_ctx(PushCall(d)).tip_queue # << >>
          /\ Sound(PopCall(d, tip)) /\ this_ctx(PopCall(d, tip)).tip_queue # << >>
      BY <1>1, <1>6, <2>2, SoundPush, SoundPop DEF WalkIndirect, WalkingAt
    <3>2. \/ xed' = TakeTip(PushCall(d), tip)
          \/ xed' = TakeTip(PopCall(d, tip), tip)
          \/ xed' = TakeTip(d, tip)
      BY <1>6, <2>2 DEF WalkIndirect
    <3> HIDE DEF d, tip
    <3>3. QED
      BY <1>1, <2>2, <3>1, <3>2, SoundTakeTip
  <2>3. QED
    BY <2>1, <2>2
<1>7. CASE WalkFar
  <2> DEFINE tip == Head(c.tip_queue)
  <2>1. CASE c.tip_queue = << >>
    <3>1. xed' = Return(d)
      BY <1>7, <2>1 DEF WalkFar
    <3>2. QED
      BY <1>1, <3>1, SoundScalars
  <2>2. CASE c.tip_queue # << >>
    <3>1. Sound(TakeTip(d, tip))
      BY <1>1, <2>2, SoundTakeTip
    <3>2. xed' = AsyncExit(TakeTip(d, tip), tip) \/ xed' = TakeTip(d, tip)
      BY <1>7, <2>2 DEF WalkFar
    <3>3. QED
      BY <3>1, <3>2, SoundExit
  <2>3. QED
    BY <2>1, <2>2
<1>8. QED
  BY <1>2, <1>3, <1>4, <1>5, <1>6, <1>7 DEF Walk

-----------------------------------------------------------------------------
(* The packets.                                                            *)

\* The checks of ip_decode stop the program or leave the state alone.
LEMMA SoundCheckIp ==
  ASSUME NEW d, Sound(d), NEW type, NEW ip
  PROVE  Sound(CheckIp(d, type, ip))
<1> DEFINE e == xed_intel_pt_tip_disable(d)
<1>1. Sound(e)
  BY SoundNoInput DEF xed_intel_pt_tip_disable, Messages
<1> HIDE DEF e
<1>2. CheckIp(d, type, ip) \in
        {d, e, Fatal(e, "ip_decode error 4"),
         Fatal(d, "ip_decode error 0"), Fatal(d, "ip_decode error 2")}
  BY DEF CheckIp, e
<1>3. \A m \in {"ip_decode error 4", "ip_decode error 0", "ip_decode error 2"} :
        Sound(Fatal(d, m)) /\ Sound(Fatal(e, m))
  BY <1>1, SoundScalars DEF Messages
<1>4. QED
  BY <1>1, <1>2, <1>3

\* A restart of the current context takes nothing from a packet but its IP.
LEMMA SoundStartAt ==
  ASSUME NEW d, Sound(d), NEW ip
  PROVE  Sound(StartAt(d, ip))
<1>1. << >> \in Seq(BOOLEAN) /\ NoAddr \in Nat
  BY DEF NoAddr
<1>2. QED
  BY <1>1, SoundUpdate, SoundProcess DEF StartAt

\* An OVF resets every context and forgets the address space.
LEMMA SoundOvf ==
  ASSUME NEW d, Sound(d)
  PROVE  Sound(xed_intel_pt_ovf(d))
<1>1. NoPgd \in Pgds \cup {NoPgd}
  OBVIOUS
<1>2. Sound([d EXCEPT !.this_pgd = NoPgd])
  BY <1>1, SoundScalars
<1>3. QED
  BY <1>2, SoundReset DEF xed_intel_pt_ovf

-----------------------------------------------------------------------------
(* The history.                                                            *)

\* A set of positions has a last one.  By the well-founded order of strict
\* inclusion: the smallest of the sets of positions from k on starts at it.
LEMMA HasGreatest ==
  ASSUME NEW n \in Nat, NEW S \in SUBSET (1 .. n), S # {}
  PROVE  \E k \in S : \A j \in S : j <= k
<1> DEFINE From(k) == {j \in S : j >= k}
           T == {From(k) : k \in S}
           R == StrictSubsetOrdering(S)
<1>1. IsFiniteSet(S)
  <2>1. IsFiniteSet(1 .. n)
    BY FS_Interval
  <2>2. QED
    BY <2>1, FS_Subset
<1>2. \A k \in S : From(k) \in SUBSET S
  OBVIOUS
<1>3. T \subseteq FiniteSubsetsOf(S)
  BY <1>1, <1>2, FS_Subset DEF FiniteSubsetsOf
<1>4. T # {}
  OBVIOUS
<1>5. IsWellFoundedOn(R, FiniteSubsetsOf(S))
  BY FS_StrictSubsetOrderingWellFounded
<1>6. PICK U \in T : \A V \in T : <<V, U>> \notin R
  <2> HIDE DEF T, R
  <2>1. QED
    BY <1>3, <1>4, <1>5, WFMin
<1>7. PICK k \in S : U = From(k)
  BY <1>6
<1>8. ASSUME NEW j \in S, ~(j <= k)
      PROVE  FALSE
  <2>1. j > k
    BY <1>8
  <2>2. From(j) \subseteq From(k)
    <3>1. \A i \in S : i >= j => i >= k
      BY <2>1
    <3>2. QED
      BY <3>1
  <2>3. k \in From(k) /\ k \notin From(j)
    BY <2>1
  <2>4. <<From(j), From(k)>> \in R
    BY <1>2, <2>2, <2>3 DEF StrictSubsetOrdering
  <2>5. QED
    BY <1>6, <1>7, <2>4
<1>9. QED
  BY <1>8

\* A scan of the history finds an entry before the last one, or none.
LEMMA ScanInHistory ==
  ASSUME NEW h \in HistType, Len(h) >= 1, NEW skip
  PROVE  LastOutside(h, skip) = 0 \/ LastOutside(h, skip) \in 1 .. Len(h) - 1
<1> DEFINE S == {k \in 1 .. Len(h) - 1 : h[k].type \notin skip}
<1>1. CASE S = {}
  BY <1>1 DEF LastOutside
<1>2. CASE S # {}
  <2>1. Len(h) - 1 \in Nat
    BY DEF HistType
  <2>2. S \in SUBSET (1 .. Len(h) - 1)
    OBVIOUS
  <2>3. LastOutside(h, skip) = CHOOSE k \in S : \A j \in S : j <= k
    BY <1>2 DEF LastOutside
  <2> HIDE DEF S
  <2>4. \E k \in S : \A j \in S : j <= k
    BY <1>2, <2>1, <2>2, HasGreatest
  <2>5. LastOutside(h, skip) \in S
    BY <2>3, <2>4
  <2>6. QED
    BY <2>2, <2>5
<1>3. QED
  BY <1>1, <1>2

\* Recording a packet leaves a history, with an entry unless it was a TIP_PGD.
LEMMA RecordInHistory ==
  ASSUME hist \in HistType, NEW type \in HistTypes, NEW ip \in Nat
  PROVE  /\ record_intel_pt_pkt(type, ip) \in HistType
         /\ type # "TIP_PGD" => Len(record_intel_pt_pkt(type, ip)) >= 1
<1> DEFINE E == [type: HistTypes, ip: Nat]
           x == [type |-> type, ip |-> ip]
           h == Append(hist, x)
<1>1. x \in E
  OBVIOUS
<1>2. hist \in Seq(E)
  BY DEF HistType
<1> HIDE DEF E, x
<1>3. h \in Seq(E) /\ Len(h) = Len(hist) + 1 /\ Len(hist) \in Nat
  BY <1>1, <1>2, AppendProperties
<1>4. << >> \in Seq(E)
  OBVIOUS
<1> HIDE DEF h
<1>5. h # << >>
  BY <1>3
<1>6. Tail(h) \in Seq(E) /\ Len(Tail(h)) = Len(h) - 1
  BY <1>3, <1>5, HeadTailProperties
<1>7. Len(h) >= INTEL_PT_PKT_HISTORY => Len(h) - 1 >= 1
  BY <1>3, PacketsAssumption
<1>8. record_intel_pt_pkt(type, ip) \in {<< >>, h, Tail(h)}
  BY DEF record_intel_pt_pkt, h, x
<1>9. type # "TIP_PGD" =>
        record_intel_pt_pkt(type, ip) = IF Len(h) >= INTEL_PT_PKT_HISTORY THEN Tail(h) ELSE h
  BY DEF record_intel_pt_pkt, h, x
<1>10. record_intel_pt_pkt(type, ip) \in Seq(E)
  BY <1>3, <1>4, <1>6, <1>8
<1>11. type # "TIP_PGD" => Len(record_intel_pt_pkt(type, ip)) >= 1
  BY <1>3, <1>6, <1>7, <1>9
<1>12. QED
  BY <1>10, <1>11 DEF HistType, E

\* Renaming an entry leaves a history of the same length.
LEMMA RenameInHistory ==
  ASSUME NEW h \in HistType, NEW k \in 1 .. Len(h), NEW type \in HistTypes
  PROVE  /\ [h EXCEPT ![k].type = type] \in HistType
         /\ Len([h EXCEPT ![k].type = type]) = Len(h)
<1> DEFINE E == [type: HistTypes, ip: Nat]
<1>1. h \in Seq(E) /\ h[k] \in E
  <2>1. h \in Seq(E)
    BY DEF HistType
  <2> HIDE DEF E
  <2>2. QED
    BY <2>1, ElementOfSeq
<1>2. [h[k] EXCEPT !.type = type] \in E
  BY <1>1
<1>3. [h EXCEPT ![k] = [h[k] EXCEPT !.type = type]] \in Seq(E)
  <2> HIDE DEF E
  <2>1. QED
    BY <1>1, <1>2, ExceptSeq
<1>4. QED
  BY <1>1, <1>3 DEF HistType

\* Pairing two entries leaves a history of the same length.
LEMMA PairedInHistory ==
  ASSUME NEW h \in HistType, Len(h) >= 1, NEW k \in 1 .. Len(h) - 1,
         NEW old \in HistTypes, NEW new \in HistTypes
  PROVE  Paired(h, k, old, new) \in HistType /\ Len(Paired(h, k, old, new)) = Len(h)
<1> DEFINE g == [h EXCEPT ![k].type = old]
<1>1. Len(h) \in Nat /\ k \in 1 .. Len(h) /\ Len(h) \in 1 .. Len(h)
  BY DEF HistType
<1>2. g \in HistType /\ Len(g) = Len(h)
  BY <1>1, RenameInHistory
<1>3. Paired(h, k, old, new) = [g EXCEPT ![Len(h)].type = new]
  BY DEF Paired
<1> HIDE DEF g
<1>4. Len(h) \in 1 .. Len(g)
  BY <1>1, <1>2
<1>5. \A j \in 1 .. Len(g) : /\ [g EXCEPT ![j].type = new] \in HistType
                             /\ Len([g EXCEPT ![j].type = new]) = Len(g)
  BY <1>2, RenameInHistory
<1>6. /\ [g EXCEPT ![Len(h)].type = new] \in HistType
      /\ Len([g EXCEPT ![Len(h)].type = new]) = Len(g)
  BY <1>4, <1>5
<1>7. QED
  BY <1>2, <1>3, <1>6

\* An entry has a type and an IP.
LEMMA EntryInHistory ==
  ASSUME NEW h \in HistType, NEW k \in 1 .. Len(h)
  PROVE  h[k].type \in HistTypes /\ h[k].ip \in Nat
<1> DEFINE E == [type: HistTypes, ip: Nat]
<1>1. h \in Seq(E)
  BY DEF HistType
<1>2. \A x \in E : x.type \in HistTypes /\ x.ip \in Nat
  OBVIOUS
<1> HIDE DEF E
<1>3. h[k] \in E
  BY <1>1, ElementOfSeq
<1>4. QED
  BY <1>2, <1>3

\* The types of packets and the names of pairs are types of the history.
LEMMA TypesInHistory ==
  /\ PktTypes \subseteq HistTypes
  /\ RecordTypes \subseteq PktTypes
  /\ {"FUP", "TIP", "TIP_PGE", "TIP_PGD", "PSB", "PSBEND", "OVF", "PIP", "TSC_MTC", "BBP",
      "BIP", "BEP", "PTW", "SHORT_TNT", "OVF_FUP", "OVF_TIP_PGE", "FUP_OVF", "FUP_BEP", "FUP_PTW",
      "FUP_TIP", "TIP_PGE_OVF", "TIP_FUP"} \subseteq HistTypes
BY DEF HistTypes, PktTypes, RecordTypes, IpTypes

\* A type recorded without an IP.
LEMMA RecordPlain ==
  ASSUME hist \in HistType, NEW type \in HistTypes
  PROVE  record_intel_pt_pkt(type, NoAddr) \in HistType
<1>1. NoAddr \in Nat
  BY DEF NoAddr
<1>2. QED
  BY <1>1, RecordInHistory

\* FUP, TIP_PGE and TIP keep the invariant: what ip_decode calls does, and a
\* scan renames entries of the history only.
LEMMA IpPackets ==
  ASSUME Inv, NEW p, IsPacket(p), Fup(p) \/ TipPge(p) \/ Tip(p)
  PROVE  Inv'
<1>1. p.val \in Nat /\ NoAddr \in Nat /\ << >> \in Seq(BOOLEAN)
  BY DEF NoAddr, IsPacket
<1>2. CASE Fup(p)
  <2> DEFINE h == record_intel_pt_pkt("FUP", p.val)
             d == CheckIp(xed, "FUP", p.val)
             k == OvfOf(h)
             closes == Ok(d) /\ k # 0
             g == IF closes THEN Paired(h, k, "OVF_FUP", "FUP_OVF") ELSE h
             name == CASE last_ptw_fup = 1 -> "FUP_PTW"
                       [] last_ptw_fup # 1 /\ last_bep_fup = 1 -> "FUP_BEP"
                       [] OTHER -> g[Len(g)].type
  <2>1. h \in HistType /\ Len(h) >= 1
    BY <1>1, TypesInHistory, RecordInHistory DEF Inv
  <2>2. Sound(d) /\ Sound(StartAt(d, p.val))
    BY SoundCheckIp, SoundStartAt DEF Inv
  <2>3. xed' = StartAt(d, p.val) \/ xed' = d
    BY <1>2 DEF Fup
  <2>4. k = 0 \/ k \in 1 .. Len(h) - 1
    <3> HIDE DEF h
    <3>1. QED
      BY <2>1, ScanInHistory DEF OvfOf
  <2>5. g \in HistType /\ Len(g) = Len(h)
    <3> HIDE DEF h, d, k
    <3>1. CASE closes
      <4>1. k \in 1 .. Len(h) - 1
        BY <2>4, <3>1
      <4>2. "OVF_FUP" \in HistTypes /\ "FUP_OVF" \in HistTypes
        BY TypesInHistory
      <4>3. g = Paired(h, k, "OVF_FUP", "FUP_OVF")
        BY <3>1
      <4> HIDE DEF g
      <4>4. QED
        BY <2>1, <4>1, <4>2, <4>3, PairedInHistory
    <3>2. CASE ~closes
      BY <2>1, <3>2
    <3>3. QED
      BY <3>1, <3>2
  <2>6. Len(g) \in 1 .. Len(g) /\ g[Len(g)].type \in HistTypes
    <3> HIDE DEF h, g
    <3>1. Len(g) \in 1 .. Len(g)
      BY <2>1, <2>5 DEF HistType
    <3>2. QED
      BY <2>5, <3>1, EntryInHistory
  <2>7. name \in HistTypes
    <3> HIDE DEF g
    <3>1. QED
      BY <2>6, TypesInHistory
  <2>8. hist' = [g EXCEPT ![Len(g)].type = name]
    BY <1>2 DEF Fup
  <2>9. hist' \in HistType
    <3> HIDE DEF g, name
    <3>1. QED
      BY <2>5, <2>6, <2>7, <2>8, RenameInHistory
  <2>10. last_psb' \in Nat /\ last_bep_fup' \in Nat /\ last_ptw_fup' \in Nat /\ last_bbp' \in {0, 1}
    BY <1>2 DEF Fup, Inv
  <2>11. Sound(xed')
    BY <2>2, <2>3
  <2>12. QED
    BY <2>9, <2>10, <2>11 DEF Inv
<1>3. CASE TipPge(p)
  <2> DEFINE h == record_intel_pt_pkt("TIP_PGE", NoAddr)
             d == CheckIp(xed, "TIP_PGE", p.val)
             k == OvfOf(h)
  <2>1. h \in HistType /\ Len(h) >= 1
    BY <1>1, TypesInHistory, RecordInHistory DEF Inv
  <2>2. Sound(xed')
    BY <1>3, SoundCheckIp, SoundStartAt DEF Inv, TipPge
  <2>3. k = 0 \/ k \in 1 .. Len(h) - 1
    <3> HIDE DEF h
    <3>1. QED
      BY <2>1, ScanInHistory DEF OvfOf
  <2>4. k # 0 => Paired(h, k, "OVF_TIP_PGE", "TIP_PGE_OVF") \in HistType
    <3> HIDE DEF h, k
    <3>1. QED
      BY <2>1, <2>3, PairedInHistory, TypesInHistory
  <2>5. \/ hist' = h
        \/ k # 0 /\ hist' = Paired(h, k, "OVF_TIP_PGE", "TIP_PGE_OVF")
    BY <1>3 DEF TipPge
  <2>6. hist' \in HistType
    <3> HIDE DEF h, k
    <3>1. QED
      BY <2>1, <2>4, <2>5
  <2>7. QED
    BY <1>3, <2>2, <2>6 DEF Inv, TipPge
<1>4. CASE Tip(p)
  <2> DEFINE h == record_intel_pt_pkt("TIP", NoAddr)
             d == CheckIp(xed, "TIP", p.val)
             k == FupOf(h)
  <2>1. h \in HistType /\ Len(h) >= 1
    BY <1>1, TypesInHistory, RecordInHistory DEF Inv
  <2>2. k = 0 \/ k \in 1 .. Len(h) - 1
    <3> HIDE DEF h
    <3>1. QED
      BY <2>1, ScanInHistory DEF FupOf
  <2>3. k # 0 => /\ Paired(h, k, "FUP_TIP", "TIP_FUP") \in HistType
                 /\ h[k].ip \in Nat
    <3> HIDE DEF h, k
    <3>1. k # 0 => k \in 1 .. Len(h)
      BY <2>1, <2>2 DEF HistType
    <3>2. k # 0 => Paired(h, k, "FUP_TIP", "TIP_FUP") \in HistType
      BY <2>1, <2>2, PairedInHistory, TypesInHistory
    <3>3. QED
      BY <2>1, <3>1, <3>2, EntryInHistory
  <2>4. Sound(d)
    BY SoundCheckIp DEF Inv
  <2>5. Sound(xed_process_branches(d, << >>, p.val))
    <3> HIDE DEF d
    <3>1. QED
      BY <1>1, <2>4, SoundProcess
  <2>6. k # 0 => Sound(StartAt(xed_async_enter(d, h[k].ip), p.val))
    <3> HIDE DEF d, h, k
    <3>1. QED
      BY <2>3, <2>4, SoundEnter, SoundStartAt
  <2>7. \/ /\ k # 0 /\ xed' = StartAt(xed_async_enter(d, h[k].ip), p.val)
           /\ hist' = Paired(h, k, "FUP_TIP", "TIP_FUP")
        \/ xed' = xed_process_branches(d, << >>, p.val) /\ hist' = h
    BY <1>4 DEF Tip
  <2>8. Sound(xed') /\ hist' \in HistType
    <3> HIDE DEF h, d, k
    <3>1. QED
      BY <2>1, <2>3, <2>5, <2>6, <2>7
  <2>9. QED
    BY <1>4, <2>8 DEF Inv, Tip
<1>5. QED
  BY <1>2, <1>3, <1>4

\* The other packets keep it, too.
LEMMA OtherPackets ==
  ASSUME Inv, NEW p, IsPacket(p),
         \/ TipPgd(p) \/ ShortTnt(p) \/ Psb(p) \/ PsbEnd(p) \/ Ovf(p) \/ Pip(p)
         \/ TscMtc(p) \/ Bbp(p) \/ Bip(p) \/ Bep(p) \/ Ptw(p) \/ Record(p) \/ Unsupported(p)
  PROVE  Inv'
<1>1. p.val \in Nat /\ p.tnt \in Seq(BOOLEAN) /\ (p.type = "PIP" => p.val \in Pgds)
  BY DEF IsPacket
<1>2. NoAddr \in Nat /\ 0 \in Nat
  BY DEF NoAddr
<1>3. \A type \in HistTypes : record_intel_pt_pkt(type, NoAddr) \in HistType
  BY RecordPlain DEF Inv
<1>4. Sound(xed) /\ \A m \in Messages : Sound(Fatal(xed, m))
  BY SoundScalars DEF Inv
<1>5. CASE TipPgd(p)
  BY <1>3, <1>5, SoundCheckIp, TypesInHistory DEF TipPgd, Inv
<1>6. CASE ShortTnt(p)
  <2>1. Sound(xed_process_branches(xed, p.tnt, NoAddr))
    BY <1>1, <1>2, <1>4, SoundProcess
  <2>2. QED
    BY <1>3, <1>6, <2>1, TypesInHistory DEF ShortTnt, Inv
<1>7. CASE Psb(p)
  BY <1>3, <1>4, <1>7, TypesInHistory DEF Psb, Inv
<1>8. CASE PsbEnd(p)
  <2>1. Sound(xed')
    BY <1>4, <1>8 DEF PsbEnd, Messages
  <2>2. hist' \in HistType
    BY <1>3, <1>8, TypesInHistory DEF PsbEnd, Inv
  <2>3. last_psb' \in Nat /\ last_bep_fup' \in Nat /\ last_ptw_fup' \in Nat /\ last_bbp' \in {0, 1}
    <3>1. last_psb' = 0 \/ last_psb' = last_psb
      BY <1>8 DEF PsbEnd
    <3>2. QED
      BY <1>2, <1>8, <3>1 DEF PsbEnd, Inv
  <2>4. QED
    BY <2>1, <2>2, <2>3 DEF Inv
<1>9. CASE Ovf(p)
  BY <1>3, <1>4, <1>9, SoundOvf, TypesInHistory DEF Ovf, Inv
<1>10. CASE Pip(p)
  <2>1. Sound(xed_intel_pt_pip(xed, p.val))
    BY <1>1, <1>4, <1>10, SoundScalars DEF Pip, xed_intel_pt_pip
  <2>2. QED
    BY <1>3, <1>10, <2>1, TypesInHistory DEF Pip, Inv
<1>11. CASE TscMtc(p)
  <2>1. xed' = xed \/ xed' \in {Fatal(xed, "tsc_mtc error 0"), Fatal(xed, "tsc_mtc error 1")}
    BY <1>11 DEF TscMtc
  <2>2. Sound(xed')
    BY <1>4, <2>1 DEF Messages
  <2>3. hist' = hist \/ hist' = record_intel_pt_pkt("TSC_MTC", NoAddr)
    BY <1>11 DEF TscMtc
  <2>4. hist' \in HistType
    BY <1>3, <2>3, TypesInHistory DEF Inv
  <2>5. QED
    BY <1>11, <2>2, <2>4 DEF TscMtc, Inv
<1>17. CASE Bbp(p)
  BY <1>3, <1>4, <1>17, TypesInHistory DEF Bbp, Inv, Messages
<1>18. CASE Bip(p)
  BY <1>3, <1>4, <1>18, TypesInHistory DEF Bip, Inv
<1>12. CASE Bep(p)
  BY <1>1, <1>3, <1>4, <1>12, TypesInHistory DEF Bep, Inv
<1>13. CASE Ptw(p)
  BY <1>1, <1>3, <1>4, <1>13, TypesInHistory DEF Ptw, Inv
<1>14. CASE Record(p)
  <2>1. p.type \in HistTypes /\ Told(p) \in Nat
    BY <1>1, <1>2, <1>14, TypesInHistory DEF Record, Told
  <2>2. record_intel_pt_pkt(p.type, Told(p)) \in HistType
    BY <2>1, RecordInHistory DEF Inv
  <2>3. QED
    BY <1>4, <1>14, <2>2 DEF Record, Inv
<1>15. CASE Unsupported(p)
  BY <1>4, <1>15 DEF Unsupported, Inv, Messages, ptVars
<1>16. QED
  BY <1>5, <1>6, <1>7, <1>8, <1>9, <1>10, <1>11, <1>12, <1>13, <1>14, <1>15,
     <1>17, <1>18

\* So does whatever packet is decoded.
LEMMA PacketKeepsInv ==
  ASSUME Inv, NEW p, IsPacket(p), intel_pt_decode_online(p)
  PROVE  Inv'
BY IpPackets, OtherPackets DEF intel_pt_decode_online

\* Every turn of the walk does.
LEMMA WalkKeepsInv == ASSUME Inv, WalkStep PROVE Inv'
<1>1. Sound(xed')
  BY WalkSound DEF WalkStep, Inv
<1>2. QED
  BY <1>1 DEF WalkStep, ptVars, Inv

-----------------------------------------------------------------------------
(* The theorems.                                                           *)

\* The program starts with every context empty.
LEMMA InitInv == PtInit => Inv
<1> SUFFICES ASSUME PtInit PROVE Inv
  OBVIOUS
<1> DEFINE start == [i \in 0 .. MAX_NO_CTXS - 1 |->
                       [async_src |-> NoAddr, call_stack |-> << >>,
                        last_inst |-> IF i < NO_INIT_CTXS THEN NoInst ELSE 0,
                        tnt_queue |-> << >>, tip_queue |-> << >>]]
<1>1. /\ xed.ctx = start /\ xed.ctx_idx = 0 /\ xed.this_pgd = NoPgd
      /\ xed.walking = FALSE /\ xed.fatal = "none"
      /\ xed = [ctx |-> start, ctx_idx |-> 0, this_pgd |-> NoPgd,
                walking |-> FALSE, fatal |-> "none"]
  BY DEF PtInit, XedInit
<1>2. \A i \in Ctxs : /\ start[i] \in CtxType /\ start[i].call_stack = << >>
                      /\ start[i].tnt_queue = << >> /\ start[i].tip_queue = << >>
  <2> SUFFICES ASSUME NEW i \in Ctxs
               PROVE  /\ start[i] \in CtxType /\ start[i].call_stack = << >>
                      /\ start[i].tnt_queue = << >> /\ start[i].tip_queue = << >>
    OBVIOUS
  <2>1. /\ << >> \in Seq(1 .. NoInsts) /\ << >> \in Seq(Seq(BOOLEAN))
        /\ << >> \in Seq(Nat) /\ NoAddr \in Nat
    BY DEF NoAddr
  <2>2. 0 \in 0 .. NoInsts - 1
    BY InstsAssumption
  <2>3. QED
    BY <2>1, <2>2 DEF Ctxs, CtxType
<1> HIDE DEF start
<1>3. Len(<< >>) = 0
  OBVIOUS
<1>4. \A i \in Ctxs : Good(start[i]) /\ Empty(start[i])
  BY <1>2, <1>3, SizesAssumption DEF Good, Empty
<1>5. start \in [Ctxs -> CtxType]
  BY <1>2 DEF start, Ctxs
<1>6. 0 \in Ctxs
  BY SizesAssumption DEF Ctxs
<1>7. xed \in XedType
  BY <1>1, <1>5, <1>6 DEF XedType, Ctxs, Messages
<1>8. Sound(xed)
  BY <1>1, <1>2, <1>4, <1>7 DEF Sound
<1>9. hist \in HistType
  BY DEF PtInit, HistType
<1>10. QED
  BY <1>8, <1>9 DEF PtInit, Inv

\* Every step keeps the invariant.
LEMMA NextInv == Inv /\ [PtNext]_vars => Inv'
<1> SUFFICES ASSUME Inv, [PtNext]_vars PROVE Inv'
  OBVIOUS
<1>1. CASE WalkStep
  BY <1>1, WalkKeepsInv
<1>2. ASSUME NEW p \in Packets, intel_pt_decode_online(p)
      PROVE  Inv'
  BY <1>2, PacketsAssumption, PacketKeepsInv
<1>3. CASE UNCHANGED vars
  BY <1>3 DEF vars, ptVars, Inv
<1>4. QED
  BY <1>1, <1>2, <1>3 DEF PtNext

\* The invariant implies the type invariant and the four the runs check.
LEMMA InvImplies ==
  Inv => /\ PtTypeOK /\ FreshAbove /\ InputOnlyInCurrent /\ BitsAtHand /\ InBounds
<1> SUFFICES ASSUME Inv
             PROVE  PtTypeOK /\ FreshAbove /\ InputOnlyInCurrent /\ BitsAtHand /\ InBounds
  OBVIOUS
<1>1. PtTypeOK
  BY DEF Inv, Sound, PtTypeOK, TypeOK
<1>2. FreshAbove
  BY DEF Inv, Sound, FreshAbove
<1>3. InputOnlyInCurrent
  BY DEF Inv, Sound, Empty, InputOnlyInCurrent
<1>4. BitsAtHand
  BY DEF Inv, Sound, Good, BitsAtHand
<1>5. InBounds
  BY DEF Inv, Sound, Good, InBounds
<1>6. QED
  BY <1>1, <1>2, <1>3, <1>4, <1>5

\* The invariant holds whatever packets are decoded.
THEOREM InvHolds == PtSpec => []Inv
BY InitInv, NextInv, PTL DEF PtSpec

\* Every static variable of xed.c and intel_pt.c keeps its type: no sequence of
\* packets takes ctx_idx or last_inst out of its array.
THEOREM PtTypeCorrect == PtSpec => []PtTypeOK
BY InvHolds, InvImplies, PTL

\* xed_async_enter always opens a context with no call on its stack, although
\* it clears nothing.
THEOREM ContextsAreFresh == PtSpec => []FreshAbove
BY InvHolds, InvImplies, PTL

\* Bits and targets the walk has not consumed are always those of the context
\* that runs.
THEOREM InputStaysInCurrent == PtSpec => []InputOnlyInCurrent
BY InvHolds, InvImplies, PTL

\* Dropping one exhausted entry per branch is enough: the bit taken after it
\* exists.
THEOREM BitsAreAtHand == PtSpec => []BitsAtHand
BY InvHolds, InvImplies, PTL

\* No packet writes outside the call stack or the queues of a context.
THEOREM ArraysHold == PtSpec => []InBounds
BY InvHolds, InvImplies, PTL
-----------------------------------------------------------------------------
(* What the operators leave alone.                                         *)

\* A decoder state has its five fields and all its contexts.
Fields == {"ctx", "ctx_idx", "this_pgd", "walking", "fatal"}

Shape(d) == DOMAIN d = Fields /\ DOMAIN d.ctx = Ctxs

\* From d to e only the current context changes.
Local(d, e) ==
  /\ Shape(e) /\ e.ctx_idx = d.ctx_idx
  /\ \A i \in Ctxs \ {d.ctx_idx} : e.ctx[i] = d.ctx[i]

\* A sound state has its shape.
LEMMA SoundShape == ASSUME NEW d, Sound(d) PROVE Shape(d) /\ d.ctx_idx \in Ctxs
  BY DEF Sound, XedType, Shape, Fields, Ctxs

\* Nothing changed.
LEMMA LocalStays == ASSUME NEW d, Shape(d) PROVE Local(d, d)
  BY DEF Local

\* One local change after another.
LEMMA LocalTrans ==
  ASSUME NEW d, NEW e, NEW f, Local(d, e), Local(e, f)
  PROVE  Local(d, f)
  BY DEF Local

\* A local change keeps the shape.
LEMMA LocalShape == ASSUME NEW d, NEW e, Local(d, e) PROVE Shape(e)
  BY DEF Local

\* A new value of the current context.
LEMMA LocalSet == ASSUME NEW d, Shape(d), NEW c PROVE Local(d, SetCtx(d, c))
  <1>1. SetCtx(d, c) = [d EXCEPT !.ctx = [d.ctx EXCEPT ![d.ctx_idx] = c]]
    BY DEF SetCtx
  <1>2. Shape(SetCtx(d, c)) /\ SetCtx(d, c).ctx_idx = d.ctx_idx
    BY <1>1, Zenon DEF Shape, Fields
  <1>3. SetCtx(d, c).ctx = [d.ctx EXCEPT ![d.ctx_idx] = c]
    BY <1>1, Zenon DEF Shape, Fields
  <1>4. \A i \in Ctxs \ {d.ctx_idx} : SetCtx(d, c).ctx[i] = d.ctx[i]
    BY <1>3, Zenon DEF Shape
  <1> QED BY <1>2, <1>4 DEF Local

\* A new value of a field that holds no context.
LEMMA LocalScalars ==
  ASSUME NEW d, Shape(d), NEW v
  PROVE  /\ Local(d, [d EXCEPT !.walking = v]) /\ Local(d, Fatal(d, v)) /\ Local(d, Return(d))
         /\ Local(d, xed_intel_pt_pip(d, v))
  BY DEF Local, Shape, Fields, Fatal, Return, xed_intel_pt_pip

\* The checks that the input was consumed and that the calls returned.
LEMMA LocalNoInput ==
  ASSUME NEW d, Shape(d), NEW where
  PROVE  Local(d, NoInput(d, where)) /\ Local(d, CallsReturned(d))
  BY LocalScalars, LocalStays DEF NoInput, CallsReturned

\* xed_update_last_inst.
LEMMA LocalUpdate ==
  ASSUME NEW d, Shape(d), NEW addr PROVE Local(d, xed_update_last_inst(d, addr))
  <1> DEFINE lost == MoveTo(d, xed_unwind_find_inst(addr))
  <1>1. Local(d, lost) /\ Shape(lost)
    BY LocalSet, LocalShape DEF MoveTo
  <1> HIDE DEF lost
  <1>2. \A v : Local(d, Fatal(lost, v))
    BY <1>1, LocalScalars, LocalTrans
  <1>3. \/ xed_update_last_inst(d, addr) \in {d, lost}
        \/ \E v : xed_update_last_inst(d, addr) = Fatal(lost, v)
    BY DEF xed_update_last_inst, lost
  <1> QED BY <1>1, <1>2, <1>3, LocalStays

\* xed_add_to_branches_queue.
LEMMA LocalAdd ==
  ASSUME NEW d, Shape(d), NEW tnt, NEW tip
  PROVE  Local(d, add_tnt(d, tnt)) /\ Local(d, add_tip(d, tip))
  <1>1. Local(d, add_tnt(d, tnt))
    BY LocalSet, LocalScalars, LocalStays DEF add_tnt
  <1>2. Local(d, add_tip(d, tip))
    BY LocalSet, LocalScalars, LocalStays DEF add_tip
  <1> QED BY <1>1, <1>2

\* xed_process_branches up to its loop.
LEMMA LocalProcess ==
  ASSUME NEW d, Shape(d), NEW tnt, NEW tip PROVE Local(d, xed_process_branches(d, tnt, tip))
  <1> DEFINE e == add_tnt(d, tnt)
             f == add_tip(e, tip)
  <1>1. Local(d, e) /\ Shape(e)
    BY LocalAdd, LocalShape
  <1>2. Local(d, f) /\ Shape(f)
    <2> HIDE DEF e
    <2>1. Local(e, f)
      BY <1>1, LocalAdd
    <2> HIDE DEF f
    <2> QED BY <1>1, <2>1, LocalTrans, LocalShape
  <1>3. xed_process_branches(d, tnt, tip) \in {d, [f EXCEPT !.walking = TRUE]}
    BY DEF xed_process_branches
  <1> HIDE DEF f
  <1>4. Local(d, [f EXCEPT !.walking = TRUE])
    BY <1>2, LocalScalars, LocalTrans
  <1> QED BY <1>3, <1>4, LocalStays

\* A restart of the current context.
LEMMA LocalStartAt ==
  ASSUME NEW d, Shape(d), NEW ip PROVE Local(d, StartAt(d, ip))
  <1> DEFINE e == xed_update_last_inst(d, ip)
  <1>1. Local(d, e) /\ Shape(e)
    BY LocalUpdate, LocalShape
  <1> HIDE DEF e
  <1>2. Local(e, xed_process_branches(e, << >>, NoAddr))
    BY <1>1, LocalProcess
  <1> QED BY <1>1, <1>2, LocalTrans DEF StartAt, e

\* The checks of ip_decode.
LEMMA LocalCheckIp ==
  ASSUME NEW d, Shape(d), NEW type, NEW ip PROVE Local(d, CheckIp(d, type, ip))
  <1> DEFINE e == xed_intel_pt_tip_disable(d)
  <1>1. Local(d, e) /\ Shape(e)
    BY LocalNoInput, LocalShape DEF xed_intel_pt_tip_disable
  <1> HIDE DEF e
  <1>2. \A v : Local(d, Fatal(e, v)) /\ Local(d, Fatal(d, v))
    BY <1>1, LocalScalars, LocalTrans
  <1>3. CheckIp(d, type, ip) \in
          {d, e, Fatal(e, "ip_decode error 4"),
           Fatal(d, "ip_decode error 0"), Fatal(d, "ip_decode error 2")}
    BY DEF CheckIp, e
  <1> QED BY <1>1, <1>2, <1>3, LocalStays

\* xed_process_calls and xed_process_rets.
LEMMA LocalCalls ==
  ASSUME NEW d, Shape(d), NEW tip
  PROVE  /\ Local(d, Advance(d)) /\ Local(d, PushCall(d)) /\ Local(d, PopCall(d, tip))
         /\ Local(d, TakeTip(d, tip))
  <1>1. Local(d, Advance(d))
    BY LocalSet, LocalScalars DEF Advance, MoveTo
  <1>2. Local(d, PushCall(d))
    BY LocalSet, LocalScalars DEF PushCall
  <1>3. Local(d, PopCall(d, tip))
    BY LocalSet, LocalStays DEF PopCall
  <1>4. Local(d, TakeTip(d, tip))
    <2> DEFINE e == xed_update_last_inst(d, tip)
    <2>1. Local(d, e) /\ Shape(e)
      BY LocalUpdate, LocalShape
    <2> HIDE DEF e
    <2>2. Local(d, PopTip(e))
      BY <2>1, LocalSet, LocalTrans DEF PopTip
    <2> QED BY <2>1, <2>2 DEF TakeTip, e
  <1> QED BY <1>1, <1>2, <1>3, <1>4

-----------------------------------------------------------------------------
(* Steps.                                                                  *)

\* From d to e the contexts other than that of d stay what they are or are reset,
\* and none is opened.
Closing(d, e) ==
  /\ e.ctx_idx <= d.ctx_idx
  /\ \A i \in Ctxs \ {d.ctx_idx} : e.ctx[i] \in {d.ctx[i], ResetCtx(d.ctx[i])}

\* A local change closes nothing.
LEMMA LocalCloses == ASSUME NEW d, NEW e, Local(d, e), d.ctx_idx \in Ctxs PROVE Closing(d, e)
  BY DEF Local, Closing, Ctxs

\* xed_async_reset.
LEMMA ResetCloses ==
  ASSUME NEW d, Shape(d), d.ctx_idx \in Ctxs
  PROVE  /\ Closing(d, xed_async_reset(d)) /\ xed_async_reset(d).ctx_idx = 0
         /\ Shape(xed_async_reset(d))
  <1>1. /\ Shape(xed_async_reset(d)) /\ xed_async_reset(d).ctx_idx = 0
        /\ xed_async_reset(d).ctx = [i \in Ctxs |->
                       IF i <= d.ctx_idx THEN ResetCtx(d.ctx[i]) ELSE d.ctx[i]]
    BY DEF Shape, Fields, xed_async_reset, Ctxs
  <1>2. \A i \in Ctxs : xed_async_reset(d).ctx[i] \in {d.ctx[i], ResetCtx(d.ctx[i])}
    BY <1>1
  <1>3. 0 <= d.ctx_idx
    BY DEF Ctxs
  <1> QED BY <1>1, <1>2, <1>3 DEF Closing

\* xed_async_leave.
LEMMA LeaveCloses ==
  ASSUME NEW d, Shape(d), d.ctx_idx \in Ctxs
  PROVE  Leave(d).ctx = d.ctx /\ Leave(d).ctx_idx <= d.ctx_idx /\ (d.ctx_idx = 0 => Leave(d) = d)
  BY DEF Leave, Shape, Fields, Ctxs

\* The return from the outermost interrupt.
LEMMA ExitCloses ==
  ASSUME NEW d, Shape(d), d.ctx_idx \in Ctxs, NEW tip PROVE Closing(d, AsyncExit(d, tip))
  <1> DEFINE e == NoInput(CallsReturned(d), "async exit")
             r == xed_async_reset(e)
  <1>1. Local(d, e) /\ Shape(e) /\ e.ctx_idx = d.ctx_idx
    <2>1. Local(d, CallsReturned(d)) /\ Shape(CallsReturned(d))
      BY LocalNoInput, LocalShape
    <2>2. Local(CallsReturned(d), e)
      BY <2>1, LocalNoInput
    <2>3. Local(d, e)
      BY <2>1, <2>2, LocalTrans
    <2> HIDE DEF e
    <2> QED BY <2>3 DEF Local
  <1>2. AsyncExit(d, tip) \in {e, Leave(e), Leave(r)}
    BY DEF AsyncExit
  <1> HIDE DEF e
  <1>3. Closing(d, e)
    BY <1>1, LocalCloses
  <1>4. Closing(d, Leave(e))
    <2>1. Leave(e).ctx = e.ctx /\ Leave(e).ctx_idx <= e.ctx_idx
      BY <1>1, LeaveCloses
    <2> QED BY <1>1, <1>3, <2>1 DEF Closing
  <1>5. Closing(d, Leave(r))
    <2>1. Closing(e, r) /\ r.ctx_idx = 0 /\ Shape(r)
      BY <1>1, ResetCloses
    <2> HIDE DEF r
    <2>2. Leave(r) = r
      BY <2>1, SizesAssumption, LeaveCloses DEF Ctxs
    <2> QED BY <1>1, <2>1, <2>2 DEF Closing, Local
  <1> QED BY <1>2, <1>3, <1>4, <1>5

\* Every turn of the loop of xed_process_branches.
LEMMA WalkCloses == ASSUME Sound(xed), Walk PROVE Closing(xed, xed')
  <1> DEFINE d == AtBranch
             c == this_ctx(d)
  <1>1. Shape(xed) /\ xed.ctx_idx \in Ctxs
    BY SoundShape
  <1>2. Local(xed, d) /\ Shape(d) /\ d.ctx_idx \in Ctxs
    BY <1>1, LocalSet DEF AtBranch, Local
  <1> SUFFICES ASSUME ~Local(xed, xed') PROVE Closing(xed, xed')
    BY <1>1, LocalCloses
  <1>3. CASE WalkLost
    BY <1>1, <1>3, LocalScalars DEF WalkLost
  <1>4. CASE WalkPlain
    BY <1>1, <1>4, LocalCalls DEF WalkPlain
  <1>5. CASE WalkCond
    <2> DEFINE e == SetCtx(d, [c EXCEPT !.tnt_queue = << Tail(Head(@)) >> \o Tail(@)])
    <2>1. xed' \in {Return(d), xed_update_last_inst(e, inst.target), Advance(e)}
      BY <1>5 DEF WalkCond
    <2> HIDE DEF d
    <2>2. Local(xed, e) /\ Shape(e)
      BY <1>2, LocalSet, LocalTrans, LocalShape
    <2> HIDE DEF e
    <2> QED BY <1>2, <2>1, <2>2, LocalScalars, LocalUpdate, LocalCalls, LocalTrans
  <1>6. CASE WalkDirect
    <2>1. xed' \in {xed_update_last_inst(PushCall(d), inst.target),
                    xed_update_last_inst(d, inst.target), d}
      BY <1>6 DEF WalkDirect
    <2> HIDE DEF d
    <2>2. Local(xed, PushCall(d)) /\ Shape(PushCall(d))
      BY <1>2, LocalCalls, LocalTrans, LocalShape
    <2> QED BY <1>2, <2>1, <2>2, LocalUpdate, LocalTrans
  <1>7. CASE WalkIndirect
    <2> DEFINE tip == Head(c.tip_queue)
    <2>1. xed' \in {Return(d), TakeTip(PushCall(d), tip), TakeTip(PopCall(d, tip), tip), TakeTip(d, tip)}
      BY <1>7 DEF WalkIndirect
    <2> HIDE DEF d, tip
    <2>2. /\ Local(xed, PushCall(d)) /\ Shape(PushCall(d))
          /\ Local(xed, PopCall(d, tip)) /\ Shape(PopCall(d, tip))
      BY <1>2, LocalCalls, LocalTrans, LocalShape
    <2>3. Local(xed, TakeTip(PushCall(d), tip)) /\ Local(xed, TakeTip(PopCall(d, tip), tip))
      BY <2>2, LocalCalls, LocalTrans
    <2>4. Local(xed, TakeTip(d, tip)) /\ Local(xed, Return(d))
      BY <1>2, LocalCalls, LocalScalars, LocalTrans
    <2> QED BY <2>1, <2>3, <2>4
  <1>8. CASE WalkFar
    <2> DEFINE tip == Head(c.tip_queue)
    <2>1. xed' \in {Return(d), TakeTip(d, tip), AsyncExit(TakeTip(d, tip), tip)}
      BY <1>8 DEF WalkFar
    <2> HIDE DEF d, tip
    <2>2. Local(xed, TakeTip(d, tip)) /\ Shape(TakeTip(d, tip))
      BY <1>2, LocalCalls, LocalTrans, LocalShape
    <2>3. Local(xed, Return(d))
      BY <1>2, LocalScalars, LocalTrans
    <2>4. xed' = AsyncExit(TakeTip(d, tip), tip)
      BY <2>1, <2>2, <2>3
    <2>5. TakeTip(d, tip).ctx_idx = xed.ctx_idx
      BY <2>2 DEF Local
    <2>6. Closing(TakeTip(d, tip), xed')
      BY <1>1, <2>2, <2>4, <2>5, ExitCloses
    <2> QED BY <2>2, <2>5, <2>6 DEF Closing, Local
  <1> QED BY <1>3, <1>4, <1>5, <1>6, <1>7, <1>8 DEF Walk

-----------------------------------------------------------------------------
(* Packets.                                                                *)

\* From d to e a context is opened above the current one, and no other changes.
Opening(d, e) ==
  /\ e.ctx_idx = d.ctx_idx + 1 /\ e.ctx_idx \in Ctxs
  /\ \A i \in Ctxs \ {e.ctx_idx} : e.ctx[i] = d.ctx[i]

\* ip_decode checks: the contexts stay.
LEMMA CheckIpCtx ==
  ASSUME NEW d, Shape(d), NEW type, NEW ip
  PROVE  CheckIp(d, type, ip).ctx = d.ctx /\ CheckIp(d, type, ip).ctx_idx = d.ctx_idx
  <1>1. \A v : Shape(Fatal(d, v)) /\ Fatal(d, v).ctx = d.ctx /\ Fatal(d, v).ctx_idx = d.ctx_idx
    BY DEF Fatal, Shape, Fields
  <1>2. \A u, v : Fatal(Fatal(d, u), v).ctx = d.ctx /\ Fatal(Fatal(d, u), v).ctx_idx = d.ctx_idx
    BY DEF Fatal, Shape, Fields
  <1>3. xed_intel_pt_tip_disable(d) \in {d, Fatal(d, "TIP_PGD")}
    BY DEF xed_intel_pt_tip_disable, NoInput
  <1>4. CheckIp(d, type, ip) \in
          {d, xed_intel_pt_tip_disable(d), Fatal(xed_intel_pt_tip_disable(d), "ip_decode error 4"),
           Fatal(d, "ip_decode error 0"), Fatal(d, "ip_decode error 2")}
    BY DEF CheckIp
  <1> QED BY <1>1, <1>2, <1>3, <1>4

\* The restart of a context leaves its source.
LEMMA StartAtSource ==
  ASSUME NEW d, Sound(d), NEW ip
  PROVE  this_ctx(StartAt(d, ip)).async_src = this_ctx(d).async_src
  <1> DEFINE lost == MoveTo(d, xed_unwind_find_inst(ip))
             u == xed_update_last_inst(d, ip)
  <1>1. Shape(d) /\ d.ctx_idx \in Ctxs /\ this_ctx(d) \in CtxType
    BY SoundShape, SoundFields
  <1>2. /\ lost.ctx = [d.ctx EXCEPT ![d.ctx_idx] =
                         [this_ctx(d) EXCEPT !.last_inst = xed_unwind_find_inst(ip)]]
        /\ lost.ctx_idx = d.ctx_idx /\ DOMAIN lost = Fields
    BY <1>1, Zenon DEF MoveTo, SetCtx, Shape, Fields
  <1>3. this_ctx(lost).async_src = this_ctx(d).async_src
    <2>1. this_ctx(lost) = [this_ctx(d) EXCEPT !.last_inst = xed_unwind_find_inst(ip)]
      BY <1>1, <1>2 DEF this_ctx, Shape
    <2> QED BY <1>1, <2>1 DEF CtxType
  <1> HIDE DEF lost
  <1>4. u \in {d, lost} \/ \E v : u = Fatal(lost, v)
    BY DEF xed_update_last_inst, lost
  <1>5. this_ctx(u).async_src = this_ctx(d).async_src /\ DOMAIN u = Fields
    <2>1. \A v : /\ Fatal(lost, v).ctx = lost.ctx /\ Fatal(lost, v).ctx_idx = lost.ctx_idx
                 /\ DOMAIN Fatal(lost, v) = Fields
      BY <1>2 DEF Fatal, Fields
    <2>2. CASE u = d
      BY <1>1, <2>2 DEF Shape
    <2>3. CASE u = lost
      BY <1>2, <1>3, <2>3
    <2>4. ASSUME NEW v, u = Fatal(lost, v)
          PROVE  this_ctx(u).async_src = this_ctx(d).async_src /\ DOMAIN u = Fields
      <3>1. this_ctx(u) = this_ctx(lost)
        BY <2>1, <2>4 DEF this_ctx
      <3> QED BY <1>3, <2>1, <2>4, <3>1
    <2> QED BY <1>4, <2>2, <2>3, <2>4
  <1> HIDE DEF u
  <1>6. add_tnt(u, << >>) = u /\ add_tip(u, NoAddr) = u
    BY DEF add_tnt, add_tip
  <1>7. StartAt(d, ip) \in {u, [u EXCEPT !.walking = TRUE]}
    BY <1>6 DEF StartAt, xed_process_branches, u
  <1>8. /\ [u EXCEPT !.walking = TRUE].ctx = u.ctx
        /\ [u EXCEPT !.walking = TRUE].ctx_idx = u.ctx_idx
    BY <1>5 DEF Fields
  <1> QED BY <1>5, <1>7, <1>8 DEF this_ctx

\* The TIP of an interrupt opens a context for the source it is given, or stops
\* the program.
LEMMA EnterOpens ==
  ASSUME NEW d, Sound(d), NEW src \in Nat, NEW ip
  PROVE  LET e == StartAt(xed_async_enter(d, src), ip)
         IN  Closing(d, e) \/ (Opening(d, e) /\ e.ctx[e.ctx_idx].async_src = src)
  <1> DEFINE n == xed_async_enter(d, src)
             e == StartAt(n, ip)
             inner == [d EXCEPT !.ctx_idx = @ + 1]
             c == [this_ctx(inner) EXCEPT !.async_src = src]
  <1>1. Shape(d) /\ d.ctx_idx \in Ctxs /\ Sound(n) /\ Shape(n)
    BY SoundShape, SoundEnter
  <1>2. Local(n, e)
    <2> HIDE DEF n
    <2> QED BY <1>1, LocalStartAt
  <1>3. n \in {NoInput(d, "async enter"), Fatal(d, "Full ctxs")}
          \/ (d.ctx_idx + 1 < MAX_NO_CTXS /\ n = SetCtx(inner, c))
    <2>1. d.ctx_idx \in Nat /\ MAX_NO_CTXS \in Nat
      BY <1>1, SizesAssumption DEF Ctxs
    <2>2. d.ctx_idx + 1 >= MAX_NO_CTXS \/ d.ctx_idx + 1 < MAX_NO_CTXS
      BY <2>1
    <2> QED BY <2>2 DEF xed_async_enter
  <1>4. CASE n \in {NoInput(d, "async enter"), Fatal(d, "Full ctxs")}
    <2>1. Local(d, n)
      <3> HIDE DEF n
      <3> QED BY <1>1, <1>4, LocalNoInput, LocalScalars
    <2> HIDE DEF n, e
    <2>2. Closing(d, e)
      BY <1>1, <1>2, <2>1, LocalTrans, LocalCloses
    <2> QED BY <2>2 DEF e, n
  <1>5. CASE d.ctx_idx + 1 < MAX_NO_CTXS /\ n = SetCtx(inner, c)
    <2>1. inner.ctx_idx = d.ctx_idx + 1 /\ inner.ctx = d.ctx /\ Shape(inner)
      BY <1>1 DEF Shape, Fields
    <2>2. inner.ctx_idx \in Ctxs
      BY <1>1, <1>5, <2>1, SizesAssumption DEF Ctxs
    <2>3. Local(inner, n)
      <3> HIDE DEF inner, c, n
      <3> QED BY <1>5, <2>1, LocalSet
    <2>4. this_ctx(n) = c
      <3> HIDE DEF c, n
      <3>1. n.ctx = [inner.ctx EXCEPT ![inner.ctx_idx] = c] /\ n.ctx_idx = inner.ctx_idx
        <4> HIDE DEF inner
        <4> QED BY <1>5, <2>1, Zenon DEF SetCtx, Shape, Fields
      <3> HIDE DEF inner
      <3> QED BY <2>1, <2>2, <3>1, Zenon DEF this_ctx, Shape
    <2>5. c.async_src = src
      <3>1. this_ctx(inner) \in CtxType
        BY <2>1, <2>2, <1>1 DEF Sound, Good, this_ctx
      <3> HIDE DEF inner
      <3> QED BY <3>1 DEF CtxType
    <2> HIDE DEF inner, c, n
    <2>6. this_ctx(e).async_src = src
      BY <1>1, <2>4, <2>5, StartAtSource
    <2> HIDE DEF e
    <2>7. Opening(d, e)
      BY <1>2, <2>1, <2>2, <2>3 DEF Local, Opening
    <2> QED BY <2>6, <2>7 DEF this_ctx, e, n
  <1> QED BY <1>3, <1>4, <1>5

\* What a TIP that opened a context left in the history.
Opened(p) ==
  LET h == record_intel_pt_pkt("TIP", NoAddr)
      k == FupOf(h)
  IN  /\ p.type = "TIP" /\ k # 0 /\ hist' = Paired(h, k, "FUP_TIP", "TIP_FUP")
      /\ xed'.ctx[xed'.ctx_idx].async_src = h[k].ip

\* Every packet.
LEMMA PacketSteps ==
  ASSUME Inv, NEW p \in Packets, intel_pt_decode_online(p)
  PROVE  Closing(xed, xed') \/ (Opening(xed, xed') /\ Opened(p))
  <1>1. Sound(xed) /\ Shape(xed) /\ xed.ctx_idx \in Ctxs
    BY SoundShape DEF Inv
  <1>2. \A e : Local(xed, e) => Closing(xed, e)
    BY <1>1, LocalCloses
  <1>3. CASE Tip(p)
    <2> DEFINE h == record_intel_pt_pkt("TIP", NoAddr)
               d == CheckIp(xed, "TIP", p.val)
               k == FupOf(h)
    <2>1. Local(xed, d) /\ Shape(d) /\ Sound(d) /\ d.ctx = xed.ctx /\ d.ctx_idx = xed.ctx_idx
      BY <1>1, LocalCheckIp, LocalShape, SoundCheckIp, CheckIpCtx
    <2>2. \/ /\ k # 0 /\ xed' = StartAt(xed_async_enter(d, h[k].ip), p.val)
             /\ hist' = Paired(h, k, "FUP_TIP", "TIP_FUP")
          \/ xed' = xed_process_branches(d, << >>, p.val)
      BY <1>3 DEF Tip
    <2>3. p.type = "TIP"
      BY <1>3 DEF Tip
    <2> HIDE DEF d
    <2>4. CASE xed' = xed_process_branches(d, << >>, p.val)
      <3>1. Local(xed, xed')
        BY <2>1, <2>4, LocalProcess, LocalTrans
      <3> QED BY <1>2, <3>1
    <2>5. CASE /\ k # 0 /\ xed' = StartAt(xed_async_enter(d, h[k].ip), p.val)
               /\ hist' = Paired(h, k, "FUP_TIP", "TIP_FUP")
      <3>1. h[k].ip \in Nat
        <4>1. h \in HistType /\ Len(h) >= 1 /\ Len(h) \in Nat
          <5>1. NoAddr \in Nat /\ "TIP" \in HistTypes
            BY TypesInHistory DEF NoAddr
          <5>2. h \in HistType /\ Len(h) >= 1
            BY <5>1, RecordInHistory DEF Inv
          <5> HIDE DEF h
          <5> QED BY <5>2 DEF HistType
        <4> HIDE DEF h
        <4>2. k \in 1 .. Len(h)
          BY <2>5, <4>1, ScanInHistory DEF FupOf
        <4> HIDE DEF k
        <4> QED BY <4>1, <4>2, EntryInHistory
      <3>2. \/ Closing(d, xed')
            \/ Opening(d, xed') /\ xed'.ctx[xed'.ctx_idx].async_src = h[k].ip
        <4> HIDE DEF h, k
        <4> QED BY <2>1, <2>5, <3>1, EnterOpens
      <3>3. Opening(d, xed') => Opening(xed, xed')
        BY <2>1 DEF Opening
      <3>4. Closing(d, xed') => Closing(xed, xed')
        BY <2>1 DEF Closing
      <3> QED BY <2>3, <2>5, <3>2, <3>3, <3>4 DEF Opened
    <2> QED BY <2>2, <2>4, <2>5
  <1>4. ASSUME ~Tip(p) PROVE Closing(xed, xed')
    <2> DEFINE d(type) == CheckIp(xed, type, p.val)
    <2>1. \A type : Local(xed, d(type)) /\ Shape(d(type))
      BY <1>1, LocalCheckIp, LocalShape
    <2>2. \A type : Local(xed, StartAt(d(type), p.val))
      <3> HIDE DEF d
      <3> QED BY <2>1, LocalStartAt, LocalTrans
    <2>3. Local(xed, xed) /\ \A v : Local(xed, Fatal(xed, v))
      BY <1>1, LocalStays, LocalScalars
    <2>4. CASE Fup(p)
      <3>1. xed' \in {StartAt(d("FUP"), p.val), d("FUP")}
        BY <2>4 DEF Fup
      <3> HIDE DEF d
      <3> QED BY <1>2, <2>1, <2>2, <3>1
    <2>5. CASE TipPge(p)
      <3>1. xed' = StartAt(d("TIP_PGE"), p.val)
        BY <2>5 DEF TipPge
      <3> HIDE DEF d
      <3> QED BY <1>2, <2>2, <3>1
    <2>6. CASE TipPgd(p)
      <3>1. xed' = d("TIP_PGD")
        BY <2>6 DEF TipPgd
      <3> HIDE DEF d
      <3> QED BY <1>2, <2>1, <3>1
    <2>7. CASE ShortTnt(p)
      BY <1>1, <1>2, <2>7, LocalProcess DEF ShortTnt
    <2>8. CASE Ovf(p)
      <3> DEFINE e == [xed EXCEPT !.this_pgd = NoPgd]
      <3>1. Shape(e) /\ e.ctx = xed.ctx /\ e.ctx_idx = xed.ctx_idx /\ xed' = xed_async_reset(e)
        BY <1>1, <2>8 DEF Ovf, xed_intel_pt_ovf, Shape, Fields
      <3> HIDE DEF e
      <3>2. Closing(e, xed')
        BY <1>1, <3>1, ResetCloses
      <3> QED BY <3>1, <3>2 DEF Closing
    <2>9. CASE Pip(p)
      BY <1>1, <1>2, <2>9, LocalScalars DEF Pip
    <2>10. CASE PsbEnd(p) \/ TscMtc(p) \/ Bbp(p) \/ Unsupported(p)
      BY <1>2, <2>3, <2>10 DEF PsbEnd, TscMtc, Bbp, Unsupported
    <2>11. CASE Psb(p) \/ Bip(p) \/ Bep(p) \/ Ptw(p) \/ Record(p)
      BY <1>2, <2>3, <2>11 DEF Psb, Bip, Bep, Ptw, Record
    <2> QED BY <1>4, <2>4, <2>5, <2>6, <2>7, <2>8, <2>9, <2>10, <2>11 DEF intel_pt_decode_online
  <1> QED BY <1>3, <1>4

-----------------------------------------------------------------------------
(* What interrupts a context, and what restarts it.                        *)

\* A step of the walk or a packet closes contexts or opens one.
LEMMA Steps ==
  ASSUME Inv, [PtNext]_vars
  PROVE  Closing(xed, xed') \/ (Opening(xed, xed') /\ ~xed.walking)
  <1>1. Shape(xed) /\ xed.ctx_idx \in Ctxs
    BY SoundShape DEF Inv
  <1>2. CASE WalkStep
    BY <1>2, WalkCloses DEF WalkStep, Inv
  <1>3. ASSUME NEW p \in Packets, intel_pt_decode_online(p)
        PROVE  Closing(xed, xed') \/ (Opening(xed, xed') /\ ~xed.walking)
    BY <1>3, PacketSteps DEF intel_pt_decode_online, Idle
  <1>4. CASE UNCHANGED vars
    BY <1>1, <1>4, LocalStays, LocalCloses DEF vars
  <1> QED BY <1>2, <1>3, <1>4 DEF PtNext

\* No sequence of packets and no turn of a walk changes an interrupted context,
\* unless it resets it whole.
THEOREM SuspendedStaysFrozen == PtSpec => SuspendedFrozen
  <1>1. ASSUME Inv, [PtNext]_vars
        PROVE  [\A i \in Ctxs : i < xed.ctx_idx \/ i < xed'.ctx_idx =>
                  xed'.ctx[i] \in {xed.ctx[i], ResetCtx(xed.ctx[i])}]_vars
    <2> SUFFICES ASSUME NEW i \in Ctxs, i < xed.ctx_idx \/ i < xed'.ctx_idx
                 PROVE  xed'.ctx[i] \in {xed.ctx[i], ResetCtx(xed.ctx[i])}
      OBVIOUS
    <2>1. xed.ctx_idx \in Int /\ xed'.ctx_idx \in Int /\ i \in Int
      <3>1. Inv'
        BY <1>1, NextInv
      <3> QED BY <1>1, <3>1 DEF Inv, Sound, XedType, Ctxs
    <2>2. CASE Closing(xed, xed')
      <3>1. i # xed.ctx_idx
        BY <2>1, <2>2 DEF Closing
      <3> QED BY <2>2, <3>1 DEF Closing
    <2>3. CASE Opening(xed, xed')
      <3>1. i # xed'.ctx_idx
        BY <2>1, <2>3 DEF Opening
      <3> QED BY <2>3, <3>1 DEF Opening
    <2> QED BY <1>1, <2>2, <2>3, Steps
  <1> QED BY <1>1, InvHolds, PTL DEF PtSpec, SuspendedFrozen

\* No turn of a walk gives a context without a position one.
THEOREM LostStaysLost == PtSpec => LostUntilRestarted
  <1>1. ASSUME Inv, [PtNext]_vars
        PROVE  [xed.walking =>
                  \A i \in Ctxs : xed.ctx[i].last_inst = NoInst => xed'.ctx[i].last_inst = NoInst]_vars
    <2> SUFFICES ASSUME xed.walking, xed' # xed, NEW i \in Ctxs, xed.ctx[i].last_inst = NoInst
                 PROVE  xed'.ctx[i].last_inst = NoInst
      OBVIOUS
    <2>1. Walk
      BY <1>1 DEF PtNext, WalkStep, intel_pt_decode_online, Idle, vars
    <2>2. Sound(xed) /\ Shape(xed) /\ xed.ctx_idx \in Ctxs
      BY <1>1, SoundShape DEF Inv
    <2>3. CASE WalkLost
      <3>1. xed'.ctx = xed.ctx
        BY <2>2, <2>3 DEF WalkLost, Return, Shape, Fields
      <3> QED BY <3>1
    <2>4. CASE ~WalkLost
      <3>1. this_ctx(xed).last_inst # NoInst
        BY <2>1, <2>4 DEF Walk, WalkPlain, WalkCond, WalkDirect, WalkIndirect, WalkFar, WalkingAt
      <3>2. i # xed.ctx_idx
        BY <3>1 DEF this_ctx
      <3>3. xed'.ctx[i] \in {xed.ctx[i], ResetCtx(xed.ctx[i])}
        BY <2>1, <2>2, <3>2, WalkCloses DEF Closing
      <3>4. ResetCtx(xed.ctx[i]).last_inst = NoInst
        BY <2>2 DEF Sound, Good, CtxType, ResetCtx
      <3> QED BY <3>3, <3>4
    <2> QED BY <2>3, <2>4
  <1> QED BY <1>1, InvHolds, PTL DEF PtSpec, LostUntilRestarted

-----------------------------------------------------------------------------
(* The history.                                                            *)

\* Between k and j there is nothing a scan does not skip.
Adjacent(h, k, j) ==
  /\ k < j /\ h[k].type \notin AsyncSkip /\ h[j].type \notin AsyncSkip
  /\ \A m \in k + 1 .. j - 1 : h[m].type \in AsyncSkip

\* InterruptPairs, of any history.
PairsOff(h) ==
  \A j, k \in DOMAIN h :
    Adjacent(h, k, j) /\ (h[j].type = "TIP_FUP" \/ h[k].type = "FUP_TIP") =>
      h[j].type = "TIP_FUP" /\ h[k].type = "FUP_TIP"

\* Behind a FUP that was used there is something that is not skipped, so that no
\* later packet comes next to it.
Followed(h) ==
  \A k \in DOMAIN h : h[k].type = "FUP_TIP" => \E j \in DOMAIN h : k < j /\ h[j].type \notin AsyncSkip

\* The names of the two packets of an interrupt.
Paired2 == {"TIP_FUP", "FUP_TIP"}

\* No packet with an IP is skipped, and no packet is recorded under the name of
\* one of a pair.
LEMMA NotSkipped ==
  /\ {"FUP", "TIP", "TIP_PGE", "TIP_PGD", "OVF", "OVF_FUP", "OVF_TIP_PGE", "FUP_OVF", "FUP_BEP",
      "FUP_PTW", "FUP_TIP", "TIP_PGE_OVF", "TIP_FUP"} \cap AsyncSkip = {}
  /\ PktTypes \cap Paired2 = {}
  BY DEF AsyncSkip, TimingTypes, PktTypes, RecordTypes, ErrorTypes, IpTypes, Paired2

\* A new entry of the type of a packet, and the loss of the oldest one.
LEMMA RecordKeepsPairs ==
  ASSUME hist \in HistType, PairsOff(hist), Followed(hist),
         NEW type \in HistTypes, type \notin Paired2, NEW ip \in Nat
  PROVE  PairsOff(record_intel_pt_pkt(type, ip)) /\ Followed(record_intel_pt_pkt(type, ip))
  <1> DEFINE E == [type: HistTypes, ip: Nat]
             x == [type |-> type, ip |-> ip]
             h == Append(hist, x)
             n == Len(hist)
  <1>1. n \in Nat /\ DOMAIN hist = 1 .. n
    BY DEF HistType
  <1>2. /\ DOMAIN h = 1 .. n + 1 /\ Len(h) = n + 1 /\ h # << >> /\ h \in Seq(E)
        /\ \A k \in 1 .. n : h[k] = hist[k]
        /\ h[n + 1].type = type
    <2>1. hist \in Seq(E) /\ x \in E /\ x.type = type
      BY DEF HistType
    <2> HIDE DEF E, x
    <2> QED BY <2>1, AppendProperties
  <1> HIDE DEF h, n, x
  <1>3. PairsOff(h)
    <2> SUFFICES ASSUME NEW j \in 1 .. n + 1, NEW k \in 1 .. n + 1, Adjacent(h, k, j),
                        h[j].type = "TIP_FUP" \/ h[k].type = "FUP_TIP"
                 PROVE  h[j].type = "TIP_FUP" /\ h[k].type = "FUP_TIP"
      BY <1>2 DEF PairsOff
    <2>1. k \in 1 .. n /\ h[k] = hist[k] /\ k < j
      BY <1>1, <1>2 DEF Adjacent
    <2>2. CASE j \in 1 .. n
      <3>1. h[j] = hist[j] /\ \A m \in k + 1 .. j - 1 : h[m] = hist[m]
        BY <1>1, <1>2, <2>1, <2>2
      <3>2. Adjacent(hist, k, j)
        BY <2>1, <3>1 DEF Adjacent
      <3> QED BY <1>1, <2>1, <2>2, <3>1, <3>2 DEF PairsOff
    <2>3. CASE j = n + 1
      <3>1. hist[k].type = "FUP_TIP"
        BY <1>2, <2>1, <2>3 DEF Paired2
      <3>2. PICK i \in 1 .. n : k < i /\ hist[i].type \notin AsyncSkip
        BY <1>1, <2>1, <3>1 DEF Followed
      <3>3. i \in k + 1 .. j - 1 /\ h[i] = hist[i]
        BY <1>1, <1>2, <2>1, <2>3, <3>2
      <3> QED BY <3>2, <3>3 DEF Adjacent
    <2> QED BY <1>1, <2>2, <2>3
  <1>4. Followed(h)
    <2> SUFFICES ASSUME NEW k \in 1 .. n + 1, h[k].type = "FUP_TIP"
                 PROVE  \E j \in 1 .. n + 1 : k < j /\ h[j].type \notin AsyncSkip
      BY <1>2 DEF Followed
    <2>1. k # n + 1
      BY <1>2 DEF Paired2
    <2>2. k \in 1 .. n
      BY <1>1, <2>1
    <2>3. PICK j \in 1 .. n : k < j /\ hist[j].type \notin AsyncSkip
      BY <1>1, <1>2, <2>2 DEF Followed
    <2> QED BY <1>1, <1>2, <2>3
  <1>5. PairsOff(Tail(h)) /\ Followed(Tail(h))
    <2> DEFINE t == Tail(h)
    <2>1. /\ DOMAIN t = 1 .. n
          /\ \A k \in 1 .. n : t[k] = h[k + 1]
      <3> HIDE DEF E
      <3> QED BY <1>1, <1>2, HeadTailProperties
    <2> HIDE DEF t
    <2>2. ASSUME NEW j \in 1 .. n, NEW k \in 1 .. n, Adjacent(t, k, j) PROVE Adjacent(h, k + 1, j + 1)
      <3>1. k < j /\ t[j] = h[j + 1] /\ t[k] = h[k + 1]
        BY <2>1, <2>2 DEF Adjacent
      <3>2. ASSUME NEW m \in (k + 1) + 1 .. (j + 1) - 1 PROVE h[m].type \in AsyncSkip
        <4>1. m - 1 \in k + 1 .. j - 1 /\ m - 1 \in 1 .. n /\ (m - 1) + 1 = m
          BY <1>1
        <4>2. t[m - 1].type \in AsyncSkip
          BY <2>2, <4>1 DEF Adjacent
        <4> QED BY <2>1, <4>1, <4>2
      <3>3. k + 1 < j + 1
        BY <3>1
      <3> QED BY <2>2, <3>1, <3>2, <3>3 DEF Adjacent
    <2>3. PairsOff(t)
      <3> SUFFICES ASSUME NEW j \in 1 .. n, NEW k \in 1 .. n, Adjacent(t, k, j),
                          t[j].type = "TIP_FUP" \/ t[k].type = "FUP_TIP"
                   PROVE  t[j].type = "TIP_FUP" /\ t[k].type = "FUP_TIP"
        BY <2>1 DEF PairsOff
      <3>1. j + 1 \in 1 .. n + 1 /\ k + 1 \in 1 .. n + 1
        BY <1>1
      <3>2. Adjacent(h, k + 1, j + 1)
        BY <2>2
      <3>3. t[j] = h[j + 1] /\ t[k] = h[k + 1]
        BY <2>1
      <3>4. j + 1 \in DOMAIN h /\ k + 1 \in DOMAIN h
        BY <1>2, <3>1
      <3>5. h[j + 1].type = "TIP_FUP" \/ h[k + 1].type = "FUP_TIP"
        BY <3>3
      <3>6. h[j + 1].type = "TIP_FUP" /\ h[k + 1].type = "FUP_TIP"
        BY <1>3, <3>2, <3>4, <3>5 DEF PairsOff
      <3> QED BY <3>3, <3>6
    <2>4. Followed(t)
      <3> SUFFICES ASSUME NEW k \in 1 .. n, t[k].type = "FUP_TIP"
                   PROVE  \E j \in 1 .. n : k < j /\ t[j].type \notin AsyncSkip
        BY <2>1 DEF Followed
      <3>1. k + 1 \in 1 .. n + 1 /\ h[k + 1].type = "FUP_TIP"
        BY <1>1, <2>1
      <3>2. PICK j \in 1 .. n + 1 : k + 1 < j /\ h[j].type \notin AsyncSkip
        BY <1>2, <1>4, <3>1 DEF Followed
      <3>3. j - 1 \in 1 .. n /\ k < j - 1 /\ (j - 1) + 1 = j
        BY <1>1, <3>2
      <3>4. t[j - 1] = h[j]
        BY <2>1, <3>3
      <3> QED BY <3>2, <3>3, <3>4
    <2> QED BY <2>3, <2>4 DEF t
  <1>6. PairsOff(<< >>) /\ Followed(<< >>)
    BY DEF PairsOff, Followed
  <1>7. record_intel_pt_pkt(type, ip) \in {<< >>, h, Tail(h)}
    BY DEF record_intel_pt_pkt, h, x
  <1> QED BY <1>3, <1>4, <1>5, <1>6, <1>7

\* The history with one type renamed.
LEMMA Renamed ==
  ASSUME NEW h \in HistType, NEW n \in 1 .. Len(h), NEW type
  PROVE  LET g == [h EXCEPT ![n].type = type]
         IN  /\ DOMAIN g = DOMAIN h /\ n \in DOMAIN g
             /\ g[n] = [type |-> type, ip |-> h[n].ip]
             /\ \A k \in DOMAIN h \ {n} : g[k] = h[k]
  <1> DEFINE E == [type: HistTypes, ip: Nat]
  <1>1. h \in Seq(E) /\ DOMAIN h = 1 .. Len(h)
    BY DEF HistType
  <1>2. h[n] \in E
    <2> HIDE DEF E
    <2> QED BY <1>1, ElementOfSeq
  <1>3. [h[n] EXCEPT !.type = type] = [type |-> type, ip |-> h[n].ip]
    BY <1>2
  <1> QED BY <1>1, <1>3

\* Renaming that neither makes nor breaks a pair.
LEMMA RenameKeepsPairs ==
  ASSUME NEW h \in HistType, PairsOff(h), Followed(h), NEW n \in 1 .. Len(h), NEW type,
         h[n].type \notin AsyncSkip, h[n].type \notin Paired2,
         type \notin AsyncSkip, type \notin Paired2
  PROVE  PairsOff([h EXCEPT ![n].type = type]) /\ Followed([h EXCEPT ![n].type = type])
  <1> DEFINE g == [h EXCEPT ![n].type = type]
  <1>1. /\ DOMAIN g = DOMAIN h /\ n \in DOMAIN g /\ g[n].type = type
        /\ \A k \in DOMAIN h \ {n} : g[k] = h[k]
    BY Renamed
  <1> HIDE DEF g
  <1>2. \A k \in DOMAIN h : g[k].type \in AsyncSkip <=> h[k].type \in AsyncSkip
    BY <1>1
  <1>3. \A k \in DOMAIN h : \A t \in Paired2 : g[k].type = t <=> h[k].type = t
    BY <1>1
  <1>4. ASSUME NEW j \in DOMAIN h, NEW k \in DOMAIN h, Adjacent(g, k, j) PROVE Adjacent(h, k, j)
    <2>1. \A m \in k + 1 .. j - 1 : m \in DOMAIN h
      <3>1. DOMAIN h = 1 .. Len(h) /\ Len(h) \in Nat
        BY DEF HistType
      <3> QED BY <3>1
    <2> QED BY <1>2, <1>4, <2>1 DEF Adjacent
  <1>5. PairsOff(g)
    <2> SUFFICES ASSUME NEW j \in DOMAIN h, NEW k \in DOMAIN h, Adjacent(g, k, j),
                        g[j].type = "TIP_FUP" \/ g[k].type = "FUP_TIP"
                 PROVE  g[j].type = "TIP_FUP" /\ g[k].type = "FUP_TIP"
      BY <1>1 DEF PairsOff
    <2>1. Adjacent(h, k, j)
      BY <1>4
    <2>2. "TIP_FUP" \in Paired2 /\ "FUP_TIP" \in Paired2
      BY DEF Paired2
    <2> QED BY <1>3, <2>1, <2>2 DEF PairsOff
  <1>6. Followed(g)
    <2>1. "FUP_TIP" \in Paired2
      BY DEF Paired2
    <2> QED BY <1>1, <1>2, <1>3, <2>1 DEF Followed
  <1> QED BY <1>5, <1>6 DEF g

\* What was recorded last.
LEMMA RecordLast ==
  ASSUME hist \in HistType, NEW type \in HistTypes, type # "TIP_PGD", NEW ip \in Nat
  PROVE  LET h == record_intel_pt_pkt(type, ip) IN Len(h) \in 1 .. Len(h) /\ h[Len(h)].type = type
  <1> DEFINE E == [type: HistTypes, ip: Nat]
             x == [type |-> type, ip |-> ip]
             h == Append(hist, x)
             n == Len(hist)
  <1>1. hist \in Seq(E) /\ x \in E /\ x.type = type /\ n \in Nat
    BY DEF HistType
  <1> HIDE DEF E, x
  <1>2. h \in Seq(E) /\ Len(h) = n + 1 /\ h[n + 1] = x
    BY <1>1, AppendProperties
  <1>3. record_intel_pt_pkt(type, ip) = IF Len(h) >= INTEL_PT_PKT_HISTORY THEN Tail(h) ELSE h
    BY DEF record_intel_pt_pkt, h, x
  <1> HIDE DEF h, n
  <1>4. CASE Len(h) >= INTEL_PT_PKT_HISTORY
    <2>1. n >= 1 /\ n \in 1 .. n
      BY <1>1, <1>2, <1>4, PacketsAssumption
    <2>2. h # << >>
      BY <1>1, <1>2
    <2>3. Len(Tail(h)) = n /\ \A k \in 1 .. n : Tail(h)[k] = h[k + 1]
      BY <1>1, <1>2, <2>2, HeadTailProperties
    <2>4. Tail(h)[n] = x
      BY <1>2, <2>1, <2>3
    <2> QED BY <1>1, <1>3, <1>4, <2>1, <2>3, <2>4
  <1>5. CASE ~(Len(h) >= INTEL_PT_PKT_HISTORY)
    <2>1. n + 1 \in 1 .. n + 1
      BY <1>1
    <2> QED BY <1>1, <1>2, <1>3, <1>5, <2>1
  <1> QED BY <1>4, <1>5

\* What a scan finds is not skipped, and all it passed is.
LEMMA ScanFinds ==
  ASSUME NEW h \in HistType, NEW skip, LastOutside(h, skip) # 0
  PROVE  LET k == LastOutside(h, skip)
         IN  /\ k \in 1 .. Len(h) - 1 /\ h[k].type \notin skip
             /\ \A m \in k + 1 .. Len(h) - 1 : h[m].type \in skip
  <1> DEFINE S == {k \in 1 .. Len(h) - 1 : h[k].type \notin skip}
             k == LastOutside(h, skip)
  <1>1. S # {}
    BY DEF LastOutside
  <1>2. Len(h) \in Nat /\ S \in SUBSET (1 .. Len(h) - 1)
    BY DEF HistType
  <1>3. Len(h) - 1 \in Nat
    BY <1>1, <1>2
  <1>4. k = CHOOSE i \in S : \A j \in S : j <= i
    BY <1>1 DEF LastOutside
  <1>5. k \in S /\ \A j \in S : j <= k
    <2> HIDE DEF S, k
    <2>1. \E i \in S : \A j \in S : j <= i
      BY <1>1, <1>2, <1>3, HasGreatest
    <2> QED BY <1>4, <2>1
  <1> HIDE DEF k
  <1>6. ASSUME NEW m \in k + 1 .. Len(h) - 1 PROVE h[m].type \in skip
    <2>1. m \in 1 .. Len(h) - 1 /\ ~(m <= k)
      BY <1>2, <1>5
    <2> QED BY <1>5, <2>1
  <1> QED BY <1>5, <1>6 DEF k

\* A scan asks of an entry only whether it is skipped.
LEMMA ScanSame ==
  ASSUME NEW h, NEW g, NEW skip, Len(g) = Len(h),
         \A k \in 1 .. Len(h) - 1 : h[k].type \in skip <=> g[k].type \in skip
  PROVE  LastOutside(g, skip) = LastOutside(h, skip)
  <1> DEFINE S == {k \in 1 .. Len(h) - 1 : h[k].type \notin skip}
             T == {k \in 1 .. Len(g) - 1 : g[k].type \notin skip}
             Greatest(U) == IF U = {} THEN 0 ELSE CHOOSE k \in U : \A j \in U : j <= k
  <1>1. T = S
    OBVIOUS
  <1>2. LastOutside(h, skip) = Greatest(S) /\ LastOutside(g, skip) = Greatest(T)
    BY DEF LastOutside
  <1> HIDE DEF S, T, Greatest
  <1> QED BY <1>1, <1>2

\* Both entries of a pair renamed, one after the other.
LEMMA PairedTwice ==
  ASSUME NEW h \in HistType, NEW k \in 1 .. Len(h) - 1, NEW old \in HistTypes, NEW new \in HistTypes
  PROVE  LET g == [h EXCEPT ![k].type = old]
         IN  /\ Paired(h, k, old, new) = [g EXCEPT ![Len(h)].type = new]
             /\ g \in HistType /\ Len(g) = Len(h)
             /\ k \in 1 .. Len(h) /\ Len(h) \in 1 .. Len(h) /\ k # Len(h)
             /\ g[Len(h)] = h[Len(h)]
  <1>1. k \in 1 .. Len(h) /\ Len(h) \in 1 .. Len(h) /\ k # Len(h)
    BY DEF HistType
  <1> QED BY <1>1, RenameInHistory DEF Paired

\* What pairing leaves in the history.
LEMMA PairedEntries ==
  ASSUME NEW h \in HistType, NEW k \in 1 .. Len(h) - 1, NEW old \in HistTypes, NEW new \in HistTypes
  PROVE  LET g == Paired(h, k, old, new)
         IN  /\ DOMAIN g = DOMAIN h /\ Len(g) = Len(h)
             /\ g[k] = [type |-> old, ip |-> h[k].ip] /\ g[Len(h)].type = new
             /\ \A m \in DOMAIN h \ {k, Len(h)} : g[m] = h[m]
  <1> DEFINE f == [h EXCEPT ![k].type = old]
             g == [f EXCEPT ![Len(h)].type = new]
  <1>1. /\ Paired(h, k, old, new) = g /\ f \in HistType /\ Len(f) = Len(h)
        /\ k \in 1 .. Len(h) /\ Len(h) \in 1 .. Len(h) /\ k # Len(h)
    BY PairedTwice
  <1>2. DOMAIN f = DOMAIN h /\ f[k] = [type |-> old, ip |-> h[k].ip] /\ \A m \in DOMAIN h \ {k} : f[m] = h[m]
    BY <1>1, Renamed
  <1> HIDE DEF f
  <1>3. Len(h) \in 1 .. Len(f)
    BY <1>1
  <1>4. /\ DOMAIN g = DOMAIN f /\ g[Len(h)] = [type |-> new, ip |-> f[Len(h)].ip]
        /\ \A m \in DOMAIN f \ {Len(h)} : g[m] = f[m]
    BY <1>1, <1>3, Renamed
  <1>5. g \in HistType /\ Len(g) = Len(f)
    BY <1>1, <1>3, RenameInHistory
  <1>6. k \in DOMAIN h
    BY <1>1 DEF HistType
  <1> HIDE DEF g
  <1> QED BY <1>1, <1>2, <1>4, <1>5, <1>6

\* The end of an overflow is no interrupt.
LEMMA OvfKeepsPairs ==
  ASSUME NEW h \in HistType, PairsOff(h), Followed(h), NEW k \in 1 .. Len(h) - 1,
         NEW old \in HistTypes, NEW new \in HistTypes,
         {h[k].type, h[Len(h)].type, old, new} \cap (AsyncSkip \cup Paired2) = {}
  PROVE  /\ PairsOff(Paired(h, k, old, new)) /\ Followed(Paired(h, k, old, new))
         /\ Paired(h, k, old, new)[Len(h)].type = new
  <1> DEFINE g == [h EXCEPT ![k].type = old]
  <1>1. /\ Paired(h, k, old, new) = [g EXCEPT ![Len(h)].type = new]
        /\ g \in HistType /\ Len(g) = Len(h)
        /\ k \in 1 .. Len(h) /\ Len(h) \in 1 .. Len(h) /\ g[Len(h)] = h[Len(h)]
    BY PairedTwice
  <1>2. PairsOff(g) /\ Followed(g)
    BY <1>1, RenameKeepsPairs
  <1> HIDE DEF g
  <1>3. Len(h) \in 1 .. Len(g)
    BY <1>1
  <1>4. g[Len(h)].type \notin AsyncSkip /\ g[Len(h)].type \notin Paired2
    BY <1>1
  <1>5. new \notin AsyncSkip /\ new \notin Paired2
    OBVIOUS
  <1>6. PairsOff([g EXCEPT ![Len(h)].type = new]) /\ Followed([g EXCEPT ![Len(h)].type = new])
    BY <1>1, <1>2, <1>3, <1>4, <1>5, RenameKeepsPairs
  <1>7. Paired(h, k, old, new)[Len(h)].type = new
    <2> DEFINE f == Paired(h, k, old, new)
    <2>1. /\ DOMAIN f = DOMAIN h /\ Len(f) = Len(h)
          /\ f[k] = [type |-> old, ip |-> h[k].ip] /\ f[Len(h)].type = new
      BY PairedEntries
    <2> QED BY <2>1
  <1> QED BY <1>1, <1>6, <1>7

\* A TIP and the FUP the scan found become a pair, and take part in no other.
LEMMA TipPairsOff ==
  ASSUME NEW h \in HistType, PairsOff(h), Followed(h), Len(h) \in 1 .. Len(h),
         h[Len(h)].type = "TIP", FupOf(h) # 0
  PROVE  LET k == FupOf(h)
             g == Paired(h, k, "FUP_TIP", "TIP_FUP")
         IN  /\ PairsOff(g) /\ Followed(g)
             /\ LastOutside(g, AsyncSkip) = k
             /\ g[Len(g)].type = "TIP_FUP" /\ g[k] = [type |-> "FUP_TIP", ip |-> h[k].ip]
  <1> DEFINE k == FupOf(h)
             g == Paired(h, k, "FUP_TIP", "TIP_FUP")
             n == Len(h)
  <1>1. k = LastOutside(h, AsyncSkip) /\ k # 0 /\ h[k].type = "FUP"
    BY DEF FupOf
  <1>2. k \in 1 .. n - 1 /\ \A m \in k + 1 .. n - 1 : h[m].type \in AsyncSkip
    BY <1>1, ScanFinds
  <1>3. "FUP_TIP" \in HistTypes /\ "TIP_FUP" \in HistTypes
    BY TypesInHistory
  <1>4. n \in Nat /\ DOMAIN h = 1 .. n /\ h[n].type = "TIP"
    BY DEF HistType
  <1> HIDE DEF k, n
  <1>5. /\ DOMAIN g = DOMAIN h /\ Len(g) = n
        /\ g[k] = [type |-> "FUP_TIP", ip |-> h[k].ip] /\ g[n].type = "TIP_FUP"
        /\ \A m \in DOMAIN h \ {k, n} : g[m] = h[m]
    BY <1>2, <1>3, PairedEntries DEF n
  <1> HIDE DEF g
  <1>6. g[k].type = "FUP_TIP" /\ k \in 1 .. n /\ n \in 1 .. n /\ k < n
    BY <1>2, <1>4, <1>5
  <1>7. {"FUP", "TIP", "FUP_TIP", "TIP_FUP"} \cap AsyncSkip = {}
    BY NotSkipped
  <1>8. \A m \in 1 .. n : g[m].type \in AsyncSkip <=> h[m].type \in AsyncSkip
    BY <1>1, <1>4, <1>5, <1>6, <1>7
  <1>9. LastOutside(g, AsyncSkip) = k
    <2>1. \A m \in 1 .. n - 1 : h[m].type \in AsyncSkip <=> g[m].type \in AsyncSkip
      BY <1>4, <1>8
    <2>2. Len(g) = Len(h)
      BY <1>5 DEF n
    <2>3. LastOutside(g, AsyncSkip) = LastOutside(h, AsyncSkip)
      BY <2>1, <2>2, ScanSame DEF n
    <2> QED BY <1>1, <2>3
  <1>10. ASSUME NEW i \in 1 .. n, NEW j \in 1 .. n, Adjacent(g, i, j) PROVE Adjacent(h, i, j)
    <2>1. \A m \in i + 1 .. j - 1 : m \in 1 .. n
      BY <1>4
    <2> QED BY <1>8, <1>10, <2>1 DEF Adjacent
  <1>11. ASSUME NEW i \in 1 .. n, NEW j \in 1 .. n, Adjacent(g, i, j)
         PROVE  i = k <=> j = n
    <2>1. i < j /\ g[i].type \notin AsyncSkip /\ g[j].type \notin AsyncSkip
      BY <1>11 DEF Adjacent
    <2>2. ASSUME i = k, j # n PROVE FALSE
      <3>1. j \in k + 1 .. n - 1
        BY <1>4, <2>1, <2>2
      <3> QED BY <1>2, <1>8, <2>1, <3>1
    <2>3. ASSUME j = n, i # k PROVE FALSE
      <3>1. i \in k + 1 .. n - 1 \/ i < k
        BY <1>4, <1>6, <2>1, <2>3
      <3>2. ~(i \in k + 1 .. n - 1)
        BY <1>2, <1>8, <2>1
      <3>3. k \in i + 1 .. j - 1
        BY <1>4, <1>6, <2>3, <3>1, <3>2
      <3>4. g[k].type \in AsyncSkip
        BY <1>11, <3>3 DEF Adjacent
      <3> QED BY <1>6, <1>7, <3>4
    <2> QED BY <2>2, <2>3
  <1>12. PairsOff(g)
    <2> SUFFICES ASSUME NEW j \in 1 .. n, NEW i \in 1 .. n, Adjacent(g, i, j),
                        g[j].type = "TIP_FUP" \/ g[i].type = "FUP_TIP"
                 PROVE  g[j].type = "TIP_FUP" /\ g[i].type = "FUP_TIP"
      BY <1>4, <1>5 DEF PairsOff
    <2>1. CASE i = k
      BY <1>5, <1>6, <1>11, <2>1
    <2>2. CASE i # k
      <3>1. j # n
        BY <1>11, <2>2
      <3>2. CASE j = k
        <4>1. g[i].type = "FUP_TIP" /\ i # n
          BY <1>4, <1>6, <3>2 DEF Adjacent
        <4>2. h[i].type = "FUP_TIP"
          BY <1>4, <1>5, <2>2, <4>1
        <4>3. Adjacent(h, i, j)
          BY <1>10
        <4>4. h[j].type = "TIP_FUP"
          BY <1>4, <4>2, <4>3 DEF PairsOff
        <4> QED BY <1>1, <3>2, <4>4
      <3>3. CASE j # k
        <4>1. i # n
          BY <1>4 DEF Adjacent
        <4>2. g[i] = h[i] /\ g[j] = h[j]
          BY <1>4, <1>5, <2>2, <3>1, <3>3, <4>1
        <4>3. Adjacent(h, i, j)
          BY <1>10
        <4> QED BY <1>4, <4>2, <4>3 DEF PairsOff
      <3> QED BY <3>2, <3>3
    <2> QED BY <2>1, <2>2
  <1>13. Followed(g)
    <2> SUFFICES ASSUME NEW i \in 1 .. n, g[i].type = "FUP_TIP"
                 PROVE  \E j \in 1 .. n : i < j /\ g[j].type \notin AsyncSkip
      BY <1>4, <1>5 DEF Followed
    <2>1. i < n
      BY <1>4, <1>5, <1>6
    <2> QED BY <1>5, <1>6, <1>7, <2>1
  <1> QED BY <1>5, <1>9, <1>12, <1>13 DEF k, g, n

\* Every packet keeps the history paired off.
LEMMA PacketsKeepPairs ==
  ASSUME Inv, PairsOff(hist), Followed(hist), NEW p \in Packets, intel_pt_decode_online(p)
  PROVE  PairsOff(hist)' /\ Followed(hist)'
  <1> SUFFICES PairsOff(hist') /\ Followed(hist')
    BY DEF PairsOff, Followed, Adjacent
  <1>1. hist \in HistType /\ p.val \in Nat /\ NoAddr \in Nat
    BY PacketsAssumption DEF Inv, NoAddr, IsPacket
  <1>2. \A type \in PktTypes : type \in HistTypes /\ type \notin Paired2
    BY NotSkipped, TypesInHistory
  <1>3. \A type \in PktTypes : \A ip \in Nat :
          PairsOff(record_intel_pt_pkt(type, ip)) /\ Followed(record_intel_pt_pkt(type, ip))
    BY <1>1, <1>2, RecordKeepsPairs
  <1>4. {"FUP", "TIP", "TIP_PGE", "TIP_PGD", "PSB", "PSBEND", "OVF", "PIP", "TSC_MTC", "BBP", "BIP",
         "BEP", "PTW", "SHORT_TNT"} \subseteq PktTypes
    BY DEF PktTypes, IpTypes
  <1>5. \A type \in {"FUP", "TIP", "TIP_PGE"} :
          LET h(ip) == record_intel_pt_pkt(type, ip)
          IN  \A ip \in Nat : /\ h(ip) \in HistType /\ Len(h(ip)) >= 1
                              /\ Len(h(ip)) \in 1 .. Len(h(ip)) /\ h(ip)[Len(h(ip))].type = type
    BY <1>1, <1>2, <1>4, RecordInHistory, RecordLast
  <1>6. {"FUP", "TIP_PGE", "OVF", "OVF_FUP", "FUP_OVF", "OVF_TIP_PGE", "TIP_PGE_OVF", "FUP_BEP",
         "FUP_PTW"} \cap (AsyncSkip \cup Paired2) = {}
    BY NotSkipped DEF Paired2
  <1>7. \A h \in HistType : OvfOf(h) # 0 => OvfOf(h) \in 1 .. Len(h) - 1 /\ h[OvfOf(h)].type = "OVF"
    BY ScanFinds DEF OvfOf
  <1>8. CASE Fup(p)
    <2> DEFINE h == record_intel_pt_pkt("FUP", p.val)
               d == CheckIp(xed, "FUP", p.val)
               k == OvfOf(h)
               closes == Ok(d) /\ k # 0
               g == IF closes THEN Paired(h, k, "OVF_FUP", "FUP_OVF") ELSE h
               name == CASE last_ptw_fup = 1 -> "FUP_PTW"
                         [] last_ptw_fup # 1 /\ last_bep_fup = 1 -> "FUP_BEP"
                         [] OTHER -> g[Len(g)].type
    <2>1. /\ h \in HistType /\ Len(h) >= 1 /\ Len(h) \in 1 .. Len(h) /\ h[Len(h)].type = "FUP"
          /\ PairsOff(h) /\ Followed(h)
      BY <1>1, <1>3, <1>4, <1>5
    <2>2. hist' = [g EXCEPT ![Len(g)].type = name]
      BY <1>8 DEF Fup
    <2>3. k # 0 => k \in 1 .. Len(h) - 1 /\ h[k].type = "OVF"
      BY <1>7, <2>1
    <2> HIDE DEF h, d, k
    <2>4. /\ g \in HistType /\ Len(g) = Len(h) /\ PairsOff(g) /\ Followed(g)
          /\ g[Len(h)].type \in {"FUP", "FUP_OVF"}
      <3>1. CASE closes
        <4>1. "OVF_FUP" \in HistTypes /\ "FUP_OVF" \in HistTypes
          BY TypesInHistory
        <4>2. g = Paired(h, k, "OVF_FUP", "FUP_OVF") /\ k \in 1 .. Len(h) - 1 /\ h[k].type = "OVF"
          BY <2>3, <3>1
        <4> HIDE DEF g
        <4>3. /\ g \in HistType /\ Len(g) = Len(h) /\ g[Len(h)].type = "FUP_OVF"
              /\ PairsOff(g) /\ Followed(g)
          <5>1. g \in HistType /\ Len(g) = Len(h)
            BY <2>1, <4>1, <4>2, PairedInHistory
          <5>2. {h[k].type, h[Len(h)].type, "OVF_FUP", "FUP_OVF"} \cap (AsyncSkip \cup Paired2) = {}
            BY <1>6, <2>1, <4>2
          <5>3. PairsOff(g) /\ Followed(g) /\ g[Len(h)].type = "FUP_OVF"
            BY <2>1, <4>1, <4>2, <5>2, OvfKeepsPairs
          <5> QED BY <5>1, <5>3
        <4> QED BY <4>3
      <3>2. CASE ~closes
        BY <2>1, <3>2
      <3> QED BY <3>1, <3>2
    <2>5. Len(g) \in 1 .. Len(g) /\ g[Len(g)].type \in {"FUP", "FUP_OVF"}
      BY <2>1, <2>4
    <2> HIDE DEF g
    <2>6. name \in {"FUP", "FUP_OVF", "FUP_PTW", "FUP_BEP"}
      BY <2>5
    <2> HIDE DEF name
    <2>7. /\ g[Len(g)].type \notin AsyncSkip /\ g[Len(g)].type \notin Paired2
          /\ name \notin AsyncSkip /\ name \notin Paired2
      BY <1>6, <2>5, <2>6
    <2> QED BY <2>2, <2>4, <2>5, <2>7, RenameKeepsPairs
  <1>9. CASE TipPge(p)
    <2> DEFINE h == record_intel_pt_pkt("TIP_PGE", NoAddr)
               k == OvfOf(h)
    <2>1. /\ h \in HistType /\ Len(h) \in 1 .. Len(h) /\ h[Len(h)].type = "TIP_PGE"
          /\ PairsOff(h) /\ Followed(h)
      BY <1>1, <1>3, <1>4, <1>5
    <2>2. hist' = h \/ (k # 0 /\ hist' = Paired(h, k, "OVF_TIP_PGE", "TIP_PGE_OVF"))
      BY <1>9 DEF TipPge
    <2>3. k # 0 => k \in 1 .. Len(h) - 1 /\ h[k].type = "OVF"
      BY <1>7, <2>1
    <2> HIDE DEF h, k
    <2>4. "OVF_TIP_PGE" \in HistTypes /\ "TIP_PGE_OVF" \in HistTypes
      BY TypesInHistory
    <2>5. ASSUME k # 0
          PROVE  LET g == Paired(h, k, "OVF_TIP_PGE", "TIP_PGE_OVF") IN PairsOff(g) /\ Followed(g)
      BY <1>6, <2>1, <2>3, <2>4, <2>5, OvfKeepsPairs
    <2> QED BY <2>1, <2>2, <2>5
  <1>10. CASE Tip(p)
    <2> DEFINE h == record_intel_pt_pkt("TIP", NoAddr)
               k == FupOf(h)
    <2>1. /\ h \in HistType /\ Len(h) \in 1 .. Len(h) /\ h[Len(h)].type = "TIP"
          /\ PairsOff(h) /\ Followed(h)
      BY <1>1, <1>3, <1>4, <1>5
    <2>2. hist' = h \/ (k # 0 /\ hist' = Paired(h, k, "FUP_TIP", "TIP_FUP"))
      BY <1>10 DEF Tip
    <2> HIDE DEF h
    <2>3. ASSUME k # 0
          PROVE  LET g == Paired(h, k, "FUP_TIP", "TIP_FUP") IN PairsOff(g) /\ Followed(g)
      BY <2>1, <2>3, TipPairsOff
    <2> QED BY <2>1, <2>2, <2>3
  <1>11. CASE ~Fup(p) /\ ~TipPge(p) /\ ~Tip(p)
    <2>1. p.type \in RecordTypes => p.type \in PktTypes
      BY TypesInHistory
    <2>2. Record(p) => \E type \in PktTypes : hist' = record_intel_pt_pkt(type, Told(p))
      BY <2>1 DEF Record
    <2>3. \/ hist' = hist \/ \E type \in PktTypes : hist' = record_intel_pt_pkt(type, NoAddr)
          \/ Record(p)
      BY <1>4, <1>11
         DEF intel_pt_decode_online, TipPgd, ShortTnt, Psb, PsbEnd, Ovf, Pip, TscMtc, Bbp, Bip, Bep,
             Ptw, Unsupported, ptVars
    <2>4. Told(p) \in Nat
      BY <1>1 DEF Told
    <2> QED BY <1>1, <1>3, <2>2, <2>3, <2>4
  <1> QED BY <1>8, <1>9, <1>10, <1>11

\* So does every step.
LEMMA StepsKeepPairs ==
  /\ PtInit => PairsOff(hist) /\ Followed(hist)
  /\ Inv /\ PairsOff(hist) /\ Followed(hist) /\ [PtNext]_vars => PairsOff(hist)' /\ Followed(hist)'
  <1>1. PtInit => PairsOff(hist) /\ Followed(hist)
    BY DEF PtInit, PairsOff, Followed
  <1>2. ASSUME Inv, PairsOff(hist), Followed(hist), [PtNext]_vars
        PROVE  PairsOff(hist)' /\ Followed(hist)'
    <2>1. CASE hist' = hist
      BY <1>2, <2>1 DEF PairsOff, Followed, Adjacent
    <2>2. CASE \E p \in Packets : intel_pt_decode_online(p)
      BY <1>2, <2>2, PacketsKeepPairs
    <2> QED BY <1>2, <2>1, <2>2 DEF PtNext, WalkStep, vars, ptVars
  <1> QED BY <1>1, <1>2

\* Whatever the packets: a FUP and a TIP that were taken for one interrupt stand
\* next to each other in the history, and no FUP serves two.
THEOREM PairsHold == PtSpec => []InterruptPairs
  <1>1. PairsOff(hist) => InterruptPairs
    BY DEF PairsOff, Adjacent, InterruptPairs
  <1> QED BY <1>1, StepsKeepPairs, InvHolds, PTL DEF PtSpec

\* A context is opened by a TIP alone, at the IP of the FUP it is paired with.
THEOREM OpenedAtSource == PtSpec => OpensAtSource
  <1>1. ASSUME Inv, PairsOff(hist), Followed(hist), [PtNext]_vars
        PROVE  [xed'.ctx_idx > xed.ctx_idx =>
                  LET k == LastOutside(hist', AsyncSkip)
                  IN  /\ hist'[Len(hist')].type = "TIP_FUP"
                      /\ k # 0
                      /\ hist'[k] = [type |-> "FUP_TIP",
                                     ip |-> xed'.ctx[xed'.ctx_idx].async_src]]_vars
    <2> DEFINE h == record_intel_pt_pkt("TIP", NoAddr)
    <2> SUFFICES ASSUME xed'.ctx_idx > xed.ctx_idx
                 PROVE  LET k == LastOutside(hist', AsyncSkip)
                        IN  /\ hist'[Len(hist')].type = "TIP_FUP"
                            /\ k # 0
                            /\ hist'[k] = [type |-> "FUP_TIP",
                                           ip |-> xed'.ctx[xed'.ctx_idx].async_src]
      OBVIOUS
    <2>1. xed.ctx_idx \in Int /\ xed'.ctx_idx \in Int
      <3>1. Inv'
        BY <1>1, NextInv
      <3> QED BY <1>1, <3>1 DEF Inv, Sound, XedType
    <2>2. ~Closing(xed, xed')
      BY <2>1 DEF Closing
    <2>3. PICK p \in Packets : Opened(p)
      <3>1. ~UNCHANGED vars
        BY <2>1 DEF vars
      <3>2. ~WalkStep
        BY <1>1, <2>2, WalkCloses DEF WalkStep, Inv
      <3> QED BY <1>1, <2>2, <3>1, <3>2, PacketSteps DEF PtNext
    <2>4. "TIP" \in PktTypes /\ "TIP" \in HistTypes /\ NoAddr \in Nat /\ hist \in HistType
      BY <1>1, TypesInHistory DEF PktTypes, IpTypes, NoAddr, Inv
    <2>5. /\ h \in HistType /\ Len(h) \in 1 .. Len(h) /\ h[Len(h)].type = "TIP"
          /\ PairsOff(h) /\ Followed(h)
      BY <1>1, <2>4, NotSkipped, RecordInHistory, RecordLast, RecordKeepsPairs
    <2>6. FupOf(h) # 0 /\ hist' = Paired(h, FupOf(h), "FUP_TIP", "TIP_FUP")
      BY <2>3 DEF Opened
    <2>7. xed'.ctx[xed'.ctx_idx].async_src = h[FupOf(h)].ip
      BY <2>3 DEF Opened
    <2> HIDE DEF h
    <2> QED BY <2>5, <2>6, <2>7, TipPairsOff
  <1> QED BY <1>1, StepsKeepPairs, InvHolds, PTL DEF PtSpec, OpensAtSource
=============================================================================
