------------------------------- MODULE KMaps -------------------------------
(***************************************************************************)
(* The kernel module (src/kmod/main.c) and its user (src/src/kmod.c,       *)
(* perfing_main): the writable private pages of the traced process are     *)
(* pinned and mapped into the tracer, which finds them by binary search in *)
(* kmaps when it unwinds a stack.  A probe on mmap sends the tracer        *)
(* a signal for each new mapping that may be a stack, and the next         *)
(* unwinding, with the process stopped by ptrace, has the table rebuilt.   *)
(*                                                                         *)
(* A mapping is a run of pages; addresses are words, two to a page, so     *)
(* that the end of a mapping differs from the last word in it; the first   *)
(* page, that of the null address, is never mapped.  The                   *)
(* mappings that do_kmaps takes (private, writable, not the heap, high in  *)
(* the address space or the stack) are those with rw.                      *)
(***************************************************************************)
EXTENDS StickySearch, Integers, Sequences, SequencesExt

CONSTANTS
  NoVmPages,      \* pages of the traced process' address space
  MAX_NO_PAGES,   \* pages the module has room for, and one
  MaxCalls        \* bound: calls of mmap, mprotect and munmap

ASSUME KMapsAssumption ==
  /\ NoVmPages \in Nat \ {0, 1, 2} /\ MAX_NO_PAGES \in Nat \ {0, 1, 2} /\ MaxCalls \in Nat

VARIABLES
  \* the traced process
  space,      \* its mappings: [s, e, id, rw], from page s up to e
  call,       \* the mapping it is in the course of making, or NoVma
  calls,      \* how many calls it made; also names the mappings
  stopped,    \* "no", "asked" or "yes"
  \* the kernel module
  pages,      \* its pages array, up to no_pages
  pins,       \* the bag of frames it holds a pin on
  \* the tracer
  pc,         \* what the sampling code does next
  kmaps, no_kmaps, m,
  redo_kmaps,
  pending,    \* signals sent and not delivered, by kind
  queue_full, \* unwind_queue[unwind_queue_head] holds a stack
  \* history
  exact,      \* the table tells every page, of the mappings as they are
  unserved,   \* a mapping was announced and made since the last rebuild
  leaked      \* pages pinned and not recorded

procVars  == <<space, call, calls, stopped>>
kmodVars  == <<pages, pins>>
userVars  == <<pc, kmaps, no_kmaps, m, redo_kmaps, pending, queue_full>>
ghosts    == <<exact, unserved, leaked>>
kmapsVars == <<procVars, kmodVars, userVars, ghosts>>

NoVma == [s |-> 0, e |-> 0, id |-> 0, rw |-> FALSE]
Vmas  == [s : 1 .. NoVmPages - 1, e : 2 .. NoVmPages, id : Nat, rw : BOOLEAN]

\* Page p of mapping v is in the frame <<v.id, p>>.
PagesOf(v) == v.s .. v.e - 1
VmaAt(p)   == CHOOSE v \in space : p \in PagesOf(v)
Mapped(p)  == \E v \in space : p \in PagesOf(v)
Taken(p)   == \E v \in space : v.rw /\ p \in PagesOf(v)
Pages      == 1 .. NoVmPages - 1
Words      == 0 .. 2 * NoVmPages - 1

-----------------------------------------------------------------------------
(* do_kmaps.                                                               *)

\* The members of a set of numbers, least first.
InOrder(S) ==
  [k \in 1 .. Cardinality(S) |-> CHOOSE x \in S : Cardinality({y \in S : y < x}) = k - 1]

PageAt(p) == LET v == VmaAt(p) IN [frame |-> <<v.id, p>>, addr |-> p, s |-> v.s, e |-> v.e]

\* The pages of the mappings in the order of their addresses.  Those in
\* failing could not be faulted in or pinned.
Candidates(failing) ==
  LET wanted == InOrder({p \in Pages : Taken(p) /\ p \notin failing})
  IN  [k \in DOMAIN wanted |-> PageAt(wanted[k])]

Room == MAX_NO_PAGES - 1

\* When the array is full in the middle of a mapping, the page after the last one
\* recorded is pinned too.
Overflowing(cs) == Len(cs) > Room /\ cs[Room + 1].s = cs[Room].s

BagOfFrames(ps) == SetToBag({ps[k].frame : k \in DOMAIN ps})

undo_kmaps_FirstOnly(b) == IF pages = << >> THEN b ELSE b (-) SetToBag({pages[1].frame})

\* undo_kmaps: what pins remain.
undo_kmaps(b) == b (-) BagOfFrames(pages)

\* A table entry for each mapping whose first page was recorded; perfing_a is
\* the word in the tracer's new mapping, where recorded pages follow each other.
Entries(ps) ==
  LET first == InOrder({i \in DOMAIN ps : ps[i].addr = ps[i].s})
  IN  [k \in DOMAIN first |->
         [perfed_a |-> 2 * ps[first[k]].s, perfed_b |-> 2 * ps[first[k]].e,
          perfing_a |-> 2 * (first[k] - 1), live |-> TRUE]]

\* What is in the array after the last entry written stays, and points into the
\* mapping that undo_kmaps removed: live is FALSE.
Overwrite(old, new) ==
  [k \in 1 .. (IF Len(new) > Len(old) THEN Len(new) ELSE Len(old)) |->
     IF k <= Len(new) THEN new[k] ELSE [old[k] EXCEPT !.live = FALSE]]

Rebuild_CountsNone(ps, new, lost) ==
  /\ pages' = ps
  /\ pins' = undo_kmaps(pins) (+) BagOfFrames(ps) (+) lost
  /\ kmaps' = Overwrite(kmaps, new)
  /\ no_kmaps' = Len(new)
  /\ leaked' = leaked (+) lost

\* ps: the pages recorded; new: the entries of the table; lost: a pin on a page that
\* was not recorded.
Rebuild(ps, new, lost) ==
  /\ pages' = ps
  /\ pins' = undo_kmaps(pins) (+) BagOfFrames(ps) (+) lost
  /\ kmaps' = Overwrite(kmaps, new)
  /\ no_kmaps' = IF new = << >> THEN no_kmaps ELSE Len(new)
  /\ leaked' = leaked (+) lost

do_kmaps(failing) ==
  \E cs \in {Candidates(failing)} :
    \E ps \in {SubSeq(cs, 1, IF Len(cs) <= Room THEN Len(cs) ELSE Room)} :
      /\ Rebuild(ps, Entries(ps),
                 IF Overflowing(cs) THEN SetToBag({cs[Room + 1].frame}) ELSE EmptyBag)
      /\ exact' = (failing = {} /\ Len(cs) <= Room)

-----------------------------------------------------------------------------
(* The traced process.                                                     *)

Runs == stopped # "yes" /\ call = NoVma

Signal(kind) == pending' = [pending EXCEPT ![kind] = @ + 1]

\* The probe runs before the mapping is made: a private writable mapping without
\* a file is announced, any other sends a signal that asks for nothing.
EnterMmap ==
  /\ Runs /\ calls < MaxCalls /\ calls' = calls + 1
  /\ \E s \in 1 .. NoVmPages - 1, len \in 1 .. 2, rw \in BOOLEAN :
       /\ s + len <= NoVmPages /\ \A p \in s .. s + len - 1 : ~Mapped(p)
       /\ call' = [s |-> s, e |-> s + len, id |-> calls', rw |-> rw]
       /\ Signal(IF rw THEN "SIGRTMIN+1" ELSE "SIGRTMAX")
  /\ UNCHANGED <<space, stopped, kmodVars, pc, kmaps, no_kmaps, m, redo_kmaps, queue_full, ghosts>>

LeaveMmap ==
  /\ call # NoVma /\ call' = NoVma
  /\ space' = space \cup {call}
  /\ exact' = FALSE /\ unserved' = (unserved \/ call.rw)
  /\ UNCHANGED <<calls, stopped, kmodVars, userVars, leaked>>

\* No probe tells of munmap, and that of mprotect asks for nothing unless the
\* mapping becomes executable.  The stack stays.
Munmap ==
  /\ Runs /\ calls < MaxCalls /\ calls' = calls + 1
  /\ \E v \in space : v.id # 0 /\ space' = space \ {v}
  /\ exact' = FALSE
  /\ UNCHANGED <<call, stopped, kmodVars, userVars, unserved, leaked>>

Mprotect ==
  /\ Runs /\ calls < MaxCalls /\ calls' = calls + 1
  /\ \E v \in space : v.id # 0 /\ space' = (space \ {v}) \cup {[v EXCEPT !.rw = ~v.rw]}
  /\ exact' = FALSE /\ Signal("SIGRTMAX")
  /\ UNCHANGED <<call, stopped, kmodVars, pc, kmaps, no_kmaps, m, redo_kmaps, queue_full, unserved,
                 leaked>>

\* A stop takes effect on the way out of the kernel.
Stop ==
  /\ Runs /\ stopped = "asked" /\ stopped' = "yes"
  /\ UNCHANGED <<space, call, calls, kmodVars, userVars, ghosts>>

-----------------------------------------------------------------------------
(* The tracer: one unwinding after the other, at records of its choice.    *)

NoSignals == [kind \in {"SIGRTMIN+1", "SIGRTMAX"} |-> 0]

\* sig_action_SIGRT, for every signal that is pending.
sig_action_SIGRT == redo_kmaps' = redo_kmaps + pending["SIGRTMIN+1"] /\ pending' = NoSignals

Goto(label) == pc' = label /\ UNCHANGED <<kmaps, no_kmaps, m>>

\* A signal interrupts the thread at any time it is not in the kernel.
Interrupt ==
  /\ pc = "run" /\ pending # NoSignals
  /\ sig_action_SIGRT /\ Goto("run")
  /\ UNCHANGED <<procVars, kmodVars, queue_full, ghosts>>

\* At a record the process is stopped if there is room for a stack.  The event is
\* enabled as long as the thread runs.
Attach ==
  /\ pc = "run" /\ ~queue_full /\ stopped = "no" /\ stopped' = "asked"
  /\ sig_action_SIGRT /\ Goto("wait")
  /\ UNCHANGED <<space, call, calls, kmodVars, queue_full, ghosts>>

\* waitpid returns with the handlers of the signals that came during it done ...
WaitStopped ==
  /\ pc = "wait" /\ stopped = "yes"
  /\ sig_action_SIGRT /\ Goto("redo")
  /\ UNCHANGED <<procVars, kmodVars, queue_full, ghosts>>

\* ... and, as the handlers are set up without SA_RESTART, it fails if one comes
\* before the process stopped.  The thread spins then.
WaitInterrupted ==
  /\ pc = "wait" /\ stopped = "asked" /\ pending # NoSignals
  /\ sig_action_SIGRT /\ Goto("waitpid failed")
  /\ UNCHANGED <<procVars, kmodVars, queue_full, ghosts>>

kmod_redo_kmaps_Above1 ==
  /\ pc = "redo" /\ Goto(IF redo_kmaps > 1 THEN "write" ELSE "unwind")
  /\ UNCHANGED <<procVars, kmodVars, redo_kmaps, pending, queue_full, ghosts>>

kmod_redo_kmaps ==
  /\ pc = "redo" /\ Goto(IF redo_kmaps >= 1 THEN "write" ELSE "unwind")
  /\ UNCHANGED <<procVars, kmodVars, redo_kmaps, pending, queue_full, ghosts>>

\* At most one page fails.
my_write ==
  /\ pc = "write" /\ pc' = "clear"
  /\ \E failing \in {{}} \cup {{p} : p \in {q \in Pages : Taken(q)}} : do_kmaps(failing)
  /\ unserved' = FALSE
  /\ UNCHANGED <<procVars, m, redo_kmaps, pending, queue_full>>

ClearRedo ==
  /\ pc = "clear" /\ Goto("unwind")
  /\ redo_kmaps' = 0
  /\ UNCHANGED <<procVars, kmodVars, pending, queue_full, ghosts>>

kmod_find_addr_OwnCount(addr, mid) ==
  IF addr = 0 THEN [m |-> mid, hit |-> FALSE]
  ELSE Search(no_kmaps - 1, Len(kmaps), mid,
       {k \in 0 .. Len(kmaps) - 1 : kmaps[k + 1].perfed_a <= addr /\ addr <= kmaps[k + 1].perfed_b},
       {k \in 0 .. Len(kmaps) - 1 : kmaps[k + 1].perfed_a < addr})

kmod_find_addr(addr, mid) ==
  IF addr = 0 THEN [m |-> mid, hit |-> FALSE]
  ELSE Search(no_kmaps, Len(kmaps), mid,
       {k \in 0 .. Len(kmaps) - 1 : kmaps[k + 1].perfed_a <= addr /\ addr <= kmaps[k + 1].perfed_b},
       {k \in 0 .. Len(kmaps) - 1 : kmaps[k + 1].perfed_a < addr})

Find ==
  /\ pc = "unwind"
  /\ \E addr \in Words : m' = kmod_find_addr(addr, m).m
  /\ UNCHANGED <<procVars, kmodVars, pc, kmaps, no_kmaps, redo_kmaps, pending, queue_full, ghosts>>

\* The stack just unwound may have taken the last free place, which the decoder
\* frees as the trace gets there.
Detach ==
  /\ pc = "unwind" /\ stopped' = "no" /\ Goto("run")
  /\ queue_full' \in BOOLEAN
  /\ UNCHANGED <<space, call, calls, kmodVars, redo_kmaps, pending, ghosts>>

xed_unwind ==
  /\ pc = "run" /\ queue_full /\ queue_full' = FALSE
  /\ UNCHANGED <<procVars, kmodVars, pc, kmaps, no_kmaps, m, redo_kmaps, pending, ghosts>>

\* kmod_close: the module is removed.
x_exit ==
  /\ pc = "run" /\ Goto("closed")
  /\ pins' = undo_kmaps(pins) /\ pages' = << >>
  /\ UNCHANGED <<procVars, redo_kmaps, pending, queue_full, ghosts>>

-----------------------------------------------------------------------------
\* perfed_kmod: the module comes in while the process is stopped, with a stack
\* and another mapping, and makes its first table.
Initially == {[s |-> NoVmPages - 1, e |-> NoVmPages, id |-> 0, rw |-> TRUE],
              [s |-> 1, e |-> 2, id |-> 1, rw |-> TRUE]}

KMapsInit ==
  /\ space = Initially /\ call = NoVma /\ calls = 1 /\ stopped = "no"
  /\ pages = Candidates({}) /\ pins = BagOfFrames(pages)
  /\ pc = "run" /\ kmaps = Entries(pages) /\ no_kmaps = Len(kmaps) /\ m = 0
  /\ redo_kmaps = 0 /\ pending = NoSignals /\ queue_full = FALSE
  /\ exact = TRUE /\ unserved = FALSE /\ leaked = EmptyBag

Process == EnterMmap \/ LeaveMmap \/ Munmap \/ Mprotect \/ Stop

Sampling ==
  \/ Interrupt \/ Attach \/ WaitStopped \/ WaitInterrupted \/ kmod_redo_kmaps \/ my_write
  \/ ClearRedo \/ Detach \/ xed_unwind

KMapsNext == Process \/ Sampling \/ Find \/ x_exit

\* Records keep coming while the run lasts, so that the tracer keeps decoding what
\* it sampled and sampling when there is room; a call of the process returns, and
\* a stop takes effect.
KMapsSpec ==
  /\ KMapsInit /\ [][KMapsNext]_kmapsVars
  /\ WF_call(LeaveMmap) /\ WF_stopped(Stop)
  /\ WF_pc(Attach) /\ WF_pc(WaitStopped) /\ WF_pc(kmod_redo_kmaps)
  /\ WF_pc(my_write) /\ WF_pc(ClearRedo) /\ WF_pc(Detach) /\ WF_queue_full(xed_unwind)

-----------------------------------------------------------------------------
(* Properties.                                                             *)

Labels == {"run", "wait", "redo", "write", "clear", "unwind", "waitpid failed", "closed"}

\* The variables have their types; mappings do not overlap, and the midpoint is
\* that of an entry that was written once.
KMapsTypeOK ==
  /\ space \subseteq Vmas /\ call \in Vmas \cup {NoVma} /\ calls \in Nat
  /\ \A v, w \in space : v # w => PagesOf(v) \cap PagesOf(w) = {}
  /\ stopped \in {"no", "asked", "yes"} /\ pc \in Labels
  /\ redo_kmaps \in Nat /\ \A kind \in DOMAIN pending : pending[kind] \in Nat
  /\ no_kmaps \in 1 .. Len(kmaps) /\ m \in 0 .. Len(kmaps) - 1
  /\ exact \in BOOLEAN /\ unserved \in BOOLEAN /\ queue_full \in BOOLEAN

\* A page is pinned as often as the array tells, so that undo_kmaps lets go of all
\* of them; what a full array cost besides is all that ever stays pinned.
PinsBalanced ==
  pins = BagOfFrames(pages) (+) leaked

\* While it unwinds, the table is at least as new as every mapping that was
\* announced, although the signal comes before the mapping is there and at
\* any point of the tracer.
NoRequestLost == pc = "unwind" => ~unserved /\ redo_kmaps = 0 /\ pending = NoSignals

Follows(addr) == \E k \in 1 .. no_kmaps : addr = kmaps[k].perfed_b

\* What the word is, seen from the process and from the tracer.
TheirWord(addr) == <<<<VmaAt(addr \div 2).id, addr \div 2>>, addr % 2>>
OurWord(k, addr) ==
  LET off == kmaps[k + 1].perfing_a + addr - kmaps[k + 1].perfed_a
  IN  <<pages[(off \div 2) + 1].frame, off % 2>>

\* With a table of all pages of the mappings as they are, and the midpoint within
\* it, every word of a taken mapping is found, where the tracer sees the same
\* word, and no other word is, but the one right behind a mapping.
ReadsRight ==
  pc = "unwind" /\ exact /\ m < no_kmaps =>
    \A addr \in Words :
      LET f == kmod_find_addr(addr, m)
      IN  /\ Taken(addr \div 2) => f.hit /\ kmaps[f.m + 1].live /\ OurWord(f.m, addr) = TheirWord(addr)
          /\ f.hit => Taken(addr \div 2) \/ Follows(addr)

\* An announced mapping gets into the table, unless waitpid fails or the run ends.
RequestServed == unserved ~> (~unserved \/ pc \in {"waitpid failed", "closed"})
=============================================================================
