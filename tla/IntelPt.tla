------------------------------ MODULE IntelPt ------------------------------
(***************************************************************************)
(* The packet decoder of src/intel_pt.c: one action per kind of packet,    *)
(* each the whole branch of intel_pt_decode_online that handles it, down   *)
(* to the calls into xed.c.  A packet is taken only when the walk the last *)
(* one started has returned: decoder and walk are one thread.              *)
(*                                                                         *)
(* A packet is a record: val is the IP of a FUP or TIP (NoAddr when it is  *)
(* suppressed), the root a PIP carries, the FUP bit of a BEP or PTW, the   *)
(* byte that says the type and size of a BBP, or the tick of the crystal   *)
(* clock a TSC or TSC_MTC falls in; tnt is the bits of a SHORT_TNT, first  *)
(* branch first.  A PSB is a quarter of the sixteen bytes the processor    *)
(* writes: the code counts four of them.                                   *)
(***************************************************************************)
EXTENDS Xed

CONSTANTS
  Packets,               \* the packets a trace may hold
  INTEL_PT_PKT_HISTORY   \* size of the ring of recorded packets

VARIABLES
  hist,           \* intel_pt_pkt_hist, oldest first: what the scans can see
  last_psb,       \* quarters of a PSB since the last PSBEND or OVF
  last_bep_fup,   \* the last BEP announced a FUP
  last_ptw_fup,   \* the last PTW announced a FUP
  last_bbp        \* in a block: since a BBP no BEP or OVF has come

ptVars == <<hist, last_psb, last_bep_fup, last_ptw_fup, last_bbp>>
vars   == <<xed, ptVars>>

TimingTypes == {"CBR", "MTC", "TSC", "CYC"}
RecordTypes == {"MNT", "VMCS", "MWAIT", "PWRX", "TRACESTOP", "EVD", "PWRE", "CFE",
                "EXSTOP", "MODE_EXEC", "PAD"} \cup TimingTypes
ErrorTypes  == {"LONG_TNT", "MODE_TSX"}
IpTypes     == {"FUP", "TIP", "TIP_PGE", "TIP_PGD"}
PktTypes    == RecordTypes \cup ErrorTypes \cup IpTypes \cup
               {"PSB", "PSBEND", "OVF", "PIP", "TSC_MTC", "BBP", "BIP", "BEP", "PTW", "SHORT_TNT"}
HistTypes   == PktTypes \cup {"OVF_FUP", "OVF_TIP_PGE", "FUP_OVF", "FUP_BEP", "FUP_PTW",
                              "FUP_TIP", "TIP_PGE_OVF", "TIP_FUP"}

IsPacket(p) ==
  /\ p.type \in PktTypes /\ p.val \in Nat /\ p.tnt \in Seq(BOOLEAN)
  /\ p.type = "PIP" => p.val \in Pgds

ASSUME PacketsAssumption ==
  /\ \A p \in Packets : IsPacket(p)
  /\ INTEL_PT_PKT_HISTORY \in Nat \ {0, 1}

-----------------------------------------------------------------------------
(* The history and its two scans.                                          *)

\* The scans read at most HISTORY - 1 entries back from the newest, and of the
\* values recorded only the IP of a FUP and the tick of a TSC.
record_intel_pt_pkt(type, ip) ==
  LET h == Append(hist, [type |-> type, ip |-> ip])
  IN  IF type = "TIP_PGD" THEN << >>
      ELSE IF Len(h) >= INTEL_PT_PKT_HISTORY THEN Tail(h) ELSE h

\* The newest entry before the last one that is of no type in skip; 0 for none.
LastOutside(h, skip) ==
  LET S == {k \in 1 .. Len(h) - 1 : h[k].type \notin skip}
  IN  IF S = {} THEN 0 ELSE CHOOSE k \in S : \A j \in S : j <= k


\* is_ovf_event: the OVF that the FUP or TIP_PGE just recorded closes, or 0.
OvfOf(h) ==
  LET k == LastOutside(h, TimingTypes \cup {"PSB", "PSBEND"})
  IN  IF k # 0 /\ h[k].type = "OVF" THEN k ELSE 0

AsyncSkip == TimingTypes \cup {"VMCS", "PIP", "MODE_EXEC"}

FupOf_SkipsOvf(h) ==
  LET k == LastOutside(h, AsyncSkip \cup {"OVF"})
  IN  IF k # 0 /\ h[k].type = "FUP" THEN k ELSE 0

\* is_async_event: the FUP that gives the source of the TIP just recorded, or 0.
FupOf(h) ==
  LET k == LastOutside(h, AsyncSkip)
  IN  IF k # 0 /\ h[k].type = "FUP" THEN k ELSE 0

Paired_NewOnly(h, k, old, new) == [h EXCEPT ![Len(h)].type = new]

\* Both entries of a pair are renamed, so that neither can match again.
Paired(h, k, old, new) == [h EXCEPT ![k].type = old, ![Len(h)].type = new]

\* The newest entry of a type; 0 for none.
prev_intel_pt_pkt(type) ==
  LET S == {k \in 1 .. Len(hist) : hist[k].type = type}
  IN  IF S = {} THEN 0 ELSE CHOOSE k \in S : \A j \in S : j <= k

-----------------------------------------------------------------------------
(* ip_decode.                                                              *)

\* Its error checks, and the end of tracing for an IP the packet leaves out.
CheckIp(d, type, ip) ==
  IF ip = NoAddr
    THEN LET e == xed_intel_pt_tip_disable(d)
         IN  IF Ok(e) /\ type # "TIP_PGD" THEN Fatal(e, "ip_decode error 4") ELSE e
  ELSE IF xed_is_enabled(d, ip) /\ xed_unwind_find_inst(ip) = NoInst
    THEN Fatal(d, "ip_decode error 0")
  ELSE IF type = "TIP_PGD" THEN Fatal(d, "ip_decode error 2")
  ELSE d

\* Restart the current context at ip.
StartAt(d, ip) == xed_process_branches(xed_update_last_inst(d, ip), << >>, NoAddr)

Idle == Ok(xed) /\ ~xed.walking

Fup(p) ==
  /\ p.type = "FUP"
  /\ LET h == record_intel_pt_pkt("FUP", p.val)
         d == CheckIp(xed, "FUP", p.val)
         k == OvfOf(h)
         closes == Ok(d) /\ k # 0
         g == IF closes THEN Paired(h, k, "OVF_FUP", "FUP_OVF") ELSE h
         name == CASE last_ptw_fup = 1 -> "FUP_PTW"
                   [] last_ptw_fup # 1 /\ last_bep_fup = 1 -> "FUP_BEP"
                   [] OTHER -> g[Len(g)].type
     IN  /\ xed'  = IF closes THEN StartAt(d, p.val) ELSE d
         /\ hist' = [g EXCEPT ![Len(g)].type = name]
  /\ last_bep_fup' = 0 /\ last_ptw_fup' = 0
  /\ UNCHANGED <<last_psb, last_bbp>>

TipPge_OnlyAfterOvf(p) ==
  /\ p.type = "TIP_PGE"
  /\ LET h == record_intel_pt_pkt("TIP_PGE", NoAddr)
         d == CheckIp(xed, "TIP_PGE", p.val)
         k == OvfOf(h)
     IN  IF Ok(d) /\ k # 0
           THEN xed' = StartAt(d, p.val) /\ hist' = Paired(h, k, "OVF_TIP_PGE", "TIP_PGE_OVF")
           ELSE xed' = d /\ hist' = h
  /\ UNCHANGED <<last_psb, last_bep_fup, last_ptw_fup, last_bbp>>

TipPge(p) ==
  /\ p.type = "TIP_PGE"
  /\ LET h == record_intel_pt_pkt("TIP_PGE", NoAddr)
         d == CheckIp(xed, "TIP_PGE", p.val)
         k == OvfOf(h)
     IN  /\ xed'  = StartAt(d, p.val)
         /\ hist' = IF Ok(d) /\ k # 0 THEN Paired(h, k, "OVF_TIP_PGE", "TIP_PGE_OVF") ELSE h
  /\ UNCHANGED <<last_psb, last_bep_fup, last_ptw_fup, last_bbp>>

\* A TIP after a FUP is an interrupt and opens a context; any other is the
\* target of an indirect branch or far transfer of the current one.
Tip(p) ==
  /\ p.type = "TIP"
  /\ LET h == record_intel_pt_pkt("TIP", NoAddr)
         d == CheckIp(xed, "TIP", p.val)
         k == FupOf(h)
     IN  IF Ok(d) /\ k # 0
           THEN /\ xed'  = StartAt(xed_async_enter(d, h[k].ip), p.val)
                /\ hist' = Paired(h, k, "FUP_TIP", "TIP_FUP")
           ELSE xed' = xed_process_branches(d, << >>, p.val) /\ hist' = h
  /\ UNCHANGED <<last_psb, last_bep_fup, last_ptw_fup, last_bbp>>

TipPgd(p) ==
  /\ p.type = "TIP_PGD"
  /\ xed'  = CheckIp(xed, "TIP_PGD", p.val)
  /\ hist' = record_intel_pt_pkt("TIP_PGD", NoAddr)
  /\ UNCHANGED <<last_psb, last_bep_fup, last_ptw_fup, last_bbp>>

-----------------------------------------------------------------------------
(* The other packets of intel_pt_decode_online.                            *)

ShortTnt(p) ==
  /\ p.type = "SHORT_TNT"
  /\ xed'  = xed_process_branches(xed, p.tnt, NoAddr)
  /\ hist' = record_intel_pt_pkt("SHORT_TNT", NoAddr)
  /\ UNCHANGED <<last_psb, last_bep_fup, last_ptw_fup, last_bbp>>

Psb(p) ==
  /\ p.type = "PSB"
  /\ last_psb' = last_psb + 1
  /\ hist' = record_intel_pt_pkt("PSB", NoAddr)
  /\ UNCHANGED <<xed, last_bep_fup, last_ptw_fup, last_bbp>>

PsbEnd(p) ==
  /\ p.type = "PSBEND"
  /\ IF last_psb = 4
       THEN last_psb' = 0 /\ hist' = record_intel_pt_pkt("PSBEND", NoAddr) /\ UNCHANGED xed
       ELSE xed' = Fatal(xed, "PSB error") /\ UNCHANGED <<last_psb, hist>>
  /\ UNCHANGED <<last_bep_fup, last_ptw_fup, last_bbp>>

\* last_ptw_fup is left as it is.
Ovf(p) ==
  /\ p.type = "OVF"
  /\ last_psb' = 0 /\ last_bep_fup' = 0 /\ last_bbp' = 0
  /\ xed'  = xed_intel_pt_ovf(xed)
  /\ hist' = record_intel_pt_pkt("OVF", NoAddr)
  /\ UNCHANGED last_ptw_fup

Pip(p) ==
  /\ p.type = "PIP"
  /\ xed'  = xed_intel_pt_pip(xed, p.val)
  /\ hist' = record_intel_pt_pkt("PIP", NoAddr)
  /\ UNCHANGED <<last_psb, last_bep_fup, last_ptw_fup, last_bbp>>

\* It goes with the last TSC, and the two tell of the same tick.
TscMtc(p) ==
  /\ p.type = "TSC_MTC"
  /\ LET k == prev_intel_pt_pkt("TSC")
     IN  IF k # 0 /\ hist[k].ip = p.val
           THEN hist' = record_intel_pt_pkt("TSC_MTC", NoAddr) /\ UNCHANGED xed
           ELSE /\ xed' = Fatal(xed, IF k = 0 THEN "tsc_mtc error 1" ELSE "tsc_mtc error 0")
                /\ UNCHANGED hist
  /\ UNCHANGED <<last_psb, last_bep_fup, last_ptw_fup, last_bbp>>

\* Two types of block are known, of items of eight bytes.
Bbp(p) ==
  /\ p.type = "BBP"
  /\ last_bbp' = 1
  /\ IF p.val % 32 \in {4, 5} /\ (p.val \div 128) % 2 = 0
       THEN hist' = record_intel_pt_pkt("BBP", NoAddr) /\ UNCHANGED xed
       ELSE xed' = Fatal(xed, "BBP") /\ UNCHANGED hist
  /\ UNCHANGED <<last_psb, last_bep_fup, last_ptw_fup>>

\* Outside a block the same byte is a SHORT_TNT.
Bip(p) ==
  /\ p.type = "BIP" /\ last_bbp = 1
  /\ hist' = record_intel_pt_pkt("BIP", NoAddr)
  /\ UNCHANGED <<xed, last_psb, last_bep_fup, last_ptw_fup, last_bbp>>

Bep(p) ==
  /\ p.type = "BEP"
  /\ last_bep_fup' = p.val /\ last_bbp' = 0
  /\ hist' = record_intel_pt_pkt("BEP", NoAddr)
  /\ UNCHANGED <<xed, last_psb, last_ptw_fup>>

Ptw(p) ==
  /\ p.type = "PTW"
  /\ last_ptw_fup' = p.val
  /\ hist' = record_intel_pt_pkt("PTW", NoAddr)
  /\ UNCHANGED <<xed, last_psb, last_bep_fup, last_bbp>>

Told(p) == IF p.type = "TSC" THEN p.val ELSE NoAddr

Record(p) ==
  /\ p.type \in RecordTypes
  /\ hist' = record_intel_pt_pkt(p.type, Told(p))
  /\ UNCHANGED <<xed, last_psb, last_bep_fup, last_ptw_fup, last_bbp>>

Unsupported(p) ==
  /\ p.type \in ErrorTypes
  /\ xed' = Fatal(xed, "unsupported packet")
  /\ UNCHANGED ptVars

intel_pt_decode_online(p) ==
  /\ Idle
  /\ \/ Fup(p) \/ TipPge(p) \/ Tip(p) \/ TipPgd(p) \/ ShortTnt(p) \/ Psb(p) \/ PsbEnd(p)
     \/ Ovf(p) \/ Pip(p) \/ TscMtc(p) \/ Bbp(p) \/ Bip(p) \/ Bep(p) \/ Ptw(p) \/ Record(p)
     \/ Unsupported(p)

PtInit ==
  /\ XedInit
  /\ hist = << >>
  /\ last_psb = 0 /\ last_bep_fup = 0 /\ last_ptw_fup = 0 /\ last_bbp = 0

WalkStep == Walk /\ UNCHANGED ptVars

PtNext == WalkStep \/ \E p \in Packets : intel_pt_decode_online(p)

PtSpec == PtInit /\ [][PtNext]_vars /\ WF_vars(WalkStep)

-----------------------------------------------------------------------------
(* Properties, for any sequence of packets whatever.                       *)

Ctxs == 0 .. MAX_NO_CTXS - 1

HistType == Seq([type: HistTypes, ip: Nat])

\* Every static variable of xed.c and intel_pt.c has a value of its type:
\* ctx_idx stays an index of ctx, last_inst stays -1 or an index of insts.
PtTypeOK ==
  /\ TypeOK
  /\ hist \in HistType
  /\ last_psb \in Nat /\ last_bep_fup \in Nat /\ last_ptw_fup \in Nat /\ last_bbp \in {0, 1}

\* xed_async_enter opens a context without clearing it: it relies on every
\* context above the current one having been left with no call on its stack.
FreshAbove ==
  \A i \in Ctxs : i > xed.ctx_idx => xed.ctx[i].call_stack = << >>

\* Input that the walk has not consumed belongs to the context that runs: an
\* interrupted context, or one not in use, never holds a bit or a target
\* that it would consume at the wrong place later.
InputOnlyInCurrent ==
  \A i \in Ctxs \ {xed.ctx_idx} :
    xed.ctx[i].tnt_queue = << >> /\ xed.ctx[i].tip_queue = << >>

\* A TNT entry can be out of bits only while it is the oldest: the walk drops
\* one exhausted entry per branch and then shifts by tnt_len - 1 unchecked.
BitsAtHand ==
  \A i \in Ctxs : \A k \in 2 .. Len(xed.ctx[i].tnt_queue) :
    xed.ctx[i].tnt_queue[k] # << >>

\* The call stack and both queues stay inside their arrays.
InBounds ==
  \A i \in Ctxs :
    /\ Len(xed.ctx[i].call_stack) < CALL_STACK_LEN
    /\ Len(xed.ctx[i].tnt_queue) < TNT_QUEUE_LEN
    /\ Len(xed.ctx[i].tip_queue) < TIP_QUEUE_LEN

\* What interrupts a context leaves it as it was, or resets it whole.
SuspendedFrozen ==
  [][\A i \in Ctxs : i < xed.ctx_idx \/ i < xed'.ctx_idx =>
       xed'.ctx[i] \in {xed.ctx[i], ResetCtx(xed.ctx[i])}]_vars

\* A context that lost its position does not get it back from the walk, not
\* even from an IRET whose target says where the interrupted code resumes:
\* only a packet that restarts it (a TIP_PGE, the FUP after an OVF, the TIP
\* of an interrupt) does.
LostUntilRestarted ==
  [][xed.walking =>
       \A i \in Ctxs : xed.ctx[i].last_inst = NoInst => xed'.ctx[i].last_inst = NoInst]_vars

\* The FUP and the TIP of an interrupt pair off: going back from a TIP that
\* opened a context the first packet that is not skipped is the FUP it used,
\* and going on from such a FUP it is such a TIP.  No FUP serves two
\* interrupts, nor one that closed an overflow or came with a BEP or PTW any.
InterruptPairs ==
  \A j, k \in DOMAIN hist :
    /\ k < j
    /\ hist[j].type = "TIP_FUP" \/ hist[k].type = "FUP_TIP"
    /\ \A m \in k + 1 .. j - 1 : hist[m].type \in AsyncSkip
    /\ hist[j].type \notin AsyncSkip /\ hist[k].type \notin AsyncSkip
    => hist[j].type = "TIP_FUP" /\ hist[k].type = "FUP_TIP"

\* A context is opened only by a TIP, with as its source the IP of the FUP the
\* processor wrote for the same interrupt.
OpensAtSource ==
  [][xed'.ctx_idx > xed.ctx_idx =>
       LET k == LastOutside(hist', AsyncSkip)
       IN  /\ hist'[Len(hist')].type = "TIP_FUP"
           /\ k # 0
           /\ hist'[k] = [type |-> "FUP_TIP", ip |-> xed'.ctx[xed'.ctx_idx].async_src]]_vars

\* The loop of xed_process_branches ends, with all the packet gives consumed
\* or with an error, when no cycle of code is free of conditional, indirect
\* and far branches.
WalkReturns == xed.walking ~> (~xed.walking \/ ~Ok(xed))
=============================================================================
