---------------------------- MODULE PacketClock ----------------------------
(***************************************************************************)
(* The time that the decoder gives to each packet (record_intel_pt_pkt and *)
(* the handlers of TSC, TSC_MTC (TMA), MTC, CYC, CBR and OVF in            *)
(* src/intel_pt.c), for the build with EN_MTC and EN_CYC.                  *)
(*                                                                         *)
(* The estimate is a reference, the last TSC, plus what the low byte of    *)
(* the crystal clock says since then, plus the cycles since the last of    *)
(* its packets, at the ratio of the last CBR.  The processor's side is     *)
(* external: true time runs in a unit in which a TSC count and a cycle at  *)
(* any ratio are whole, the crystal clock ticks every tsc_ratio of them,   *)
(* the ratio of the core's clock changes, and an overflow loses what it    *)
(* loses.                                                                  *)
(***************************************************************************)
EXTENDS Integers, FiniteSetsExt

CONSTANTS
  tsc_ratio,   \* TSC units per tick of the crystal clock
  CtcRange,    \* values of the part of the crystal clock an MTC carries (256)
  base_factor, \* the frequency of the TSC
  bus_hz,      \* the frequency of the bus, in the same unit
  Cbrs,        \* ratios of the core's frequency to it
  MaxNow,      \* bound: true time
  MaxOvf       \* bound: overflows before the next MTC that counts

ASSUME ClockAssumption ==
  /\ tsc_ratio \in Nat \ {0} /\ CtcRange \in Nat \ {0, 1} /\ MaxNow \in Nat /\ MaxOvf \in Nat

ASSUME RateAssumption ==
  /\ base_factor \in Nat \ {0} /\ bus_hz \in Nat \ {0} /\ Cbrs \subseteq Nat \ {0}
  /\ \A cbr \in Cbrs : base_factor % (cbr * bus_hz) = 0

VARIABLES
  clk,          \* the decoder's variables, below
  \* the processor's
  now,          \* true time
  ticked,       \* the tick its last MTC, or the last TMA, told of
  core,         \* its clock: the ratio cbr, whether a CBR told it, the last edge,
                \* and the cycles not sent yet
  overflowing,  \* packets are being lost
  psb_plus,     \* where it is in a PSB+: what comes next, or "none"
  since,        \* the reference got its first MTC ("mtc"), waits for it ("tma"),
                \* or an overflow came before it ("ovf")
  span          \* of the cycles since the last tick told, kept for the properties:
                \* the edge they start from, the shortest and the longest

cpuVars   == <<now, ticked, core, overflowing, psb_plus, since, span>>
clockVars == <<clk, cpuVars>>

\* ctc_prev is the static variable of the branch for MTC; tsc is the last
\* TSC packet of the history.
ClockFields ==
  [tsc_approx_en : {0, 1}, tsc_approx_ctc : Nat, tsc_approx_cyc : Nat, tsc_approx_ovf : Nat,
   tsc_approx_ref : Nat, tsc_ref : Nat, tsc_ref_ctc : 0 .. CtcRange - 1, tsc_ref_ctc_ovf : Nat,
   tsc_ref_cyc_cnt : Nat, cyc_cnt_ref : Nat, ctc_prev : 0 .. CtcRange - 1, cbr_factor : Nat,
   tsc : [val : Nat, cyc_cnt : Nat], tsc_mtc_error : BOOLEAN]

Clock0 ==
  [tsc_approx_en |-> 0, tsc_approx_ctc |-> 0, tsc_approx_cyc |-> 0, tsc_approx_ovf |-> 0,
   tsc_approx_ref |-> 0, tsc_ref |-> 0, tsc_ref_ctc |-> 0, tsc_ref_ctc_ovf |-> 0,
   tsc_ref_cyc_cnt |-> 0, cyc_cnt_ref |-> 0, ctc_prev |-> 0, cbr_factor |-> 0,
   tsc |-> [val |-> 0, cyc_cnt |-> 0], tsc_mtc_error |-> FALSE]

-----------------------------------------------------------------------------
(* record_intel_pt_pkt.                                                    *)

\* The packets of the model that carry a time of their own.
CycEligible == {"OVF", "MTC", "TSC", "TIP", "CYC"}

\* Did the low part of the crystal clock pass the reference since the last MTC?
\* Without a lost MTC it does when it is equal; otherwise the reference lies
\* between the last one seen and this one.
Passed_OnlyEqual(c, ctc) == ctc = c.tsc_ref_ctc

Passed(c, ctc) ==
  LET prev == c.ctc_prev
      ref  == c.tsc_ref_ctc
  IN  \/ c.tsc_approx_ovf = 0 /\ ctc = ref
      \/ c.tsc_approx_ovf >= 1 /\ prev < ref /\ (prev >= ctc \/ ctc >= ref)
      \/ c.tsc_approx_ovf >= 1 /\ prev > ref /\ ref <= ctc /\ ctc <= prev

OnMtc(c, ctc, cyc_cnt) ==
  LET ovf == c.tsc_ref_ctc_ovf + (IF Passed(c, ctc) THEN 1 ELSE 0)
  IN  [c EXCEPT !.tsc_ref_ctc_ovf = ovf,
                !.tsc_approx_ctc = (((ctc - c.tsc_ref_ctc) % CtcRange) + ovf * CtcRange) * tsc_ratio,
                !.tsc_approx_cyc = 0, !.tsc_approx_ovf = 0,
                !.tsc_ref_cyc_cnt = cyc_cnt, !.ctc_prev = ctc]

Enable(c, en) ==
  [c EXCEPT !.tsc_approx_en = en, !.tsc_approx_ctc = 0, !.tsc_approx_cyc = 0, !.tsc_approx_ovf = 0]

\* What the type of the packet does to the parts of the estimate.
Advance(c, type, val, cyc_cnt) ==
  CASE type = "MTC" /\ c.tsc_approx_en = 1 -> OnMtc(c, val, cyc_cnt)
    [] type = "TSC" -> Enable(c, 0)
    [] type = "TSC_MTC" -> Enable(c, 1)
    [] type \in CycEligible \ {"TSC"} /\ ~(type = "MTC") /\ c.tsc_approx_en = 1 ->
         [c EXCEPT !.tsc_approx_cyc = c.tsc_approx_cyc + cyc_cnt - c.tsc_ref_cyc_cnt,
                   !.tsc_ref_cyc_cnt = cyc_cnt]
    [] OTHER -> c

\* Cycles in units of the TSC, by the ratio of the last CBR.
CycTsc(c) == (c.tsc_approx_cyc * base_factor) \div c.cbr_factor

Estimate_Always(c) ==
  IF c.cbr_factor # 0 THEN c.tsc_ref + c.tsc_approx_ctc + CycTsc(c) ELSE 0

\* All cycles since the last MTC count by the last ratio; before the first CBR
\* there is no estimate.
Estimate(c) ==
  IF c.tsc_approx_en = 1 /\ c.cbr_factor # 0
    THEN c.tsc_ref + c.tsc_approx_ctc + CycTsc(c) ELSE 0

record_intel_pt_pkt(c, type, val, cyc_cnt) ==
  LET ovf == [c EXCEPT !.tsc_approx_ovf = c.tsc_approx_ovf + (IF type = "OVF" THEN 1 ELSE 0)]
      adv == Advance(ovf, type, val, cyc_cnt)
  IN  [adv EXCEPT !.tsc_approx_ref = Estimate(adv)]

-----------------------------------------------------------------------------
(* The handlers of intel_pt_decode.                                        *)

Reference(c, tsc, ctc, cyc_cnt) ==
  [c EXCEPT !.tsc_ref = tsc, !.tsc_ref_ctc_ovf = 0, !.tsc_ref_ctc = ctc, !.tsc_ref_cyc_cnt = cyc_cnt]

pkt_TSC(c, tsc) ==
  [record_intel_pt_pkt(Reference(c, tsc, 0, c.cyc_cnt_ref), "TSC", tsc, c.cyc_cnt_ref)
     EXCEPT !.tsc = [val |-> tsc, cyc_cnt |-> c.cyc_cnt_ref]]

\* The TMA goes with the last TSC of the history and inherits its cycles.
\* The decoder spins if the two do not tell of the same tick.
pkt_TSC_MTC(c, ctc) ==
  IF c.tsc.val \div tsc_ratio # ctc
    THEN [c EXCEPT !.tsc_mtc_error = TRUE]
    ELSE record_intel_pt_pkt(Reference(c, c.tsc.val, ctc % CtcRange, c.tsc.cyc_cnt),
                             "TSC_MTC", ctc % CtcRange, c.tsc.cyc_cnt)

pkt_MTC(c, ctc) == record_intel_pt_pkt(c, "MTC", ctc, c.cyc_cnt_ref)

pkt_CYC(c, cyc) ==
  LET n == [c EXCEPT !.cyc_cnt_ref = c.cyc_cnt_ref + cyc]
  IN  record_intel_pt_pkt(n, "CYC", cyc, n.cyc_cnt_ref)

pkt_CBR_Once(c, cbr) ==
  record_intel_pt_pkt([c EXCEPT !.cbr_factor = IF @ = 0 THEN cbr * bus_hz ELSE @],
                      "CBR", cbr, c.cyc_cnt_ref)

\* Every CBR sets the ratio, also for the cycles counted before it.
pkt_CBR(c, cbr) ==
  record_intel_pt_pkt([c EXCEPT !.cbr_factor = cbr * bus_hz], "CBR", cbr, c.cyc_cnt_ref)

\* PSB, OVF and the packets with an address are recorded with the count as it is.
pkt_Other(c, type) == record_intel_pt_pkt(c, type, 0, c.cyc_cnt_ref)

-----------------------------------------------------------------------------
(* The processor.                                                          *)

Tick(t) == t \div tsc_ratio
MtcDue  == now % tsc_ratio = 0 /\ ticked < Tick(now)

\* How long a cycle is at a ratio.
CycTime(cbr) == base_factor \div (cbr * bus_hz)

CoreFields == [cbr : Cbrs, told : BOOLEAN, edge : Nat, pending : Nat]

\* The cycles since a tick that is told now are the next ones.
SpanFrom(c) == [from |-> c.edge, short |-> CycTime(c.cbr), long |-> CycTime(c.cbr)]

ClockInit ==
  /\ clk = Clock0
  /\ now = 0 /\ ticked = 0 /\ overflowing = FALSE /\ psb_plus = "PSB" /\ since = "tma"
  /\ \E cbr \in Cbrs : core = [cbr |-> cbr, told |-> FALSE, edge |-> 0, pending |-> 0]
  /\ span = SpanFrom(core)

\* A cycle ends with an edge.  The MTC of a tick is sent at the tick or lost.
\* Overflows lose less than a full turn of what an MTC carries.
TimePasses ==
  /\ now < MaxNow /\ now' = now + 1
  /\ psb_plus = "none" /\ (MtcDue => overflowing)
  /\ Tick(now') - ticked < CtcRange
  /\ core' = IF now' = core.edge + CycTime(core.cbr)
               THEN [core EXCEPT !.edge = now', !.pending = @ + 1] ELSE core
  /\ UNCHANGED <<clk, ticked, overflowing, psb_plus, since, span>>

CanSend == ~overflowing /\ psb_plus = "none"

SendCyc ==
  /\ CanSend /\ core.pending >= 1
  /\ clk' = pkt_CYC(clk, core.pending) /\ core' = [core EXCEPT !.pending = 0]
  /\ UNCHANGED <<now, ticked, overflowing, psb_plus, since, span>>

\* The ratio changes at an edge.  The CBR that tells it is not eligible for
\* cycles, and may be lost.
ChangeRate ==
  /\ psb_plus = "none" /\ core.edge = now
  /\ \E cbr \in Cbrs \ {core.cbr} :
       /\ clk' = IF overflowing THEN clk ELSE pkt_CBR(clk, cbr)
       /\ core' = [core EXCEPT !.cbr = cbr, !.told = ~overflowing]
       /\ span' = [span EXCEPT !.short = Min({@, CycTime(cbr)}), !.long = Max({@, CycTime(cbr)})]
  /\ UNCHANGED <<now, ticked, overflowing, psb_plus, since>>

\* The cycles of a packet that is eligible for them come before it.
SendMtc ==
  /\ CanSend /\ MtcDue /\ core.pending = 0
  /\ clk' = pkt_MTC(clk, Tick(now) % CtcRange) /\ ticked' = Tick(now)
  /\ since' = IF since = "tma" THEN "mtc" ELSE since
  /\ span' = SpanFrom(core)
  /\ UNCHANGED <<now, core, overflowing, psb_plus>>

\* Any time a packet is due it may be lost, also in the middle of a PSB+.
StartOverflow ==
  /\ ~overflowing /\ clk.tsc_approx_ovf < MaxOvf
  /\ overflowing' = TRUE /\ psb_plus' = "none"
  /\ UNCHANGED <<clk, now, ticked, core, since, span>>

EndOverflow ==
  /\ overflowing /\ overflowing' = FALSE
  /\ clk' = pkt_Other(clk, "OVF")
  /\ core' = [core EXCEPT !.pending = 0]
  /\ since' = IF since = "tma" THEN "ovf" ELSE since
  /\ UNCHANGED <<now, ticked, psb_plus, span>>

-----------------------------------------------------------------------------
(* PSB+: a reference, taken when the packets and cycles so far are out.    *)

StartPsb ==
  /\ CanSend /\ ~MtcDue /\ core.pending = 0 /\ psb_plus' = "PSB"
  /\ UNCHANGED <<clk, now, ticked, core, overflowing, since, span>>

SendPsb ==
  /\ psb_plus = "PSB" /\ psb_plus' = "TSC"
  /\ clk' = pkt_Other(clk, "PSB")
  /\ UNCHANGED <<now, ticked, core, overflowing, since, span>>

SendTsc ==
  /\ psb_plus = "TSC" /\ psb_plus' = "TMA"
  /\ clk' = pkt_TSC(clk, now)
  /\ UNCHANGED <<now, ticked, core, overflowing, since, span>>

SendTma ==
  /\ psb_plus = "TMA" /\ psb_plus' = "CBR"
  /\ clk' = pkt_TSC_MTC(clk, Tick(now)) /\ ticked' = Tick(now)
  /\ since' = "tma" /\ span' = SpanFrom(core)
  /\ UNCHANGED <<now, core, overflowing>>

SendCbr ==
  /\ psb_plus = "CBR" /\ psb_plus' = "none"
  /\ clk' = pkt_CBR(clk, core.cbr) /\ core' = [core EXCEPT !.told = TRUE]
  /\ UNCHANGED <<now, ticked, overflowing, since, span>>
=============================================================================
