---------------------------- MODULE PacketValues ----------------------------
(***************************************************************************)
(* What the decoder makes of the contents of packets: addresses and times  *)
(* together, since a PSB starts both of them anew and an overflow in the   *)
(* middle of a PSB+ leaves one of them without a reference.                *)
(***************************************************************************)
EXTENDS PacketIp, PacketClock

valueVars == <<ipVars, clockVars>>

ValuesInit == IpInit /\ ClockInit

\* Packets with an address are sent while packets are; they are eligible for
\* cycles, and the cycles come before them.
SendIp ==
  /\ CanSend /\ core.pending = 0
  /\ \E ip \in Ips, ip_bytes \in IpForms : IpPacket(ip, ip_bytes)
  /\ clk' = pkt_Other(clk, "TIP")
  /\ UNCHANGED cpuVars

ClockNext ==
  \/ TimePasses \/ SendCyc \/ ChangeRate \/ SendMtc
  \/ StartOverflow \/ EndOverflow
  \/ StartPsb \/ SendTsc \/ SendTma \/ SendCbr

ValuesNext ==
  \/ SendIp
  \/ SendPsb /\ PsbIp
  \/ ClockNext /\ UNCHANGED ipVars

ValuesSpec == ValuesInit /\ [][ValuesNext]_valueVars

-----------------------------------------------------------------------------
(* Properties.                                                             *)

\* Times and addresses have their types, and while there is no reference there
\* is no time.
ValuesTypeOK ==
  /\ IpTypeOK
  /\ clk \in ClockFields /\ core \in CoreFields
  /\ clk.tsc_approx_en = 0 => clk.tsc_approx_ref = 0

Timed == clk.tsc_approx_en = 1

\* The ratio is that of the last CBR, and was since the last tick told.
Steady == core.told /\ span.short = span.long

\* Every TMA is taken with its own TSC.  What the crystal clock tells is the last
\* tick told, ahead of it by less than a tick; an overflow between a reference
\* and its first MTC puts it a full turn ahead, if anything: ctc_prev is then
\* older than the reference it is compared with.  However the ratio changes, the
\* cycles counted on top of it are those that ran, but for what an overflow
\* cost.  While the ratio is steady, the time of a packet is therefore the true
\* time of the last edge within a tick and a cycle, and what overflows cost.
TimeTracks ==
  /\ ~clk.tsc_mtc_error
  /\ Timed =>
       LET crystal == clk.tsc_ref + clk.tsc_approx_ctc
           most    == tsc_ratio + (IF since = "ovf" THEN CtcRange * tsc_ratio ELSE 0)
           ran     == core.edge - span.from
           cyc     == clk.tsc_approx_cyc
           cycle   == CycTime(core.cbr)
           error   == clk.tsc_approx_ref - core.edge
       IN  /\ crystal >= ticked * tsc_ratio /\ crystal < ticked * tsc_ratio + most
           /\ cyc * span.short <= ran
           /\ clk.tsc_approx_ovf = 0 => ran <= (cyc + core.pending) * span.long
           /\ Steady =>
                /\ error < most + cycle
                /\ clk.tsc_approx_ovf = 0 => error >= -(core.pending * cycle)

\* From one reference to the next, while the ratio is steady, the time of packets
\* goes back by less than the cycle that was running at an MTC, also when MTCs
\* were lost: what was due at a time stays due.
NeverBack ==
  [][Timed /\ Steady /\ Steady' /\ psb_plus # "TSC" /\ psb_plus # "TMA" =>
       clk'.tsc_approx_ref > clk.tsc_approx_ref - CycTime(core.cbr)]_valueVars
=============================================================================
