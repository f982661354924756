------------------------------ MODULE PacketIp ------------------------------
(***************************************************************************)
(* The addresses that TIP, FUP, TIP.PGE and TIP.PGD packets carry          *)
(* (ip_decode of src/intel_pt.c).  The processor leaves out the upper part *)
(* of an address that it shares with the last one it sent; the decoder     *)
(* fills it in from last_ip, which a PSB clears on both sides.             *)
(*                                                                         *)
(* An address is four words of 16 bits, the lowest first.  Which of the    *)
(* forms that fit an address the processor takes is left open.             *)
(***************************************************************************)
EXTENDS Naturals, Sequences

CONSTANT Ips   \* the addresses of the traced code

Word == 0 .. 65535
Addresses == [1 .. 4 -> Word]

ASSUME IpsAssumption == Ips \subseteq Addresses

VARIABLES
  last_ip,    \* the decoder's
  cpu_ip,     \* the last address the processor sent since a PSB
  sent,       \* the address meant by the last packet
  received    \* what the decoder made of it

ipVars == <<last_ip, cpu_ip, sent, received>>

ZeroIp == [k \in 1 .. 4 |-> 0]

\* Bit 47, the highest of the third word, repeated.
SignOf(w) == IF w \div 32768 = 1 THEN 65535 ELSE 0

\* How many words of the address each form of the packet carries.  Form 0 carries
\* none, the address is withheld; 5 and 7 are reserved.
IpForms == {0, 1, 2, 3, 4, 6}
Words(ip_bytes) == CASE ip_bytes = 0 -> 0 [] ip_bytes = 1 -> 1 [] ip_bytes = 2 -> 2
                     [] ip_bytes \in {3, 4} -> 3 [] ip_bytes = 6 -> 4

\* Encodings the processor may choose for an address.
Fits(ip_bytes, ip) ==
  CASE ip_bytes = 0 -> TRUE
    [] ip_bytes \in {1, 2, 4} -> \A k \in Words(ip_bytes) + 1 .. 4 : ip[k] = cpu_ip[k]
    [] ip_bytes = 3 -> ip[4] = SignOf(ip[3])
    [] ip_bytes = 6 -> TRUE

-----------------------------------------------------------------------------
(* ip_decode: payload holds the words the packet carries.                  *)

Decompress(ip_bytes, payload) ==
  [k \in 1 .. 4 |-> IF k <= Words(ip_bytes) THEN payload[k]
                    ELSE IF ip_bytes = 3 THEN SignOf(payload[3]) ELSE last_ip[k]]

\* A withheld address reads as 0 and leaves last_ip alone.
ip_decode(ip_bytes, payload) ==
  IF ip_bytes = 0
    THEN received' = ZeroIp /\ UNCHANGED last_ip
    ELSE received' = Decompress(ip_bytes, payload) /\ last_ip' = received'

-----------------------------------------------------------------------------
IpInit == last_ip = ZeroIp /\ cpu_ip = ZeroIp /\ sent = ZeroIp /\ received = ZeroIp

\* A packet that carries the address ip in one of the forms that fit it.
IpPacket(ip, ip_bytes) ==
  /\ Fits(ip_bytes, ip)
  /\ sent' = IF ip_bytes = 0 THEN ZeroIp ELSE ip
  /\ cpu_ip' = IF ip_bytes = 0 THEN cpu_ip ELSE ip
  /\ ip_decode(ip_bytes, [k \in 1 .. Words(ip_bytes) |-> ip[k]])

PsbIp_Keeps == cpu_ip' = ZeroIp /\ UNCHANGED <<last_ip, sent, received>>

PsbIp == last_ip' = ZeroIp /\ cpu_ip' = ZeroIp /\ UNCHANGED <<sent, received>>

IpNext == PsbIp \/ \E ip \in Ips, ip_bytes \in IpForms : IpPacket(ip, ip_bytes)

IpSpec == IpInit /\ [][IpNext]_ipVars

\* Addresses of four words.
IpTypeOK == {last_ip, cpu_ip, sent, received} \subseteq Addresses

\* Every address is rebuilt as it was, however the ones before it were
\* compressed, withheld or followed by a PSB.
IpAgrees == received = sent
=============================================================================
