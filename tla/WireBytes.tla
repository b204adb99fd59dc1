------------------------------ MODULE WireBytes ------------------------------
(***************************************************************************)
(* What the two C37.118 codecs and the two probes share: big-endian words  *)
(* and the CRC-16-CCITT of a byte sequence.  The code writes crc16_ccitt   *)
(* four times, once for each codec and once for each probe.                *)
(***************************************************************************)
EXTENDS Integers, Sequences

U16(n) == <<n \div 256, n % 256>>
I16(n) == U16(n % 65536)
U32(n) == U16(n \div 65536) \o U16(n % 65536)

\* u16::from_be_bytes and u32::from_be_bytes of the bytes from position i
WordAt(bytes, i) == 256 * bytes[i] + bytes[i + 1]
LongAt(bytes, i) == 65536 * WordAt(bytes, i) + WordAt(bytes, i + 2)

\* n XOR m, where m is a power of two
Flip(n, m) == IF (n \div m) % 2 = 1 THEN n - m ELSE n + m

Differ(a, b, m) == IF (a \div m) % 2 = (b \div m) % 2 THEN 0 ELSE m

Xor ==
  [a \in 0 .. 255 |-> [b \in 0 .. 255 |->
     Differ(a, b, 1) + Differ(a, b, 2) + Differ(a, b, 4) + Differ(a, b, 8)
       + Differ(a, b, 16) + Differ(a, b, 32) + Differ(a, b, 64) + Differ(a, b, 128)]]

\* One of the eight rounds for a byte: shift left and, when a one falls out,
\* XOR with 0x1021, that is with 4096, 32 and 1.
Round1021(n) ==
  IF n >= 32768 THEN Flip(Flip(Flip((2 * n) % 65536, 4096), 32), 1) ELSE 2 * n

\* The eight rounds for the high byte; they carry the low byte up unchanged.
Rounds ==
  [high \in 0 .. 255 |->
     Round1021(Round1021(Round1021(Round1021(
       Round1021(Round1021(Round1021(Round1021(256 * high))))))))]

\* index: the high byte of the sum XOR the byte that comes in
Shifted(crc, index) == <<Xor[crc[2]][Rounds[index] \div 256], Rounds[index] % 256>>

Absorb(crc, byte) == Shifted(crc, Xor[crc[1]][byte])

\* The checksum as its two bytes, high byte first.
crc16_ccitt(bytes) ==
  LET crc[i \in 0 .. Len(bytes)] ==
        IF i = 0 THEN <<255, 255>>
        ELSE Absorb(crc[i - 1], bytes[i])
  IN  crc[Len(bytes)]

(* Fault: only the low byte of the sum is compared. *)
checksum_matches_low_byte(frame) ==
  /\ Len(frame) >= 2
  /\ crc16_ccitt(SubSeq(frame, 1, Len(frame) - 2))[2] = frame[Len(frame)]

\* The checksum in the last two bytes covers all the others.
checksum_matches(frame) ==
  /\ Len(frame) >= 2
  /\ crc16_ccitt(SubSeq(frame, 1, Len(frame) - 2))
       = SubSeq(frame, Len(frame) - 1, Len(frame))
=============================================================================
