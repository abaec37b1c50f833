-------------------------------- MODULE LinkCrc --------------------------------
(* The checksum of a frame of the link, crc8() of chip_link.c.  LinkFramer      *)
(* takes it as a parameter; this is the value MCLinkFramer gives it.            *)
EXTENDS Integers, Sequences, Bitwise

LOCAL INSTANCE SequencesExt

\* What one byte makes of a CRC: the polynomial 0x07, shifted in eight times.
crcStep == [c \in 0..255 |->
  LET Shift(crc, bit) == IF crc >= 128 THEN (2 * crc - 256) ^^ 7 ELSE 2 * crc
  IN FoldLeft(Shift, c, <<1, 2, 3, 4, 5, 6, 7, 8>>)]

crc8(bytes) == LET Byte(crc, b) == crcStep[crc ^^ b] IN FoldLeft(Byte, 0, bytes)

===============================================================================
