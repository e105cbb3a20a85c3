--------------------------------- MODULE Wire ---------------------------------
(***************************************************************************)
(* The lengths of a packet: srv_WritePacket, srv_ReadPacket and AES128_cbc *)
(* of Linpop_Server/server.c and common.c, the same at both ends.          *)
(*                                                                         *)
(* A packet is written as one encrypted block holding the padded length,   *)
(* and the padded bytes.  The reader refuses a padded length of MaxPacket  *)
(* or more and cuts what it takes to the size its caller asked for.        *)
(* In the code MaxPacket is 65536 and Word is 2^32.                        *)
(***************************************************************************)
EXTENDS Integers

CONSTANTS
  MaxPacket,  \* MAX_PACKET
  Word        \* the values of a uint32_t

ASSUME WireAssumption ==
  /\ MaxPacket \in Nat /\ MaxPacket % 16 = 0 /\ MaxPacket >= 32
  /\ Word \in Nat /\ Word % 16 = 0 /\ Word > 2 * MaxPacket

Refused == -1

\* ROUNDUP16, an addition and a mask of 32 bits.
RoundUp16(x) == LET sum == (x + 15) % Word IN sum - (sum % 16)

\* The padded length of a packet of size bytes: never without padding.
SendSize(size) ==
  IF RoundUp16(size) = size THEN (size + 16) % Word ELSE RoundUp16(size)

\* The byte AES128_cbc fills the padding with, which is the padding's length.
Padding(size) == SendSize(size) - size

\* AES128_cbc, decrypting len bytes into maxlen.
Decrypted(len, padlen, maxlen) ==
  IF len % 16 # 0 \/ padlen > 16 THEN Refused
  ELSE IF (padlen + maxlen) % Word < len THEN maxlen
  ELSE len - padlen

BufSize(maxsize, readSize) == IF maxsize < readSize THEN maxsize ELSE readSize

\* What srv_ReadPacket(maxsize) makes of a packet written with size bytes.
Received(size, maxsize) ==
  IF SendSize(size) >= MaxPacket THEN Refused
  ELSE Decrypted(SendSize(size), Padding(size), BufSize(maxsize, SendSize(size)))

\* protocol_GroupMessage takes a body that it can read, and pushes it with
\* the group's id in front.
GidSize == 4
TakesGroupMessage(msglen) ==
  msglen <= MaxPacket /\ Received(msglen, msglen) # Refused
=============================================================================
