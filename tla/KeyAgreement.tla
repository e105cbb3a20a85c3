----------------------------- MODULE KeyAgreement -----------------------------
(***************************************************************************)
(* srv_DoHandshake, the same function at both ends: Diffie-Hellman with    *)
(* public numbers of a fixed size on the wire and key and IV cut from the  *)
(* shared number.                                                          *)
(*                                                                         *)
(* A number on the wire is a buffer of Size bytes: the code insists on a   *)
(* prime of 32 bytes of base 256.  BN_bn2bin writes no leading zeros and   *)
(* srv_DoHandshake writes what it returns to the front of the buffer: the  *)
(* rest of the buffer keeps what it held, which is fresh memory for the    *)
(* public number and the peer's number for the shared one.                 *)
(***************************************************************************)
EXTENDS Naturals, Sequences

CONSTANTS
  Base,       \* values of a byte
  Size,       \* DH_size, the bytes of the modulus
  Prime,      \* modulus of dh.param
  Generator   \* generator of dh.param

\* n without its last k digits.
Dropped(n, k) ==
  LET left[j \in Nat] == IF j = 0 THEN n ELSE left[j - 1] \div Base
  IN  left[k]

ASSUME KeyAgreementAssumption ==
  /\ Base \in Nat \ {0, 1} /\ Size \in Nat \ {0, 1} /\ Prime \in Nat
  /\ Dropped(Prime, Size - 1) # 0 /\ Dropped(Prime, Size) = 0
  /\ Generator \in 2 .. (Prime - 2)

Secrets  == 1 .. (Prime - 2)
Buffers  == [1 .. Size -> 0 .. (Base - 1)]

\* g to the power of n, modulo the prime.
Power(g, n) ==
  LET pow[k \in Nat] == IF k = 0 THEN 1 ELSE (g * pow[k - 1]) % Prime
  IN  pow[n]

\* The digits that a number below the modulus has, one at least.
Digits(n) ==
  CHOOSE k \in 1 .. Size : Dropped(n, k) = 0 /\ \A j \in 1 .. k - 1 : Dropped(n, j) # 0

\* BN_bn2bin: the digits of n, most significant first, no leading zeros.
Bn2Bin(n) == [i \in 1 .. Digits(n) |-> Dropped(n, Digits(n) - i) % Base]

\* BN_bin2bn: the number in a whole buffer.
Bin2Bn(buffer) ==
  LET read[k \in 0 .. Size] == IF k = 0 THEN 0 ELSE read[k - 1] * Base + buffer[k]
  IN  read[Size]

\* Mutant: the last digit of a number is not copied.
WrittenOver_FirstOnly(buffer, n) ==
  [i \in 1 .. Size |-> IF i < Len(Bn2Bin(n)) THEN Bn2Bin(n)[i] ELSE buffer[i]]

\* A number written to the front of a buffer.
WrittenOver(buffer, n) ==
  [i \in 1 .. Size |-> IF i <= Len(Bn2Bin(n)) THEN Bn2Bin(n)[i] ELSE buffer[i]]

\* The public number of an end, in its malloc()ed buffer.
Public(secret, junk) == WrittenOver(junk, Power(Generator, secret))

\* DH_compute_key writes nothing and returns -1 for a public number outside
\* 2 .. p - 2 ...
Acceptable(received) == Bin2Bn(received) \in 2 .. (Prime - 2)

\* Key and IV of an end, written over the buffer that held the peer's number.
\* ... and !DH_compute_key lets that pass: the number of the peer is the key.
\* (It returns 0, which ends the handshake, for no number when p is a prime.)
KeyAndIV(secret, received) ==
  IF Acceptable(received) THEN WrittenOver(received, Power(Bin2Bn(received), secret))
                          ELSE received

\* Every number of an exchange fills its buffer.
FullLength(a, b) ==
  /\ Len(Bn2Bin(Power(Generator, a))) = Size
  /\ Len(Bn2Bin(Power(Generator, b))) = Size
  /\ Len(Bn2Bin(Power(Power(Generator, a), b))) = Size

\* How an exchange of two ends can turn out: both hold the same key and IV, or
\* they differ, with a short number or without.
Outcome(a, b, junkA, junkB) ==
  LET fromA == Public(a, junkA)
      fromB == Public(b, junkB)
  IN  IF KeyAndIV(a, fromB) = KeyAndIV(b, fromA) THEN "same"
      ELSE IF FullLength(a, b) THEN "differ"
      ELSE "short"

Outcomes ==
  {Outcome(a, b, j, k) : a \in Secrets, b \in Secrets, j \in Buffers, k \in Buffers}
=============================================================================
