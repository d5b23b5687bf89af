------------------------------ MODULE MCStreams ------------------------------
(***************************************************************************)
(* Streams for TLC: lengths in base 2 with at most three digits, and a     *)
(* peer that uses three byte values: the digits 0 and 1, and 1 with its    *)
(* continuation mark.  They write the lengths 0, 1 and 3, which are legal, *)
(* 7, which is over the limit, and one that never ends.  As first bytes    *)
(* they are a packet without fields, one that needs one byte, and one that *)
(* never decodes.                                                          *)
(***************************************************************************)
EXTENDS Streams

MCBytes == {0, 1, 3}
MCMinBody == [b \in MCBytes |-> CASE b = 0 -> 0 [] b = 1 -> 1 [] OTHER -> 8]

\* Every length that can be encoded is read back, from as many digits as were written.
ASSUME LengthsReadBack ==
    /\ LengthLimit = Base ^ MaxDigits - 1
    /\ \A length \in 0 .. LengthLimit :
          LET digits == EncodeRemainingLength(length)
          IN  /\ Len(digits) <= MaxDigits
              /\ DigitCount(digits \o <<0>>, 0) = {Len(digits)}
              /\ RemainingLength(digits) = length
=============================================================================
