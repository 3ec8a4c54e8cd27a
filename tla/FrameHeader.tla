---------------------------- MODULE FrameHeader ----------------------------
(***************************************************************************)
(* The length of a frame's payload, as pimpl::Send and every other sender  *)
(* puts it in the header, and as TryParseFrame reads it there.  A length   *)
(* is a 64-bit integer, here its eight bytes, the most significant first;  *)
(* a field is what the header has from its second byte on, without the bit *)
(* for the mask.                                                           *)
(***************************************************************************)
EXTENDS Naturals

Byte == 0..255
Lengths == [1..8 -> Byte]

\* length <= 65535, length <= 125
Fits16(len) == \A i \in 1..6 : len[i] = 0
Fits7(len) == Fits16(len) /\ len[7] = 0 /\ len[8] <= 125

\* length < 2^32: all that a message of this program can have.
Fits32(len) == \A i \in 1..4 : len[i] = 0

\* The length as one byte, or after a mark as two bytes or as eight.
LengthField(len) ==
    IF Fits7(len) THEN <<len[8]>>
    ELSE IF Fits16(len) THEN <<126, len[7], len[8]>>
    ELSE [i \in 1..9 |-> IF i = 1 THEN 127 ELSE len[i - 1]]

\* Faulty variant of FieldRead, which nothing uses: two bytes are copied as eight are.
FieldReadSwapped(field) ==
    CASE field[1] = 126 ->
            [i \in 1..8 |-> IF i < 7 THEN 0 ELSE field[10 - i]]
      [] field[1] = 127 ->
            [i \in 1..8 |-> field[10 - i]]
      [] OTHER ->
            [i \in 1..8 |-> IF i < 8 THEN 0 ELSE field[1]]

\* Two bytes are put together with the first as the higher one; eight are copied
\* as they lie there, which makes the first the lowest.
FieldRead(field) ==
    CASE field[1] = 126 ->
            [i \in 1..8 |-> IF i < 7 THEN 0 ELSE field[i - 5]]
      [] field[1] = 127 ->
            [i \in 1..8 |-> field[10 - i]]
      [] OTHER ->
            [i \in 1..8 |-> IF i < 8 THEN 0 ELSE field[1]]

ReadAs(len) == FieldRead(LengthField(len))

\* a <= b
AtMost(a, b) ==
    \/ a = b
    \/ \E i \in 1..8 : a[i] < b[i] /\ \A j \in 1..(i - 1) : a[j] = b[j]

=============================================================================
