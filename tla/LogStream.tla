----------------------------- MODULE LogStream -----------------------------
(***************************************************************************)
(* cannet::LogStream on its FixedBuffer: what each operator<< adds to the  *)
(* text of a record.  A text is a sequence of characters, a piece what one *)
(* << is given: a number with its kind, or characters.                     *)
(***************************************************************************)
EXTENDS Integers, Sequences, SequencesExt

CONSTANTS SmallBuffer,      \* kSmallBuffer, the size of the buffer of a record
          MaxNumericSize    \* kMaxNumericSize, the room a number asks for

\* A pointer is a uintptr_t; bool, char, const char * and string are characters,
\* as is the output of snprintf for a double.
IsNumeric(piece) == piece.kind \in {"int", "pointer", "double"}

-----------------------------------------------------------------------------
(* Conversions.                                                            *)

\* `digits', whose middle is `zero': indexed by a remainder of either sign.
Digits == <<"9","8","7","6","5","4","3","2","1","0","1","2","3","4","5","6","7","8","9">>
DigitsHex == <<"0","1","2","3","4","5","6","7","8","9","A","B","C","D","E","F">>
Zero(lsd) == Digits[10 + lsd]

\* Integer division of C++: towards zero, the remainder has the dividend's sign.
Quotient(i, n)  == IF i < 0 THEN -((-i) \div n) ELSE i \div n
Remainder_Mut(i, n) == i % n
Remainder(i, n) == IF i < 0 THEN -((-i) % n) ELSE i % n

\* The loops of convert() and convertHex(): least significant digit first.
decimal[i \in Int] ==
  <<Zero(Remainder(i, 10))>>
  \o (IF Quotient(i, 10) = 0 THEN <<>> ELSE decimal[Quotient(i, 10)])
hex[i \in Nat] ==
  <<DigitsHex[1 + (i % 16)]>> \o (IF i \div 16 = 0 THEN <<>> ELSE hex[i \div 16])

\* The value is never negated, so that the least integer is like the others.
Convert(v) == Reverse(decimal[v] \o IF v < 0 THEN <<"-">> ELSE <<>>)
ConvertHex(v) == Reverse(hex[v])

Characters(piece) ==
  CASE piece.kind = "int"     -> Convert(piece.value)
    [] piece.kind = "pointer" -> <<"0", "x">> \o ConvertHex(piece.value)
    [] OTHER                  -> piece.value

-----------------------------------------------------------------------------
(* FixedBuffer::append and the operators.                                  *)

Room(t) == SmallBuffer - Len(t)
HasRoom(t, piece) ==
  IF IsNumeric(piece) THEN Room(t) >= MaxNumericSize
                      ELSE Room(t) > Len(piece.value)

\* A piece for which there is no room is left out.
Insert(t, piece) == IF HasRoom(t, piece) THEN t \o Characters(piece) ELSE t

Text(pieces) == FoldLeft(Insert, <<>>, pieces)
=============================================================================
