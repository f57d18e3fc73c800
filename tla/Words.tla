-------------------------------- MODULE Words --------------------------------
(***************************************************************************)
(* Two's complement values of a given width, as the casts between int8_t,    *)
(* int16_t and int64_t in the source make them.                              *)
(***************************************************************************)
LOCAL INSTANCE Integers

\* Keep the low bytes of v and extend their sign: static_cast to int<n>_t and
\* back to int64_t, for the widths whose range TLC's integers can hold; wider
\* values are assumed to fit.
SignExtend(v, bytes) ==
  LET modulus == IF bytes = 1 THEN 256 ELSE 65536
      low     == v % modulus
  IN  IF bytes > 2 THEN v
      ELSE IF low < modulus \div 2 THEN low ELSE low - modulus

\* T obj = Allocator::data[(currSize_ - 1) * sizeof (T)]: data is an int8_t*,
\* so one byte of the element is read and converted to T.
LowByte(v) == SignExtend(v, 1)
=============================================================================
