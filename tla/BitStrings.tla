----------------------------- MODULE BitStrings -----------------------------
(***************************************************************************)
(* The binary text that the Python converters write: a string of digits is *)
(* kept as its length and its value.  Python's format(v, '0<w>b') pads to  *)
(* w digits but never cuts a longer number short.                          *)
(***************************************************************************)
EXTENDS Naturals

Digits(v) == CHOOSE n \in 1 .. v + 1 : v < 2 ^ n /\ (n > 1 => 2 ^ (n - 1) <= v)

Format(v, w) == [len |-> IF w > 0 /\ v < 2 ^ w THEN w ELSE Digits(v), val |-> v]

EmptyString == [len |-> 0, val |-> 0]

Concat(a, b) == [len |-> a.len + b.len, val |-> a.val * 2 ^ b.len + b.val]

\* A memory word of w bits read from a string: $readmemb keeps the low bits.
Word(s, w) == s.val % 2 ^ w

\* Bits lo to lo + w - 1 of a word.
Bits(word, lo, w) == (word \div 2 ^ lo) % 2 ^ w
=============================================================================
