------------------------------ MODULE MCNames ------------------------------
(* Short and long names of the lengths where the slots change: full 8.3    *)
(* fields, one part, one full part, two, two full parts, and a name as     *)
(* long as the buffer, which is scaled from 255 to 27 bytes.               *)
EXTENDS Names

Letters(c, len) == [i \in 1 .. len |-> c + (i % 9)]

ShortPlain == Letters(65, 6)
ShortFull  == Letters(66, 8) \o <<Dot>> \o Letters(67, 3)
LongOne    == <<97>>                                   \* "a": not upper case
LongNine   == Letters(68, 9)                           \* no dot, nine letters
LongFull   == Letters(98, 13)
LongTwo    == Letters(99, 14)
LongTwice  == Letters(100, 26)
LongMost   == Letters(101, 27)

SomeNames == {ShortPlain, ShortFull, LongOne, LongNine, LongFull, LongTwo, LongTwice, LongMost}
=============================================================================
