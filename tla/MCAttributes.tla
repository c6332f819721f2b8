---------------------------- MODULE MCAttributes ----------------------------
(* Times at the edges: before 1980, the last 10 ms of an odd second of a    *)
(* leap day, and the last one that an entry can say.                       *)
EXTENDS Attributes

ASSUME CalendarIsExact == CalendarExact

Instants == {[day |-> -1, sec |-> 86399, cs |-> 99],
             [day |-> DayOf(2000, 2, 29), sec |-> 45297, cs |-> 99],
             [day |-> DayOf(2107, 12, 31), sec |-> 86399, cs |-> 1]}
=============================================================================
