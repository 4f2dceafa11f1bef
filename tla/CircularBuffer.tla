--------------------------- MODULE CircularBuffer ---------------------------
(***************************************************************************)
(* The bounded history of proxy/common.js, class CircularBuffer: newest    *)
(* entry first, the oldest one falls out at the limit.  A buffer is the    *)
(* sequence this.items.                                                    *)
(***************************************************************************)
EXTENDS Naturals, Sequences

AtMost(a, b) == IF a <= b THEN a ELSE b

\* MUTANT: the newest entry is the one dropped at the limit.
EnqKeepsOldest(buffer, limit, value) ==
    IF Len(buffer) < limit
    THEN [i \in 1..(Len(buffer) + 1) |-> IF i = 1 THEN value ELSE buffer[i - 1]]
    ELSE buffer

\* enq: unshift, then pop when the limit is exceeded.
Enq(buffer, limit, value) ==
    [i \in 1..AtMost(Len(buffer) + 1, limit) |-> IF i = 1 THEN value ELSE buffer[i - 1]]

\* toarray().find(...) finds an entry.
Holds(buffer, value) == \E i \in 1..Len(buffer) : buffer[i] = value
=============================================================================
