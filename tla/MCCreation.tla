------------------------------ MODULE MCCreation ------------------------------
(* Values for the constants of Creation. *)
EXTENDS Creation

\* In nanoseconds, with the constants of the cfg: us 3, ms and bare 9, s 27, m and
\* min 54, h 108, d 216; an int64 holds 500.
MCDurations ==
  LET Set(unit, numbers) == [unit : {unit}, halves : numbers]
  IN  \* disabled, half a millisecond, two; 60 wrap to a negative number
      Set("bare", {-2, 1, 4, 120})
      \* 20 seconds are too many, and so are 2.5 days
      \cup Set("s", {40})
      \cup Set("d", {-2, 1, 5}) \cup Set("min", {4})
=============================================================================
