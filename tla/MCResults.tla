------------------------------- MODULE MCResults -------------------------------
(* The values of Results' constants that a .cfg cannot write. *)
EXTENDS Results

\* Unreadable, negative, none, small and as large as an int can be.
AnySizes == {NotANumber, -1, 0, 1, 2, 3, MaxInt - 1, MaxInt}

Cell(type, value, arg) == [type |-> type, value |-> value, arg |-> arg]

\* Tables of integers, every cell another, and every reading of the flag: no limit
\* given, one, two, and two that an int32 cannot hold (one of them turns negative).
Shapes ==
  {[rows    |-> [r \in 1 .. n |-> [c \in 1 .. k |-> Cell("INT64", 10 * r + c, 0)]],
    columns |-> k, flag |-> f] :
     n \in 0 .. MaxItems, k \in 0 .. 2,
     f \in {-1, 0, 1, 2, MaxInt32 + 1, 2 * (MaxInt32 + 1) + 1}}

\* A row that cannot be encoded before, between and behind others.
Unwritable ==
  {[rows    |-> [r \in 1 .. MaxItems |->
                   <<Cell("FLOAT64", IF r \in bad THEN NotFinite ELSE r, 0)>>],
    columns |-> 1, flag |-> 0] : bad \in SUBSET (1 .. MaxItems)}

\* One cell of every type, with values on both sides of every boundary.
AnyInt   == -(MaxInt + 1) .. MaxInt
AnyInt32 == -(MaxInt32 + 1) .. MaxInt32
Few      == {-1, 0, 1}

SampleCells ==
  {Cell(t, Absent, 0) : t \in {"INT64", "STRING", "LIST", "INTERVAL_MONTHS"}}
    \cup {Cell(t, n, 0) : t \in Integral \cup Floating \cup Textual \cup Bytes, n \in Few}
    \cup {Cell("BOOL", n, 0) : n \in {0, 1}}
    \cup {Cell(t, NotFinite, 0) : t \in Floating}
    \cup {Cell("DATE32", n, 0) : n \in Few}
    \cup {Cell(t, n, 0) : t \in {"DATE64", "MAP"} \cup Structs, n \in -20 .. 20}
    \cup {Cell(t, n, 0) : t \in Listing \cup ListViews, n \in {-17, -9, -1, 0, 8, 9, 17, 18}}
    \cup {Cell("INTERVAL_MONTHS", n, 0) : n \in AnyInt32}
    \cup {Cell("INTERVAL_DAY_TIME", n, d) : n \in -40 .. 40, d \in Few}
    \cup {Cell(t, n, s) : t \in Decimals, n \in -20 .. 20 \cup {-100, -99, 99, 100}, s \in -1 .. 3}
    \cup {Cell(t, n, s) : t \in SmallDecimals, n \in Few, s \in -1 .. 3}
    \cup {Cell("TIMESTAMP", n, u) : n \in -30 .. 30, u \in Second .. Nanosecond}
    \cup {Cell("DURATION", n, u) : n \in AnyInt, u \in Second .. Nanosecond}

Samples == {[rows |-> << <<c>> >>, columns |-> 1, flag |-> 0] : c \in SampleCells}

AnyQuery == Shapes \cup Unwritable \cup Samples
=============================================================================
