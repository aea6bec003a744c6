----------------------------- MODULE ResultsProofs -----------------------------
(***************************************************************************)
(* For every query, limit and cutting into record batches: the cells of a  *)
(* result are in their places, and the client's reading of it is reading   *)
(* as module Paging has it, so that its pages connect.                     *)
(*                                                                         *)
(* The invariant is about the conversion under way: the row offset is      *)
(* where the next batch begins, and everything before it is converted.     *)
(***************************************************************************)
EXTENDS Results, PagingProofs, ConversionsProofs, SequenceTheorems

InPlace(r, c) == data[r][c] = ExtractArrowValue(query.rows[r][c])

\* The table is being converted; the columns before `column` are done.
Converted ==
  /\ list = "rows" /\ total = 0
  /\ Int32(Limit(query.flag)) >= 0 /\ Rows(query) \in 0 .. Len(query.rows)
  /\ cuts \in Cuts(Rows(query))
  /\ data = [r \in 1 .. Rows(query) |-> data[r]]
  /\ \A r \in 1 .. Rows(query) : DOMAIN data[r] = 1 .. query.columns
  /\ batch \in 1 .. Len(cuts) /\ offset = cuts[batch]
  /\ \A r \in 1 .. Rows(query) : \A c \in 1 .. column - 1 : InPlace(r, c)
  /\ column <= query.columns => \A r \in 1 .. offset : InPlace(r, column)

ResultsInv ==
  /\ list \in Lists /\ query \in Queries
  /\ stage \in {"executing", "converting", "available", "error"}
  /\ list = "statements" => stage = "error"
  /\ list = "rows" /\ stage # "available" => total = 0
  /\ column \in 1 .. query.columns + 1
  /\ stage = "executing" => data = <<>> /\ column = 1 /\ batch = 1 /\ offset = 0
  /\ stage = "converting" => Converted
  /\ stage = "available" =>
       \/ data = <<>>
       \/ Int32(Limit(query.flag)) >= 0 /\ Len(data) = Rows(query)
  /\ CellsInPlace

\* What is known of a query.
LEMMA QueryFacts ==
  ASSUME NEW q \in Queries
  PROVE  /\ q.flag \in Int /\ q.columns \in Nat
         /\ Len(q.rows) \in 0 .. MaxItems
         /\ Limit(q.flag) \in Nat \ {0} /\ Int32(Limit(q.flag)) \in Int
<1>1. q.flag \in Int /\ q.columns \in Nat /\ Len(q.rows) \in 0 .. MaxItems
  BY ResultsAssumption
<1>2. Limit(q.flag) \in Nat \ {0}
  BY <1>1, ResultsAssumption DEF Limit
<1>3. Int32(Limit(q.flag)) \in Int
  BY <1>2, GoIntegersAssumption DEF Int32, Wrap
<1> QED
  BY <1>1, <1>2, <1>3

\* Batches begin at 0, end with the last row and lie one behind the other.
LEMMA CutsFacts ==
  ASSUME NEW n \in Nat, NEW c \in Cuts(n)
  PROVE  /\ Len(c) \in Nat \ {0, 1} /\ c[1] = 0 /\ c[Len(c)] = n
         /\ \A i \in 1 .. Len(c) : c[i] \in 0 .. n
         /\ \A i \in 1 .. Len(c) - 1 : c[i] <= c[i + 1]
<1>1. PICK k \in 1 .. MaxBatches : c \in [1 .. k + 1 -> 0 .. n]
  BY ResultsAssumption DEF Cuts
<1>2. c \in Seq(0 .. n) /\ Len(c) = k + 1
  BY <1>1, ResultsAssumption
<1>3. k + 1 \in Nat \ {0, 1} /\ \A i \in 1 .. k + 1 : c[i] \in 0 .. n
  BY <1>1, ResultsAssumption
<1>4. c[1] = 0 /\ c[Len(c)] = n /\ \A i \in 1 .. Len(c) - 1 : c[i] <= c[i + 1]
  BY DEF Cuts
<1> QED
  BY <1>2, <1>3, <1>4

LEMMA LenOfRows ==
  ASSUME NEW n \in Nat, NEW d, d = [r \in 1 .. n |-> d[r]]
  PROVE  Len(d) = n
<1>1. d \in [1 .. n -> {d[r] : r \in 1 .. n}]
  OBVIOUS
<1>2. d \in Seq({d[r] : r \in 1 .. n})
  BY <1>1
<1> QED
  BY <1>1, <1>2

\* The statements that conversion leaves alone are left alone by the client, and
\* what the invariant says is about no more.
LEMMA OthersKeepInv ==
  ASSUME ResultsInv, UNCHANGED <<list, query, stage, cuts, data, column, batch, offset>>,
         list = "rows" => total' = total
  PROVE  ResultsInv'
<1>1. CASE list = "rows"
  BY <1>1 DEF ResultsInv, Converted, CellsInPlace, InPlace, Rows, Limit
<1>2. CASE list # "rows"
  BY <1>2 DEF ResultsInv, Converted, CellsInPlace, Lists
<1> QED
  BY <1>1, <1>2

LEMMA TableArrivesStep ==
  ASSUME ResultsInv, TableArrives
  PROVE  ResultsInv'
<1> DEFINE n == Rows(query)
<1>1. /\ query \in Queries /\ query' = query /\ list = "rows" /\ list' = list
      /\ total = 0 /\ total' = 0
      /\ column = 1 /\ batch = 1 /\ offset = 0
      /\ column' = 1 /\ batch' = 1 /\ offset' = 0 /\ stage' = "converting"
  BY DEF TableArrives, ResultsInv, vars, Lists
<1>2. n \in 0 .. Len(query.rows)
  BY <1>1, QueryFacts DEF TableArrives, Rows
<1>3. cuts' \in Cuts(n) /\ data' = [r \in 1 .. n |-> [c \in 1 .. query.columns |-> Null]]
  BY DEF TableArrives
<1>4. n \in Nat /\ query.columns \in Nat
  BY <1>1, <1>2, QueryFacts
<1>5. Len(cuts') \in Nat \ {0, 1} /\ cuts'[1] = 0
  BY <1>3, <1>4, CutsFacts
<1>6. Rows(query)' = n /\ Int32(Limit(query.flag)) >= 0
  BY <1>1 DEF Rows, TableArrives
<1> HIDE DEF n
<1>7. Converted'
  BY <1>1, <1>2, <1>3, <1>4, <1>5, <1>6 DEF Converted, InPlace
<1> QED
  BY <1>1, <1>4, <1>7 DEF ResultsInv, CellsInPlace

LEMMA ConvertBatchStep ==
  ASSUME ResultsInv, ConvertBatch
  PROVE  ResultsInv'
<1> DEFINE n      == Rows(query)
           before == cuts[batch]
           after  == cuts[batch + 1]
<1>1. /\ query \in Queries /\ query' = query /\ list = "rows" /\ list' = list
      /\ total = 0 /\ total' = 0 /\ stage = "converting" /\ stage' = stage
      /\ Converted /\ cuts' = cuts /\ column' = column /\ batch' = batch + 1
      /\ column \in 1 .. query.columns /\ batch \in 1 .. Len(cuts) - 1
      /\ query.columns \in Nat
  BY QueryFacts DEF ConvertBatch, ResultsInv, Converted, Batches, vars
<1>2. n \in Nat /\ cuts \in Cuts(n)
  BY <1>1, QueryFacts DEF Converted
<1>3. Len(cuts) \in Nat \ {0, 1} /\ before \in 0 .. n /\ after \in before .. n
  BY <1>1, <1>2, CutsFacts
<1>4. offset = before /\ offset' = after
  BY <1>1, <1>3 DEF ConvertBatch, Converted
<1>5. data' = [r \in DOMAIN data |->
                 IF r - before \in 1 .. after - before
                 THEN [data[r] EXCEPT ![column] =
                         ExtractArrowValue(query.rows[before + (r - before)][column])]
                 ELSE data[r]]
  BY <1>4 DEF ConvertBatch
<1>6. /\ DOMAIN data = 1 .. n
      /\ \A r \in 1 .. n : DOMAIN data[r] = 1 .. query.columns
      /\ \A r \in 1 .. n : \A c \in 1 .. column - 1 : InPlace(r, c)
      /\ \A r \in 1 .. before : InPlace(r, column)
      /\ n \in 0 .. Len(query.rows)
  BY <1>1, <1>4 DEF Converted
<1> HIDE DEF n, before, after
<1>7. /\ data' = [r \in 1 .. n |-> data'[r]]
      /\ \A r \in 1 .. n : DOMAIN data'[r] = 1 .. query.columns
  BY <1>5, <1>6
<1>8. \A r \in 1 .. n : \A c \in 1 .. column - 1 : InPlace(r, c)'
  <2> SUFFICES ASSUME NEW r \in 1 .. n, NEW c \in 1 .. column - 1
               PROVE  data'[r][c] = ExtractArrowValue(query.rows[r][c])
    BY <1>1 DEF InPlace
  <2>1. data[r][c] = ExtractArrowValue(query.rows[r][c])
    BY <1>6 DEF InPlace
  <2>2. c \in DOMAIN data[r] /\ c # column
    BY <1>1, <1>6
  <2>3. data'[r][c] = data[r][c]
    BY <2>2, <1>5, <1>6
  <2> QED
    BY <2>1, <2>3
<1>9. \A r \in 1 .. after : InPlace(r, column)'
  <2> SUFFICES ASSUME NEW r \in 1 .. after
               PROVE  data'[r][column] = ExtractArrowValue(query.rows[r][column])
    BY <1>1 DEF InPlace
  <2>1. CASE r <= before
    BY <2>1, <1>1, <1>2, <1>3, <1>5, <1>6 DEF InPlace
  <2>2. CASE r > before
    <3>1. before + (r - before) = r /\ r - before \in 1 .. after - before /\ r \in 1 .. n
      BY <2>2, <1>2, <1>3
    <3>2. data'[r] = [data[r] EXCEPT ![column] = ExtractArrowValue(query.rows[r][column])]
      BY <3>1, <1>5, <1>6
    <3> QED
      BY <3>1, <3>2, <1>1, <1>6
  <2> QED
    BY <2>1, <2>2, <1>2, <1>3
<1>10. Rows(query)' = n /\ cuts'[batch'] = after
  BY <1>1 DEF Rows, n, after
<1>11. Converted'
  BY <1>1, <1>2, <1>3, <1>4, <1>6, <1>7, <1>8, <1>9, <1>10 DEF Converted
<1> QED
  BY <1>1, <1>11 DEF ResultsInv, CellsInPlace

LEMMA NextColumnStep ==
  ASSUME ResultsInv, NextColumn
  PROVE  ResultsInv'
<1> DEFINE n == Rows(query)
<1>1. /\ query \in Queries /\ query' = query /\ list = "rows" /\ list' = list
      /\ total = 0 /\ total' = 0 /\ stage = "converting" /\ stage' = stage
      /\ Converted /\ cuts' = cuts /\ data' = data
      /\ column' = column + 1 /\ batch' = 1 /\ offset' = 0
      /\ column \in 1 .. query.columns
      /\ query.columns \in Nat
  BY QueryFacts DEF NextColumn, ResultsInv, Converted, vars
<1>2. n \in Nat /\ cuts \in Cuts(n)
  BY <1>1, QueryFacts DEF Converted
<1>3. Len(cuts) \in Nat \ {0, 1} /\ cuts[1] = 0 /\ cuts[Len(cuts)] = n
  BY <1>2, CutsFacts
<1>4. batch = Len(cuts) /\ offset = n
  BY <1>1, <1>3 DEF NextColumn, Converted, Batches
<1>5. \A r \in 1 .. n : \A c \in 1 .. column : InPlace(r, c)
  <2> SUFFICES ASSUME NEW r \in 1 .. n, NEW c \in 1 .. column
               PROVE  InPlace(r, c)
    OBVIOUS
  <2>1. CASE c \in 1 .. column - 1
    BY <2>1, <1>1 DEF Converted
  <2>2. CASE c = column
    BY <2>2, <1>1, <1>4 DEF Converted
  <2> QED
    BY <2>1, <2>2, <1>1
<1>6. Rows(query)' = n /\ \A r, c : InPlace(r, c)' <=> InPlace(r, c)
  BY <1>1 DEF Rows, InPlace
<1>7. Converted'
  BY <1>1, <1>2, <1>3, <1>5, <1>6 DEF Converted
<1> QED
  BY <1>1, <1>7 DEF ResultsInv, CellsInPlace

\* Finishing is what makes the rows readable, and the one step that is not a
\* stutter of Paging before the client reads.
LEMMA FinishStep ==
  ASSUME ResultsInv, Finish
  PROVE  ResultsInv' /\ Grow
<1> DEFINE n == Rows(query)
<1>1. /\ query \in Queries /\ query' = query /\ list = "rows" /\ list' = list
      /\ total = 0 /\ total' = Len(data) /\ stage = "converting" /\ stage' = "available"
      /\ Converted /\ data' = data /\ column' = column
      /\ column = query.columns + 1 /\ query.columns \in Nat
      /\ Len(query.rows) \in 0 .. MaxItems
  BY QueryFacts DEF Finish, ResultsInv, Converted
<1>2. n \in 0 .. Len(query.rows) /\ data = [r \in 1 .. n |-> data[r]]
  BY <1>1 DEF Converted
<1>3. n \in Nat
  BY <1>1, <1>2
<1> HIDE DEF n
<1>4. Len(data) = n
  BY <1>2, <1>3, LenOfRows
<1>5. \A r \in 1 .. n : \A c \in 1 .. query.columns : InPlace(r, c)
  BY <1>1 DEF Converted, n
<1>6. CellsInPlace'
  BY <1>1, <1>2, <1>4, <1>5 DEF CellsInPlace, InPlace
<1>7. Int32(Limit(query.flag)) >= 0 /\ Len(data) = Rows(query)
  BY <1>1, <1>4 DEF Converted, n
<1>8. Grow
  BY <1>1, <1>2, <1>4, PagingAssumption DEF Finish, Grow
<1>9. Rows(query)' = Rows(query)
  BY <1>1 DEF Rows
<1> QED
  BY <1>1, <1>6, <1>7, <1>8, <1>9 DEF ResultsInv, Lists

LEMMA InvInit ==
  ResultsInit => ResultsInv
BY QueryFacts DEF ResultsInit, Init, ResultsInv, CellsInPlace, Lists

LEMMA InvStep ==
  ResultsInv /\ [ResultsNext]_allVars => ResultsInv'
<1> SUFFICES ASSUME ResultsInv, [ResultsNext]_allVars
             PROVE  ResultsInv'
  OBVIOUS
<1>1. CASE ExecuteFails
  BY <1>1 DEF ExecuteFails, ResultsInv, CellsInPlace, vars, Lists
<1>2. CASE NoTable
  BY <1>2 DEF NoTable, ResultsInv, CellsInPlace, vars, Lists
<1>3. CASE TableArrives
  BY <1>3, TableArrivesStep
<1>4. CASE ConvertBatch
  BY <1>4, ConvertBatchStep
<1>5. CASE NextColumn
  BY <1>5, NextColumnStep
<1>6. CASE Finish
  BY <1>6, FinishStep
<1>7. CASE SubmitStatement
  <2>1. list = "statements"
    BY <1>7 DEF SubmitStatement
  <2>2. UNCHANGED <<list, query, stage, cuts, data, column, batch, offset>>
    BY <1>7 DEF SubmitStatement, Grow, resultVars
  <2> QED
    BY <2>1, <2>2, OthersKeepInv
<1>8. ASSUME NEW i, SpoilStatement(i)
      PROVE  ResultsInv'
  BY <1>8, OthersKeepInv DEF SpoilStatement, vars
<1>9. ASSUME NEW p \in SizeParams, ReadEncoded(p) \/ ReadRefused(p) \/ ReadOverflows(p)
      PROVE  ResultsInv'
  BY <1>9, OthersKeepInv DEF ReadEncoded, ReadRefused, ReadOverflows, ReadPage, ReadPanics, vars
<1>10. CASE UNCHANGED allVars
  BY <1>10, OthersKeepInv DEF allVars, vars, resultVars
<1> QED
  BY <1>1, <1>2, <1>3, <1>4, <1>5, <1>6, <1>7, <1>8, <1>9, <1>10 DEF ResultsNext, Convert

THEOREM ResultsInvariant == ResultsSpec => []ResultsInv
BY InvInit, InvStep, PTL DEF ResultsSpec

\* Every cell is where the query has it.
THEOREM CellsAreInPlace == ResultsSpec => []CellsInPlace
<1>1. ResultsInv => CellsInPlace
  BY DEF ResultsInv
<1> QED
  BY <1>1, ResultsInvariant, PTL

\* Whatever the flag, the query and the width of the integers: a limit that is
\* configured is never exceeded, and one that fits an int32 cuts nothing off that it
\* allows (client.go:31, 54).  A flag that is not positive is not spoken of.
THEOREM LimitIsAlwaysKept == ResultsSpec => []LimitIsKept
<1>1. ResultsInv => LimitIsKept
  <2> SUFFICES ASSUME ResultsInv, stage \in {"converting", "available"}, list = "rows",
                      query.flag > 0
               PROVE  /\ Len(data) <= query.flag
                      /\ stage = "converting" /\ query.flag <= MaxInt32 =>
                           Len(data) = IF query.flag < Len(query.rows) THEN query.flag
                                       ELSE Len(query.rows)
    BY DEF LimitIsKept
  <2> DEFINE limit == Limit(query.flag)
  <2>1. /\ query \in Queries /\ query.flag \in Int /\ limit \in Nat \ {0}
        /\ Len(query.rows) \in Nat /\ Int32(limit) \in Int
    BY QueryFacts DEF ResultsInv
  <2>2. \/ Len(data) = 0 /\ stage = "available"
        \/ Int32(limit) >= 0 /\ Len(data) = Rows(query)
    <3>1. CASE stage = "converting"
      <4>1. /\ Rows(query) \in Nat /\ data = [r \in 1 .. Rows(query) |-> data[r]]
            /\ Int32(limit) >= 0
        BY <3>1, <2>1 DEF ResultsInv, Converted
      <4>2. Len(data) = Rows(query)
        BY <4>1, LenOfRows
      <4> QED
        BY <4>1, <4>2
    <3>2. CASE stage = "available"
      <4>1. data = <<>> \/ (Int32(limit) >= 0 /\ Len(data) = Rows(query))
        BY <3>2 DEF ResultsInv
      <4>2. Len(<<>>) = 0
        BY EmptySeq
      <4> QED
        BY <3>2, <4>1, <4>2
    <3> QED
      BY <3>1, <3>2
  <2>3. Int32(limit) >= 0 => Int32(limit) <= limit
    <3>1. limit + MaxInt32 + 1 \in Nat /\ 2 * (MaxInt32 + 1) \in Nat \ {0}
      BY <2>1, GoIntegersAssumption
    <3>2. \A a \in Nat, k \in Nat \ {0} : a % k <= a
      <4> SUFFICES ASSUME NEW a \in Nat, NEW k \in Nat \ {0}
                   PROVE  a % k <= a
        OBVIOUS
      <4>1. Quo(a, k) \in Nat /\ Rem(a, k) = a % k /\ a = k * Quo(a, k) + Rem(a, k)
        <5>1. a \div k \in Nat /\ a % k \in 0 .. k - 1 /\ a = k * (a \div k) + (a % k)
          OBVIOUS
        <5> QED
          BY <5>1 DEF Quo, Rem
      <4>2. k * Quo(a, k) >= 0 /\ a % k \in Int
        BY <4>1
      <4> QED
        BY <4>1, <4>2
    <3>3. (limit + MaxInt32 + 1) % (2 * (MaxInt32 + 1)) <= limit + MaxInt32 + 1
      BY <3>1, <3>2
    <3> QED
      BY <3>1, <3>3, <2>1, GoIntegersAssumption DEF Int32, Wrap
  <2>4. limit <= MaxInt32 => Int32(limit) = limit
    BY <2>1, GoIntegersAssumption, WrapFits DEF Int32
  <2>5. limit = query.flag
    BY DEF Limit
  <2> HIDE DEF limit
  <2>6. Rows(query) = IF Int32(limit) < Len(query.rows) THEN Int32(limit) ELSE Len(query.rows)
    BY DEF Rows, limit
  <2>7. Len(data) <= query.flag
    BY <2>1, <2>2, <2>3, <2>5, <2>6
  <2>8. limit <= MaxInt32 /\ stage = "converting" =>
          Len(data) = IF limit < Len(query.rows) THEN limit ELSE Len(query.rows)
    BY <2>1, <2>2, <2>4, <2>6
  <2> QED
    BY <2>5, <2>7, <2>8
<1> QED
  BY <1>1, ResultsInvariant, PTL

\* Every step of Results is one of Paging's, or none.
THEOREM ResultsKeepToPaging == ResultsSpec => KeepsToPaging
<1>1. ResultsInit => Init
  BY DEF ResultsInit
<1>2. ResultsInv /\ [ResultsNext]_allVars => [Next]_vars
  <2> SUFFICES ASSUME ResultsInv, [ResultsNext]_allVars
               PROVE  [Next]_vars
    OBVIOUS
  <2>1. CASE Finish
    BY <2>1, FinishStep DEF Next
  <2>2. CASE SubmitStatement
    BY <2>2 DEF SubmitStatement, Next
  <2>3. ASSUME NEW p \in SizeParams, ReadEncoded(p) \/ ReadRefused(p) \/ ReadOverflows(p)
        PROVE  [Next]_vars
    BY <2>3 DEF ReadEncoded, ReadRefused, ReadOverflows, Next
  <2>4. CASE UNCHANGED vars
    BY <2>4
  <2> QED
    BY <2>1, <2>2, <2>3, <2>4
       DEF ResultsNext, Convert, ExecuteFails, NoTable, TableArrives, ConvertBatch, NextColumn,
           SpoilStatement, allVars
<1> QED
  BY <1>1, <1>2, ResultsInvariant, PTL DEF ResultsSpec, KeepsToPaging, Spec

\* What Paging promises of a client's pages holds of the pages of a result, or of the
\* statements.
LEMMA PagesAsPromised == ResultsSpec => [](TypeOK /\ PagesConnect)
BY ResultsKeepToPaging, PagesAlwaysConnect, PTL DEF KeepsToPaging

\* The pages of a result, or of the statements, connect.
THEOREM ResultPagesConnect == ResultsSpec => []PagesConnect
BY PagesAsPromised, PTL

\* What a client reads from a value that an answer can carry is what Spark returned,
\* whatever the query returned and however it was cut: for the cells that survive, NaN
\* and the infinities not among them, and for no others.
THEOREM ValuesAlwaysSayWhatTheyHold == ResultsSpec => []ValuesSayWhatTheyHold
<1>1. ResultsInv /\ TypeOK => ValuesSayWhatTheyHold
  <2> SUFFICES ASSUME ResultsInv, TypeOK, list = "rows",
                      NEW r \in 1 .. total, NEW c \in 1 .. query.columns
               PROVE  Says(query.rows[r][c], DetectSparkType(query.rows[r][c].type), data[r][c])
                        <=> Survives(query.rows[r][c])
    BY DEF ValuesSayWhatTheyHold
  <2> DEFINE cell == query.rows[r][c]
  <2>1. /\ query \in Queries /\ r \in 1 .. Len(query.rows)
        /\ data[r][c] = ExtractArrowValue(cell)
    <3>1. query \in Queries /\ CellsInPlace
      BY DEF ResultsInv
    <3>2. total \in Nat /\ Len(query.rows) \in Nat
      BY <3>1, QueryFacts, PagingAssumption DEF TypeOK
    <3>3. r \in Nat /\ 1 <= r /\ r <= total
      BY <3>2
    <3>4. total <= Len(query.rows) /\ data[r][c] = ExtractArrowValue(cell)
      BY <3>1, <3>2, <3>3 DEF CellsInPlace
    <3> QED
      BY <3>1, <3>2, <3>3, <3>4
  <2>2. IsCell(cell)
    BY <2>1, ResultsAssumption
  <2> HIDE DEF cell
  <2>3. Says(cell, DetectSparkType(cell.type), ExtractArrowValue(cell)) <=> Survives(cell)
    BY <2>2, CellsSayWhatTheyHold
  <2> QED
    BY <2>1, <2>3 DEF cell
<1> QED
  BY <1>1, ResultsInvariant, PagesAsPromised, PTL

\* The only requests that fail in the slice are those whose from + size overflows.
THEOREM OnlyOverflowsPanic == ResultsSpec => OnlyOverflowPanics
<1>1. TypeOK /\ PagesConnect =>
        \A p \in SizeParams :
          ReadOverflows(p) => Len(seen) > 0 /\ Param(p) > MaxInt - Len(seen)
  BY PanicsByOverflow DEF ReadOverflows
<1> QED
  BY <1>1, PagesAsPromised, PTL DEF OnlyOverflowPanics

-----------------------------------------------------------------------------
(* Types.                                                                  *)

LEMMA TypeInit ==
  ResultsInit => ResultsTypeOK
<1> SUFFICES ASSUME ResultsInit PROVE ResultsTypeOK
  OBVIOUS
<1>1. query.flag \in Int /\ query.columns \in Nat
  BY QueryFacts DEF ResultsInit
<1>2. TypeOK
  BY PagingAssumption DEF ResultsInit, Init, TypeOK
<1>3. DOMAIN data = 1 .. 0 /\ 0 \in 0 .. MaxItems
  BY PagingAssumption DEF ResultsInit
<1>4. stage \in {"executing", "converting", "available", "error"}
  BY DEF ResultsInit
<1>5. column \in 1 .. query.columns + 1 /\ batch \in 1 .. Len(cuts) /\ offset \in 0 .. MaxItems
  BY <1>1, PagingAssumption DEF ResultsInit
<1>6. \A r \in DOMAIN data : DOMAIN data[r] = 1 .. query.columns
  BY <1>3
<1>7. spoiled \subseteq 1 .. total /\ refused \in BOOLEAN
  BY DEF ResultsInit
<1> QED
  BY <1>1, <1>2, <1>3, <1>4, <1>5, <1>6, <1>7 DEF ResultsTypeOK

LEMMA TableArrivesTypes ==
  ASSUME ResultsInv, ResultsTypeOK, TypeOK', TableArrives
  PROVE  ResultsTypeOK'
<1>1. Converted' /\ query \in Queries
  BY TableArrivesStep DEF ResultsInv, TableArrives
<1>2. /\ query' = query /\ column' = column /\ offset' = 0 /\ stage' = "converting"
      /\ total' = total /\ spoiled' = spoiled /\ refused' = refused
  BY DEF TableArrives, ResultsInv, vars
<1>3. Rows(query)' \in 0 .. MaxItems
  <2>1. Rows(query)' \in 0 .. Len(query'.rows)
    BY <1>1 DEF Converted
  <2>2. Len(query'.rows) \in 0 .. MaxItems
    BY <1>1, <1>2, QueryFacts
  <2> QED
    BY <2>1, <2>2, PagingAssumption
<1>4. /\ DOMAIN data' = 1 .. Rows(query)'
      /\ \A r \in DOMAIN data' : DOMAIN data'[r] = 1 .. query'.columns
      /\ batch' \in 1 .. Len(cuts')
  BY <1>1 DEF Converted
<1> HIDE DEF Rows
<1> QED
  BY <1>2, <1>3, <1>4, PagingAssumption DEF ResultsTypeOK

LEMMA ConvertBatchTypes ==
  ASSUME ResultsInv, ResultsTypeOK, TypeOK', ConvertBatch
  PROVE  ResultsTypeOK'
<1>1. Converted' /\ query \in Queries
  BY ConvertBatchStep DEF ResultsInv, ConvertBatch
<1>2. /\ query' = query /\ column' = column /\ stage' = stage
      /\ total' = total /\ spoiled' = spoiled /\ refused' = refused
  BY DEF ConvertBatch, vars
<1>3. Rows(query)' \in 0 .. MaxItems
  <2>1. Rows(query)' \in 0 .. Len(query'.rows)
    BY <1>1 DEF Converted
  <2>2. Len(query'.rows) \in 0 .. MaxItems
    BY <1>1, <1>2, QueryFacts
  <2> QED
    BY <2>1, <2>2, PagingAssumption
<1>4. /\ DOMAIN data' = 1 .. Rows(query)'
      /\ \A r \in DOMAIN data' : DOMAIN data'[r] = 1 .. query'.columns
      /\ batch' \in 1 .. Len(cuts') /\ offset' = cuts'[batch'] /\ cuts' \in Cuts(Rows(query)')
  BY <1>1 DEF Converted
<1> HIDE DEF Rows
<1>5. offset' \in 0 .. MaxItems
  BY <1>3, <1>4, CutsFacts, PagingAssumption
<1> QED
  BY <1>2, <1>3, <1>4, <1>5 DEF ResultsTypeOK

LEMMA NextColumnTypes ==
  ASSUME ResultsInv, ResultsTypeOK, TypeOK', NextColumn
  PROVE  ResultsTypeOK'
<1>1. Converted' /\ query.columns \in Nat
  BY NextColumnStep, QueryFacts DEF ResultsInv, NextColumn
<1>2. /\ query' = query /\ column' = column + 1 /\ column <= query.columns /\ offset' = 0
      /\ stage' = stage /\ data' = data /\ total' = total
      /\ spoiled' = spoiled /\ refused' = refused
  BY DEF NextColumn, vars
<1>3. batch' \in 1 .. Len(cuts')
  BY <1>1 DEF Converted
<1>4. column' \in Nat /\ offset' \in 0 .. MaxItems
  BY <1>1, <1>2, PagingAssumption DEF ResultsTypeOK
<1> QED
  BY <1>1, <1>2, <1>3, <1>4 DEF ResultsTypeOK

LEMMA TypeStep ==
  ResultsInv /\ ResultsTypeOK /\ TypeOK' /\ [ResultsNext]_allVars => ResultsTypeOK'
<1> SUFFICES ASSUME ResultsInv, ResultsTypeOK, TypeOK', [ResultsNext]_allVars
             PROVE  ResultsTypeOK'
  OBVIOUS
<1>1. CASE ExecuteFails \/ NoTable
  BY <1>1 DEF ExecuteFails, NoTable, ResultsTypeOK, vars
<1>2. CASE TableArrives
  BY <1>2, TableArrivesTypes
<1>3. CASE ConvertBatch
  BY <1>3, ConvertBatchTypes
<1>4. CASE NextColumn
  BY <1>4, NextColumnTypes
<1>5. CASE Finish
  <2>1. total = 0 /\ spoiled' = {}
    BY <1>5 DEF Finish, ResultsInv, ResultsTypeOK, Converted
  <2> QED
    BY <2>1, <1>5 DEF Finish, ResultsTypeOK
<1>6. CASE SubmitStatement
  <2>1. spoiled' \subseteq 1 .. total'
    BY <1>6 DEF SubmitStatement, Grow, resultVars, ResultsTypeOK, TypeOK
  <2> QED
    BY <2>1, <1>6 DEF SubmitStatement, resultVars, ResultsTypeOK
<1>7. ASSUME NEW i, SpoilStatement(i)
      PROVE  ResultsTypeOK'
  BY <1>7 DEF SpoilStatement, vars, ResultsTypeOK
<1>8. ASSUME NEW p \in SizeParams, ReadEncoded(p) \/ ReadRefused(p) \/ ReadOverflows(p)
      PROVE  ResultsTypeOK'
  BY <1>8 DEF ReadEncoded, ReadRefused, ReadOverflows, ReadPage, ReadPanics, vars, ResultsTypeOK
<1>9. CASE UNCHANGED allVars
  BY <1>9 DEF allVars, vars, resultVars, ResultsTypeOK
<1> QED
  BY <1>1, <1>2, <1>3, <1>4, <1>5, <1>6, <1>7, <1>8, <1>9 DEF ResultsNext, Convert

\* Every row has a value for every column, and all positions lie within the table.
THEOREM ResultsTypeCorrect == ResultsSpec => []ResultsTypeOK
BY ResultsInvariant, PagesAsPromised, TypeInit, TypeStep, PTL DEF ResultsSpec
=============================================================================
