-------------------------------- MODULE Results --------------------------------
(***************************************************************************)
(* The way of a result: the row limit, the Arrow table that the query      *)
(* returns in record batches of any length, its conversion into rows of    *)
(* values, the pages a client reads of it and their encoding.  What is     *)
(* read are the pages of module Paging; if its list is the session's       *)
(* statements, an item is a whole statement, output included.              *)
(***************************************************************************)
EXTENDS Paging, Conversions

CONSTANTS
  Queries,      \* what a query would yield without a limit (a sequence of rows,
                \* each a sequence of cells), and the flag -default-statement-limit
  DefaultLimit, \* rows, when the flag gives none
  MaxBatches    \* bound: record batches of a table

ASSUME ResultsAssumption ==
  /\ DefaultLimit \in 1 .. MaxInt32
  /\ MaxBatches \in Nat
  /\ \A q \in Queries :
       /\ q.flag \in Int /\ q.flag <= MaxInt
       /\ q.columns \in Nat
       /\ Len(q.rows) \in 0 .. MaxItems
       /\ DOMAIN q.rows = 1 .. Len(q.rows)
       /\ \A r \in 1 .. Len(q.rows) :
            /\ DOMAIN q.rows[r] = 1 .. q.columns
            /\ \A c \in 1 .. q.columns : IsCell(q.rows[r][c])

VARIABLES
  query,   \* the member of Queries that is executed
  stage,   \* of its statement: "executing", "converting", "available", "error"
  cuts,    \* where the record batches end, cuts[1] = 0 being the beginning
  data,    \* QueryResult.Data
  column,  \* colIdx, from 1; beyond the last column when all are done
  batch,   \* the batch to convert next
  offset,  \* rowOffset
  spoiled, \* the statements of the list whose output cannot be encoded
  refused  \* did encoding/json refuse the last answer?

resultVars == <<query, stage, cuts, data, column, batch, offset, spoiled, refused>>

allVars == <<vars, resultVars>>

-----------------------------------------------------------------------------
\* Wrong: the default applies whatever the flag.
LimitIgnored(flag) == DefaultLimit

\* NewClient: a flag that is not positive means the default.
Limit(flag) == IF flag > 0 THEN flag ELSE DefaultLimit

\* The limit goes to Spark as an int32; Spark refuses a negative one.
Rows(q) == LET limit == Int32(Limit(q.flag))
           IN IF limit < Len(q.rows) THEN limit ELSE Len(q.rows)

Batches == Len(cuts) - 1

\* The ends of at most MaxBatches batches that hold n rows, some possibly none.
Cuts(n) ==
  {c \in UNION {[1 .. k + 1 -> 0 .. n] : k \in 1 .. MaxBatches} :
     /\ c[1] = 0 /\ c[Len(c)] = n
     /\ \A i \in 1 .. Len(c) - 1 : c[i] <= c[i + 1]}

ResultsInit ==
  /\ Init
  /\ query \in Queries /\ (list = "statements" => query.rows = <<>>)
  /\ stage = IF list = "rows" THEN "executing" ELSE "error"
  /\ cuts = <<0>>
  /\ data = <<>>
  /\ column = 1 /\ batch = 1 /\ offset = 0
  /\ spoiled = {}
  /\ refused = FALSE

-----------------------------------------------------------------------------
(* The query and the conversion of its table.                              *)

\* Wrong: an error that comes late takes the result back.
ExecuteFailsLate ==
  /\ stage \in {"executing", "converting", "available"}
  /\ stage' = "error" /\ total' = 0
  /\ UNCHANGED <<list, seen, answer, query, cuts, data, column, batch, offset, spoiled, refused>>

ExecuteFails ==
  /\ stage = "executing"
  /\ stage' = "error"
  /\ UNCHANGED <<vars, query, cuts, data, column, batch, offset, spoiled, refused>>

\* ToArrow returns no table: a result of no rows.
NoTable ==
  /\ stage = "executing" /\ Int32(Limit(query.flag)) >= 0
  /\ stage' = "available"
  /\ UNCHANGED <<vars, query, cuts, data, column, batch, offset, spoiled, refused>>

\* The table is there: make room for its rows.
TableArrives ==
  /\ stage = "executing" /\ Int32(Limit(query.flag)) >= 0
  /\ stage' = "converting"
  /\ cuts' \in Cuts(Rows(query))
  /\ data' = [r \in 1 .. Rows(query) |-> [c \in 1 .. query.columns |-> Null]]
  /\ UNCHANGED <<vars, query, column, batch, offset, spoiled, refused>>

ConvertBatch ==
  /\ stage = "converting" /\ column <= query.columns /\ batch <= Batches
  /\ LET before == cuts[batch]
         size   == cuts[batch + 1] - before
     IN /\ data' = [r \in DOMAIN data |->
                      IF r - offset \in 1 .. size
                      THEN [data[r] EXCEPT ![column] =
                              ExtractArrowValue(query.rows[before + (r - offset)][column])]
                      ELSE data[r]]
        /\ offset' = offset + size
  /\ batch' = batch + 1
  /\ UNCHANGED <<vars, query, stage, cuts, column, spoiled, refused>>

\* Wrong: rowOffset is kept from one column to the next.
NextColumnRunsOn ==
  /\ stage = "converting" /\ column <= query.columns /\ batch > Batches
  /\ column' = column + 1 /\ batch' = 1
  /\ UNCHANGED <<vars, query, stage, cuts, data, offset, spoiled, refused>>

NextColumn ==
  /\ stage = "converting" /\ column <= query.columns /\ batch > Batches
  /\ column' = column + 1 /\ batch' = 1 /\ offset' = 0
  /\ UNCHANGED <<vars, query, stage, cuts, data, spoiled, refused>>

\* Wrong: the result is there from the beginning of its conversion.
FinishEarly ==
  /\ stage = "converting" /\ total = 0
  /\ total' = Len(data)
  /\ UNCHANGED <<list, seen, answer, query, stage, cuts, data, column, batch, offset, spoiled, refused>>

\* All is converted; runStatement makes the result the statement's output.
Finish ==
  /\ stage = "converting" /\ column > query.columns
  /\ stage' = "available"
  /\ total' = Len(data)
  /\ UNCHANGED <<list, seen, answer, query, cuts, data, column, batch, offset, spoiled, refused>>

-----------------------------------------------------------------------------
(* The list of statements.                                                 *)

SubmitStatement ==
  /\ list = "statements" /\ Grow
  /\ UNCHANGED resultVars

\* The output that a statement ends with can hold a value that JSON cannot.
SpoilStatement(i) ==
  /\ list = "statements" /\ i \in 1 .. total
  /\ spoiled' = spoiled \cup {i}
  /\ UNCHANGED <<vars, query, stage, cuts, data, column, batch, offset, refused>>

-----------------------------------------------------------------------------
(* The client.                                                             *)

Writable(i) ==
  IF list = "statements" THEN i \notin spoiled
  ELSE \A c \in 1 .. query.columns : Encodable(data[i][c])

PageIsWritable(p) == \A i \in PageStart(p) + 1 .. PageEnd(p) : Writable(i)

ReadEncoded(p) ==
  /\ PageIsWritable(p) /\ ReadPage(p)
  /\ refused' = FALSE
  /\ UNCHANGED <<query, stage, cuts, data, column, batch, offset, spoiled>>

\* json.Marshal fails for the page, and the answer is its error with a 500.
ReadRefused(p) ==
  /\ SliceExists(PageStart(p), PageEnd(p)) /\ ~PageIsWritable(p)
  /\ refused' = TRUE
  /\ UNCHANGED <<vars, query, stage, cuts, data, column, batch, offset, spoiled>>

ReadOverflows(p) ==
  /\ ReadPanics(p)
  /\ refused' = FALSE
  /\ UNCHANGED <<query, stage, cuts, data, column, batch, offset, spoiled>>

-----------------------------------------------------------------------------
Convert == TableArrives \/ ConvertBatch \/ NextColumn \/ Finish

ResultsNext ==
  \/ ExecuteFails \/ NoTable \/ Convert
  \/ SubmitStatement
  \/ \E i \in 1 .. MaxItems : SpoilStatement(i)
  \/ \E p \in SizeParams : ReadEncoded(p) \/ ReadRefused(p) \/ ReadOverflows(p)

ResultsSpec == ResultsInit /\ [][ResultsNext]_allVars

\* The worker goes on.  The client goes on reading, and sooner or later with a page
\* that can be had: not always of the same size if that one is refused.
FairResultsSpec ==
  /\ ResultsSpec
  /\ WF_allVars(Convert)
  /\ WF_allVars(\E p \in SizeParams : ReadEncoded(p))

-----------------------------------------------------------------------------
(* Properties.                                                             *)

ResultsTypeOK ==
  /\ TypeOK
  /\ query.flag \in Int /\ query.columns \in Nat
  /\ stage \in {"executing", "converting", "available", "error"}
  /\ DOMAIN data \in {1 .. n : n \in 0 .. MaxItems}
  /\ \A r \in DOMAIN data : DOMAIN data[r] = 1 .. query.columns
  /\ column \in 1 .. query.columns + 1
  /\ batch \in 1 .. Len(cuts)
  /\ offset \in 0 .. MaxItems
  /\ spoiled \subseteq 1 .. total
  /\ refused \in BOOLEAN

\* However the table was cut into batches, the result has the cells where the query
\* has them, and nothing is shown of it before.
CellsInPlace ==
  list = "rows" /\ total > 0 =>
    /\ total = Len(data) /\ total <= Len(query.rows)
    /\ \A r \in 1 .. total : \A c \in 1 .. query.columns :
         data[r][c] = ExtractArrowValue(query.rows[r][c])

\* A limit that is configured, and fits into the int32 of Spark's protocol, yields
\* the first so many rows, all of them if there are fewer; a larger one is never
\* exceeded.
LimitIsKept ==
  stage \in {"converting", "available"} /\ list = "rows" /\ query.flag > 0 =>
    /\ Len(data) <= query.flag
    /\ stage = "converting" /\ query.flag <= MaxInt32 =>
         Len(data) = IF query.flag < Len(query.rows) THEN query.flag ELSE Len(query.rows)

\* What a client makes of a value with the type in the schema, if an answer can carry
\* the value, is what Spark returned, for the cells that survive and for no others.
ValuesSayWhatTheyHold ==
  list = "rows" =>
    \A r \in 1 .. total : \A c \in 1 .. query.columns :
      LET cell == query.rows[r][c]
      IN Says(cell, DetectSparkType(cell.type), data[r][c]) <=> Survives(cell)

\* Everything above keeps to what Paging promises.
KeepsToPaging == Spec

\* A client that goes on reading has everything up to the first item that cannot be
\* encoded.
SeenUpToTheFirstBad ==
  \A n \in 1 .. MaxItems :
    total >= n ~> Len(seen) >= n \/ \E i \in Len(seen) + 1 .. n : i <= total /\ ~Writable(i)

\* A request fails in the slice expression only if its size is so large that
\* from + size is beyond the int.
OnlyOverflowPanics ==
  [][\A p \in SizeParams :
       ReadOverflows(p) => Len(seen) > 0 /\ Param(p) > MaxInt - Len(seen)]_allVars
=============================================================================
