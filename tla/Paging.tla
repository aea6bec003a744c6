--------------------------------- MODULE Paging --------------------------------
(***************************************************************************)
(* The two lists a client reads page by page: the statements of a session  *)
(* (GET .../statements), which others keep appending to, and the rows of a *)
(* statement's result (GET .../statements/{id}), which are there at once   *)
(* when it has been executed.  A client asks for what follows the last     *)
(* item it has, with any size it likes.                                    *)
(*                                                                         *)
(* An item is its position; int is the machine's, up to MaxInt.            *)
(***************************************************************************)
EXTENDS GoIntegers, Sequences

CONSTANTS
  MaxItems,   \* bound: items of the list
  SizeParams, \* the values of the query parameter `size` that clients send
  NotANumber  \* one that strconv.Atoi refuses, as it does the empty one

ASSUME PagingAssumption ==
  /\ MaxItems \in Nat
  /\ MaxItems <= MaxInt
  /\ NotANumber \notin Int
  /\ \A p \in SizeParams : p = NotANumber \/ (p \in Int /\ p <= MaxInt)

Lists == {"statements", "rows"}

VARIABLES
  list,   \* which of the two lists is read
  total,  \* how many items it has
  seen,   \* what the client has got so far
  answer  \* how its last request ended

vars == <<list, total, seen, answer>>

-----------------------------------------------------------------------------
\* The handlers' reading of a query parameter: what is not understood counts as
\* absent, and an absent `from` or `size` as 0.
Param(p) == IF p # NotANumber /\ p > 0 THEN p ELSE 0

\* Wrong: positions counted from 1.
StartOneBased(n, from) == IF from <= 0 THEN 0 ELSE IF from > n THEN n ELSE from - 1

\* Wrong: the last position counts as beyond the list.
StartBeforeLast(n, from) == IF from < 0 THEN 0 ELSE IF from + 1 >= n THEN n ELSE from

Start(n, from) == IF from < 0 THEN 0 ELSE IF from > n THEN n ELSE from

\* Wrong: the size is taken for the end.
EndIsSize(n, start, size) == IF size <= 0 \/ size > n THEN n ELSE size

\* The end of the page, no size meaning everything.
End(n, start, size) ==
  IF size <= 0 THEN n ELSE IF Int64(start + size) > n THEN n ELSE Int64(start + size)

\* Go's items[start:end] panics when end is before start.
SliceExists(start, end) == start <= end

Slice(start, end) == [i \in 1 .. end - start |-> start + i]

\* Is the first page asked for without a size?  paginateOutput returns the whole
\* output then; GetStatements has a shortcut for no statements only.
Unpaged(from, size) ==
  \/ list = "rows" /\ from <= 0 /\ size <= 0
  \/ list = "statements" /\ total = 0

-----------------------------------------------------------------------------
Init ==
  /\ list \in Lists
  /\ total = 0
  /\ seen = <<>>
  /\ answer = "none"

\* SubmitStatement appends one statement; a result comes with all its rows.
Grow ==
  /\ \/ list = "statements" /\ total < MaxItems /\ total' = total + 1
     \/ list = "rows" /\ total = 0 /\ total' \in 0 .. MaxItems
  /\ UNCHANGED <<list, seen, answer>>

\* The page a client's next request is answered with.
PageStart(p) ==
  IF Unpaged(Param(Len(seen)), Param(p)) THEN 0 ELSE Start(total, Param(Len(seen)))

PageEnd(p) ==
  IF Unpaged(Param(Len(seen)), Param(p)) THEN total ELSE End(total, PageStart(p), Param(p))

\* The client's request, the page appended to what it has.
ReadPage(p) ==
  /\ SliceExists(PageStart(p), PageEnd(p))
  /\ seen' = seen \o Slice(PageStart(p), PageEnd(p))
  /\ answer' = "page"
  /\ UNCHANGED <<list, total>>

\* The slice panics; the router answers 500.
ReadPanics(p) ==
  /\ ~SliceExists(PageStart(p), PageEnd(p))
  /\ answer' = "panic"
  /\ UNCHANGED <<list, total, seen>>

Next == Grow \/ \E p \in SizeParams : ReadPage(p) \/ ReadPanics(p)

Spec == Init /\ [][Next]_vars

-----------------------------------------------------------------------------
(* Properties.                                                             *)

TypeOK ==
  /\ list \in Lists
  /\ total \in 0 .. MaxItems
  /\ seen \in Seq(1 .. MaxItems)
  /\ answer \in {"none", "page", "panic"}

\* The pages of one client make up the list from its beginning: nothing is
\* skipped or repeated, whatever sizes it mixes and whatever is appended
\* between two of its requests.
PagesConnect ==
  /\ Len(seen) <= total
  /\ \A i \in 1 .. Len(seen) : seen[i] = i
=============================================================================
