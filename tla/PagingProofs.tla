----------------------------- MODULE PagingProofs ------------------------------
(***************************************************************************)
(* For lists of any length, ints of any width and any sizes asked for: the *)
(* pages a client puts together are the list from its beginning.  The      *)
(* invariant is inductive with the types, because a request starts where   *)
(* the client's copy ends, and that is never beyond the list.              *)
(***************************************************************************)
EXTENDS Paging, TLAPS

USE PagingAssumption, GoIntegersAssumption DEF Lists

LEMMA IntIsInteger ==
  ASSUME NEW n \in Int
  PROVE  Int64(n) \in Int
BY DEF Int64, Wrap

LEMMA FitsAnInt ==
  ASSUME NEW n \in 0 .. MaxInt
  PROVE  Int64(n) = n
<1>1. /\ n + MaxInt + 1 \in 0 .. 2 * (MaxInt + 1) - 1
      /\ 2 * (MaxInt + 1) \in Nat \ {0}
  OBVIOUS
<1>2. (n + MaxInt + 1) % (2 * (MaxInt + 1)) = n + MaxInt + 1
  BY <1>1
<1> QED
  BY <1>2 DEF Int64, Wrap

\* A page that can be cut out lies within the list.
LEMMA PageIsWithin ==
  ASSUME NEW n \in 0 .. MaxItems, NEW start \in 0 .. n, NEW p \in SizeParams,
         SliceExists(start, End(n, start, Param(p)))
  PROVE  End(n, start, Param(p)) \in start .. n
<1>1. Param(p) \in Nat
  BY DEF Param
<1> QED
  BY <1>1, IntIsInteger DEF SliceExists, End

\* Appending the slice that begins where a copy ends gives a longer copy.
LEMMA CopyGrows ==
  ASSUME NEW copy \in Seq(1 .. MaxItems), NEW end \in Len(copy) .. MaxItems,
         \A i \in 1 .. Len(copy) : copy[i] = i
  PROVE  LET longer == copy \o Slice(Len(copy), end)
         IN /\ longer \in Seq(1 .. MaxItems)
            /\ Len(longer) = end
            /\ \A i \in 1 .. Len(longer) : longer[i] = i
<1> DEFINE page == Slice(Len(copy), end)
<1>1. page \in Seq(1 .. MaxItems) /\ Len(page) = end - Len(copy)
  BY DEF Slice
<1>2. \A i \in 1 .. Len(page) : page[i] = Len(copy) + i
  BY <1>1 DEF Slice
<1> HIDE DEF page
<1>3. copy \o page \in Seq(1 .. MaxItems) /\ Len(copy \o page) = end
  BY <1>1
<1>4. \A i \in 1 .. end : (copy \o page)[i] = i
  BY <1>1, <1>2
<1> QED
  BY <1>3, <1>4 DEF page

\* A request starts where the client's copy ends.
LEMMA StartsWhereTheCopyEnds ==
  ASSUME TypeOK, PagesConnect, NEW p \in SizeParams
  PROVE  /\ Len(seen) \in 0 .. total /\ total \in 0 .. MaxItems
         /\ Param(Len(seen)) = Len(seen)
         /\ PageStart(p) = Len(seen)
<1>1. Len(seen) \in 0 .. total /\ total \in 0 .. MaxItems /\ list \in Lists
  BY DEF TypeOK, PagesConnect
<1>2. Param(Len(seen)) = Len(seen)
  BY <1>1 DEF Param
<1> QED
  BY <1>1, <1>2 DEF PageStart, Unpaged, Start

LEMMA ReadPageStep ==
  ASSUME TypeOK, PagesConnect, NEW p \in SizeParams, ReadPage(p)
  PROVE  TypeOK' /\ PagesConnect'
<1> DEFINE end == PageEnd(p)
<1>1. /\ seen \in Seq(1 .. MaxItems) /\ total \in 0 .. MaxItems /\ list \in Lists
      /\ Len(seen) \in 0 .. total
      /\ \A i \in 1 .. Len(seen) : seen[i] = i
  BY DEF TypeOK, PagesConnect
<1>2. Param(Len(seen)) = Len(seen)
  BY StartsWhereTheCopyEnds
<1>3. PageStart(p) = Len(seen)
  BY StartsWhereTheCopyEnds
<1>4. end \in Len(seen) .. total
  <2>1. CASE Unpaged(Len(seen), Param(p))
    BY <2>1, <1>1, <1>2 DEF PageEnd
  <2>2. CASE ~Unpaged(Len(seen), Param(p))
    <3>1. PageEnd(p) = End(total, Len(seen), Param(p))
      BY <2>2, <1>2, <1>3 DEF PageEnd
    <3>2. SliceExists(Len(seen), End(total, Len(seen), Param(p)))
      BY <3>1, <1>3 DEF ReadPage
    <3> QED
      BY <3>1, <3>2, <1>1, PageIsWithin
  <2> QED
    BY <2>1, <2>2
<1>5. seen' = seen \o Slice(Len(seen), end) /\ answer' = "page" /\ UNCHANGED <<list, total>>
  BY <1>3 DEF ReadPage
<1> HIDE DEF end
<1>6. /\ seen' \in Seq(1 .. MaxItems)
      /\ Len(seen') = end
      /\ \A i \in 1 .. Len(seen') : seen'[i] = i
  <2>1. end \in Len(seen) .. MaxItems
    BY <1>1, <1>4
  <2>2. LET longer == seen \o Slice(Len(seen), end)
        IN /\ longer \in Seq(1 .. MaxItems)
           /\ Len(longer) = end
           /\ \A i \in 1 .. Len(longer) : longer[i] = i
    BY ONLY <1>1, <2>1, CopyGrows
  <2> QED
    BY <1>5, <2>2, Zenon
<1>7. PagesConnect'
  <2>1. Len(seen') <= total'
    BY <1>1, <1>4, <1>5, <1>6
  <2> QED
    BY <1>6, <2>1 DEF PagesConnect
<1>8. TypeOK'
  BY <1>1, <1>5, <1>6 DEF TypeOK
<1> QED
  BY <1>7, <1>8

\* A request that the slice refuses asks for so much that from + size overflows: the
\* first one never does.
LEMMA PanicsByOverflow ==
  ASSUME TypeOK, PagesConnect, NEW p \in SizeParams, ReadPanics(p)
  PROVE  Len(seen) > 0 /\ Param(p) > MaxInt - Len(seen)
<1> DEFINE from == Len(seen)
           size == Param(p)
<1>1. /\ from \in 0 .. total /\ total \in 0 .. MaxItems
      /\ Param(from) = from /\ PageStart(p) = from
  BY StartsWhereTheCopyEnds
<1>2. size \in 0 .. MaxInt
  BY DEF Param
<1>3. ~(from <= PageEnd(p))
  BY <1>1 DEF ReadPanics, SliceExists
<1>4. ~Unpaged(from, size)
  BY <1>1, <1>3 DEF PageEnd
<1>5. PageEnd(p) = End(total, from, size)
  BY <1>1, <1>4 DEF PageEnd
<1> HIDE DEF from, size
<1>6. size > 0 /\ ~(from <= Int64(from + size))
  BY <1>1, <1>2, <1>3, <1>5 DEF End
<1>7. from + size > MaxInt
  <2>1. ASSUME from + size <= MaxInt PROVE FALSE
    <3>1. Int64(from + size) = from + size
      BY <2>1, <1>1, <1>2, FitsAnInt
    <3> QED
      BY <3>1, <1>1, <1>2, <1>6
  <2> QED
    BY <2>1, <1>1, <1>2
<1> QED
  BY <1>1, <1>2, <1>7 DEF from, size

\* The pages of a client connect.
THEOREM PagesAlwaysConnect == Spec => [](TypeOK /\ PagesConnect)
<1>1. Init => TypeOK /\ PagesConnect
  BY DEF Init, TypeOK, PagesConnect
<1>2. TypeOK /\ PagesConnect /\ [Next]_vars => (TypeOK /\ PagesConnect)'
  <2> SUFFICES ASSUME TypeOK, PagesConnect, [Next]_vars
               PROVE  (TypeOK /\ PagesConnect)'
    OBVIOUS
  <2>1. CASE Grow
    BY <2>1 DEF Grow, TypeOK, PagesConnect
  <2>2. ASSUME NEW p \in SizeParams, ReadPage(p)
        PROVE  (TypeOK /\ PagesConnect)'
    BY <2>2, ReadPageStep
  <2>3. ASSUME NEW p \in SizeParams, ReadPanics(p)
        PROVE  (TypeOK /\ PagesConnect)'
    BY <2>3 DEF ReadPanics, TypeOK, PagesConnect
  <2>4. CASE UNCHANGED vars
    BY <2>4 DEF vars, TypeOK, PagesConnect
  <2> QED
    BY <2>1, <2>2, <2>3, <2>4 DEF Next
<1> QED
  BY <1>1, <1>2, PTL DEF Spec
=============================================================================
