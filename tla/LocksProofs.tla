------------------------------ MODULE LocksProofs ------------------------------
(***************************************************************************)
(* No circle of waiting without the cleanup's second read lock, for any    *)
(* number of sessions and goroutines.                                      *)
(*                                                                         *)
(* The argument: whoever keeps the lock of a session has nothing to do but *)
(* to let go of it, so nobody who waits for one of these waits in a        *)
(* circle; who is left waits for m.mu, whose holder does not.              *)
(***************************************************************************)
EXTENDS Locks, TLAPS

Op == {"RLock", "RUnlock", "Lock", "Unlock"} \X Lock

\* The discipline of the code's programs: the lock of a session is released before
\* anything else is locked, and so is m.mu if it is read; only the cleanup locks a
\* session again.
DisciplinedAt(p, r, i) ==
  /\ \A l \in Lock : r[i] = <<"Lock", l>> => i + 1 <= Len(r) /\ r[i + 1] = <<"Unlock", l>>
  /\ \A l \in Lock : r[i] = <<"RLock", l>> =>
       \/ i + 1 <= Len(r) /\ r[i + 1] = <<"RUnlock", l>>
       \/ /\ p = "cleanup" /\ l \in Sess /\ i + 3 <= Len(r)
          /\ r[i + 1] = <<"RLock", l>>
          /\ r[i + 2] = <<"RUnlock", l>> /\ r[i + 3] = <<"RUnlock", l>>

Disciplined(p, r) == \A i \in 1 .. Len(r) : DisciplinedAt(p, r, i)

\* p has m.mu, lets go of it, and does not ask for it before.
Keeps(r) ==
  \E k \in 1 .. Len(r) :
    /\ r[k] = <<"Unlock", Manager>>
    /\ \A j \in 1 .. k - 1 : r[j][2] # Manager

RestInv ==
  /\ rest \in [Proc -> Seq(Op)]
  /\ \A p \in Proc : Disciplined(p, rest[p])
  /\ unvisited \in [Proc -> SUBSET Sess]

\* r begins with op on l.
IsNext(r, op, l) == Len(r) >= 1 /\ r[1] = <<op, l>>

\* Where a goroutine stands that has announced itself at l, and is inside or not.
Writer(r, l, inside) ==
  IF inside
    THEN IF l = Manager THEN Keeps(r) ELSE IsNext(r, "Unlock", l)
    ELSE IsNext(r, "Lock", l)

WriterInv ==
  \A l \in Lock, q \in Proc : announced[l] = q => Writer(rest[q], l, writing[l])

\* Where a goroutine stands that is inside l as a reader n times.
Inside(q, r, l, n) ==
  /\ n \in Int /\ n <= 2
  /\ n = 2 => Len(r) >= 2 /\ r[1] = <<"RUnlock", l>> /\ r[2] = <<"RUnlock", l>>
  /\ n = 1 => \/ Len(r) >= 1 /\ r[1] = <<"RUnlock", l>>
              \/ /\ q = "cleanup" /\ l \in Sess /\ Len(r) >= 3 /\ r[1] = <<"RLock", l>>
                 /\ r[2] = <<"RUnlock", l>> /\ r[3] = <<"RUnlock", l>>

ReaderInv ==
  /\ readers \in [Lock -> [Proc -> Int]]
  /\ \A l \in Lock, q \in Proc : Inside(q, rest[q], l, readers[l][q])

WaitingInv ==
  /\ waiting \in [Lock -> SUBSET Proc]
  /\ \A l \in Lock : \A q \in waiting[l] : IsNext(rest[q], "RLock", l)

MutexTypes ==
  /\ announced \in [Lock -> Proc \cup {Nobody}]
  /\ writing \in [Lock -> BOOLEAN]
  /\ \A l \in Lock : writing[l] => announced[l] # Nobody

LocksInv == RestInv /\ MutexTypes /\ WriterInv /\ ReaderInv /\ WaitingInv

-----------------------------------------------------------------------------
(* The programs.                                                           *)

LEMMA ManagerIsALock == Manager \in Lock /\ Manager \notin Sess /\ Sess \subseteq Lock
  BY LocksAssumption DEF Lock

\* What follows an operation decides, and not what comes before it.
LEMMA Transferred ==
  ASSUME NEW p, NEW a, NEW c, NEW j \in 1 .. Len(a), NEW i \in Nat, DisciplinedAt(p, a, j),
         Len(a) \in Nat, Len(c) \in Nat, Len(a) - j <= Len(c) - i,
         \A k \in 0 .. 3 : j + k <= Len(a) => c[i + k] = a[j + k]
  PROVE  DisciplinedAt(p, c, i)
  <1>1. /\ c[i] = a[j]
        /\ j + 1 <= Len(a) => c[i + 1] = a[j + 1] /\ i + 1 <= Len(c)
        /\ j + 2 <= Len(a) => c[i + 2] = a[j + 2]
        /\ j + 3 <= Len(a) => c[i + 3] = a[j + 3] /\ i + 3 <= Len(c)
    <2>1. c[i + 0] = a[j + 0]
      OBVIOUS
    <2>2. i + 0 = i /\ j + 0 = j
      OBVIOUS
    <2> QED BY <2>1, <2>2
  <1>2. j + 3 <= Len(a) => j + 2 <= Len(a) /\ j + 1 <= Len(a)
    OBVIOUS
  <1>3. ASSUME NEW l \in Lock, c[i] = <<"Lock", l>>
        PROVE  i + 1 <= Len(c) /\ c[i + 1] = <<"Unlock", l>>
    <2>1. j + 1 <= Len(a) /\ a[j + 1] = <<"Unlock", l>>
      BY <1>1, <1>3 DEF DisciplinedAt
    <2> QED
      BY <1>1, <2>1
  <1>4. ASSUME NEW l \in Lock, c[i] = <<"RLock", l>>
        PROVE  \/ i + 1 <= Len(c) /\ c[i + 1] = <<"RUnlock", l>>
               \/ /\ p = "cleanup" /\ l \in Sess /\ i + 3 <= Len(c)
                  /\ c[i + 1] = <<"RLock", l>>
                  /\ c[i + 2] = <<"RUnlock", l>> /\ c[i + 3] = <<"RUnlock", l>>
    <2>1. \/ j + 1 <= Len(a) /\ a[j + 1] = <<"RUnlock", l>>
          \/ /\ p = "cleanup" /\ l \in Sess /\ j + 3 <= Len(a)
             /\ a[j + 1] = <<"RLock", l>>
             /\ a[j + 2] = <<"RUnlock", l>> /\ a[j + 3] = <<"RUnlock", l>>
      BY <1>1, <1>4 DEF DisciplinedAt
    <2>2. CASE j + 1 <= Len(a) /\ a[j + 1] = <<"RUnlock", l>>
      BY <1>1, <2>2
    <2>3. CASE /\ p = "cleanup" /\ l \in Sess /\ j + 3 <= Len(a)
               /\ a[j + 1] = <<"RLock", l>>
               /\ a[j + 2] = <<"RUnlock", l>> /\ a[j + 3] = <<"RUnlock", l>>
      BY <1>1, <1>2, <2>3
    <2> QED
      BY <2>1, <2>2, <2>3
  <1> QED
    BY <1>3, <1>4 DEF DisciplinedAt

LEMMA Concatenated ==
  ASSUME NEW p, NEW a \in Seq(Op), NEW b \in Seq(Op), Disciplined(p, a), Disciplined(p, b)
  PROVE  a \o b \in Seq(Op) /\ Disciplined(p, a \o b)
  <1>1. PICK c : c = a \o b
    OBVIOUS
  <1>2. c \in Seq(Op) /\ Len(c) = Len(a) + Len(b) /\ Len(a) \in Nat /\ Len(b) \in Nat
    BY <1>1
  <1>3. \A i \in 1 .. Len(a) : c[i] = a[i]
    BY <1>1
  <1>4. \A i \in 1 .. Len(b) : c[Len(a) + i] = b[i]
    BY <1>1
  <1>5. ASSUME NEW i \in 1 .. Len(c) PROVE DisciplinedAt(p, c, i)
    <2>1. CASE i <= Len(a)
      <3>1. \A k \in 0 .. 3 : i + k <= Len(a) => c[i + k] = a[i + k]
        BY <1>2, <1>3
      <3> QED
        <4>1. DisciplinedAt(p, a, i) /\ i \in 1 .. Len(a) /\ i \in Nat
          BY <1>2, <2>1 DEF Disciplined
        <4>2. Len(c) \in Nat /\ Len(a) - i <= Len(c) - i
          BY <1>2, <4>1
        <4> HIDE DEF Disciplined
        <4> QED
          BY <1>2, <3>1, <4>1, <4>2, Transferred
    <2>2. CASE i > Len(a)
      <3>1. PICK j \in 1 .. Len(b) : i = Len(a) + j
        <4>1. i - Len(a) \in 1 .. Len(b) /\ i = Len(a) + (i - Len(a))
          BY <1>2, <2>2
        <4> QED BY <4>1
      <3>2. ASSUME NEW k \in 0 .. 3, j + k <= Len(b) PROVE c[i + k] = b[j + k]
        <4>1. j + k \in 1 .. Len(b) /\ i + k = Len(a) + (j + k)
          BY <1>2, <3>1, <3>2
        <4> QED BY <1>4, <4>1
      <3>3. DisciplinedAt(p, b, j) /\ i \in Nat /\ Len(c) \in Nat /\ Len(b) - j <= Len(c) - i
        BY <1>2, <3>1 DEF Disciplined
      <3> QED
        BY <1>2, <3>2, <3>3, Transferred
    <2> QED BY <1>2, <2>1, <2>2
  <1> QED
    BY <1>1, <1>2, <1>5 DEF Disciplined

LEMMA Tailed ==
  ASSUME NEW p, NEW a \in Seq(Op), Disciplined(p, a), a # <<>>
  PROVE  Tail(a) \in Seq(Op) /\ Disciplined(p, Tail(a))
  <1>1. PICK c : c = Tail(a)
    OBVIOUS
  <1>2. c \in Seq(Op) /\ Len(c) = Len(a) - 1 /\ Len(a) \in Nat /\ Len(c) \in Nat
    BY <1>1
  <1>3. \A i \in 1 .. Len(c) : c[i] = a[i + 1]
    BY <1>1
  <1>4. ASSUME NEW i \in 1 .. Len(c) PROVE DisciplinedAt(p, c, i)
    <2>1. ASSUME NEW k \in 0 .. 3, (i + 1) + k <= Len(a) PROVE c[i + k] = a[(i + 1) + k]
      <3>1. i + k \in 1 .. Len(c) /\ (i + 1) + k = (i + k) + 1
        BY <1>2, <2>1
      <3> QED BY <1>3, <3>1
    <2>2. /\ i + 1 \in 1 .. Len(a) /\ i \in Nat /\ Len(a) - (i + 1) <= Len(c) - i
          /\ DisciplinedAt(p, a, i + 1)
      BY <1>2 DEF Disciplined
    <2> QED
      BY <1>2, <2>1, <2>2, Transferred
  <1> QED
    BY <1>1, <1>2, <1>4 DEF Disciplined

LEMMA Pairs ==
  ASSUME NEW p, NEW l \in Lock
  PROVE  /\ Reads(l) \in Seq(Op) /\ Disciplined(p, Reads(l))
         /\ Writes(l) \in Seq(Op) /\ Disciplined(p, Writes(l))
  <1>1. Reads(l) \in Seq(Op) /\ Writes(l) \in Seq(Op)
    BY DEF Reads, Writes, Op
  <1>2. Len(Reads(l)) = 2 /\ Reads(l)[1] = <<"RLock", l>> /\ Reads(l)[2] = <<"RUnlock", l>>
    BY DEF Reads
  <1>3. Len(Writes(l)) = 2 /\ Writes(l)[1] = <<"Lock", l>> /\ Writes(l)[2] = <<"Unlock", l>>
    BY DEF Writes
  <1>4. Disciplined(p, Reads(l))
    BY <1>2 DEF Disciplined, DisciplinedAt
  <1>5. Disciplined(p, Writes(l))
    BY <1>3 DEF Disciplined, DisciplinedAt
  <1> QED
    BY <1>1, <1>4, <1>5

LEMMA ProgramsAreDisciplined ==
  ASSUME NEW p \in Proc, NEW r \in Programs(p)
  PROVE  r \in Seq(Op) /\ Disciplined(p, r)
  <1> DEFINE Good(x) == x \in Seq(Op) /\ Disciplined(p, x)
  <1>1. \A a, b : Good(a) /\ Good(b) => Good(a \o b)
    BY Concatenated
  <1>2. \A l \in Lock : Good(Reads(l)) /\ Good(Writes(l))
    BY Pairs
  <1> HIDE DEF Good
  <1>3. Good(Reads(Manager)) /\ Good(Writes(Manager))
    BY <1>2, ManagerIsALock
  <1>4. CASE p \in {"main", "cleanup"}
    BY <1>3, <1>4 DEF Programs, Good
  <1>5. CASE p \notin {"main", "cleanup"}
    <2>1. r \in HandlerPrograms
      BY <1>5 DEF Programs
    <2>2. CASE r \in {GetSessionByIdentifier, ListSessions}
      <3>1. Good(GetSessionByIdentifier) /\ Good(ListSessions)
        BY <1>1, <1>3 DEF GetSessionByIdentifier, ListSessions
      <3> QED BY <2>2, <3>1 DEF Good
    <2>3. ASSUME NEW s \in Sess,
                 r \in {CreateSession(s), GetStatement(s), CancelStatement(s), DeleteSession(s),
                        SubmitStatement(s), RunStatement(s), Close(s)}
          PROVE  Good(r)
      <3>1. Good(Reads(s)) /\ Good(Writes(s))
        BY <1>2, ManagerIsALock
      <3>2. Good(CreateSession(s))
        BY <1>1, <1>3, <3>1 DEF CreateSession
      <3>3. /\ Good(GetStatement(s)) /\ Good(CancelStatement(s)) /\ Good(DeleteSession(s))
            /\ Good(Close(s)) /\ Good(RunStatement(s))
        BY <1>1, <1>3, <3>1
        DEF GetStatement, CancelStatement, DeleteSession, Close, RunStatement,
            GetSessionByIdentifier
      <3>4. Good(SubmitStatement(s))
        BY <1>1, <1>3, <3>1 DEF SubmitStatement, GetSessionByIdentifier, GetState
      <3> QED BY <2>3, <3>2, <3>3, <3>4
    <2> QED
      BY <2>1, <2>2, <2>3 DEF HandlerPrograms, Good
  <1> QED BY <1>4, <1>5

-----------------------------------------------------------------------------
(* What a step does to what a goroutine has still to do.                   *)

LEMMA TailFacts ==
  ASSUME NEW r \in Seq(Op), r # <<>>
  PROVE  /\ Len(Tail(r)) = Len(r) - 1 /\ Len(r) \in Nat \ {0} /\ Head(r) = r[1]
         /\ \A i \in 1 .. Len(r) - 1 : Tail(r)[i] = r[i + 1]
  OBVIOUS

\* m.mu is still kept when something else is done.
LEMMA KeptByTail ==
  ASSUME NEW r \in Seq(Op), Keeps(r), r # <<>>, Head(r) # <<"Unlock", Manager>>
  PROVE  Keeps(Tail(r)) /\ Head(r)[2] # Manager
  <1>1. PICK k \in 1 .. Len(r) : /\ r[k] = <<"Unlock", Manager>>
                                 /\ \A j \in 1 .. k - 1 : r[j][2] # Manager
    BY DEF Keeps
  <1>2. PICK m \in 1 .. Len(r) - 1 : k = m + 1
    <2>1. k # 1 /\ k - 1 \in 1 .. Len(r) - 1 /\ k = (k - 1) + 1
      BY <1>1, TailFacts
    <2> QED BY <2>1
  <1>3. Tail(r)[m] = <<"Unlock", Manager>>
    BY <1>1, <1>2, TailFacts
  <1>4. \A j \in 1 .. m - 1 : Tail(r)[j][2] # Manager
    <2> SUFFICES ASSUME NEW j \in 1 .. m - 1 PROVE Tail(r)[j][2] # Manager
      OBVIOUS
    <2>1. Tail(r)[j] = r[j + 1] /\ j + 1 \in 1 .. k - 1
      BY <1>2, TailFacts
    <2> QED BY <1>1, <2>1
  <1>5. m \in 1 .. Len(Tail(r))
    BY <1>2, TailFacts
  <1>6. Head(r)[2] # Manager
    BY <1>1, <1>2, TailFacts
  <1> QED BY <1>3, <1>4, <1>5, <1>6 DEF Keeps

\* A visit of a loop is disciplined, and m.mu is kept across it.
LEMMA VisitFacts ==
  ASSUME NEW p \in Proc, NEW s \in Sess, NEW visit \in Visits(p, s)
  PROVE  LET r == visit \o <<<<"Unlock", Manager>>>>
         IN r \in Seq(Op) /\ Disciplined(p, r) /\ Keeps(r) /\ r # <<>>
  <1> DEFINE end == <<<<"Unlock", Manager>>>>
             r == visit \o end
  <1>1. end \in Seq(Op) /\ Disciplined(p, end)
    <2>1. end \in Seq(Op) /\ Len(end) = 1 /\ end[1] = <<"Unlock", Manager>>
      BY ManagerIsALock DEF Op
    <2> QED BY <2>1 DEF Disciplined, DisciplinedAt
  <1>2. /\ visit \in Seq(Op) /\ Disciplined(p, visit)
        /\ \A i \in 1 .. Len(visit) : visit[i][2] = s
    <2>1. CASE visit = Writes(s) \/ visit = Reads(s)
      <3>1. \A i \in 1 .. Len(visit) : visit[i][2] = s
        BY <2>1 DEF Writes, Reads
      <3> QED BY <2>1, <3>1, Pairs, ManagerIsALock
    <2>2. CASE p = "cleanup" /\ visit = ScansLiveSession(s)
      <3>1. visit \in Seq(Op)
        BY <2>2, ManagerIsALock DEF ScansLiveSession, Op
      <3>2. /\ Len(visit) = 4
            /\ visit[1] = <<"RLock", s>> /\ visit[2] = <<"RLock", s>>
            /\ visit[3] = <<"RUnlock", s>> /\ visit[4] = <<"RUnlock", s>>
        BY <2>2 DEF ScansLiveSession
      <3>3. Disciplined(p, visit)
        BY <2>2, <3>2 DEF Disciplined, DisciplinedAt
      <3> QED BY <3>1, <3>2, <3>3
    <2> QED
      BY <2>1, <2>2 DEF Visits, CleanupScans, Close
  <1>3. r \in Seq(Op) /\ Disciplined(p, r)
    BY <1>1, <1>2, Concatenated
  <1>4. /\ Len(r) = Len(visit) + 1 /\ r[Len(r)] = <<"Unlock", Manager>> /\ Len(r) \in Nat
        /\ \A j \in 1 .. Len(r) - 1 : r[j] = visit[j]
    BY <1>2, ManagerIsALock DEF Op
  <1>5. Keeps(r)
    <2> HIDE DEF r
    <2>1. \A j \in 1 .. Len(r) - 1 : r[j][2] # Manager
      <3> SUFFICES ASSUME NEW j \in 1 .. Len(r) - 1 PROVE r[j][2] # Manager
        OBVIOUS
      <3>1. j \in 1 .. Len(visit) /\ r[j] = visit[j]
        BY <1>2, <1>4
      <3>2. r[j][2] = s
        BY <1>2, <3>1
      <3> QED BY <3>2, ManagerIsALock
    <2>2. Len(r) \in 1 .. Len(r)
      BY <1>2, <1>4
    <2> QED
      BY <1>4, <2>1, <2>2 DEF Keeps
  <1> QED
    BY <1>3, <1>4, <1>5

-----------------------------------------------------------------------------
(* The invariant.                                                          *)

LEMMA LocksInvInit == Init => LocksInv
  <1> SUFFICES ASSUME Init PROVE LocksInv
    OBVIOUS
  <1>1. RestInv
    BY DEF Init, RestInv, Disciplined
  <1>2. MutexTypes /\ WriterInv /\ WaitingInv
    BY LocksAssumption DEF Init, MutexTypes, WriterInv, WaitingInv
  <1>3. ReaderInv
    BY DEF Init, ReaderInv, Inside
  <1> QED BY <1>1, <1>2, <1>3 DEF LocksInv

\* A step of p is guarded by what it has to do next.
LEMMA AtIsNext ==
  ASSUME RestInv, NEW p \in Proc, NEW op, NEW l, At(p, op, l)
  PROVE  rest[p] \in Seq(Op) /\ rest[p] # <<>> /\ IsNext(rest[p], op, l)
  BY TailFacts DEF RestInv, At, IsNext

\* Whoever has nothing left to do, or a lock to take or to leave for writing, is
\* inside nothing as a reader.
LEMMA NotInside ==
  ASSUME NEW q, NEW r, NEW l, NEW n, Inside(q, r, l, n),
         Len(r) >= 1 => r[1][1] \in {"Lock", "Unlock"}, Len(r) \in Nat
  PROVE  n \in Int /\ n <= 0
  BY DEF Inside

LEMMA InsideNothing ==
  ASSUME NEW q, NEW r, NEW l, NEW n \in Int, n <= 0
  PROVE  Inside(q, r, l, n)
  BY DEF Inside

\* Whoever reads a lock, or stops doing so, is inside no other.
LEMMA InsideOne ==
  ASSUME NEW q, NEW r, NEW l, NEW m, NEW n, NEW op, Inside(q, r, m, n), IsNext(r, op, l), l # m,
         Len(r) \in Nat
  PROVE  n \in Int /\ n <= 0
  BY DEF Inside, IsNext

LEMMA GoesIn ==
  ASSUME NEW q, NEW r \in Seq(Op), NEW l \in Lock, NEW n, Inside(q, r, l, n), Disciplined(q, r),
         IsNext(r, "RLock", l)
  PROVE  Inside(q, Tail(r), l, n + 1)
  <1>1. /\ Len(Tail(r)) = Len(r) - 1 /\ Len(r) \in Nat \ {0} /\ r[1] = <<"RLock", l>>
        /\ Len(r) >= 2 => Tail(r)[1] = r[2]
        /\ Len(r) >= 3 => Tail(r)[2] = r[3]
        /\ Len(r) >= 4 => Tail(r)[3] = r[4]
    BY TailFacts DEF IsNext
  <1>2. DisciplinedAt(q, r, 1)
    BY <1>1 DEF Disciplined
  <1>3. \/ Len(r) >= 2 /\ r[2] = <<"RUnlock", l>>
        \/ /\ q = "cleanup" /\ l \in Sess /\ Len(r) >= 4
           /\ r[2] = <<"RLock", l>> /\ r[3] = <<"RUnlock", l>> /\ r[4] = <<"RUnlock", l>>
    BY <1>1, <1>2 DEF DisciplinedAt
  <1>4. n \in Int /\ n <= 1
    BY <1>1 DEF Inside
  <1>5. CASE n = 1
    BY <1>1, <1>5 DEF Inside
  <1>6. CASE n <= 0
    BY <1>1, <1>3, <1>4, <1>6 DEF Inside
  <1> QED BY <1>4, <1>5, <1>6

LEMMA GoesOut ==
  ASSUME NEW q, NEW r \in Seq(Op), NEW l \in Lock, NEW n, Inside(q, r, l, n),
         IsNext(r, "RUnlock", l)
  PROVE  Inside(q, Tail(r), l, n - 1)
  <1>1. /\ Len(Tail(r)) = Len(r) - 1 /\ Len(r) \in Nat \ {0}
        /\ Len(r) >= 2 => Tail(r)[1] = r[2]
    BY TailFacts DEF IsNext
  <1> QED BY <1>1 DEF Inside

\* A writer that goes on with something else than its lock has m.mu, and keeps it.
LEMMA WriterGoesOn ==
  ASSUME NEW r \in Seq(Op), NEW l, NEW w \in BOOLEAN, Writer(r, l, w), r # <<>>,
         ~IsNext(r, "Lock", l), ~IsNext(r, "Unlock", l)
  PROVE  Writer(Tail(r), l, w)
  <1>1. w /\ l = Manager /\ Keeps(r)
    BY DEF Writer
  <1>2. Head(r) # <<"Unlock", Manager>>
    BY <1>1, TailFacts DEF IsNext
  <1> QED BY <1>1, <1>2, KeptByTail DEF Writer

LEMMA Enters ==
  ASSUME NEW p, NEW r \in Seq(Op), NEW l \in Lock, Disciplined(p, r), IsNext(r, "Lock", l)
  PROVE  Writer(Tail(r), l, TRUE)
  <1>1. /\ Len(Tail(r)) = Len(r) - 1 /\ Len(r) \in Nat \ {0} /\ r[1] = <<"Lock", l>>
        /\ Len(r) >= 2 => Tail(r)[1] = r[2]
    BY TailFacts DEF IsNext
  <1>2. DisciplinedAt(p, r, 1)
    BY <1>1 DEF Disciplined
  <1>3. IsNext(Tail(r), "Unlock", l)
    BY <1>1, <1>2 DEF DisciplinedAt, IsNext
  <1>4. CASE l = Manager
    <2>1. Tail(r)[1] = <<"Unlock", Manager>> /\ 1 \in 1 .. Len(Tail(r))
      BY <1>1, <1>3, <1>4 DEF IsNext
    <2>2. Keeps(Tail(r))
      <3>1. \A j \in 1 .. 1 - 1 : Tail(r)[j][2] # Manager
        OBVIOUS
      <3> QED BY <2>1, <3>1 DEF Keeps
    <2> QED BY <1>4, <2>2 DEF Writer
  <1>5. CASE l # Manager
    BY <1>3, <1>5 DEF Writer
  <1> QED BY <1>4, <1>5

\* What stays true of p at the other locks when it has done its next operation.
LEMMA MovesOn ==
  ASSUME LocksInv, NEW q \in Proc, NEW op, NEW l \in Lock, IsNext(rest[q], op, l)
  PROVE  LET r == Tail(rest[q])
         IN /\ rest[q] \in Seq(Op) /\ rest[q] # <<>> /\ r \in Seq(Op) /\ Disciplined(q, r)
            /\ \A m \in Lock \ {l} :
                 /\ Inside(q, r, m, readers[m][q])
                 /\ announced[m] = q => Writer(r, m, writing[m])
            /\ \A m \in Lock : q \in waiting[m] => op = "RLock" /\ m = l
  <1> DEFINE r == Tail(rest[q])
  <1>1. rest[q] \in Seq(Op) /\ Disciplined(q, rest[q]) /\ Len(rest[q]) \in Nat
    BY DEF LocksInv, RestInv
  <1>2. rest[q] # <<>>
    BY <1>1 DEF IsNext
  <1>3. r \in Seq(Op) /\ Disciplined(q, r)
    BY <1>1, <1>2, Tailed
  <1>4. ASSUME NEW m \in Lock \ {l} PROVE Inside(q, r, m, readers[m][q])
    <2>1. Inside(q, rest[q], m, readers[m][q])
      BY DEF LocksInv, ReaderInv
    <2>2. readers[m][q] \in Int /\ readers[m][q] <= 0
      BY <1>1, <2>1, InsideOne
    <2> QED BY <2>2, InsideNothing
  <1>5. ASSUME NEW m \in Lock \ {l}, announced[m] = q PROVE Writer(r, m, writing[m])
    <2>1. Writer(rest[q], m, writing[m]) /\ writing[m] \in BOOLEAN
      BY <1>5 DEF LocksInv, WriterInv, MutexTypes
    <2>2. ~IsNext(rest[q], "Lock", m) /\ ~IsNext(rest[q], "Unlock", m)
      BY DEF IsNext
    <2> QED BY <1>1, <1>2, <2>1, <2>2, WriterGoesOn
  <1>6. ASSUME NEW m \in Lock, q \in waiting[m] PROVE op = "RLock" /\ m = l
    BY <1>6 DEF LocksInv, WaitingInv, IsNext
  <1> QED BY <1>1, <1>2, <1>3, <1>4, <1>5, <1>6

\* A goroutine that begins, or goes on with its loop.
LEMMA GivenWork ==
  ASSUME LocksInv, NEW p \in Proc, NEW r \in Seq(Op), Disciplined(p, r),
         \/ rest[p] = <<>>
         \/ rest[p] = <<<<"Unlock", Manager>>>> /\ Keeps(r),
         rest' = [rest EXCEPT ![p] = r], unvisited' \in [Proc -> SUBSET Sess],
         UNCHANGED <<readers, announced, writing, waiting>>
  PROVE  LocksInv'
  <1>1. /\ rest \in [Proc -> Seq(Op)] /\ rest' \in [Proc -> Seq(Op)] /\ rest'[p] = r
        /\ \A q \in Proc \ {p} : rest'[q] = rest[q]
    BY DEF LocksInv, RestInv
  <1>2. RestInv'
    BY <1>1 DEF LocksInv, RestInv
  <1>3. MutexTypes'
    BY DEF LocksInv, MutexTypes
  <1>4. \/ Len(rest[p]) = 0
        \/ Len(rest[p]) = 1 /\ rest[p][1] = <<"Unlock", Manager>> /\ Keeps(r)
    <2>1. CASE rest[p] = <<>>
      BY <2>1
    <2>2. CASE rest[p] = <<<<"Unlock", Manager>>>> /\ Keeps(r)
      BY <2>2
    <2> QED BY <2>1, <2>2
  <1>5. WriterInv'
    <2> SUFFICES ASSUME NEW l \in Lock, NEW q \in Proc, announced[l] = q
                 PROVE  Writer(rest'[q], l, writing[l])
      BY DEF WriterInv
    <2>1. Writer(rest[q], l, writing[l])
      BY DEF LocksInv, WriterInv
    <2>2. CASE q = p
      <3>1. writing[l] /\ l = Manager /\ Keeps(r)
        BY <1>4, <2>1, <2>2 DEF Writer, IsNext, Keeps
      <3> QED BY <1>1, <2>2, <3>1 DEF Writer
    <2> QED BY <1>1, <2>1, <2>2
  <1>6. ReaderInv'
    <2>1. ASSUME NEW l \in Lock, NEW q \in Proc PROVE Inside(q, rest'[q], l, readers[l][q])
      <3>1. Inside(q, rest[q], l, readers[l][q])
        BY DEF LocksInv, ReaderInv
      <3>2. CASE q = p
        <4>1. readers[l][q] \in Int /\ readers[l][q] <= 0
          BY <1>4, <3>1, <3>2, NotInside
        <4> QED BY <4>1, InsideNothing
      <3> QED BY <1>1, <3>1, <3>2
    <2> QED BY <2>1 DEF LocksInv, ReaderInv
  <1>7. WaitingInv'
    <2>1. \A l \in Lock : p \notin waiting[l]
      BY <1>4 DEF LocksInv, WaitingInv, IsNext
    <2> QED BY <1>1, <2>1 DEF LocksInv, WaitingInv
  <1> QED BY <1>2, <1>3, <1>5, <1>6, <1>7 DEF LocksInv

LEMMA StartStep ==
  ASSUME LocksInv, NEW p \in Proc, Start(p)
  PROVE  LocksInv'
  <1>1. PICK r \in Programs(p) : rest' = [rest EXCEPT ![p] = r]
    BY DEF Start
  <1>2. r \in Seq(Op) /\ Disciplined(p, r)
    BY ProgramsAreDisciplined
  <1>3. /\ rest[p] = <<>> /\ unvisited' \in [Proc -> SUBSET Sess]
        /\ UNCHANGED <<readers, announced, writing, waiting>>
    BY DEF Start, LocksInv, RestInv
  <1> QED BY <1>1, <1>2, <1>3, GivenWork

LEMMA VisitSessionStep ==
  ASSUME LocksInv, NEW p \in Proc, NEW s \in Sess, VisitSession(p, s)
  PROVE  LocksInv'
  <1>1. PICK visit \in Visits(p, s) : rest' = [rest EXCEPT ![p] = visit \o @]
    BY DEF VisitSession
  <1> DEFINE r == visit \o <<<<"Unlock", Manager>>>>
  <1>2. r \in Seq(Op) /\ Disciplined(p, r) /\ Keeps(r)
    BY VisitFacts
  <1>3. /\ rest[p] = <<<<"Unlock", Manager>>>> /\ unvisited' \in [Proc -> SUBSET Sess]
        /\ UNCHANGED <<readers, announced, writing, waiting>>
    BY DEF VisitSession, LocksInv, RestInv
  <1>4. rest' = [rest EXCEPT ![p] = r]
    BY <1>1, <1>3 DEF LocksInv, RestInv
  <1> QED BY <1>2, <1>3, <1>4, GivenWork

\* Whoever does an operation on l stands elsewhere as it did.
LEMMA StandsElsewhere ==
  ASSUME LocksInv, NEW q \in Proc, NEW op, NEW l \in Lock, IsNext(rest[q], op, l),
         NEW m \in Lock, m # l
  PROVE  /\ Inside(q, Tail(rest[q]), m, readers[m][q])
         /\ announced[m] = q => Writer(Tail(rest[q]), m, writing[m])
  BY MovesOn

\* Only p goes on, and the announcements stay.
LEMMA OneGoesOn ==
  ASSUME LocksInv, NEW p \in Proc, NEW op, NEW l \in Lock, IsNext(rest[p], op, l),
         rest' = [rest EXCEPT ![p] = Tail(@)], UNCHANGED unvisited
  PROVE  /\ RestInv'
         /\ rest'[p] = Tail(rest[p]) /\ \A q \in Proc \ {p} : rest'[q] = rest[q]
  BY MovesOn DEF LocksInv, RestInv

LEMMA RLockStep ==
  ASSUME LocksInv, NEW p \in Proc, NEW l \in Lock, RLock(p, l)
  PROVE  LocksInv'
  <1>1. IsNext(rest[p], "RLock", l) /\ p \notin waiting[l]
    BY AtIsNext DEF RLock, LocksInv
  <1>2. CASE /\ announced[l] = Nobody
             /\ readers' = [readers EXCEPT ![l][p] = @ + 1]
             /\ rest' = [rest EXCEPT ![p] = Tail(@)]
             /\ UNCHANGED <<waiting, unvisited, announced, writing>>
    <2>1. /\ RestInv'
          /\ rest'[p] = Tail(rest[p]) /\ \A q \in Proc \ {p} : rest'[q] = rest[q]
      BY <1>1, <1>2, OneGoesOn
    <2>2. MutexTypes'
      BY <1>2 DEF LocksInv, MutexTypes
    <2>3. WriterInv'
      <3> SUFFICES ASSUME NEW m \in Lock, NEW q \in Proc, announced[m] = q
                   PROVE  Writer(rest'[q], m, writing[m])
        BY <1>2 DEF WriterInv
      <3>1. q = p => m # l
        BY <1>2, LocksAssumption
      <3>2. CASE q = p
        BY <1>1, <2>1, <3>1, <3>2, StandsElsewhere
      <3>3. CASE q # p
        BY <2>1, <3>3 DEF LocksInv, WriterInv
      <3> QED BY <3>2, <3>3
    <2>4. ReaderInv'
      <3>1. /\ readers' \in [Lock -> [Proc -> Int]]
            /\ \A m \in Lock, q \in Proc :
                 readers'[m][q] = IF m = l /\ q = p THEN readers[m][q] + 1 ELSE readers[m][q]
        BY <1>2 DEF LocksInv, ReaderInv
      <3>2. ASSUME NEW m \in Lock, NEW q \in Proc PROVE Inside(q, rest'[q], m, readers'[m][q])
        <4>1. Inside(q, rest[q], m, readers[m][q])
          BY DEF LocksInv, ReaderInv
        <4>2. CASE q = p /\ m = l
          <5>1. rest[p] \in Seq(Op) /\ Disciplined(p, rest[p])
            BY DEF LocksInv, RestInv
          <5> QED BY <1>1, <2>1, <3>1, <4>1, <4>2, <5>1, GoesIn
        <4>3. CASE q = p /\ m # l
          <5>1. Inside(p, Tail(rest[p]), m, readers[m][p])
            BY <1>1, <4>3, StandsElsewhere
          <5>2. readers'[m][p] = readers[m][p]
            BY <3>1, <4>3
          <5> QED BY <2>1, <4>3, <5>1, <5>2
        <4>4. CASE q # p
          BY <2>1, <3>1, <4>1, <4>4
        <4> QED BY <4>2, <4>3, <4>4
      <3> QED BY <3>1, <3>2 DEF ReaderInv
    <2>5. WaitingInv'
      <3>1. \A m \in Lock : p \notin waiting[m]
        BY <1>1, MovesOn
      <3> QED BY <1>2, <2>1, <3>1 DEF LocksInv, WaitingInv
    <2> QED BY <2>1, <2>2, <2>3, <2>4, <2>5 DEF LocksInv
  <1>3. CASE /\ announced[l] # Nobody
             /\ waiting' = [waiting EXCEPT ![l] = @ \cup {p}]
             /\ UNCHANGED <<readers, rest, unvisited, announced, writing>>
    <2>1. RestInv' /\ MutexTypes' /\ WriterInv' /\ ReaderInv'
      BY <1>3 DEF LocksInv, RestInv, MutexTypes, WriterInv, ReaderInv
    <2>2. WaitingInv'
      BY <1>1, <1>3 DEF LocksInv, WaitingInv
    <2> QED BY <2>1, <2>2 DEF LocksInv
  <1> QED BY <1>2, <1>3 DEF RLock

LEMMA RUnlockStep ==
  ASSUME LocksInv, NEW p \in Proc, NEW l \in Lock, RUnlock(p, l)
  PROVE  LocksInv'
  <1>1. IsNext(rest[p], "RUnlock", l)
    BY AtIsNext DEF RUnlock, LocksInv
  <1>2. /\ readers' = [readers EXCEPT ![l][p] = @ - 1]
        /\ rest' = [rest EXCEPT ![p] = Tail(@)]
        /\ UNCHANGED <<unvisited, announced, writing, waiting>>
    BY DEF RUnlock
  <1>3. /\ RestInv'
        /\ rest'[p] = Tail(rest[p]) /\ \A q \in Proc \ {p} : rest'[q] = rest[q]
    BY <1>1, <1>2, OneGoesOn
  <1>4. MutexTypes'
    BY <1>2 DEF LocksInv, MutexTypes
  <1>5. WriterInv'
    <2> SUFFICES ASSUME NEW m \in Lock, NEW q \in Proc, announced[m] = q
                 PROVE  Writer(rest'[q], m, writing[m])
      BY <1>2 DEF WriterInv
    <2>1. CASE q = p
      <3>1. Writer(rest[p], m, writing[m]) /\ writing[m] \in BOOLEAN
        BY <2>1 DEF LocksInv, WriterInv, MutexTypes
      <3>2. rest[p] \in Seq(Op) /\ rest[p] # <<>>
        BY <1>1, MovesOn
      <3>3. ~IsNext(rest[p], "Lock", m) /\ ~IsNext(rest[p], "Unlock", m)
        BY <1>1 DEF IsNext
      <3> QED BY <1>3, <2>1, <3>1, <3>2, <3>3, WriterGoesOn
    <2> QED BY <1>3, <2>1 DEF LocksInv, WriterInv
  <1>6. ReaderInv'
    <2>1. /\ readers' \in [Lock -> [Proc -> Int]]
          /\ \A m \in Lock, q \in Proc :
               readers'[m][q] = IF m = l /\ q = p THEN readers[m][q] - 1 ELSE readers[m][q]
      BY <1>2 DEF LocksInv, ReaderInv
    <2>2. ASSUME NEW m \in Lock, NEW q \in Proc PROVE Inside(q, rest'[q], m, readers'[m][q])
      <3>1. Inside(q, rest[q], m, readers[m][q]) /\ rest[q] \in Seq(Op)
        BY DEF LocksInv, ReaderInv, RestInv
      <3>2. CASE q = p /\ m = l
        BY <1>1, <1>3, <2>1, <3>1, <3>2, GoesOut
      <3>3. CASE q = p /\ m # l
        <4>1. Inside(p, Tail(rest[p]), m, readers[m][p])
          BY <1>1, <3>3, StandsElsewhere
        <4>2. readers'[m][p] = readers[m][p]
          BY <2>1, <3>3
        <4> QED BY <1>3, <3>3, <4>1, <4>2
      <3>4. CASE q # p
        BY <1>3, <2>1, <3>1, <3>4
      <3> QED BY <3>2, <3>3, <3>4
    <2> QED BY <2>1, <2>2 DEF ReaderInv
  <1>7. WaitingInv'
    <2>1. \A m \in Lock : p \notin waiting[m]
      BY <1>1 DEF LocksInv, WaitingInv, IsNext
    <2> QED BY <1>2, <1>3, <2>1 DEF LocksInv, WaitingInv
  <1> QED BY <1>3, <1>4, <1>5, <1>6, <1>7 DEF LocksInv

LEMMA AnnounceStep ==
  ASSUME LocksInv, NEW p \in Proc, NEW l \in Lock, Announce(p, l)
  PROVE  LocksInv'
  <1>1. IsNext(rest[p], "Lock", l)
    BY AtIsNext DEF Announce, LocksInv
  <1>2. /\ announced[l] = Nobody
        /\ announced' = [announced EXCEPT ![l] = p]
        /\ UNCHANGED <<rest, unvisited, readers, writing, waiting>>
    BY DEF Announce
  <1>3. ~writing[l] /\ writing[l] \in BOOLEAN
    BY <1>2 DEF LocksInv, MutexTypes
  <1>4. RestInv' /\ ReaderInv' /\ WaitingInv'
    BY <1>2 DEF LocksInv, RestInv, ReaderInv, WaitingInv
  <1>5. MutexTypes'
    BY <1>2, <1>3 DEF LocksInv, MutexTypes
  <1>6. WriterInv'
    <2> SUFFICES ASSUME NEW m \in Lock, NEW q \in Proc, announced'[m] = q
                 PROVE  Writer(rest[q], m, writing[m])
      BY <1>2 DEF WriterInv
    <2>1. CASE m = l
      <3>1. q = p
        BY <1>2, <2>1 DEF LocksInv, MutexTypes
      <3> QED BY <1>1, <1>3, <2>1, <3>1 DEF Writer
    <2>2. CASE m # l
      BY <1>2, <2>2 DEF LocksInv, MutexTypes, WriterInv
    <2> QED BY <2>1, <2>2
  <1> QED BY <1>4, <1>5, <1>6 DEF LocksInv

LEMMA EnterStep ==
  ASSUME LocksInv, NEW p \in Proc, NEW l \in Lock, Enter(p, l)
  PROVE  LocksInv'
  <1>1. IsNext(rest[p], "Lock", l)
    BY AtIsNext DEF Enter, LocksInv
  <1>2. /\ announced[l] = p
        /\ writing' = [writing EXCEPT ![l] = TRUE]
        /\ rest' = [rest EXCEPT ![p] = Tail(@)]
        /\ UNCHANGED <<unvisited, readers, announced, waiting>>
    BY DEF Enter
  <1>3. /\ RestInv'
        /\ rest'[p] = Tail(rest[p]) /\ \A q \in Proc \ {p} : rest'[q] = rest[q]
    BY <1>1, <1>2, OneGoesOn
  <1>4. MutexTypes'
    BY <1>2, LocksAssumption DEF LocksInv, MutexTypes
  <1>5. WriterInv'
    <2> SUFFICES ASSUME NEW m \in Lock, NEW q \in Proc, announced[m] = q
                 PROVE  Writer(rest'[q], m, writing'[m])
      BY <1>2 DEF WriterInv
    <2>1. CASE m = l
      <3>1. q = p /\ writing'[m] = TRUE
        BY <1>2, <2>1 DEF LocksInv, MutexTypes
      <3>2. rest[p] \in Seq(Op) /\ Disciplined(p, rest[p])
        BY DEF LocksInv, RestInv
      <3>3. Writer(Tail(rest[p]), l, TRUE)
        BY <1>1, <3>2, Enters
      <3> QED BY <1>3, <2>1, <3>1, <3>3
    <2>2. CASE m # l
      <3>1. writing'[m] = writing[m]
        BY <1>2, <2>2 DEF LocksInv, MutexTypes
      <3>2. CASE q = p
        <4>1. announced[m] = p
          BY <3>2
        <4>2. Writer(Tail(rest[p]), m, writing[m])
          BY <1>1, <2>2, <4>1, StandsElsewhere
        <4> QED BY <1>3, <3>1, <3>2, <4>2
      <3>3. CASE q # p
        BY <1>3, <3>1, <3>3 DEF LocksInv, WriterInv
      <3> QED BY <3>2, <3>3
    <2> QED BY <2>1, <2>2
  <1>6. ReaderInv'
    <2>1. ASSUME NEW m \in Lock, NEW q \in Proc PROVE Inside(q, rest'[q], m, readers[m][q])
      <3>1. Inside(q, rest[q], m, readers[m][q]) /\ rest[q] \in Seq(Op)
        BY DEF LocksInv, ReaderInv, RestInv
      <3>2. CASE q = p
        <4>1. Len(rest[p]) \in Nat /\ rest[p][1][1] = "Lock"
          BY <1>1, <3>1, <3>2 DEF IsNext
        <4>2. readers[m][p] \in Int /\ readers[m][p] <= 0
          BY <3>1, <3>2, <4>1, NotInside
        <4> QED BY <3>2, <4>2, InsideNothing
      <3> QED BY <1>3, <3>1, <3>2
    <2> QED BY <1>2, <2>1 DEF LocksInv, ReaderInv
  <1>7. WaitingInv'
    <2>1. \A m \in Lock : p \notin waiting[m]
      BY <1>1 DEF LocksInv, WaitingInv, IsNext
    <2> QED BY <1>2, <1>3, <2>1 DEF LocksInv, WaitingInv
  <1> QED BY <1>3, <1>4, <1>5, <1>6, <1>7 DEF LocksInv

LEMMA UnlockStep ==
  ASSUME LocksInv, NEW p \in Proc, NEW l \in Lock, Unlock(p, l)
  PROVE  LocksInv'
  <1>1. IsNext(rest[p], "Unlock", l)
    BY AtIsNext DEF Unlock, LocksInv
  <1> DEFINE Moving == {p} \cup waiting[l]
  <1>2. /\ announced' = [announced EXCEPT ![l] = Nobody]
        /\ writing' = [writing EXCEPT ![l] = FALSE]
        /\ waiting' = [waiting EXCEPT ![l] = {}]
        /\ UNCHANGED unvisited
    BY DEF Unlock
  <1>3. /\ \A q \in Proc : rest'[q] = IF q \in Moving THEN Tail(rest[q]) ELSE rest[q]
        /\ rest' = [q \in Proc |-> rest'[q]]
    BY DEF Unlock
  <1>4. \A q \in waiting[l] : q \in Proc /\ IsNext(rest[q], "RLock", l)
    BY DEF LocksInv, WaitingInv
  <1>5. p \notin waiting[l]
    BY <1>1, <1>4 DEF IsNext
  <1>6. \A q \in Moving : \E op \in {"RLock", "Unlock"} : IsNext(rest[q], op, l)
    BY <1>1, <1>4
  <1> HIDE DEF Moving
  <1>7. RestInv'
    <2>1. ASSUME NEW q \in Proc PROVE rest'[q] \in Seq(Op) /\ Disciplined(q, rest'[q])
      BY <1>3, <1>6, MovesOn DEF LocksInv, RestInv
    <2> QED BY <1>2, <1>3, <2>1 DEF LocksInv, RestInv
  <1>8. MutexTypes'
    BY <1>2 DEF LocksInv, MutexTypes
  <1>9. WriterInv'
    <2> SUFFICES ASSUME NEW m \in Lock, NEW q \in Proc, announced'[m] = q
                 PROVE  Writer(rest'[q], m, writing'[m])
      BY DEF WriterInv
    <2>1. m # l /\ announced[m] = q /\ writing'[m] = writing[m]
      BY <1>2, LocksAssumption DEF LocksInv, MutexTypes
    <2>2. CASE q \in Moving
      <3>1. PICK op : IsNext(rest[q], op, l)
        BY <1>6, <2>2
      <3>2. Writer(Tail(rest[q]), m, writing[m])
        BY <2>1, <3>1, MovesOn
      <3> QED BY <1>3, <2>1, <2>2, <3>2
    <2>3. CASE q \notin Moving
      BY <1>3, <2>1, <2>3 DEF LocksInv, WriterInv
    <2> QED BY <2>2, <2>3
  <1>10. ReaderInv'
    <2>1. /\ readers' \in [Lock -> [Proc -> Int]]
          /\ \A m \in Lock, q \in Proc :
               readers'[m][q] = IF m = l /\ q \in waiting[l] THEN readers[m][q] + 1
                                ELSE readers[m][q]
      <3>1. readers' = [readers EXCEPT ![l] = [q \in Proc |-> @[q] + (IF q \in waiting[l] THEN 1 ELSE 0)]]
        BY DEF Unlock
      <3> QED BY <3>1 DEF LocksInv, ReaderInv
    <2>2. ASSUME NEW m \in Lock, NEW q \in Proc PROVE Inside(q, rest'[q], m, readers'[m][q])
      <3>1. /\ Inside(q, rest[q], m, readers[m][q])
            /\ rest[q] \in Seq(Op) /\ Disciplined(q, rest[q])
        BY DEF LocksInv, ReaderInv, RestInv
      <3>2. CASE q \in Moving /\ m # l
        <4>1. PICK op : IsNext(rest[q], op, l)
          BY <1>6, <3>2
        <4>2. Inside(q, Tail(rest[q]), m, readers[m][q])
          BY <3>2, <4>1, StandsElsewhere
        <4>3. readers'[m][q] = readers[m][q]
          BY <2>1, <3>2
        <4> QED BY <1>3, <3>2, <4>2, <4>3
      <3>3. CASE q \in waiting[l] /\ m = l
        <4>1. rest'[q] = Tail(rest[q])
          BY <1>3, <3>3 DEF Moving
        <4> QED BY <1>4, <2>1, <3>1, <3>3, <4>1, GoesIn
      <3>4. CASE q = p /\ m = l
        <4>1. Len(rest[p]) \in Nat /\ rest[p][1][1] = "Unlock"
          BY <1>1, <3>1, <3>4 DEF IsNext
        <4>2. readers[m][p] \in Int /\ readers[m][p] <= 0
          BY <3>1, <3>4, <4>1, NotInside
        <4> QED BY <1>5, <2>1, <3>4, <4>2, InsideNothing
      <3>5. CASE q \notin Moving
        BY <1>3, <2>1, <3>1, <3>5 DEF Moving
      <3> QED BY <3>2, <3>3, <3>4, <3>5 DEF Moving
    <2> QED BY <2>1, <2>2 DEF ReaderInv
  <1>11. WaitingInv'
    <2>1. waiting' \in [Lock -> SUBSET Proc]
      BY <1>2 DEF LocksInv, WaitingInv
    <2>2. ASSUME NEW m \in Lock, NEW q \in waiting'[m] PROVE IsNext(rest'[q], "RLock", m)
      <3>1. m # l /\ q \in waiting[m] /\ q \in Proc
        BY <1>2 DEF LocksInv, WaitingInv
      <3>2. IsNext(rest[q], "RLock", m)
        BY <3>1 DEF LocksInv, WaitingInv
      <3>3. q \notin Moving
        BY <1>6, <3>1, <3>2 DEF IsNext
      <3> QED BY <1>3, <3>1, <3>2, <3>3
    <2> QED BY <2>1, <2>2 DEF WaitingInv
  <1> QED BY <1>7, <1>8, <1>9, <1>10, <1>11 DEF LocksInv

LEMMA LocksInvStep == LocksInv /\ [Next]_vars => LocksInv'
  <1> SUFFICES ASSUME LocksInv, [Next]_vars PROVE LocksInv'
    OBVIOUS
  <1>1. CASE Next
    BY <1>1, StartStep, VisitSessionStep, RLockStep, RUnlockStep, AnnounceStep, EnterStep,
       UnlockStep DEF Next
  <1>2. CASE UNCHANGED vars
    BY <1>2 DEF vars, LocksInv, RestInv, MutexTypes, WriterInv, ReaderInv, WaitingInv
  <1> QED BY <1>1, <1>2

\* Where every goroutine stands at the locks it keeps.
THEOREM LocksInvariant == Spec => []LocksInv
  BY LocksInvInit, LocksInvStep, PTL DEF Spec

-----------------------------------------------------------------------------
(* Circles of waiting.                                                     *)

Waits(p) == \E q \in Proc : WaitsFor(p, q)

\* Who waits is about to lock something.
LEMMA WaitingIsLocking ==
  ASSUME LocksInv, NEW p \in Proc, Waits(p)
  PROVE  \E l \in Lock : \/ p \in waiting[l] /\ IsNext(rest[p], "RLock", l)
                        \/ IsNext(rest[p], "Lock", l)
  BY AtIsNext DEF Waits, WaitsFor, LocksInv, WaitingInv

\* Of the readers inside a lock only the cleanup waits, and for the second time it
\* locks a session.
LEMMA ReadersWaitNot ==
  ASSUME LocksInv, NEW l \in Lock, NEW q \in Proc, readers[l][q] > 0, Waits(q)
  PROVE  RereadsSession(q)
  <1>1. Inside(q, rest[q], l, readers[l][q])
    BY DEF LocksInv, ReaderInv
  <1>2. PICK m \in Lock : \/ q \in waiting[m] /\ IsNext(rest[q], "RLock", m)
                          \/ IsNext(rest[q], "Lock", m)
    BY WaitingIsLocking
  <1>3. q = "cleanup" /\ l \in Sess /\ rest[q][1] = <<"RLock", l>>
    BY <1>1, <1>2 DEF Inside, IsNext
  <1>4. q \in waiting[l]
    BY <1>2, <1>3 DEF IsNext
  <1> QED BY <1>3, <1>4 DEF RereadsSession

\* A writer that has announced itself and waits, and not for something else while it
\* has m.mu, waits for a reader inside.
LEMMA WritersWaitForReaders ==
  ASSUME LocksInv, NEW l \in Lock, NEW q \in Proc, announced[l] = q, ~(writing[l] /\ l = Manager),
         NEW q2 \in Proc, WaitsFor(q, q2), Waits(q2)
  PROVE  RereadsSession(q2)
  <1>1. Writer(rest[q], l, writing[l]) /\ writing[l] \in BOOLEAN
    BY DEF LocksInv, WriterInv, MutexTypes
  <1>2. ASSUME NEW m \in Lock, IsNext(rest[q], "RLock", m) \/ IsNext(rest[q], "Lock", m)
        PROVE  m = l /\ IsNext(rest[q], "Lock", l) /\ ~writing[l]
    BY <1>1, <1>2 DEF Writer, IsNext
  <1>3. PICK m \in Lock :
          \/ q \in waiting[m] /\ announced[m] = q2
          \/ /\ At(q, "Lock", m)
             /\ \/ announced[m] = q2 /\ (q2 # q \/ writing[m])
                \/ announced[m] = q /\ readers[m][q2] > 0
    BY DEF WaitsFor
  <1>4. CASE q \in waiting[m]
    <2>1. IsNext(rest[q], "RLock", m)
      BY <1>4 DEF LocksInv, WaitingInv
    <2> QED BY <1>2, <2>1 DEF IsNext
  <1>5. CASE /\ At(q, "Lock", m)
             /\ \/ announced[m] = q2 /\ (q2 # q \/ writing[m])
                \/ announced[m] = q /\ readers[m][q2] > 0
    <2>1. m = l /\ ~writing[l]
      BY <1>2, <1>5, AtIsNext DEF LocksInv
    <2>2. readers[l][q2] > 0
      BY <1>5, <2>1
    <2> QED BY <2>2, ReadersWaitNot
  <1> QED BY <1>3, <1>4, <1>5

\* Who waits for one that waits, at the lock of a session, waits in no circle.
LEMMA NoCircleAtSessions ==
  ASSUME LocksInv, NEW p \in Proc, NEW q \in Proc, NEW q2 \in Proc, NEW l \in Lock,
         ~(writing[l] /\ l = Manager),
         announced[l] = q \/ readers[l][q] > 0, WaitsFor(q, q2), Waits(q2)
  PROVE  RereadsSession(q) \/ RereadsSession(q2)
  BY ReadersWaitNot, WritersWaitForReaders DEF Waits

LEMMA NoCircle ==
  ASSUME LocksInv, NEW procs \in SUBSET Proc, Deadlocked(procs)
  PROVE  \E p \in procs : RereadsSession(p)
  <1>1. \A p \in procs : \E q \in procs : WaitsFor(p, q)
    BY DEF Deadlocked
  <1>2. \A p \in procs : Waits(p)
    BY <1>1 DEF Waits
  <1>3. PICK p \in procs : TRUE
    BY DEF Deadlocked
  <1>4. PICK q \in procs : WaitsFor(p, q)
    BY <1>1
  <1>5. PICK q2 \in procs : WaitsFor(q, q2)
    BY <1>1
  <1>6. PICK l \in Lock : announced[l] = q \/ readers[l][q] > 0
    BY <1>4 DEF WaitsFor
  <1>7. CASE ~(writing[l] /\ l = Manager)
    BY <1>2, <1>5, <1>6, <1>7, NoCircleAtSessions
  <1>8. CASE readers[l][q] > 0
    BY <1>2, <1>8, ReadersWaitNot
  <1>9. CASE writing[l] /\ l = Manager /\ announced[l] = q
    <2>1. Keeps(rest[q])
      BY <1>9 DEF LocksInv, WriterInv, Writer
    <2>2. PICK m \in Lock : /\ announced[m] = q2 \/ readers[m][q2] > 0
                            /\ IsNext(rest[q], "RLock", m) \/ IsNext(rest[q], "Lock", m)
      BY <1>5, AtIsNext DEF WaitsFor, LocksInv, WaitingInv
    <2>3. m # Manager
      BY <2>1, <2>2 DEF Keeps, IsNext
    <2>4. PICK q3 \in procs : WaitsFor(q2, q3)
      BY <1>1
    <2> QED BY <1>2, <2>2, <2>3, <2>4, NoCircleAtSessions
  <1> QED BY <1>6, <1>7, <1>8, <1>9

\* Whatever goroutines, sessions and requests there are, every circle of waiting has
\* the cleanup in it, reading a session for the second time (manager.go:211).
THEOREM NothingElseDeadlocks == Spec => []OnlyCleanupDeadlocks
  <1>1. LocksInv => OnlyCleanupDeadlocks
    BY NoCircle DEF OnlyCleanupDeadlocks
  <1> QED BY <1>1, LocksInvariant, PTL

-----------------------------------------------------------------------------
(* Types: nobody leaves a lock that it is not inside as a reader.          *)

\* How often whoever has r to do from i on must be inside l as a reader.
Owed(r, i, l) ==
  IF i <= Len(r) /\ r[i] = <<"RUnlock", l>>
    THEN IF i + 1 <= Len(r) /\ r[i + 1] = <<"RUnlock", l>> THEN 2 ELSE 1
    ELSE IF /\ i + 2 <= Len(r) /\ r[i] = <<"RLock", l>>
            /\ r[i + 1] = <<"RUnlock", l>> /\ r[i + 2] = <<"RUnlock", l>>
           THEN 1
           ELSE 0

Effect(op, l) ==
  CASE op = <<"RLock", l>> -> 1 [] op = <<"RUnlock", l>> -> -1 [] OTHER -> 0

PaidAt(r, i) == \A l \in Lock : Owed(r, i + 1, l) <= Owed(r, i, l) + Effect(r[i], l)

Paid(r) == \A i \in 1 .. Len(r) : PaidAt(r, i)

\* What can be begun by whoever is inside nothing.
Fresh(r) == r \in Seq(Op) /\ Paid(r) /\ \A l \in Lock : Owed(r, 1, l) = 0

OwedInv ==
  \A q \in Proc : /\ Paid(rest[q])
                  /\ \A l \in Lock : readers[l][q] >= Owed(rest[q], 1, l)

LEMMA OwedFacts ==
  ASSUME NEW r, NEW i \in Nat, NEW l, Len(r) \in Nat
  PROVE  /\ Owed(r, i, l) \in 0 .. 2
         /\ i > Len(r) => Owed(r, i, l) = 0
  BY DEF Owed

LEMMA EffectFacts ==
  ASSUME NEW o, NEW l
  PROVE  /\ Effect(<<"RLock", l>>, l) = 1 /\ Effect(<<"RUnlock", l>>, l) = -1
         /\ (o # <<"RLock", l>> /\ o # <<"RUnlock", l>>) => Effect(o, l) = 0
         /\ Effect(o, l) \in Int
  BY DEF Effect

\* What is owed depends on three operations: c goes on at j as a does at i.
GoesOnAs(c, j, a, i) ==
  /\ i \in Nat /\ j \in Nat /\ Len(a) \in Nat /\ Len(c) \in Nat /\ Len(a) - i = Len(c) - j
  /\ i <= Len(a) => c[j] = a[i]
  /\ i + 1 <= Len(a) => c[j + 1] = a[i + 1]
  /\ i + 2 <= Len(a) => c[j + 2] = a[i + 2]

LEMMA OwedAlike ==
  ASSUME NEW a, NEW c, NEW i, NEW j, NEW l, GoesOnAs(c, j, a, i)
  PROVE  Owed(c, j, l) = Owed(a, i, l)
  <1>1. /\ i <= Len(a) <=> j <= Len(c)
        /\ i + 1 <= Len(a) <=> j + 1 <= Len(c)
        /\ i + 2 <= Len(a) <=> j + 2 <= Len(c)
    BY DEF GoesOnAs
  <1>2. ASSUME NEW op
        PROVE  /\ i <= Len(a) /\ a[i] = op <=> j <= Len(c) /\ c[j] = op
               /\ i + 1 <= Len(a) /\ a[i + 1] = op <=> j + 1 <= Len(c) /\ c[j + 1] = op
               /\ i + 2 <= Len(a) /\ a[i + 2] = op <=> j + 2 <= Len(c) /\ c[j + 2] = op
    BY <1>1 DEF GoesOnAs
  <1>3. /\ i + 2 <= Len(a) => i + 1 <= Len(a) /\ i <= Len(a)
        /\ j + 2 <= Len(c) => j + 1 <= Len(c) /\ j <= Len(c)
    BY DEF GoesOnAs
  <1> QED BY <1>2, <1>3 DEF Owed

LEMMA FreshConcatenated ==
  ASSUME NEW a, NEW b, Fresh(a), Fresh(b)
  PROVE  Fresh(a \o b)
  <1>1. PICK c : c = a \o b
    OBVIOUS
  <1>2. /\ a \in Seq(Op) /\ b \in Seq(Op)
        /\ c \in Seq(Op) /\ Len(c) = Len(a) + Len(b) /\ Len(a) \in Nat /\ Len(b) \in Nat
        /\ \A i \in 1 .. Len(a) : c[i] = a[i]
        /\ \A i \in 1 .. Len(b) : c[Len(a) + i] = b[i]
    BY <1>1 DEF Fresh
  <1>3. ASSUME NEW l \in Lock PROVE ~(Len(b) >= 1 /\ b[1] = <<"RUnlock", l>>)
    <2>1. Owed(b, 1, l) = 0
      BY DEF Fresh
    <2> QED BY <1>2, <2>1 DEF Owed
  <1>4. ASSUME NEW i \in 1 .. Len(a), NEW l \in Lock PROVE Owed(c, i, l) = Owed(a, i, l)
    <2>1. /\ c[i] = a[i]
          /\ i + 1 <= Len(a) => c[i + 1] = a[i + 1]
          /\ i + 2 <= Len(a) => c[i + 2] = a[i + 2]
      BY <1>2
    <2>2. ASSUME i = Len(a) PROVE ~(i + 1 <= Len(c) /\ c[i + 1] = <<"RUnlock", l>>)
      BY <1>2, <1>3, <2>2
    <2>3. ASSUME i + 1 = Len(a) PROVE ~(i + 2 <= Len(c) /\ c[i + 2] = <<"RUnlock", l>>)
      <3>1. i + 2 = Len(a) + 1
        BY <2>3
      <3> QED BY <1>2, <1>3, <3>1
    <2>4. i + 1 <= Len(a) \/ i = Len(a)
      BY <1>2
    <2>5. i + 2 <= Len(a) \/ i + 1 = Len(a) \/ i = Len(a)
      BY <1>2
    <2>6. Len(a) <= Len(c) /\ i <= Len(a) /\ i <= Len(c) /\ i \in Nat
      BY <1>2
    <2>7. CASE i + 2 <= Len(a)
      BY <1>2, <2>1, <2>7 DEF Owed
    <2>8. CASE i + 1 = Len(a)
      BY <1>2, <2>1, <2>3, <2>8 DEF Owed
    <2>9. CASE i = Len(a)
      BY <1>2, <2>1, <2>2, <2>9 DEF Owed
    <2> QED BY <2>5, <2>7, <2>8, <2>9
  <1>5. ASSUME NEW j \in 1 .. Len(b) + 1, NEW l \in Lock
        PROVE  Owed(c, Len(a) + j, l) = Owed(b, j, l)
    <2> DEFINE i == Len(a) + j
    <2>1. \A k \in {0, 1, 2} : j + k <= Len(b) => c[Len(a) + (j + k)] = b[j + k]
      BY <1>2
    <2>2. Len(a) + (j + 0) = i /\ Len(a) + (j + 1) = i + 1 /\ Len(a) + (j + 2) = i + 2 /\ j + 0 = j
      BY <1>2
    <2>3. /\ j <= Len(b) => c[i] = b[j]
          /\ j + 1 <= Len(b) => c[i + 1] = b[j + 1]
          /\ j + 2 <= Len(b) => c[i + 2] = b[j + 2]
      BY <2>1, <2>2
    <2>4. i \in Nat /\ Len(b) - j = Len(c) - i /\ Len(b) \in Nat /\ Len(c) \in Nat /\ j \in Nat
      BY <1>2
    <2> HIDE DEF i
    <2>5. Owed(c, i, l) = Owed(b, j, l)
      <3>1. GoesOnAs(c, i, b, j)
        BY <2>3, <2>4 DEF GoesOnAs
      <3> QED BY <3>1, OwedAlike
    <2> QED BY <2>5 DEF i
  <1>6. ASSUME NEW i \in 1 .. Len(c) PROVE PaidAt(c, i)
    <2> SUFFICES ASSUME NEW l \in Lock
                 PROVE  Owed(c, i + 1, l) <= Owed(c, i, l) + Effect(c[i], l)
      BY DEF PaidAt
    <2>1. CASE i + 1 <= Len(a)
      <3>1. i \in 1 .. Len(a) /\ i + 1 \in 1 .. Len(a)
        BY <1>2, <2>1
      <3>2. Owed(a, i + 1, l) <= Owed(a, i, l) + Effect(a[i], l)
        BY <3>1 DEF Fresh, Paid, PaidAt
      <3> QED BY <1>2, <1>4, <3>1, <3>2
    <2>2. CASE i = Len(a)
      <3>1. i \in 1 .. Len(a) /\ 1 \in 1 .. Len(b) + 1
        BY <1>2, <2>2
      <3>2. Owed(a, i + 1, l) <= Owed(a, i, l) + Effect(a[i], l)
        BY <3>1 DEF Fresh, Paid, PaidAt
      <3>3. Owed(a, i + 1, l) = 0
        <4>1. i + 1 \in Nat /\ i + 1 > Len(a) /\ Len(a) \in Nat
          BY <1>2, <2>2
        <4> QED BY <4>1, OwedFacts
      <3>4. Owed(c, i + 1, l) = 0
        BY <1>5, <2>2, <3>1 DEF Fresh
      <3> QED BY <1>2, <1>4, <3>1, <3>2, <3>3, <3>4
    <2>3. CASE i > Len(a)
      <3>1. PICK j \in 1 .. Len(b) : i = Len(a) + j
        <4>1. i - Len(a) \in 1 .. Len(b) /\ i = Len(a) + (i - Len(a))
          BY <1>2, <2>3
        <4> QED BY <4>1
      <3>2. Owed(b, j + 1, l) <= Owed(b, j, l) + Effect(b[j], l)
        BY DEF Fresh, Paid, PaidAt
      <3>3. j \in 1 .. Len(b) + 1 /\ j + 1 \in 1 .. Len(b) + 1 /\ i + 1 = Len(a) + (j + 1)
        BY <1>2, <3>1
      <3>4. Owed(c, i, l) = Owed(b, j, l) /\ Owed(c, i + 1, l) = Owed(b, j + 1, l)
        BY <1>5, <3>1, <3>3
      <3> QED BY <1>2, <3>1, <3>2, <3>4
    <2> QED BY <1>2, <2>1, <2>2, <2>3
  <1>7. ASSUME NEW l \in Lock PROVE Owed(c, 1, l) = 0
    <2>1. CASE Len(a) = 0
      <3>1. 1 \in 1 .. Len(b) + 1 /\ Len(a) + 1 = 1
        BY <1>2, <2>1
      <3> QED BY <1>5, <3>1 DEF Fresh
    <2>2. CASE Len(a) # 0
      <3>1. 1 \in 1 .. Len(a)
        BY <1>2, <2>2
      <3> QED BY <1>4, <3>1 DEF Fresh
    <2> QED BY <2>1, <2>2
  <1> QED
    BY <1>1, <1>2, <1>6, <1>7 DEF Fresh, Paid

LEMMA FreshPairs ==
  ASSUME NEW l \in Lock
  PROVE  Fresh(Reads(l)) /\ Fresh(Writes(l))
  <1>1. Reads(l) \in Seq(Op) /\ Writes(l) \in Seq(Op)
    BY DEF Reads, Writes, Op
  <1>2. Len(Reads(l)) = 2 /\ Reads(l)[1] = <<"RLock", l>> /\ Reads(l)[2] = <<"RUnlock", l>>
    BY DEF Reads
  <1>3. Len(Writes(l)) = 2 /\ Writes(l)[1] = <<"Lock", l>> /\ Writes(l)[2] = <<"Unlock", l>>
    BY DEF Writes
  <1>4. ASSUME NEW m \in Lock
        PROVE  /\ Owed(Reads(l), 1, m) = 0 /\ Owed(Reads(l), 3, m) = 0
               /\ Owed(Reads(l), 2, m) = IF m = l THEN 1 ELSE 0
               /\ \A i \in 1 .. 3 : Owed(Writes(l), i, m) = 0
    BY <1>2, <1>3 DEF Owed
  <1>5. Paid(Reads(l))
    <2>1. ASSUME NEW m \in Lock
          PROVE  /\ Effect(Reads(l)[1], m) = IF m = l THEN 1 ELSE 0
                 /\ Effect(Reads(l)[2], m) = IF m = l THEN -1 ELSE 0
      BY <1>2 DEF Effect
    <2>2. PaidAt(Reads(l), 1) /\ PaidAt(Reads(l), 2)
      BY <1>4, <2>1 DEF PaidAt
    <2> QED BY <1>2, <2>2 DEF Paid
  <1>6. Paid(Writes(l))
    <2>1. ASSUME NEW m \in Lock
          PROVE  Effect(Writes(l)[1], m) = 0 /\ Effect(Writes(l)[2], m) = 0
      BY <1>3 DEF Effect
    <2>2. PaidAt(Writes(l), 1) /\ PaidAt(Writes(l), 2)
      BY <1>4, <2>1 DEF PaidAt
    <2> QED BY <1>3, <2>2 DEF Paid
  <1> QED
    BY <1>1, <1>4, <1>5, <1>6 DEF Fresh

LEMMA ProgramsAreFresh ==
  ASSUME NEW p \in Proc, NEW r \in Programs(p)
  PROVE  Fresh(r)
  <1>1. \A l \in Lock : Fresh(Reads(l)) /\ Fresh(Writes(l))
    BY FreshPairs
  <1>2. Fresh(Reads(Manager)) /\ Fresh(Writes(Manager))
    BY <1>1, ManagerIsALock
  <1>3. CASE p \in {"main", "cleanup"}
    BY <1>2, <1>3 DEF Programs
  <1>4. CASE r \in {GetSessionByIdentifier, ListSessions}
    <2>1. Fresh(GetSessionByIdentifier) /\ Fresh(ListSessions)
      BY <1>2, FreshConcatenated DEF GetSessionByIdentifier, ListSessions
    <2> QED BY <1>4, <2>1
  <1>5. ASSUME NEW s \in Sess,
               r \in {CreateSession(s), GetStatement(s), CancelStatement(s), DeleteSession(s),
                      SubmitStatement(s), RunStatement(s), Close(s)}
        PROVE  Fresh(r)
    <2>1. Fresh(Reads(s)) /\ Fresh(Writes(s))
      BY <1>1, ManagerIsALock
    <2>2. Fresh(CreateSession(s))
      BY <1>2, <2>1, FreshConcatenated DEF CreateSession
    <2>3. /\ Fresh(GetStatement(s)) /\ Fresh(CancelStatement(s)) /\ Fresh(DeleteSession(s))
          /\ Fresh(Close(s)) /\ Fresh(RunStatement(s))
      BY <1>2, <2>1, FreshConcatenated
      DEF GetStatement, CancelStatement, DeleteSession, Close, RunStatement,
          GetSessionByIdentifier
    <2>4. Fresh(SubmitStatement(s))
      BY <1>2, <2>1, FreshConcatenated DEF SubmitStatement, GetSessionByIdentifier, GetState
    <2> QED BY <1>5, <2>2, <2>3, <2>4
  <1> QED
    BY <1>3, <1>4, <1>5 DEF Programs, HandlerPrograms

LEMMA VisitsAreFresh ==
  ASSUME NEW p \in Proc, NEW s \in Sess, NEW visit \in Visits(p, s)
  PROVE  Fresh(visit \o <<<<"Unlock", Manager>>>>)
  <1>1. Fresh(<<<<"Unlock", Manager>>>>)
    <2> DEFINE end == <<<<"Unlock", Manager>>>>
    <2>1. end \in Seq(Op) /\ Len(end) = 1 /\ end[1] = <<"Unlock", Manager>>
      BY ManagerIsALock DEF Op
    <2> HIDE DEF end
    <2>2. \A m \in Lock : Owed(end, 1, m) = 0 /\ Owed(end, 2, m) = 0 /\ Effect(end[1], m) = 0
      BY <2>1 DEF Owed, Effect
    <2>3. Fresh(end)
      BY <2>1, <2>2 DEF Fresh, Paid, PaidAt
    <2> QED BY <2>3 DEF end
  <1>2. Fresh(visit)
    <2>1. CASE visit = Writes(s) \/ visit = Reads(s)
      BY <2>1, FreshPairs, ManagerIsALock
    <2>2. CASE visit = ScansLiveSession(s)
      <3>1. /\ visit \in Seq(Op) /\ Len(visit) = 4
            /\ visit[1] = <<"RLock", s>> /\ visit[2] = <<"RLock", s>>
            /\ visit[3] = <<"RUnlock", s>> /\ visit[4] = <<"RUnlock", s>>
        BY <2>2, ManagerIsALock DEF ScansLiveSession, Op
      <3>2. ASSUME NEW m \in Lock
            PROVE  /\ Owed(visit, 1, m) = 0 /\ Owed(visit, 5, m) = 0
                   /\ m # s => \A i \in 1 .. 5 : Owed(visit, i, m) = 0
        BY <3>1 DEF Owed
      <3>3. Owed(visit, 2, s) = 1 /\ Owed(visit, 3, s) = 2 /\ Owed(visit, 4, s) = 1
        BY <3>1 DEF Owed
      <3>4. ASSUME NEW m \in Lock
            PROVE  /\ Effect(visit[1], m) = IF m = s THEN 1 ELSE 0
                   /\ Effect(visit[2], m) = IF m = s THEN 1 ELSE 0
                   /\ Effect(visit[3], m) = IF m = s THEN -1 ELSE 0
                   /\ Effect(visit[4], m) = IF m = s THEN -1 ELSE 0
        BY <3>1 DEF Effect
      <3>5. PaidAt(visit, 1) /\ PaidAt(visit, 2) /\ PaidAt(visit, 3) /\ PaidAt(visit, 4)
        BY <3>2, <3>3, <3>4 DEF PaidAt
      <3> QED BY <3>1, <3>2, <3>5 DEF Fresh, Paid
    <2> QED BY <2>1, <2>2 DEF Visits, CleanupScans, Close
  <1> QED BY <1>1, <1>2, FreshConcatenated

\* Doing the next operation leaves what is owed after it.
LEMMA PaidGoesOn ==
  ASSUME NEW r \in Seq(Op), r # <<>>, Paid(r), NEW l \in Lock, NEW n \in Int, n >= Owed(r, 1, l)
  PROVE  Paid(Tail(r)) /\ n + Effect(r[1], l) >= Owed(Tail(r), 1, l)
  <1> DEFINE t == Tail(r)
  <1>1. /\ t \in Seq(Op) /\ Len(t) = Len(r) - 1 /\ Len(r) \in Nat \ {0} /\ Len(t) \in Nat
        /\ \A i \in 1 .. Len(r) - 1 : t[i] = r[i + 1]
    BY TailFacts
  <1> HIDE DEF t
  <1>2. ASSUME NEW i \in 1 .. Len(t) + 1, NEW m \in Lock
        PROVE  Owed(t, i, m) = Owed(r, i + 1, m)
    <2>1. /\ i \in Nat /\ i + 1 \in Nat /\ Len(r) - (i + 1) = Len(t) - i
          /\ i + 1 <= Len(r) => t[i] = r[i + 1]
      BY <1>1
    <2>2. (i + 1) + 1 <= Len(r) => t[i + 1] = r[(i + 1) + 1]
      BY <1>1
    <2>3. (i + 1) + 2 <= Len(r) => t[i + 2] = r[(i + 1) + 2]
      <3> SUFFICES ASSUME (i + 1) + 2 <= Len(r) PROVE t[i + 2] = r[(i + 1) + 2]
        OBVIOUS
      <3>1. i + 2 \in 1 .. Len(r) - 1 /\ (i + 2) + 1 = (i + 1) + 2
        BY <1>1
      <3>2. t[i + 2] = r[(i + 2) + 1]
        BY <1>1, <3>1
      <3> QED BY <3>1, <3>2
    <2>4. GoesOnAs(t, i, r, i + 1)
      BY <1>1, <2>1, <2>2, <2>3 DEF GoesOnAs
    <2> QED BY <2>4, OwedAlike
  <1>3. ASSUME NEW i \in 1 .. Len(t), NEW m \in Lock
        PROVE  Owed(t, i + 1, m) <= Owed(t, i, m) + Effect(t[i], m)
    <2>1. /\ i \in 1 .. Len(t) + 1 /\ i + 1 \in 1 .. Len(t) + 1 /\ i + 1 \in 1 .. Len(r)
          /\ t[i] = r[i + 1]
      BY <1>1
    <2>2. Owed(t, i, m) = Owed(r, i + 1, m) /\ Owed(t, i + 1, m) = Owed(r, (i + 1) + 1, m)
      BY <1>2, <2>1
    <2>3. Owed(r, (i + 1) + 1, m) <= Owed(r, i + 1, m) + Effect(r[i + 1], m)
      BY <2>1 DEF Paid, PaidAt
    <2> QED BY <2>1, <2>2, <2>3
  <1>4. Paid(t)
    BY <1>3 DEF Paid, PaidAt
  <1>5. n + Effect(r[1], l) >= Owed(t, 1, l)
    <2>1. 1 \in 1 .. Len(r) /\ 1 \in 1 .. Len(t) + 1
      BY <1>1
    <2>2. Owed(r, 1 + 1, l) <= Owed(r, 1, l) + Effect(r[1], l)
      BY <2>1 DEF Paid, PaidAt
    <2>3. Owed(t, 1, l) = Owed(r, 1 + 1, l)
      BY <1>2, <2>1
    <2>4. Owed(r, 1, l) \in Int /\ Owed(r, 1 + 1, l) \in Int /\ Effect(r[1], l) \in Int
      <3>1. Owed(r, 1, l) \in 0 .. 2 /\ Owed(r, 1 + 1, l) \in 0 .. 2
        BY DEF Owed
      <3>2. Effect(r[1], l) \in Int
        BY EffectFacts
      <3> QED BY <3>1, <3>2
    <2> QED BY <2>2, <2>3, <2>4
  <1> QED BY <1>4, <1>5 DEF t

\* q does nothing, or what comes next for it.
Moves(q) ==
  \/ rest'[q] = rest[q] /\ \A l \in Lock : readers'[l][q] = readers[l][q]
  \/ /\ rest[q] # <<>> /\ rest'[q] = Tail(rest[q])
     /\ \A l \in Lock : readers'[l][q] = readers[l][q] + Effect(rest[q][1], l)

LEMMA MovesKeepOwed ==
  ASSUME LocksInv, OwedInv, NEW q \in Proc, Moves(q)
  PROVE  Paid(rest'[q]) /\ \A l \in Lock : readers'[l][q] >= Owed(rest'[q], 1, l)
  <1>1. /\ rest[q] \in Seq(Op) /\ Paid(rest[q])
        /\ \A l \in Lock : readers[l][q] \in Int /\ readers[l][q] >= Owed(rest[q], 1, l)
    BY DEF LocksInv, RestInv, ReaderInv, OwedInv
  <1>2. CASE rest'[q] = rest[q] /\ \A l \in Lock : readers'[l][q] = readers[l][q]
    BY <1>1, <1>2
  <1>3. CASE /\ rest[q] # <<>> /\ rest'[q] = Tail(rest[q])
             /\ \A l \in Lock : readers'[l][q] = readers[l][q] + Effect(rest[q][1], l)
    <2>1. \A l \in Lock : /\ Paid(Tail(rest[q]))
                          /\ readers[l][q] + Effect(rest[q][1], l) >= Owed(Tail(rest[q]), 1, l)
      BY <1>1, <1>3, PaidGoesOn
    <2> QED BY <1>3, <2>1, ManagerIsALock
  <1> QED BY <1>2, <1>3 DEF Moves

\* p takes something new on, while it is inside nothing that the new leaves.
LEMMA FreshKeepsOwed ==
  ASSUME LocksInv, OwedInv, NEW p \in Proc, NEW r, Fresh(r),
         rest' = [rest EXCEPT ![p] = r], readers' = readers
  PROVE  OwedInv'
  <1>1. \A q \in Proc : rest'[q] = IF q = p THEN r ELSE rest[q]
    BY DEF LocksInv, RestInv
  <1>2. \A l \in Lock : readers[l][p] \in Int /\ readers[l][p] >= 0
    <2> SUFFICES ASSUME NEW l \in Lock PROVE readers[l][p] \in Int /\ readers[l][p] >= 0
      OBVIOUS
    <2>1. readers[l][p] \in Int /\ readers[l][p] >= Owed(rest[p], 1, l)
      BY DEF LocksInv, ReaderInv, OwedInv
    <2>2. Owed(rest[p], 1, l) \in 0 .. 2
      BY DEF Owed
    <2> QED BY <2>1, <2>2
  <1>3. ASSUME NEW q \in Proc
        PROVE  Paid(rest'[q]) /\ \A l \in Lock : readers'[l][q] >= Owed(rest'[q], 1, l)
    <2>1. CASE q = p
      BY <1>1, <1>2, <2>1 DEF Fresh
    <2>2. CASE q # p
      BY <1>1, <2>2 DEF OwedInv
    <2> QED BY <2>1, <2>2
  <1> QED BY <1>3 DEF OwedInv

LEMMA NextEffect ==
  ASSUME NEW r \in Seq(Op), NEW op, NEW l \in Lock, IsNext(r, op, l)
  PROVE  /\ r # <<>>
         /\ op = "RLock"   => \A m \in Lock : Effect(r[1], m) = IF m = l THEN 1 ELSE 0
         /\ op = "RUnlock" => \A m \in Lock : Effect(r[1], m) = IF m = l THEN -1 ELSE 0
         /\ op \in {"Lock", "Unlock"} => \A m \in Lock : Effect(r[1], m) = 0
  <1>1. r # <<>> /\ r[1] = <<op, l>>
    BY DEF IsNext
  <1>2. \A m : r[1] = <<"RLock", m>> <=> op = "RLock" /\ m = l
    BY <1>1
  <1>3. \A m : r[1] = <<"RUnlock", m>> <=> op = "RUnlock" /\ m = l
    BY <1>1
  <1> QED BY <1>1, <1>2, <1>3 DEF Effect

\* Every operation is one of those that move.
\* q does what comes next for it, and that is inside l what it is for the mutex.
LEMMA MovesByEffect ==
  ASSUME NEW q \in Proc, NEW l, NEW e \in Int,
         rest[q] # <<>>, rest'[q] = Tail(rest[q]),
         \A m \in Lock : readers[m][q] \in Int,
         \A m \in Lock : Effect(rest[q][1], m) = IF m = l THEN e ELSE 0,
         \A m \in Lock : readers'[m][q] = IF m = l THEN readers[m][q] + e ELSE readers[m][q]
  PROVE  Moves(q)
  <1>1. ASSUME NEW m \in Lock
        PROVE  readers'[m][q] = readers[m][q] + Effect(rest[q][1], m)
    <2>1. CASE m = l
      BY <2>1
    <2>2. CASE m # l
      BY <2>2
    <2> QED BY <2>1, <2>2
  <1> QED BY <1>1 DEF Moves

LEMMA OperationsMove ==
  ASSUME LocksInv, NEW p \in Proc, NEW l \in Lock, NEW q \in Proc,
         RLock(p, l) \/ RUnlock(p, l) \/ Announce(p, l) \/ Enter(p, l) \/ Unlock(p, l)
  PROVE  Moves(q)
  <1>1. /\ rest \in [Proc -> Seq(Op)] /\ readers \in [Lock -> [Proc -> Int]]
        /\ \A m \in Lock : \A w \in waiting[m] : w \in Proc /\ IsNext(rest[w], "RLock", m)
    BY DEF LocksInv, RestInv, ReaderInv, WaitingInv
  <1>4. CASE RLock(p, l)
    <2>1. IsNext(rest[p], "RLock", l)
      BY <1>4, AtIsNext DEF RLock, LocksInv
    <2>2. CASE rest' = rest /\ readers' = readers
      BY <2>2 DEF Moves
    <2>3. CASE /\ readers' = [readers EXCEPT ![l][p] = @ + 1]
               /\ rest' = [rest EXCEPT ![p] = Tail(@)]
      <3>1. /\ rest'[q] = IF q = p THEN Tail(rest[q]) ELSE rest[q]
            /\ \A m \in Lock :
                 readers'[m][q] = IF m = l /\ q = p THEN readers[m][q] + 1 ELSE readers[m][q]
        BY <1>1, <2>3
      <3>2. rest[p] # <<>>
            /\ \A m \in Lock : Effect(rest[p][1], m) = IF m = l THEN 1 ELSE 0
        BY <1>1, <2>1, NextEffect
      <3>3. CASE q = p
        <4>1. /\ \A m \in Lock : readers[m][q] \in Int
              /\ \A m \in Lock :
                   readers'[m][q] = IF m = l THEN readers[m][q] + 1 ELSE readers[m][q]
          BY <1>1, <3>1, <3>3
        <4>2. rest'[q] = Tail(rest[q])
          BY <3>1, <3>3
        <4> QED BY <3>2, <3>3, <4>1, <4>2, MovesByEffect
      <3>4. CASE q # p
        BY <3>1, <3>4 DEF Moves
      <3> QED BY <3>3, <3>4
    <2> QED BY <1>4, <2>2, <2>3 DEF RLock
  <1>5. CASE RUnlock(p, l)
    <2>1. IsNext(rest[p], "RUnlock", l)
      BY <1>5, AtIsNext DEF RUnlock, LocksInv
    <2>2. /\ rest'[q] = IF q = p THEN Tail(rest[q]) ELSE rest[q]
          /\ \A m \in Lock :
               readers'[m][q] = IF m = l /\ q = p THEN readers[m][q] - 1 ELSE readers[m][q]
      BY <1>1, <1>5 DEF RUnlock
    <2>3. rest[p] # <<>>
          /\ \A m \in Lock : Effect(rest[p][1], m) = IF m = l THEN -1 ELSE 0
      BY <1>1, <2>1, NextEffect
    <2>4. CASE q = p
      <3>1. /\ \A m \in Lock : readers[m][q] \in Int
            /\ \A m \in Lock :
                 readers'[m][q] = IF m = l THEN readers[m][q] + (-1) ELSE readers[m][q]
        BY <1>1, <2>2, <2>4
      <3>2. rest'[q] = Tail(rest[q])
        BY <2>2, <2>4
      <3>3. -1 \in Int
        OBVIOUS
      <3>4. rest[q] # <<>> /\ \A m \in Lock : Effect(rest[q][1], m) = IF m = l THEN -1 ELSE 0
        BY <2>3, <2>4
      <3> QED BY <3>1, <3>2, <3>3, <3>4, MovesByEffect, Zenon
    <2>5. CASE q # p
      BY <2>2, <2>5 DEF Moves
    <2> QED BY <2>4, <2>5
  <1>6. CASE Announce(p, l)
    BY <1>6 DEF Announce, Moves
  <1>7. CASE Enter(p, l)
    <2>1. IsNext(rest[p], "Lock", l)
      BY <1>7, AtIsNext DEF Enter, LocksInv
    <2>2. /\ rest'[q] = IF q = p THEN Tail(rest[q]) ELSE rest[q]
          /\ readers' = readers
      BY <1>1, <1>7 DEF Enter
    <2>3. rest[p] # <<>> /\ \A m \in Lock : Effect(rest[p][1], m) = 0
      BY <1>1, <2>1, NextEffect
    <2> QED BY <1>1, <2>2, <2>3 DEF Moves
  <1>8. CASE Unlock(p, l)
    <2>1. IsNext(rest[p], "Unlock", l)
      BY <1>8, AtIsNext DEF Unlock, LocksInv
    <2>2. /\ rest'[q] = IF q = p \/ q \in waiting[l] THEN Tail(rest[q]) ELSE rest[q]
          /\ \A m \in Lock :
               readers'[m][q] = IF m = l /\ q \in waiting[l] THEN readers[m][q] + 1
                                ELSE readers[m][q]
      BY <1>1, <1>8 DEF Unlock
    <2>3. rest[p] # <<>> /\ \A m \in Lock : Effect(rest[p][1], m) = 0
      BY <1>1, <2>1, NextEffect
    <2>4. p \notin waiting[l]
      BY <1>1, <2>1 DEF IsNext
    <2>5. CASE q \in waiting[l]
      <3>1. rest[q] # <<>>
            /\ \A m \in Lock : Effect(rest[q][1], m) = IF m = l THEN 1 ELSE 0
        BY <1>1, <2>5, NextEffect
      <3>2. ASSUME NEW m \in Lock
            PROVE  readers'[m][q] = readers[m][q] + Effect(rest[q][1], m)
        <4>1. readers[m][q] \in Int
          BY <1>1
        <4>2. CASE m = l
          BY <4>1, <4>2, <2>2, <2>5, <3>1
        <4>3. CASE m # l
          BY <4>1, <4>3, <2>2, <2>5, <3>1
        <4> QED BY <4>2, <4>3
      <3> QED BY <2>2, <2>5, <3>1, <3>2 DEF Moves
    <2>6. CASE q = p
      BY <1>1, <2>2, <2>3, <2>4, <2>6 DEF Moves
    <2>7. CASE q # p /\ q \notin waiting[l]
      BY <2>2, <2>7 DEF Moves
    <2> QED BY <2>5, <2>6, <2>7
  <1> QED BY <1>4, <1>5, <1>6, <1>7, <1>8

LEMMA OwedInvInit == Init => OwedInv
  <1> SUFFICES ASSUME Init, NEW q \in Proc
               PROVE  Paid(rest[q]) /\ \A l \in Lock : readers[l][q] >= Owed(rest[q], 1, l)
    BY DEF OwedInv
  <1>1. rest[q] = <<>> /\ \A l \in Lock : readers[l][q] = 0
    BY DEF Init
  <1>2. Len(<<>>) = 0
    OBVIOUS
  <1> QED BY <1>1, <1>2 DEF Paid, Owed

LEMMA OwedInvStep == LocksInv /\ OwedInv /\ [Next]_vars => OwedInv'
  <1> SUFFICES ASSUME LocksInv, OwedInv, [Next]_vars PROVE OwedInv'
    OBVIOUS
  <1>1. ASSUME NEW p \in Proc, Start(p) PROVE OwedInv'
    BY <1>1, ProgramsAreFresh, FreshKeepsOwed DEF Start
  <1>2. ASSUME NEW p \in Proc, NEW s \in Sess, VisitSession(p, s) PROVE OwedInv'
    <2>1. PICK visit \in Visits(p, s) :
            rest' = [rest EXCEPT ![p] = visit \o <<<<"Unlock", Manager>>>>]
      BY <1>2 DEF VisitSession, LocksInv, RestInv
    <2>2. readers' = readers
      BY <1>2 DEF VisitSession
    <2> QED BY <2>1, <2>2, VisitsAreFresh, FreshKeepsOwed
  <1>3. ASSUME NEW p \in Proc, NEW l \in Lock,
               RLock(p, l) \/ RUnlock(p, l) \/ Announce(p, l) \/ Enter(p, l) \/ Unlock(p, l)
        PROVE  OwedInv'
    BY <1>3, OperationsMove, MovesKeepOwed DEF OwedInv
  <1>4. CASE UNCHANGED vars
    BY <1>4 DEF vars, OwedInv
  <1> QED BY <1>1, <1>2, <1>3, <1>4 DEF Next

\* No goroutine unlocks what it does not hold: the read locks of all are counted in
\* natural numbers, however many goroutines there are.  Go's mutex would end the process.
THEOREM LocksTypeCorrect == Spec => []TypeOK
  <1>1. LocksInv /\ OwedInv => TypeOK
    <2> SUFFICES ASSUME LocksInv, OwedInv PROVE TypeOK
      OBVIOUS
    <2>1. \A p \in Proc : \A i \in DOMAIN rest[p] : rest[p][i] \in Op
      BY DEF LocksInv, RestInv
    <2>2. readers \in [Lock -> [Proc -> Nat]]
      <3>1. ASSUME NEW l \in Lock, NEW q \in Proc PROVE readers[l][q] \in Nat
        <4>1. readers[l][q] \in Int /\ readers[l][q] >= Owed(rest[q], 1, l)
          BY DEF LocksInv, ReaderInv, OwedInv
        <4>2. Owed(rest[q], 1, l) \in 0 .. 2
          BY DEF Owed
        <4> QED BY <4>1, <4>2
      <3> QED BY <3>1 DEF LocksInv, ReaderInv
    <2> QED
      BY <2>1, <2>2 DEF LocksInv, RestInv, MutexTypes, WaitingInv, TypeOK, Op
  <1> QED BY <1>1, LocksInvariant, OwedInvInit, OwedInvStep, PTL DEF Spec

=============================================================================
