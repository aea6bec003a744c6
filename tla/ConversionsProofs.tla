--------------------------- MODULE ConversionsProofs ---------------------------
(***************************************************************************)
(* What a client reads from a value is what the cell holds, for the cells  *)
(* that survive and for no others: for integers of any width, decimals of  *)
(* any scale and whatever the lengths of second, minute, hour and day.     *)
(***************************************************************************)
EXTENDS Conversions, IntegersProofs, SequenceTheorems

\* What is put together piece by piece may be put together in any order.
LEMMA Joined ==
  ASSUME NEW a \in Seq(Int), NEW b \in Seq(Int), NEW c \in Seq(Int)
  PROVE  (a \o b) \o c = a \o (b \o c)
BY SMTT(30)

USE GoIntegersAssumption, ConversionsAssumption

-----------------------------------------------------------------------------
(* Division and overflow of machine integers.                              *)

\* Division of a natural number, towards zero or not.
LEMMA DivMod ==
  ASSUME NEW n \in Nat, NEW k \in Nat \ {0}
  PROVE  /\ Quo(n, k) \in Nat /\ Rem(n, k) \in 0 .. k - 1
         /\ n = k * Quo(n, k) + Rem(n, k)
<1>1. n \div k \in Nat /\ n % k \in 0 .. k - 1 /\ n = k * (n \div k) + (n % k)
  OBVIOUS
<1> QED
  BY <1>1 DEF Quo, Rem

\* A quotient is below a bound that the number is that many times below.
LEMMA QuoBelow ==
  ASSUME NEW a \in Nat \ {0}, NEW k \in Nat \ {0}, NEW n \in 0 .. a * k - 1
  PROVE  Quo(n, k) < a
<1> DEFINE q == Quo(n, k)
<1>1. q \in Nat /\ n >= k * q
  BY DivMod
<1> HIDE DEF q
<1>2. ASSUME q >= a PROVE FALSE
  <2>1. k * q >= k * a
    BY <1>1, <1>2
  <2> QED
    BY <1>1, <2>1
<1> QED
  BY <1>1, <1>2 DEF q

LEMMA UnitsArePositive ==
  Million \in Nat \ {0} /\ Hour \in Nat \ {0} /\ Day \in Nat \ {0}
BY DEF Million, Hour, Day

\* What fits is not wrapped.
LEMMA WrapFits ==
  ASSUME NEW max \in Nat, NEW n \in -max .. max
  PROVE  Wrap(n, max) = n
<1> DEFINE m == n + max + 1
<1>1. m \in 0 .. 2 * (max + 1) - 1 /\ 2 * (max + 1) \in Nat \ {0}
  OBVIOUS
<1>2. m % (2 * (max + 1)) = m
  BY <1>1
<1> QED
  BY <1>2 DEF Wrap

\* Every interval of months but the smallest int32 reads back.
THEOREM MonthsReadBack ==
  ASSUME NEW m \in -MaxInt32 .. MaxInt32
  PROVE  SaysMonths(FormatMonthInterval(m).parts, m)
<1> DEFINE months == IF m < 0 THEN Int32(-m) ELSE m
<1>1. months \in Nat /\ months = Magnitude(m)
  BY WrapFits DEF Int32, Magnitude
<1>2. FormatMonthInterval(m).parts
        = <<WrittenSign(m), Quo(months, 12), Rem(months, 12)>>
  BY DEF FormatMonthInterval, YearToMonth, Value
<1> HIDE DEF months
<1>3. /\ Quo(months, 12) \in Nat /\ Rem(months, 12) \in 0 .. 11
      /\ months = 12 * Quo(months, 12) + Rem(months, 12)
  <2>1. 12 \in Nat \ {0}
    OBVIOUS
  <2>2. /\ Quo(months, 12) \in Nat /\ Rem(months, 12) \in 0 .. 12 - 1
        /\ months = 12 * Quo(months, 12) + Rem(months, 12)
    BY <1>1, <2>1, DivMod
  <2> QED
    BY <2>2
<1>4. WrittenSign(m) * (12 * Quo(months, 12) + Rem(months, 12)) = m
  BY <1>1, <1>3 DEF Magnitude, WrittenSign
<1> QED
  BY <1>2, <1>3, <1>4 DEF SaysMonths

\* Division of a negative number gives what it gives for the positive one, negated.
LEMMA DivModOfNegative ==
  ASSUME NEW n \in Nat, NEW k \in Nat \ {0}
  PROVE  Quo(-n, k) = -Quo(n, k) /\ Rem(-n, k) = -Rem(n, k)
<1>1. Quo(-n, k) = -Quo(n, k)
  <2>1. CASE n = 0
    <3>1. 0 \div k = 0
      BY DivisionIsUnique
    <3> QED
      BY <2>1, <3>1 DEF Quo
  <2>2. CASE n > 0
    BY <2>2 DEF Quo
  <2> QED
    BY <2>1, <2>2
<1>2. Quo(n, k) \in Nat
  BY DivMod
<1> HIDE DEF Quo
<1>3. k * (-Quo(n, k)) = -(k * Quo(n, k)) /\ k * Quo(n, k) \in Int
  BY <1>2
<1> QED
  BY <1>1, <1>3 DEF Rem

\* The fields of a time of n seconds, as many hours as it takes.
LEMMA Clock ==
  ASSUME NEW n \in Nat
  PROVE  LET hours   == Quo(n, Hour)
             minutes == Quo(Rem(n, Hour), Sixty)
             seconds == Rem(Rem(n, Hour), Sixty)
         IN /\ hours \in Nat /\ minutes \in Nat /\ seconds \in Nat
            /\ minutes < Sixty /\ seconds < Sixty
            /\ hours * Hour + minutes * Sixty + seconds = n
            /\ hours < DayHours <=> n < Day
            /\ Rem(n, Sixty) = seconds
<1> USE UnitsArePositive
<1> DEFINE hours   == Quo(n, Hour)
           ofHour  == Rem(n, Hour)
           minutes == Quo(ofHour, Sixty)
           seconds == Rem(ofHour, Sixty)
<1>1. hours \in Nat /\ ofHour \in 0 .. Hour - 1 /\ n = Hour * hours + ofHour
  BY DivMod
<1>2. ofHour \in Nat /\ ofHour \in 0 .. Sixty * Sixty - 1
  BY <1>1 DEF Hour
<1>3. hours < DayHours <=> n < Day
  <2>1. ASSUME n < Day PROVE hours < DayHours
    <3>1. n \in 0 .. DayHours * Hour - 1
      BY <2>1 DEF Day
    <3> QED
      BY <3>1, QuoBelow
  <2>2. ASSUME hours < DayHours PROVE n < Day
    <3> HIDE DEF hours, ofHour
    <3>1. hours + 1 <= DayHours /\ Hour * (hours + 1) <= Hour * DayHours
      BY <1>1, <2>2
    <3>2. Hour * (hours + 1) = Hour * hours + Hour /\ Hour * DayHours = Day
      BY <1>1 DEF Day
    <3>3. Hour * hours \in Int
      BY <1>1
    <3> QED
      BY <1>1, <3>1, <3>2, <3>3
  <2> QED
    BY <2>1, <2>2
<1>4. minutes < Sixty
  <2> HIDE DEF ofHour
  <2> QED
    BY <1>2, QuoBelow
<1> HIDE DEF hours, ofHour
<1>5. minutes \in Nat /\ seconds \in 0 .. Sixty - 1 /\ ofHour = Sixty * minutes + seconds
  BY <1>2, DivMod
<1> HIDE DEF minutes, seconds
<1>6. hours * Hour + minutes * Sixty + seconds = n
  <2>1. hours * Hour = Hour * hours /\ minutes * Sixty = Sixty * minutes
    BY <1>1, <1>5
  <2> QED
    BY <2>1, <1>1, <1>5
<1>7. Rem(n, Sixty) = seconds
  <2>1. n = Sixty * (Sixty * hours + minutes) + seconds
    <3>1. Hour * hours = Sixty * (Sixty * hours)
      BY <1>1 DEF Hour
    <3>2. Sixty * (Sixty * hours + minutes) = Sixty * (Sixty * hours) + Sixty * minutes
      BY <1>1, <1>5
    <3> QED
      BY <3>1, <3>2, <1>1, <1>5
  <2>2. Sixty * hours + minutes \in Int
    BY <1>1, <1>5
  <2>3. n % Sixty = seconds
    BY <2>1, <2>2, <1>5, DivisionIsUnique
  <2>4. n = Sixty * (n \div Sixty) + (n % Sixty) /\ n \div Sixty \in Int
    BY Division
  <2> QED
    BY <2>3, <2>4 DEF Rem, Quo
<1> QED
  BY <1>1, <1>3, <1>4, <1>5, <1>6, <1>7 DEF hours, ofHour, minutes, seconds

\* The fields of no time but zero can be read with a sign turned.
LEMMA ClockOfNegative ==
  ASSUME NEW n \in Nat,
         Quo(-n, Hour) \in Nat, Quo(Rem(-n, Hour), Sixty) \in Nat, Rem(-n, Sixty) \in Nat
  PROVE  n = 0
<1> USE UnitsArePositive
<1> DEFINE hours   == Quo(n, Hour)
           ofHour  == Rem(n, Hour)
           minutes == Quo(ofHour, Sixty)
           seconds == Rem(n, Sixty)
<1>1. /\ hours \in Nat /\ minutes \in Nat /\ seconds \in Nat
      /\ hours * Hour + minutes * Sixty + seconds = n
  BY Clock
<1>2. ofHour \in Nat
  <2>1. ofHour \in 0 .. Hour - 1
    BY DivMod
  <2> QED
    BY <2>1
<1>3. Quo(-n, Hour) = -hours /\ Rem(-n, Hour) = -ofHour /\ Rem(-n, Sixty) = -seconds
  BY DivModOfNegative
<1>4. Quo(-ofHour, Sixty) = -minutes
  <2> HIDE DEF ofHour
  <2> QED
    BY <1>2, DivModOfNegative
<1>5. -hours \in Nat /\ -minutes \in Nat /\ -seconds \in Nat
  BY <1>3, <1>4
<1> HIDE DEF hours, ofHour, minutes, seconds
<1>6. hours = 0 /\ minutes = 0 /\ seconds = 0
  BY <1>1, <1>5
<1> QED
  BY <1>1, <1>6

-----------------------------------------------------------------------------
(* Intervals.                                                              *)

\* A duration of the smallest int64 is the only one with fields that are negative.
LEMMA MicrosFields ==
  ASSUME NEW d \in -MaxInt .. MaxInt
  PROVE  LET parts == FormatMicros(d).parts
         IN /\ \A i \in 2 .. 6 : parts[i] \in Nat
            /\ parts[3] < DayHours /\ parts[4] < Sixty /\ parts[5] < Sixty /\ parts[6] < Million
            /\ MicrosOf(parts) = d
<1> DEFINE sign    == WrittenSign(d)
           size    == IF d < 0 THEN Int64(-d) ELSE d
           seconds == Quo(size, Million)
           micros  == Rem(size, Million)
           days    == Quo(seconds, Day)
           ofDay   == Rem(seconds, Day)
           hours   == Quo(ofDay, Hour)
           minutes == Quo(Rem(ofDay, Hour), Sixty)
           rest    == Rem(Rem(ofDay, Hour), Sixty)
<1>1. size \in Nat /\ sign * size = d /\ sign \in {-1, 1}
  BY WrapFits DEF Int64, WrittenSign
<1>2. FormatMicros(d).parts
        = <<sign, days, hours, minutes, rest, IF micros > 0 THEN micros ELSE 0>>
  BY DEF FormatMicros, DayToSecond, Value
<1> HIDE DEF size, sign
<1> USE UnitsArePositive
<1>3. seconds \in Nat /\ micros \in 0 .. Million - 1 /\ size = Million * seconds + micros
  BY <1>1, DivMod
<1> HIDE DEF seconds, micros
<1>4. days \in Nat /\ ofDay \in 0 .. Day - 1 /\ seconds = Day * days + ofDay
  BY <1>3, DivMod
<1> HIDE DEF days, ofDay
<1>5. /\ hours \in Nat /\ minutes \in Nat /\ rest \in Nat
      /\ hours < DayHours /\ minutes < Sixty /\ rest < Sixty
      /\ hours * Hour + minutes * Sixty + rest = ofDay
  BY <1>4, Clock
<1> HIDE DEF hours, minutes, rest
<1> DEFINE whole == days * Day + hours * Hour + minutes * Sixty + rest
<1>6. whole = seconds
  <2>1. days * Day = Day * days /\ hours * Hour \in Int /\ minutes * Sixty \in Int
    BY <1>4, <1>5
  <2> QED
    BY <2>1, <1>4, <1>5
<1>7. sign * whole * Million + sign * micros = d
  <2> HIDE DEF whole
  <2>1. whole * Million = Million * seconds
    BY <1>3, <1>6
  <2>2. sign * whole * Million + sign * micros = sign * size
    BY <2>1, <1>1, <1>3, <1>6
  <2> QED
    BY <2>2, <1>1
<1> DEFINE parts == <<sign, days, hours, minutes, rest, micros>>
<1>8. FormatMicros(d).parts = parts
  BY <1>2, <1>3
<1>9. /\ parts[1] = sign /\ parts[2] = days /\ parts[3] = hours
      /\ parts[4] = minutes /\ parts[5] = rest /\ parts[6] = micros
  OBVIOUS
<1> HIDE DEF parts
<1>10. \A i \in 2 .. 6 : parts[i] \in Nat
  <2>1. \A i \in 2 .. 6 : i \in {2, 3, 4, 5, 6}
    OBVIOUS
  <2> QED
    BY <2>1, <1>3, <1>4, <1>5, <1>9
<1>11. MicrosOf(parts) = d
  BY <1>7, <1>9 DEF MicrosOf
<1> QED
  BY <1>3, <1>5, <1>8, <1>9, <1>10, <1>11

LEMMA SmallestMicrosFields ==
  ASSUME \A i \in 2 .. 6 : FormatMicros(-(MaxInt + 1)).parts[i] \in Nat
  PROVE  MicrosOf(FormatMicros(-(MaxInt + 1)).parts) = 0
<1> DEFINE n       == MaxInt + 1
           seconds == Quo(n, Million)
           micros  == Rem(n, Million)
           days    == Quo(seconds, Day)
           ofDay   == Rem(seconds, Day)
<1> USE UnitsArePositive
<1>1. Int64(n) = -n /\ n \in Nat \ {0}
  <2>1. 2 * (MaxInt + 1) \in Nat \ {0}
    OBVIOUS
  <2>2. (MaxInt + 1 + MaxInt + 1) % (2 * (MaxInt + 1)) = 0
    <3>1. MaxInt + 1 + MaxInt + 1 = (2 * (MaxInt + 1)) * 1 + 0
      OBVIOUS
    <3> QED
      BY <2>1, <3>1, DivisionIsUnique
  <2> QED
    BY <2>2 DEF Int64, Wrap
<1>2. -(-n) = n /\ -n < 0
  BY <1>1
<1> HIDE DEF n
<1>3. FormatMicros(-n).parts
        = <<-1, Quo(Quo(-n, Million), Day), Quo(Rem(Quo(-n, Million), Day), Hour),
            Quo(Rem(Rem(Quo(-n, Million), Day), Hour), Sixty),
            Rem(Rem(Rem(Quo(-n, Million), Day), Hour), Sixty),
            IF Rem(-n, Million) > 0 THEN Rem(-n, Million) ELSE 0>>
  BY <1>1, <1>2 DEF FormatMicros, DayToSecond, Value, WrittenSign
<1>4. /\ seconds \in Nat /\ micros \in 0 .. Million - 1
      /\ Quo(-n, Million) = -seconds /\ Rem(-n, Million) = -micros
  BY <1>1, DivMod, DivModOfNegative
<1> HIDE DEF seconds, micros
<1>5. /\ days \in Nat /\ ofDay \in 0 .. Day - 1 /\ seconds = Day * days + ofDay
      /\ Quo(-seconds, Day) = -days /\ Rem(-seconds, Day) = -ofDay
  BY <1>4, DivMod, DivModOfNegative
<1>6. ofDay \in Nat
  BY <1>5
<1> HIDE DEF days, ofDay
<1> DEFINE hours   == Quo(-ofDay, Hour)
           minutes == Quo(Rem(-ofDay, Hour), Sixty)
           rest    == Rem(Rem(-ofDay, Hour), Sixty)
           parts   == <<-1, -days, hours, minutes, rest, 0>>
<1>7. FormatMicros(-n).parts = parts
  BY <1>3, <1>4, <1>5
<1>8. /\ parts[1] = -1 /\ parts[2] = -days /\ parts[3] = hours
      /\ parts[4] = minutes /\ parts[5] = rest /\ parts[6] = 0
  OBVIOUS
<1> HIDE DEF parts
<1>9. -days \in Nat /\ hours \in Nat /\ minutes \in Nat /\ rest \in Nat
  <2>1. \A i \in 2 .. 6 : parts[i] \in Nat
    BY <1>7 DEF n
  <2>2. 2 \in 2 .. 6 /\ 3 \in 2 .. 6 /\ 4 \in 2 .. 6 /\ 5 \in 2 .. 6
    OBVIOUS
  <2> HIDE DEF hours, minutes, rest
  <2> QED
    BY <2>1, <2>2, <1>8
<1>10. days = 0
  BY <1>5, <1>9
<1>11. hours = 0 /\ minutes = 0 /\ rest = 0
  <2>1. /\ Quo(ofDay, Hour) \in Nat /\ Quo(Rem(ofDay, Hour), Sixty) \in Nat
        /\ Rem(Rem(ofDay, Hour), Sixty) \in Nat
    BY <1>6, Clock
  <2>2. hours = -Quo(ofDay, Hour) /\ Rem(-ofDay, Hour) = -Rem(ofDay, Hour)
    BY <1>6, DivModOfNegative
  <2>3. Rem(ofDay, Hour) \in 0 .. Hour - 1
    BY <1>6, DivMod
  <2>4. minutes = -Quo(Rem(ofDay, Hour), Sixty) /\ rest = -Rem(Rem(ofDay, Hour), Sixty)
    <3> HIDE DEF hours
    <3>1. PICK m \in Nat : m = Rem(ofDay, Hour)
      BY <2>3
    <3>2. Quo(-m, Sixty) = -Quo(m, Sixty) /\ Rem(-m, Sixty) = -Rem(m, Sixty)
      BY DivModOfNegative
    <3> QED
      BY <2>2, <3>1, <3>2
  <2> HIDE DEF hours, minutes, rest
  <2> QED
    BY <2>1, <2>2, <2>4, <1>9
<1> HIDE DEF hours, minutes, rest
<1>12. MicrosOf(parts) = 0
  BY <1>8, <1>10, <1>11 DEF MicrosOf
<1> QED
  BY <1>7, <1>12 DEF n

\* A duration in microseconds reads back but for the smallest int64, and is read as
\* nothing else.
LEMMA MicrosSaid ==
  ASSUME NEW d \in -(MaxInt + 1) .. MaxInt, NEW n \in Int, n = 0 => d = 0
  PROVE  SaysMicros(FormatMicros(d).parts, 0, n) <=> d >= -MaxInt /\ d = n
<1>1. 0 * Day * Million + n = n
  BY UnitsArePositive
<1>2. CASE d >= -MaxInt
  <2>1. d \in -MaxInt .. MaxInt
    BY <1>2
  <2> QED
    BY <1>1, <1>2, <2>1, MicrosFields DEF SaysMicros
<1>3. CASE d < -MaxInt
  <2>1. d = -(MaxInt + 1)
    BY <1>3
  <2>2. n # 0
    BY <2>1
  <2>3. SaysMicros(FormatMicros(d).parts, 0, n) => n = 0
    BY <1>1, <2>1, SmallestMicrosFields DEF SaysMicros
  <2> QED
    BY <1>3, <2>2, <2>3
<1> QED
  BY <1>2, <1>3

\* Every duration in microseconds but the smallest int64 reads back, each field
\* within its range.
THEOREM MicrosReadBack ==
  ASSUME NEW d \in -MaxInt .. MaxInt
  PROVE  SaysMicros(FormatMicros(d).parts, 0, d)
<1>1. d \in -(MaxInt + 1) .. MaxInt /\ d \in Int /\ d >= -MaxInt
  OBVIOUS
<1> QED
  BY <1>1, MicrosSaid

\* Days and milliseconds read back if there are none of the latter, or less than a day
\* of them and none negative.
LEMMA DayTimeSaid ==
  ASSUME NEW days \in Int, NEW millis \in Int
  PROVE  SaysMicros(FormatDayTime(days, millis).parts, days, millis * Thousand)
           <=> millis = 0 \/ (days >= 0 /\ millis \in 1 .. Day * Thousand - 1)
<1> USE UnitsArePositive
<1> DEFINE sign    == WrittenSign(days)
           seconds == Quo(millis, Thousand)
           rest    == Rem(millis, Thousand)
           hours   == Quo(seconds, Hour)
           minutes == Quo(Rem(seconds, Hour), Sixty)
           secs    == Rem(seconds, Sixty)
           micros  == IF rest > 0 THEN rest * Thousand ELSE 0
           parts   == <<sign, Magnitude(days), hours, minutes, secs, micros>>
<1>1. FormatDayTime(days, millis).parts = parts
  BY DEF FormatDayTime, DayToSecond, Value
<1>2. /\ parts[1] = sign /\ parts[2] = Magnitude(days) /\ parts[3] = hours
      /\ parts[4] = minutes /\ parts[5] = secs /\ parts[6] = micros
  OBVIOUS
<1>3. /\ sign \in {-1, 1} /\ Magnitude(days) \in Nat /\ sign * Magnitude(days) = days
      /\ sign = 1 <=> days >= 0
  BY DEF WrittenSign, Magnitude
<1> DEFINE InRange == /\ hours \in Nat /\ minutes \in Nat /\ secs \in Nat /\ micros \in Nat
                      /\ hours < DayHours /\ minutes < Sixty /\ secs < Sixty /\ micros < Million
<1>4. InRange <=> /\ \A i \in 2 .. 6 : parts[i] \in Nat
                  /\ parts[3] < DayHours /\ parts[4] < Sixty
                  /\ parts[5] < Sixty /\ parts[6] < Million
  <2> HIDE DEF parts, hours, minutes, secs, micros, sign
  <2>1. (\A i \in 2 .. 6 : parts[i] \in Nat)
          <=> /\ parts[2] \in Nat /\ parts[3] \in Nat /\ parts[4] \in Nat
              /\ parts[5] \in Nat /\ parts[6] \in Nat
    <3>1. \A i : i \in 2 .. 6 <=> i \in {2, 3, 4, 5, 6}
      OBVIOUS
    <3> QED
      BY <3>1
  <2> QED
    BY <2>1, <1>2, <1>3
<1> DEFINE clock == hours * Hour + minutes * Sixty + secs
<1>5. MicrosOf(parts) = sign * (Magnitude(days) * Day + clock) * Million + sign * micros
  <2> HIDE DEF parts, hours, minutes, secs, micros, sign
  <2>1. hours \in Int /\ minutes \in Int /\ secs \in Int =>
          Magnitude(days) * Day + hours * Hour + minutes * Sixty + secs
            = Magnitude(days) * Day + clock
    BY <1>3
  <2>2. hours \in Int /\ minutes \in Int /\ secs \in Int
    <3>1. seconds \in Int
      BY Division DEF Quo
    <3> HIDE DEF seconds
    <3>2. Rem(seconds, Hour) \in Int
      BY <3>1, Division DEF Rem, Quo
    <3> QED
      BY <3>1, <3>2, Division DEF hours, minutes, secs, Rem, Quo
  <2> QED
    BY <2>1, <2>2, <1>2 DEF MicrosOf
<1>6. InRange /\ MicrosOf(parts) = days * Day * Million + millis * Thousand
        <=> SaysMicros(parts, days, millis * Thousand)
  BY <1>4 DEF SaysMicros
<1> HIDE DEF parts
<1>7. CASE millis >= 0
  <2>1. /\ seconds \in Nat /\ rest \in 0 .. Thousand - 1 /\ millis = Thousand * seconds + rest
        /\ millis \in Nat
    BY <1>7, DivMod
  <2> HIDE DEF seconds, rest
  <2>2. /\ hours \in Nat /\ minutes \in Nat /\ secs \in Nat
        /\ minutes < Sixty /\ secs < Sixty
        /\ clock = seconds
        /\ hours < DayHours <=> seconds < Day
    BY <2>1, Clock
  <2> HIDE DEF hours, minutes, secs, clock
  <2>3. micros = rest * Thousand /\ micros \in 0 .. Million - 1
    <3>1. rest * Thousand \in Nat /\ rest * Thousand <= (Thousand - 1) * Thousand
      BY <2>1
    <3>2. (Thousand - 1) * Thousand = Million - Thousand
      BY DEF Million
    <3> QED
      BY <2>1, <3>1, <3>2
  <2> HIDE DEF micros
  <2>4. InRange <=> seconds < Day
    BY <2>2, <2>3
  <2>5. seconds < Day <=> millis < Day * Thousand
    <3>1. ASSUME seconds < Day PROVE millis < Day * Thousand
      <4>1. seconds + 1 <= Day /\ Thousand * (seconds + 1) <= Thousand * Day
        BY <2>1, <3>1
      <4>2. Thousand * (seconds + 1) = Thousand * seconds + Thousand
        BY <2>1
      <4>3. Thousand * Day = Day * Thousand /\ Thousand * seconds \in Int
        BY <2>1
      <4> QED
        BY <2>1, <4>1, <4>2, <4>3
    <3>2. ASSUME seconds >= Day PROVE millis >= Day * Thousand
      <4>1. Thousand * seconds >= Thousand * Day
        BY <2>1, <3>2
      <4>2. Thousand * Day = Day * Thousand /\ Thousand * seconds \in Int
        BY <2>1
      <4> QED
        BY <2>1, <4>1, <4>2
    <3>3. Day * Thousand \in Int
      OBVIOUS
    <3> QED
      BY <2>1, <3>1, <3>2, <3>3
  <2>6. MicrosOf(parts) = days * Day * Million + sign * (millis * Thousand)
    <3>1. seconds * Million + micros = millis * Thousand
      <4>1. millis * Thousand = (Thousand * seconds) * Thousand + rest * Thousand
        BY <2>1
      <4>2. (Thousand * seconds) * Thousand = seconds * Million
        BY <2>1 DEF Million
      <4> QED
        BY <2>3, <4>1, <4>2
    <3>2. sign * (Magnitude(days) * Day + seconds) * Million
            = days * Day * Million + sign * (seconds * Million)
      <4>1. sign * (Magnitude(days) * Day + seconds)
              = (sign * Magnitude(days)) * Day + sign * seconds
        BY <1>3, <2>1
      <4>2. sign * (Magnitude(days) * Day + seconds) = days * Day + sign * seconds
        BY <4>1, <1>3
      <4>3. (days * Day + sign * seconds) * Million
              = days * Day * Million + sign * (seconds * Million)
        BY <1>3, <2>1
      <4> QED
        BY <4>2, <4>3
    <3>3. sign * (seconds * Million) + sign * micros = sign * (seconds * Million + micros)
      BY <1>3, <2>1, <2>3
    <3>4. days * Day * Million \in Int /\ seconds * Million \in Int
      BY <2>1
    <3>5. MicrosOf(parts) = days * Day * Million + sign * (seconds * Million) + sign * micros
      BY <1>5, <2>2, <3>2
    <3> QED
      BY <1>3, <2>3, <3>1, <3>3, <3>4, <3>5
  <2>7. MicrosOf(parts) = days * Day * Million + millis * Thousand <=> millis = 0 \/ days >= 0
    <3>1. days * Day * Million \in Int /\ millis * Thousand \in Nat
      BY <2>1
    <3>2. millis * Thousand = 0 <=> millis = 0
      BY <2>1
    <3> QED
      BY <1>3, <2>6, <3>1, <3>2
  <2>8. Day * Thousand \in Nat \ {0}
    OBVIOUS
  <2> HIDE DEF InRange
  <2> QED
    BY <1>1, <1>6, <2>1, <2>4, <2>5, <2>7, <2>8
<1>8. CASE millis < 0
  <2> SUFFICES ASSUME SaysMicros(parts, days, millis * Thousand) PROVE FALSE
    BY <1>1, <1>8
  <2> DEFINE n == -millis
             s == Quo(n, Thousand)
             r == Rem(n, Thousand)
  <2>1. n \in Nat \ {0} /\ millis = -n
    BY <1>8
  <2> HIDE DEF n
  <2>2. /\ s \in Nat /\ r \in 0 .. Thousand - 1 /\ n = Thousand * s + r
        /\ seconds = -s /\ rest = -r
    BY <2>1, DivMod, DivModOfNegative
  <2> HIDE DEF s, r, seconds, rest
  <2>3. micros = 0
    BY <2>2
  <2>4. Quo(-s, Hour) \in Nat /\ Quo(Rem(-s, Hour), Sixty) \in Nat /\ Rem(-s, Sixty) \in Nat
    BY <1>6, <2>2
  <2>5. s = 0
    BY <2>2, <2>4, ClockOfNegative
  <2>6. clock = 0
    <3>1. /\ Quo(0, Hour) * Hour + Quo(Rem(0, Hour), Sixty) * Sixty + Rem(Rem(0, Hour), Sixty) = 0
          /\ Rem(0, Sixty) = Rem(Rem(0, Hour), Sixty)
      BY Clock
    <3>2. seconds = 0
      <4>1. seconds \in Int /\ seconds + s = 0
        BY <2>2
      <4> QED
        BY <4>1, <2>5
    <3> QED
      BY <3>1, <3>2
  <2> HIDE DEF clock, micros, InRange
  <2>7. MicrosOf(parts) = days * Day * Million
    <3>1. MicrosOf(parts) = sign * (Magnitude(days) * Day) * Million
      BY <1>3, <1>5, <2>3, <2>6
    <3>2. sign * (Magnitude(days) * Day) = (sign * Magnitude(days)) * Day
      BY <1>3
    <3> QED
      BY <1>3, <3>1, <3>2
  <2>8. millis * Thousand = 0
    <3>1. days * Day * Million \in Int /\ millis * Thousand \in Int
      OBVIOUS
    <3>2. MicrosOf(parts) = days * Day * Million + millis * Thousand
      BY <1>6
    <3> QED
      BY <2>7, <3>1, <3>2
  <2> QED
    BY <2>8, <1>8
<1> QED
  BY <1>7, <1>8

\* The smallest int32 is the only interval of months that does not read back.
LEMMA MonthsSaid ==
  ASSUME NEW m \in -(MaxInt32 + 1) .. MaxInt32
  PROVE  SaysMonths(FormatMonthInterval(m).parts, m) <=> m >= -MaxInt32
<1>1. CASE m >= -MaxInt32
  <2>1. m \in -MaxInt32 .. MaxInt32
    BY <1>1
  <2> QED
    BY <1>1, <2>1, MonthsReadBack
<1>2. CASE m < -MaxInt32
  <2> DEFINE n == MaxInt32 + 1
  <2>1. m = -n /\ n \in Nat \ {0} /\ -m = n
    BY <1>2
  <2>2. Int32(n) = -n
    <3>1. 2 * (MaxInt32 + 1) \in Nat \ {0}
      OBVIOUS
    <3>2. (MaxInt32 + 1 + MaxInt32 + 1) % (2 * (MaxInt32 + 1)) = 0
      <4>1. MaxInt32 + 1 + MaxInt32 + 1 = (2 * (MaxInt32 + 1)) * 1 + 0
        OBVIOUS
      <4> QED
        BY <3>1, <4>1, DivisionIsUnique
    <3> QED
      BY <3>2 DEF Int32, Wrap
  <2> HIDE DEF n
  <2>3. FormatMonthInterval(m).parts = <<-1, Quo(-n, 12), Rem(-n, 12)>>
    BY <1>2, <2>1, <2>2 DEF FormatMonthInterval, YearToMonth, WrittenSign, Value
  <2>4. /\ Quo(n, 12) \in Nat /\ Rem(n, 12) \in Nat /\ n = 12 * Quo(n, 12) + Rem(n, 12)
        /\ Quo(-n, 12) = -Quo(n, 12) /\ Rem(-n, 12) = -Rem(n, 12)
    <3>1. 12 \in Nat \ {0}
      OBVIOUS
    <3>2. /\ Quo(n, 12) \in Nat /\ Rem(n, 12) \in 0 .. 12 - 1
          /\ n = 12 * Quo(n, 12) + Rem(n, 12)
      BY <2>1, <3>1, DivMod
    <3>3. Quo(-n, 12) = -Quo(n, 12) /\ Rem(-n, 12) = -Rem(n, 12)
      BY <2>1, <3>1, DivModOfNegative
    <3> QED
      BY <3>2, <3>3
  <2>5. ASSUME SaysMonths(FormatMonthInterval(m).parts, m) PROVE FALSE
    <3>1. Quo(-n, 12) \in Nat /\ Rem(-n, 12) \in 0 .. 11
      BY <2>3, <2>5 DEF SaysMonths
    <3> QED
      BY <2>1, <2>4, <3>1
  <2> QED
    BY <1>2, <2>5
<1> QED
  BY <1>1, <1>2

\* What does not fit is wrapped to something else.
LEMMA Wrapped ==
  ASSUME NEW n \in Int
  PROVE  /\ Int64(n) \in -(MaxInt + 1) .. MaxInt
         /\ Int64(n) >= -MaxInt /\ Int64(n) = n <=> Magnitude(n) <= MaxInt
         /\ n = 0 => Int64(n) = 0
<1>1. Int64(n) \in -(MaxInt + 1) .. MaxInt
  <2> DEFINE k == 2 * (MaxInt + 1)
  <2>1. k \in Nat \ {0} /\ n + MaxInt + 1 \in Int
    OBVIOUS
  <2>2. (n + MaxInt + 1) % k \in 0 .. k - 1
    <3> HIDE DEF k
    <3> QED
      BY <2>1, Division
  <2> QED
    BY <2>2 DEF Int64, Wrap
<1>2. ASSUME n \in -MaxInt .. MaxInt PROVE Int64(n) = n
  BY <1>2, WrapFits DEF Int64
<1>3. Magnitude(n) <= MaxInt <=> n \in -MaxInt .. MaxInt
  BY DEF Magnitude
<1> QED
  BY <1>1, <1>2, <1>3

LEMMA DurationSaid ==
  ASSUME NEW d \in -(MaxInt + 1) .. MaxInt
  PROVE  /\ SaysMicros(FormatDuration(d, Second).parts, 0, d * Million)
              <=> Magnitude(d * Million) <= MaxInt
         /\ SaysMicros(FormatDuration(d, Millisecond).parts, 0, d * Thousand)
              <=> Magnitude(d * Thousand) <= MaxInt
         /\ SaysMicros(FormatDuration(d, Microsecond).parts, 0, d) <=> d >= -MaxInt
         /\ d % Thousand = 0 =>
              SaysMicros(FormatDuration(d, Nanosecond).parts, 0, d \div Thousand)
<1> USE UnitsArePositive DEF FormatDuration, InMicroseconds, Second, Millisecond, Microsecond,
                             Nanosecond
<1>1. \A n \in Int : SaysMicros(FormatMicros(Int64(n)).parts, 0, n) <=> Magnitude(n) <= MaxInt
  BY Wrapped, MicrosSaid
<1>2. SaysMicros(FormatDuration(d, Second).parts, 0, d * Million)
        <=> Magnitude(d * Million) <= MaxInt
  <2>1. d * Million \in Int
    OBVIOUS
  <2> QED
    BY <1>1, <2>1
<1>3. SaysMicros(FormatDuration(d, Millisecond).parts, 0, d * Thousand)
        <=> Magnitude(d * Thousand) <= MaxInt
  <2>1. d * Thousand \in Int
    OBVIOUS
  <2> QED
    BY <1>1, <2>1
<1>4. SaysMicros(FormatDuration(d, Microsecond).parts, 0, d) <=> d >= -MaxInt
  <2>1. d \in Int
    OBVIOUS
  <2> QED
    BY <2>1, MicrosSaid
<1>5. ASSUME d % Thousand = 0
      PROVE  SaysMicros(FormatDuration(d, Nanosecond).parts, 0, d \div Thousand)
  <2> DEFINE q == d \div Thousand
  <2>1. q \in Int /\ d = Thousand * q
    BY <1>5, Division
  <2>2. Quo(d, Thousand) = q
    <3>1. CASE d >= 0
      BY <3>1 DEF Quo
    <3>2. CASE d < 0
      <4>1. -q \in Int /\ -d = Thousand * (-q) + 0
        <5> HIDE DEF q
        <5> QED
          BY <2>1
      <4>2. (-d) \div Thousand = -q
        <5> HIDE DEF q
        <5>1. 0 \in 0 .. Thousand - 1
          OBVIOUS
        <5> QED
          BY <4>1, <5>1, DivisionIsUnique
      <4> QED
        BY <3>2, <4>2, <2>1 DEF Quo
    <3> QED
      BY <3>1, <3>2
  <2> HIDE DEF q
  <2>3. q \in -MaxInt .. MaxInt
    <3>1. q >= 0 => 2 * q <= Thousand * q
      BY <2>1
    <3>2. q <= 0 => Thousand * q <= 2 * q
      BY <2>1
    <3> QED
      BY <2>1, <3>1, <3>2
  <2>4. FormatDuration(d, Nanosecond) = FormatMicros(q)
    BY <2>2
  <2> QED
    BY <2>3, <2>4, MicrosReadBack DEF q
<1> QED
  BY <1>2, <1>3, <1>4, <1>5

-----------------------------------------------------------------------------
(* Numbers in collections.                                                 *)

LEMMA SpacingIsPositive ==
  ASSUME NEW n \in Int
  PROVE  Spacing(n) \in Nat \ {0}
<1> DEFINE Enough(k) == Magnitude(n) <= Power(2, k) * Mantissa
           Good(k)   == Enough(k) /\ (k = 0 \/ Magnitude(n) > Power(2, k - 1) * Mantissa)
           least     == CHOOSE k \in 0 .. Magnitude(n) : Good(k)
<1>1. Magnitude(n) \in Nat
  BY DEF Magnitude
<1>2. Enough(Magnitude(n))
  <2>1. Power(2, Magnitude(n)) \in Nat /\ Power(2, Magnitude(n)) > Magnitude(n)
    BY <1>1, PowerStep, PowerExceeds
  <2>2. Power(2, Magnitude(n)) * Mantissa >= Power(2, Magnitude(n))
    BY <2>1
  <2> QED
    BY <1>1, <2>1, <2>2
<1>3. \A k \in Nat : Power(2, k) * Mantissa \in Nat
  BY PowerStep
<1>4. \E k \in 0 .. Magnitude(n) : Good(k)
  <2>1. SUFFICES ASSUME \A k \in 0 .. Magnitude(n) : ~Good(k) PROVE FALSE
    OBVIOUS
  <2> DEFINE T == {k \in Nat : k <= Magnitude(n) => ~Enough(k)}
  <2>2. 0 \in T
    BY <1>1, <2>1
  <2>3. ASSUME NEW k \in Nat, k \in T PROVE k + 1 \in T
    <3> SUFFICES ASSUME k + 1 <= Magnitude(n), Enough(k + 1) PROVE FALSE
      OBVIOUS
    <3>1. ~Enough(k)
      BY <1>1, <2>3
    <3>2. (k + 1) - 1 = k /\ k + 1 \in 0 .. Magnitude(n)
      BY <1>1
    <3>3. Magnitude(n) > Power(2, k) * Mantissa
      BY <1>1, <1>3, <3>1
    <3>4. Good(k + 1)
      BY <3>2, <3>3
    <3> QED
      BY <2>1, <3>2, <3>4
  <2> HIDE DEF T
  <2>4. Nat \subseteq T
    BY <2>2, <2>3, SetInduction
  <2> QED
    BY <1>1, <1>2, <2>4 DEF T
<1>5. least \in 0 .. Magnitude(n)
  <2> HIDE DEF Good
  <2> QED
    BY <1>4
<1>6. Spacing(n) = Power(2, least)
  BY DEF Spacing
<1> HIDE DEF least
<1>7. least \in Nat /\ 2 \in Nat \ {0}
  BY <1>1, <1>5
<1> QED
  BY <1>6, <1>7, PowerIsPositive

\* A number is kept if it is one of those that are spaced out there.
LEMMA Float64Keeps ==
  ASSUME NEW n \in Int
  PROVE  Float64(n) = n <=> n % Spacing(n) = 0
<1> DEFINE gap   == Spacing(n)
           below == n \div gap
           rest  == n % gap
<1>1. gap \in Nat \ {0}
  BY SpacingIsPositive
<1> HIDE DEF gap
<1>2. below \in Int /\ rest \in 0 .. gap - 1 /\ n = gap * below + rest
  BY <1>1, Division
<1>3. Float64(n) = IF 2 * rest < gap \/ (2 * rest = gap /\ below % 2 = 0) THEN below * gap
                   ELSE (below + 1) * gap
  BY DEF Float64, gap
<1> HIDE DEF below, rest
<1>4. below * gap = gap * below /\ (below + 1) * gap = gap * below + gap /\ gap * below \in Int
  BY <1>1, <1>2
<1>5. rest = 0 => 2 * rest < gap
  BY <1>1, <1>2
<1>6. Float64(n) = n <=> rest = 0
  BY <1>1, <1>2, <1>3, <1>4, <1>5
<1> QED
  BY <1>6 DEF rest, gap

-----------------------------------------------------------------------------
(* Decimals.                                                               *)

LEMMA TenFacts ==
  /\ Ten(0) = 1
  /\ \A k \in Nat : Ten(k) \in Nat \ {0} /\ Ten(k) > k /\ Ten(k + 1) = 10 * Ten(k)
<1>1. 10 \in Nat \ {0, 1} /\ 10 \in Nat \ {0} /\ 10 \in Nat
  OBVIOUS
<1>2. Ten(0) = 1 /\ \A k \in Nat : Ten(k + 1) = 10 * Ten(k)
  BY <1>1, PowerStep DEF Ten
<1>3. \A k \in Nat : Ten(k) \in Nat \ {0} /\ Ten(k) > k
  BY <1>1, PowerIsPositive, PowerExceeds DEF Ten
<1> QED
  BY <1>2, <1>3

LEMMA TenSum ==
  ASSUME NEW j \in Nat, NEW k \in Nat
  PROVE  Ten(j + k) = Ten(j) * Ten(k)
BY PowerSum DEF Ten

LEMMA TenGrows ==
  ASSUME NEW j \in Nat, NEW k \in Nat, j <= k
  PROVE  Ten(j) <= Ten(k)
<1>1. 10 \in Nat \ {0}
  OBVIOUS
<1> QED
  BY <1>1, PowerIsMonotonic DEF Ten

\* w is as many digits as n needs.
IsWidth(n, w) == Ten(w) > n /\ (w = 1 \/ Ten(w - 1) <= n)

LEMMA WidthFacts ==
  ASSUME NEW n \in Nat
  PROVE  Width(n) \in Nat \ {0} /\ IsWidth(n, Width(n))
<1>1. \E w \in 1 .. n + 1 : IsWidth(n, w)
  <2> SUFFICES ASSUME \A w \in 1 .. n + 1 : ~IsWidth(n, w) PROVE FALSE
    OBVIOUS
  <2> DEFINE T == {k \in Nat : k <= n => ~(Ten(k + 1) > n)}
  <2>1. 0 \in T
    BY DEF IsWidth
  <2>2. ASSUME NEW k \in Nat, k \in T PROVE k + 1 \in T
    <3> SUFFICES ASSUME k + 1 <= n PROVE ~(Ten((k + 1) + 1) > n)
      OBVIOUS
    <3>1. ~(Ten(k + 1) > n) /\ k + 1 \in Nat
      BY <2>2
    <3>2. Ten(k + 1) <= n
      BY <3>1, TenFacts
    <3>3. (k + 1) + 1 \in 1 .. n + 1 /\ ((k + 1) + 1) - 1 = k + 1
      OBVIOUS
    <3> QED
      BY <3>2, <3>3 DEF IsWidth
  <2> HIDE DEF T
  <2>3. Nat \subseteq T
    BY <2>1, <2>2, SetInduction
  <2>4. ~(Ten(n + 1) > n)
    BY <2>3 DEF T
  <2>5. Ten(n + 1) \in Nat /\ Ten(n + 1) > n + 1
    <3>1. n + 1 \in Nat
      OBVIOUS
    <3> QED
      BY <3>1, TenFacts
  <2> QED
    BY <2>4, <2>5
<1>2. Width(n) = CHOOSE w \in 1 .. n + 1 : IsWidth(n, w)
  BY DEF Width, IsWidth
<1>3. Width(n) \in 1 .. n + 1 /\ IsWidth(n, Width(n))
  BY <1>1, <1>2
<1> QED
  BY <1>3

LEMMA WidthIsUnique ==
  ASSUME NEW n \in Nat, NEW v \in Nat \ {0}, NEW w \in Nat \ {0}, IsWidth(n, v), IsWidth(n, w)
  PROVE  v = w
<1>1. \A a, b \in Nat \ {0} : IsWidth(n, a) /\ IsWidth(n, b) => ~(a < b)
  <2> SUFFICES ASSUME NEW a \in Nat \ {0}, NEW b \in Nat \ {0}, IsWidth(n, a), IsWidth(n, b), a < b
               PROVE  FALSE
    OBVIOUS
  <2>1. a \in Nat /\ b - 1 \in Nat /\ a <= b - 1 /\ b # 1
    OBVIOUS
  <2>2. Ten(a) <= Ten(b - 1) /\ Ten(a) \in Nat /\ Ten(b - 1) \in Nat
    BY <2>1, TenFacts, TenGrows
  <2>3. Ten(a) > n /\ Ten(b - 1) <= n
    BY <2>1 DEF IsWidth
  <2> QED
    BY <2>2, <2>3
<1> QED
  BY <1>1

\* The digit of n that stands for multiples of Ten(k).
DigitAt(n, k) == (n \div Ten(k)) % 10

LEMMA DigitFacts ==
  ASSUME NEW n \in Nat, NEW k \in Nat
  PROVE  /\ DigitAt(n, k) \in Int
         /\ Ten(k) > n => DigitAt(n, k) = 0
<1>1. Ten(k) \in Nat \ {0}
  BY TenFacts
<1>2. n \div Ten(k) \in Nat
  BY <1>1, NaturalDivision
<1>3. DigitAt(n, k) \in Int
  <2> DEFINE d == n \div Ten(k)
  <2>1. d \in Int /\ 10 \in Nat \ {0}
    BY <1>2
  <2> HIDE DEF d
  <2>2. d % 10 \in 0 .. 10 - 1
    BY <2>1, Division
  <2> QED
    BY <2>2 DEF DigitAt, d
<1>4. ASSUME Ten(k) > n PROVE DigitAt(n, k) = 0
  <2>1. n = Ten(k) * 0 + n /\ n \in 0 .. Ten(k) - 1
    BY <1>1, <1>4
  <2>2. n \div Ten(k) = 0
    BY <1>1, <2>1, DivisionIsUnique
  <2>3. 0 % 10 = 0
    OBVIOUS
  <2> QED
    BY <2>2, <2>3 DEF DigitAt
<1> QED
  BY <1>3, <1>4

\* Zeros in front change no digit.
LEMMA PaddedFacts ==
  ASSUME NEW n \in Nat, NEW scale \in Nat
  PROVE  LET p == Padded(Digits(n), scale)
         IN /\ p \in Seq(Int)
            /\ Len(p) = IF Width(n) <= scale THEN scale + 1 ELSE Width(n)
            /\ \A i \in 1 .. Len(p) : p[i] = DigitAt(n, Len(p) - i)
<1> DEFINE w       == Width(n)
           digits  == Digits(n)
           missing == IF w <= scale THEN scale + 1 - w ELSE 0
           zeros   == [i \in 1 .. missing |-> 0]
           p       == zeros \o digits
<1>1. w \in Nat \ {0} /\ Ten(w) > n
  BY WidthFacts DEF IsWidth
<1>2. digits = [i \in 1 .. w |-> DigitAt(n, w - i)]
  BY DEF Digits, DigitAt
<1> HIDE DEF w, digits
<1>3. \A i \in 1 .. w : w - i \in Nat /\ DigitAt(n, w - i) \in Int
  BY <1>1, DigitFacts
<1>4. digits \in Seq(Int) /\ Len(digits) = w
  BY <1>1, <1>2, <1>3
<1>5. missing \in Nat
  BY <1>1
<1> HIDE DEF missing
<1>6. zeros \in Seq(Int) /\ Len(zeros) = missing /\ \A i \in 1 .. missing : zeros[i] = 0
  BY <1>5
<1> HIDE DEF zeros
<1>7. /\ p \in Seq(Int) /\ Len(p) = missing + w
      /\ \A i \in 1 .. missing + w : p[i] = IF i <= missing THEN zeros[i] ELSE digits[i - missing]
  <2>1. zeros \in Seq(Int) /\ digits \in Seq(Int)
    BY <1>4, <1>6
  <2> HIDE DEF digits
  <2>2. /\ p \in Seq(Int) /\ Len(p) = Len(zeros) + Len(digits)
        /\ \A i \in 1 .. Len(zeros) + Len(digits) :
             p[i] = IF i <= Len(zeros) THEN zeros[i] ELSE digits[i - Len(zeros)]
    BY <2>1, ConcatProperties
  <2> QED
    BY <1>4, <1>6, <2>2
<1> HIDE DEF p
<1>8. ASSUME NEW i \in 1 .. missing + w PROVE p[i] = DigitAt(n, missing + w - i)
  <2>1. CASE i <= missing
    <3>1. missing + w - i \in Nat /\ w <= missing + w - i
      BY <1>1, <1>5, <2>1
    <3>2. Ten(missing + w - i) > n
      <4>1. Ten(w) <= Ten(missing + w - i)
        BY <1>1, <3>1, TenGrows
      <4>2. Ten(w) \in Nat /\ Ten(missing + w - i) \in Nat
        BY <1>1, <3>1, TenFacts
      <4> QED
        BY <1>1, <4>1, <4>2
    <3>3. p[i] = 0
      BY <1>6, <1>7, <2>1
    <3> QED
      BY <3>1, <3>2, <3>3, DigitFacts
  <2>2. CASE i > missing
    <3>1. i - missing \in 1 .. w /\ w - (i - missing) = missing + w - i
      BY <1>1, <1>5, <2>2
    <3>2. p[i] = digits[i - missing]
      BY <1>5, <1>7, <2>2
    <3> QED
      BY <1>2, <3>1, <3>2
  <2> QED
    BY <2>1, <2>2, <1>5
<1>9. Padded(Digits(n), scale) = p
  BY <1>4 DEF Padded, p, zeros, missing, digits
<1>10. missing + w = IF Width(n) <= scale THEN scale + 1 ELSE Width(n)
  BY <1>1 DEF missing, w
<1>11. /\ p \in Seq(Int) /\ Len(p) = IF Width(n) <= scale THEN scale + 1 ELSE Width(n)
       /\ \A i \in 1 .. Len(p) : p[i] = DigitAt(n, Len(p) - i)
  <2>1. \A i \in 1 .. missing + w : p[i] = DigitAt(n, missing + w - i)
    BY <1>8
  <2>2. Len(p) = missing + w
    BY <1>7
  <2>3. ASSUME NEW i \in 1 .. Len(p) PROVE p[i] = DigitAt(n, Len(p) - i)
    <3>1. i \in 1 .. missing + w /\ Len(p) - i = missing + w - i
      BY <1>1, <1>5, <2>2
    <3> QED
      BY <2>1, <3>1
  <2>4. Len(p) = IF Width(n) <= scale THEN scale + 1 ELSE Width(n)
    BY <1>10, <2>2
  <2> QED
    BY <1>7, <2>3, <2>4
<1> QED
  BY <1>9, <1>11 DEF p

\* The digits before the point are those of the whole part.
LEMMA WholePart ==
  ASSUME NEW n \in Nat, NEW scale \in Nat \ {0}
  PROVE  LET p   == Padded(Digits(n), scale)
             dot == Len(p) - scale
         IN dot \in Nat \ {0} /\ SubSeq(p, 1, dot) = Digits(n \div Ten(scale))
<1> DEFINE p     == Padded(Digits(n), scale)
           dot   == Len(p) - scale
           one   == Ten(scale)
           whole == n \div one
           w     == Width(n)
<1>1. one \in Nat \ {0}
  BY TenFacts
<1>2. whole \in Nat /\ n % one \in 0 .. one - 1 /\ n = one * whole + (n % one)
  <2> HIDE DEF one
  <2>1. whole \in Nat
    BY <1>1, NaturalDivision
  <2> QED
    BY <1>1, <2>1, Division
<1>3. /\ p \in Seq(Int) /\ Len(p) = IF w <= scale THEN scale + 1 ELSE w
      /\ \A i \in 1 .. Len(p) : p[i] = DigitAt(n, Len(p) - i)
  BY PaddedFacts
<1>4. w \in Nat \ {0} /\ IsWidth(n, w)
  BY WidthFacts
<1> HIDE DEF p, w, one, whole
<1>5. dot \in Nat \ {0} /\ Len(p) = dot + scale /\ dot <= Len(p)
  BY <1>3, <1>4
<1>6. IsWidth(whole, dot)
  <2>1. CASE w <= scale
    <3>1. dot = 1
      BY <2>1, <1>3
    <3>2. n < one
      <4>1. Ten(w) <= Ten(scale) /\ Ten(w) \in Nat /\ Ten(w) > n
        BY <1>4, <2>1, TenGrows, TenFacts DEF IsWidth
      <4> QED
        BY <1>1, <4>1 DEF one
    <3>3. whole = 0
      <4>1. n = one * 0 + n /\ n \in 0 .. one - 1
        BY <1>1, <3>2
      <4> QED
        BY <1>1, <4>1, DivisionIsUnique DEF whole
    <3>4. Ten(1) > 0
      <4>1. 1 \in Nat
        OBVIOUS
      <4>2. Ten(1) \in Nat \ {0}
        BY <4>1, TenFacts
      <4> QED
        BY <4>2
    <3> QED
      BY <3>1, <3>3, <3>4 DEF IsWidth
  <2>2. CASE w > scale
    <3>1. dot = w - scale /\ w = scale + dot /\ w # 1 /\ dot - 1 \in Nat
          /\ w - 1 = scale + (dot - 1)
      BY <2>2, <1>3, <1>4
    <3>2. Ten(w) = one * Ten(dot) /\ Ten(w - 1) = one * Ten(dot - 1)
      <4> DEFINE d == dot
      <4>1. d \in Nat /\ d - 1 \in Nat /\ w = scale + d /\ w - 1 = scale + (d - 1)
        BY <1>5, <3>1
      <4> HIDE DEF d, dot
      <4>2. Ten(scale + d) = Ten(scale) * Ten(d)
        BY <4>1, TenSum
      <4>3. Ten(scale + (d - 1)) = Ten(scale) * Ten(d - 1)
        BY <4>1, TenSum
      <4>4. Ten(w) = one * Ten(d) /\ Ten(w - 1) = one * Ten(d - 1)
        BY <4>1, <4>2, <4>3 DEF one
      <4> QED
        BY <4>4 DEF d
    <3>3. Ten(dot) \in Nat /\ Ten(dot - 1) \in Nat
      BY <1>5, <3>1, TenFacts
    <3>4. n < one * Ten(dot) /\ one * Ten(dot - 1) <= n
      BY <1>4, <3>1, <3>2 DEF IsWidth
    <3>5. Ten(dot) > whole
      <4>1. SUFFICES ASSUME Ten(dot) <= whole PROVE FALSE
        BY <1>2, <3>3
      <4>2. one * Ten(dot) <= one * whole
        BY <4>1, <1>1, <1>2, <3>3
      <4>3. one * Ten(dot) \in Int /\ one * whole \in Int
        BY <1>1, <1>2, <3>3
      <4> QED
        BY <1>2, <3>4, <4>2, <4>3
    <3>6. Ten(dot - 1) <= whole
      <4>1. SUFFICES ASSUME whole + 1 <= Ten(dot - 1) PROVE FALSE
        BY <1>2, <3>3
      <4>2. one * (whole + 1) <= one * Ten(dot - 1) /\ one * (whole + 1) = one * whole + one
        <5> DEFINE above == Ten(dot - 1)
        <5>1. above \in Int /\ whole + 1 <= above
          BY <3>3, <4>1
        <5> HIDE DEF above, one, whole, dot
        <5>2. one * (whole + 1) = one * whole + one
          BY <1>1, <1>2
        <5>3. one * (whole + 1) <= one * above
          BY <1>1, <1>2, <5>1
        <5> QED
          BY <5>2, <5>3 DEF above
      <4>3. one * Ten(dot - 1) \in Int /\ one * whole \in Int
        BY <1>1, <1>2, <3>3
      <4> QED
        BY <1>1, <1>2, <3>4, <4>2, <4>3
    <3> QED
      BY <3>5, <3>6 DEF IsWidth
  <2> QED
    BY <2>1, <2>2, <1>4
<1>7. Width(whole) = dot
  BY <1>2, <1>5, <1>6, WidthFacts, WidthIsUnique
<1>8. Digits(whole) = [i \in 1 .. dot |-> DigitAt(whole, dot - i)]
  BY <1>7 DEF Digits, DigitAt
<1> HIDE DEF dot
<1>9. ASSUME NEW i \in 1 .. dot PROVE DigitAt(whole, dot - i) = p[i]
  <2>1. dot - i \in Nat /\ i \in 1 .. Len(p) /\ Len(p) - i = scale + (dot - i)
    BY <1>5
  <2>2. Ten(dot - i) \in Nat \ {0}
    BY <2>1, TenFacts
  <2>3. whole \div Ten(dot - i) = n \div (one * Ten(dot - i))
    BY <1>1, <2>2, DivisionInSteps DEF whole
  <2>4. one * Ten(dot - i) = Ten(Len(p) - i)
    BY <2>1, TenSum DEF one
  <2> QED
    BY <1>3, <2>1, <2>3, <2>4 DEF DigitAt
<1>10. \A i \in 1 .. dot : p[i] \in Int
  BY <1>3, <1>5
<1>11. Digits(whole) \in Seq(Int) /\ Len(Digits(whole)) = dot
       /\ \A i \in 1 .. dot : Digits(whole)[i] = p[i]
  BY <1>5, <1>8, <1>9, <1>10
<1>12. /\ SubSeq(p, 1, dot) \in Seq(Int) /\ Len(SubSeq(p, 1, dot)) = dot
       /\ \A i \in 1 .. dot : SubSeq(p, 1, dot)[i] = p[i]
  <2>1. /\ SubSeq(p, 1, dot) \in Seq(Int)
        /\ Len(SubSeq(p, 1, dot)) = IF 1 <= dot THEN dot - 1 + 1 ELSE 0
        /\ \A i \in 1 .. dot - 1 + 1 : SubSeq(p, 1, dot)[i] = p[1 + i - 1]
    BY <1>5, <1>10, SubSeqProperties
  <2> QED
    BY <2>1, <1>5
<1>13. SubSeq(p, 1, dot) = Digits(whole)
  BY <1>11, <1>12, SeqEqual
<1> QED
  BY <1>5, <1>13 DEF p, dot, whole, one

\* Those behind it are the digits of the rest.
LEMMA DecimalPart ==
  ASSUME NEW n \in Nat, NEW scale \in Nat \ {0}
  PROVE  LET p    == Padded(Digits(n), scale)
             dot  == Len(p) - scale
             rest == n % Ten(scale)
         IN SubSeq(p, dot + 1, Len(p)) = [i \in 1 .. scale |-> (rest \div Ten(scale - i)) % 10]
<1> DEFINE p    == Padded(Digits(n), scale)
           dot  == Len(p) - scale
           one  == Ten(scale)
           rest == n % one
           q    == n \div one
           decimals == [i \in 1 .. scale |-> DigitAt(rest, scale - i)]
<1>1. one \in Nat \ {0}
  BY TenFacts
<1>2. q \in Nat /\ rest \in 0 .. one - 1 /\ n = one * q + rest /\ rest \in Nat
  <2> HIDE DEF one
  <2>1. q \in Nat
    BY <1>1, NaturalDivision
  <2>2. rest \in 0 .. one - 1 /\ n = one * q + rest
    BY <1>1, Division
  <2> QED
    BY <1>1, <2>1, <2>2
<1>3. p \in Seq(Int) /\ \A i \in 1 .. Len(p) : p[i] = DigitAt(n, Len(p) - i)
  BY PaddedFacts
<1>4. dot \in Nat \ {0} /\ Len(p) = dot + scale /\ Len(p) \in Nat
  BY <1>3, WholePart
<1> HIDE DEF p, dot, one, rest, q
<1>5. ASSUME NEW i \in 1 .. scale PROVE p[dot + i] = DigitAt(rest, scale - i)
  <2> DEFINE k == scale - i
             t == Ten(k)
             a == rest \div t
             b == rest % t
             u == Ten(i - 1)
  <2>1. k \in Nat /\ i - 1 \in Nat /\ scale = k + i /\ (i - 1) + 1 = i
        /\ dot + i \in 1 .. Len(p) /\ Len(p) - (dot + i) = k
    BY <1>4
  <2>2. t \in Nat \ {0} /\ u \in Nat \ {0} /\ Ten(i) = 10 * u /\ one = t * Ten(i)
    <3> HIDE DEF k
    <3>1. t \in Nat \ {0} /\ u \in Nat \ {0}
      BY <2>1, TenFacts
    <3>2. Ten((i - 1) + 1) = 10 * Ten(i - 1)
      BY <2>1, TenFacts
    <3>3. Ten(i) = 10 * u
      BY <2>1, <3>2
    <3>4. k \in Nat /\ i \in Nat
      BY <2>1
    <3>5. Ten(k + i) = Ten(k) * Ten(i)
      BY <3>4, TenSum
    <3>6. one = t * Ten(i)
      BY <2>1, <3>5 DEF one
    <3> QED
      BY <3>1, <3>3, <3>6
  <2> HIDE DEF t, u, k
  <2>3. a \in Nat /\ b \in 0 .. t - 1 /\ rest = t * a + b
    <3>1. rest \in Int /\ rest \div t \in Nat
      BY <1>2, <2>2, NaturalDivision
    <3> QED
      BY <3>1, <2>2, Division
  <2> HIDE DEF a, b
  <2>4. n = t * (10 * u * q + a) + b
    <3>1. one * q = t * (10 * u * q)
      BY <1>2, <2>2
    <3>2. t * (10 * u * q + a) = t * (10 * u * q) + t * a
      BY <1>2, <2>2, <2>3
    <3> QED
      BY <3>1, <3>2, <1>2, <2>2, <2>3
  <2>5. n \div t = 10 * (u * q) + a
    <3>1. 10 * u * q + a \in Int /\ 10 * u * q = 10 * (u * q)
      BY <1>2, <2>2, <2>3
    <3> QED
      BY <3>1, <2>2, <2>3, <2>4, DivisionIsUnique
  <2>6. (10 * (u * q) + a) % 10 = a % 10
    <3> DEFINE x == u * q
    <3>1. x \in Nat
      BY <1>2, <2>2
    <3> HIDE DEF x
    <3>2. 10 \in Nat \ {0} /\ a \in Int
      BY <2>3
    <3>3. a % 10 \in 0 .. 10 - 1 /\ a = 10 * (a \div 10) + (a % 10) /\ a \div 10 \in Int
      BY <3>2, Division
    <3>4. 10 * x + a = 10 * (x + a \div 10) + (a % 10) /\ x + a \div 10 \in Int
      BY <3>1, <3>3
    <3>5. (10 * x + a) % 10 = a % 10
      BY <3>2, <3>3, <3>4, DivisionIsUnique
    <3> QED
      BY <3>5 DEF x
  <2>7. p[dot + i] = (n \div t) % 10
    BY <1>3, <2>1 DEF DigitAt, t
  <2> QED
    BY <2>5, <2>6, <2>7 DEF DigitAt, a, t, k
<1>6. \A i \in 1 .. scale : dot + i \in 1 .. Len(p) /\ p[dot + i] \in Int
  <2>1. \A i \in 1 .. scale : dot + i \in 1 .. Len(p)
    BY <1>4
  <2> QED
    BY <2>1, <1>3
<1>7. /\ decimals \in Seq(Int) /\ Len(decimals) = scale
      /\ \A i \in 1 .. scale : decimals[i] = p[dot + i]
  <2>1. \A i \in 1 .. scale : DigitAt(rest, scale - i) \in Int
    BY <1>5, <1>6
  <2> QED
    BY <2>1, <1>5
<1>8. /\ SubSeq(p, dot + 1, Len(p)) \in Seq(Int) /\ Len(SubSeq(p, dot + 1, Len(p))) = scale
      /\ \A i \in 1 .. scale : SubSeq(p, dot + 1, Len(p))[i] = p[dot + i]
  <2>1. \A i \in dot + 1 .. Len(p) : p[i] \in Int
    BY <1>3, <1>4
  <2>2. dot + 1 \in Int /\ Len(p) \in Int
    BY <1>4
  <2>3. /\ SubSeq(p, dot + 1, Len(p)) \in Seq(Int)
        /\ Len(SubSeq(p, dot + 1, Len(p)))
             = IF dot + 1 <= Len(p) THEN Len(p) - (dot + 1) + 1 ELSE 0
        /\ \A i \in 1 .. Len(p) - (dot + 1) + 1 :
             SubSeq(p, dot + 1, Len(p))[i] = p[dot + 1 + i - 1]
    BY <2>1, <2>2, SubSeqProperties
  <2>4. Len(p) - (dot + 1) + 1 = scale /\ dot + 1 <= Len(p)
    BY <1>4
  <2>5. \A i \in 1 .. scale : dot + 1 + i - 1 = dot + i
    BY <1>4
  <2> QED
    BY <2>3, <2>4, <2>5
<1> DEFINE after == SubSeq(p, dot + 1, Len(p))
<1> HIDE DEF decimals, after
<1>9. after = decimals
  <2>1. /\ after \in Seq(Int) /\ decimals \in Seq(Int) /\ Len(after) = Len(decimals)
        /\ \A i \in 1 .. Len(after) : after[i] = decimals[i]
    BY <1>7, <1>8 DEF after
  <2> QED
    BY <2>1, SeqEqual
<1> QED
  BY <1>9 DEF after, decimals, DigitAt, p, dot, rest, one

\* Decimals are written in full, whatever their scale unless it is negative.
LEMMA DecimalSaid ==
  ASSUME NEW n \in Int, NEW scale \in Nat
  PROVE  /\ DecimalToString(n, scale).shape = "text"
         /\ SaysDecimal(DecimalToString(n, scale).parts, n, scale)
<1> DEFINE size == Magnitude(n)
           sign == Sign(n)
<1>1. size \in Nat /\ sign \in Seq(Int)
  <2>1. <<>> \in Seq(Int) /\ <<-1>> \in Seq(Int)
    OBVIOUS
  <2> QED
    BY <2>1 DEF Magnitude, Sign, Minus
<1>2. \A m \in Nat : Digits(m) \in Seq(Int)
  <2> SUFFICES ASSUME NEW m \in Nat PROVE Digits(m) \in Seq(Int)
    OBVIOUS
  <2>1. Width(m) \in Nat /\ \A i \in 1 .. Width(m) : DigitAt(m, Width(m) - i) \in Int
    <3>1. Width(m) \in Nat
      BY WidthFacts
    <3>2. \A i \in 1 .. Width(m) : Width(m) - i \in Nat
      BY <3>1
    <3> QED
      BY <3>1, <3>2, DigitFacts
  <2>2. Digits(m) = [i \in 1 .. Width(m) |-> DigitAt(m, Width(m) - i)]
    BY DEF Digits, DigitAt
  <2> HIDE DEF Width, DigitAt
  <2> QED
    BY <2>1, <2>2
<1> HIDE DEF size, sign
<1>3. CASE scale = 0
  <2>1. DecimalToString(n, scale) = Value("text", sign \o Digits(size))
    BY <1>3 DEF DecimalToString, size, sign
  <2>2. size \div Ten(0) = size
    <3>1. size = 1 * size + 0 /\ size \in Int /\ 1 \in Nat \ {0} /\ 0 \in 0 .. 1 - 1
      BY <1>1
    <3>2. size \div 1 = size
      BY <3>1, DivisionIsUnique
    <3> QED
      BY <3>2, TenFacts
  <2>3. (sign \o Digits(size)) \o <<>> = sign \o Digits(size)
    <3>1. sign \o Digits(size) \in Seq(Int)
      BY <1>1, <1>2
    <3> QED
      BY <3>1, ConcatEmptySeq
  <2> QED
    BY <1>3, <2>1, <2>2, <2>3 DEF SaysDecimal, Value, size, sign
<1>4. CASE scale # 0
  <2> DEFINE p     == Padded(Digits(size), scale)
             dot   == Len(p) - scale
             whole == Digits(size \div Ten(scale))
             rest  == size % Ten(scale)
             after == SubSeq(p, dot + 1, Len(p))
  <2>1. DecimalToString(n, scale)
          = Value("text", sign \o SubSeq(p, 1, dot) \o <<Point>> \o after)
    BY <1>4 DEF DecimalToString, size, sign
  <2>2. SubSeq(p, 1, dot) = whole
    BY <1>1, <1>4, WholePart
  <2>3. after = [i \in 1 .. scale |-> (rest \div Ten(scale - i)) % 10]
    BY <1>1, <1>4, DecimalPart
  <2>4. after \in Seq(Int)
    <3>1. p \in Seq(Int) /\ dot \in Nat
      BY <1>1, <1>4, PaddedFacts, WholePart
    <3> HIDE DEF p
    <3>2. dot + 1 \in Int /\ Len(p) \in Int /\ \A i \in dot + 1 .. Len(p) : p[i] \in Int
      <4>1. \A i \in dot + 1 .. Len(p) : i \in 1 .. Len(p)
        BY <3>1
      <4> QED
        BY <3>1, <4>1
    <3> HIDE DEF dot
    <3> QED
      BY <3>2, SubSeqProperties
  <2>5. whole \in Seq(Int)
    <3>1. size \div Ten(scale) \in Nat
      BY <1>1, TenFacts, NaturalDivision
    <3> QED
      BY <1>2, <3>1
  <2>6. <<Point>> \in Seq(Int)
    BY DEF Point
  <2> HIDE DEF p, dot, whole, after
  <2>7. sign \o whole \in Seq(Int)
    BY <1>1, <2>5
  <2>8. sign \o whole \o <<Point>> \o after = sign \o whole \o (<<Point>> \o after)
    <3> DEFINE front == sign \o whole
               point == <<Point>>
    <3>1. front \in Seq(Int) /\ point \in Seq(Int) /\ after \in Seq(Int)
      BY <2>4, <2>6, <2>7
    <3> HIDE DEF front, point
    <3>2. (front \o point) \o after = front \o (point \o after)
      BY ONLY <3>1, Joined, Zenon
    <3> QED
      BY <3>2 DEF front, point
  <2>9. DecimalToString(n, scale) = Value("text", sign \o whole \o (<<Point>> \o after))
    BY <2>1, <2>2, <2>8
  <2>10. SaysDecimal(sign \o whole \o (<<Point>> \o after), n, scale)
    BY <1>4, <2>3 DEF SaysDecimal, whole, size, sign
  <2> QED
    BY <2>9, <2>10 DEF Value
<1> QED
  BY <1>3, <1>4

-----------------------------------------------------------------------------
(* Cells.                                                                  *)

\* Booleans, numbers, texts, bytes and days are written as they are; what the schema
\* says of them is what they are.  Only what is no number is lost.
LEMMA PlainCellSaid ==
  ASSUME NEW c, ~IsNull(c),
         c.type \in {"BOOL", "DATE32"} \cup Integral \cup Floating \cup Textual \cup Bytes,
         c.value \in Int, c.type \in Integral => c.value # NotFinite
  PROVE  Says(c, DetectSparkType(c.type), ExtractArrowValue(c)) <=> Survives(c)
<1>1. Survives(c) <=> (c.type \in Floating => c.value # NotFinite)
  BY DEF Survives, Integral, Floating, Textual, Bytes, Decimals, Listing, ListViews
<1>2. CASE c.type = "BOOL"
  <2>1. DetectSparkType(c.type) = "boolean"
    BY <1>2 
    DEF DetectSparkType, Integral, Floating, Textual, Bytes, Decimals, Listing, Structs,
        SmallDecimals, ListViews
  <2>2. ExtractArrowValue(c) = Value("boolean", <<c.value>>)
    BY <1>2 
    DEF ExtractArrowValue, Integral, Floating, Textual, Bytes, Decimals, Listing, Structs,
        SmallDecimals, ListViews
  <2> QED
    BY <1>1, <1>2, <2>1, <2>2 DEF Says, Floating
<1>3. CASE c.type = "DATE32"
  <2>1. DetectSparkType(c.type) = "date"
    BY <1>3 
    DEF DetectSparkType, Integral, Floating, Textual, Bytes, Decimals, Listing, Structs,
        SmallDecimals, ListViews
  <2>2. ExtractArrowValue(c) = Value("date", <<c.value>>)
    BY <1>3 
    DEF ExtractArrowValue, Integral, Floating, Textual, Bytes, Decimals, Listing, Structs,
        SmallDecimals, ListViews
  <2>3. Says(c, "date", Value("date", <<c.value>>)) <=> c.value * 1 = c.value
    BY <1>3 DEF Says, Value
  <2> QED
    BY <1>1, <1>3, <2>1, <2>2, <2>3 DEF Floating
<1>4. CASE c.type \in Integral \cup Floating
  <2>1. DetectSparkType(c.type) \in {"byte", "short", "integer", "long", "float", "double"}
    BY <1>4 
    DEF DetectSparkType, Integral, Floating, Textual, Bytes, Decimals, Listing, Structs,
        SmallDecimals, ListViews
  <2>2. ExtractArrowValue(c) = Value("number", <<c.value>>)
    BY <1>4 
    DEF ExtractArrowValue, Integral, Floating, Textual, Bytes, Decimals, Listing, Structs,
        SmallDecimals, ListViews
  <2>3. Encodable(Value("number", <<c.value>>)) <=> c.value # NotFinite
    BY DEF Encodable, Value
  <2>4. Says(c, DetectSparkType(c.type), Value("number", <<c.value>>)) <=> c.value # NotFinite
    BY <2>1, <2>3 DEF Says
  <2> QED
    BY <1>1, <1>4, <2>2, <2>4
<1>5. CASE c.type \in Textual
  <2>1. DetectSparkType(c.type) = "string"
    BY <1>5 
    DEF DetectSparkType, Integral, Floating, Textual, Bytes, Decimals, Listing, Structs,
        SmallDecimals, ListViews
  <2>2. ExtractArrowValue(c) = Value("text", <<c.value>>)
    BY <1>5 
    DEF ExtractArrowValue, Integral, Floating, Textual, Bytes, Decimals, Listing, Structs,
        SmallDecimals, ListViews
  <2> QED
    BY <1>1, <1>5, <2>1, <2>2 DEF Says, Textual, Floating
<1>6. CASE c.type \in Bytes
  <2>1. DetectSparkType(c.type) = "binary"
    BY <1>6 
    DEF DetectSparkType, Integral, Floating, Textual, Bytes, Decimals, Listing, Structs,
        SmallDecimals, ListViews
  <2>2. ExtractArrowValue(c) = Value("base64", <<c.value>>)
    BY <1>6 
    DEF ExtractArrowValue, Integral, Floating, Textual, Bytes, Decimals, Listing, Structs,
        SmallDecimals, ListViews
  <2> QED
    BY <1>1, <1>6, <2>1, <2>2 DEF Says, Bytes, Floating
<1> QED
  BY <1>2, <1>3, <1>4, <1>5, <1>6

\* Times go by seconds, and dates in milliseconds by days: what does not divide is lost.
LEMMA TimeCellSaid ==
  ASSUME NEW c, ~IsNull(c), c.type \in {"DATE64", "TIMESTAMP"}, c.value \in Int,
         c.type = "TIMESTAMP" => c.arg \in Units
  PROVE  Says(c, DetectSparkType(c.type), ExtractArrowValue(c)) <=> Survives(c)
<1>1. CASE c.type = "DATE64"
  <2> DEFINE k == Day * Thousand
  <2>1. k \in Nat \ {0}
    BY UnitsArePositive
  <2>2. DetectSparkType(c.type) = "date"
    BY <1>1 
    DEF DetectSparkType, Integral, Floating, Textual, Bytes, Decimals, Listing, Structs,
        SmallDecimals, ListViews
  <2>3. ExtractArrowValue(c) = Value("date", <<c.value \div k>>)
    BY <1>1 
    DEF ExtractArrowValue, Integral, Floating, Textual, Bytes, Decimals, Listing, Structs,
        SmallDecimals, ListViews
  <2>4. Survives(c) <=> c.value % k = 0
    BY <1>1 DEF Survives, Floating, Decimals, Listing, ListViews
  <2> HIDE DEF k
  <2>5. Says(c, "date", Value("date", <<c.value \div k>>)) <=> (c.value \div k) * k = c.value
    BY <1>1 DEF Says, Value, k
  <2> QED
    BY <2>1, <2>2, <2>3, <2>4, <2>5, DividesExactly
<1>2. CASE c.type = "TIMESTAMP"
  <2> DEFINE k == PerSecond(c.arg)
  <2>1. k \in Nat \ {0}
    <3>1. 1 \in Nat \ {0} /\ Thousand \in Nat \ {0} /\ Million \in Nat \ {0}
          /\ Thousand * Million \in Nat \ {0}
      BY UnitsArePositive
    <3> QED
      BY <1>2, <3>1 DEF PerSecond, Units, Second, Millisecond, Microsecond, Nanosecond
  <2>2. DetectSparkType(c.type) = "timestamp"
    BY <1>2 
    DEF DetectSparkType, Integral, Floating, Textual, Bytes, Decimals, Listing, Structs,
        SmallDecimals, ListViews
  <2>3. ExtractArrowValue(c) = Value("time", <<c.value \div k>>)
    BY <1>2 
    DEF ExtractArrowValue, Integral, Floating, Textual, Bytes, Decimals, Listing, Structs,
        SmallDecimals, ListViews
  <2>4. Survives(c) <=> c.value % k = 0
    BY <1>2 DEF Survives, Floating, Decimals, Listing, ListViews
  <2> HIDE DEF k
  <2>5. Says(c, "timestamp", Value("time", <<c.value \div k>>)) <=> (c.value \div k) * k = c.value
    BY DEF Says, Value, k
  <2> QED
    BY <2>1, <2>2, <2>3, <2>4, <2>5, DividesExactly
<1> QED
  BY <1>1, <1>2

LEMMA IntervalShapes ==
  /\ \A m : FormatMonthInterval(m).shape = "year to month"
  /\ \A days, millis : FormatDayTime(days, millis).shape = "day to second"
  /\ \A d, unit : FormatDuration(d, unit).shape = "day to second"
<1>1. \A shape, parts : Value(shape, parts).shape = shape
  BY DEF Value
<1> QED
  BY <1>1 DEF FormatMonthInterval, FormatDayTime, FormatDuration, FormatMicros, YearToMonth,
              DayToSecond

LEMMA IntervalCellSaid ==
  ASSUME NEW c, ~IsNull(c), IsCell(c),
         c.type \in {"INTERVAL_MONTHS", "INTERVAL_DAY_TIME", "DURATION"}
  PROVE  Says(c, DetectSparkType(c.type), ExtractArrowValue(c)) <=> Survives(c)
<1>1. DetectSparkType(c.type) = "interval"
  BY DEF DetectSparkType, Integral, Floating, Textual, Bytes, Decimals, Listing, Structs,
         SmallDecimals, ListViews
<1> DEFINE v == ExtractArrowValue(c)
<1>2. CASE c.type = "INTERVAL_MONTHS"
  <2>1. v = FormatMonthInterval(c.value)
    BY <1>2 
    DEF ExtractArrowValue, Integral, Floating, Textual, Bytes, Decimals, Listing, Structs,
        SmallDecimals, ListViews
  <2>2. c.value \in -(MaxInt32 + 1) .. MaxInt32
    BY <1>2 DEF IsCell
  <2>3. v.shape = "year to month"
    BY <2>1, IntervalShapes
  <2>4. Survives(c) <=> c.value >= -MaxInt32
    BY <1>2 DEF Survives, Floating, Decimals, Listing, ListViews
  <2> HIDE DEF v
  <2>5. Says(c, "interval", v) <=> v.shape = "year to month" /\ SaysMonths(v.parts, c.value)
    BY <1>2 DEF Says
  <2> QED
    BY <1>1, <2>1, <2>2, <2>3, <2>4, <2>5, MonthsSaid DEF v
<1>3. CASE c.type = "INTERVAL_DAY_TIME"
  <2>1. v = FormatDayTime(c.arg, c.value)
    BY <1>3 
    DEF ExtractArrowValue, Integral, Floating, Textual, Bytes, Decimals, Listing, Structs,
        SmallDecimals, ListViews
  <2>2. c.value \in Int /\ c.arg \in Int
    BY DEF IsCell
  <2>3. v.shape = "day to second"
    BY <2>1, IntervalShapes
  <2>4. Survives(c) <=> c.value = 0 \/ (c.arg >= 0 /\ c.value \in 1 .. Day * Thousand - 1)
    BY <1>3 DEF Survives, Floating, Decimals, Listing, ListViews
  <2> HIDE DEF v
  <2>5. Says(c, "interval", v)
          <=> v.shape = "day to second" /\ SaysMicros(v.parts, c.arg, c.value * Thousand)
    BY <1>3 DEF Says
  <2> QED
    BY <1>1, <2>1, <2>2, <2>3, <2>4, <2>5, DayTimeSaid DEF v
<1>4. CASE c.type = "DURATION"
  <2>1. v = FormatDuration(c.value, c.arg)
    BY <1>4 
    DEF ExtractArrowValue, Integral, Floating, Textual, Bytes, Decimals, Listing, Structs,
        SmallDecimals, ListViews
  <2>2. c.value \in -(MaxInt + 1) .. MaxInt /\ c.arg \in Units
    BY <1>4 DEF IsCell
  <2>3. v.shape = "day to second"
    BY <2>1, IntervalShapes
  <2> HIDE DEF v
  <2>4. CASE c.arg = Second
    <3>1. Survives(c) <=> Magnitude(c.value * Million) <= MaxInt
      BY <1>4, <2>4 DEF Survives, Floating, Decimals, Listing, ListViews,
                          Second, Millisecond, Microsecond, Nanosecond
    <3>2. Says(c, "interval", v)
            <=> v.shape = "day to second" /\ SaysMicros(v.parts, 0, c.value * Million)
      BY <1>4, <2>4 DEF Says, Second, Millisecond, Microsecond, Nanosecond
    <3> QED
      BY <1>1, <2>1, <2>2, <2>3, <2>4, <3>1, <3>2, DurationSaid DEF v
  <2>5. CASE c.arg = Millisecond
    <3>1. Survives(c) <=> Magnitude(c.value * Thousand) <= MaxInt
      BY <1>4, <2>5 DEF Survives, Floating, Decimals, Listing, ListViews,
                          Second, Millisecond, Microsecond, Nanosecond
    <3>2. Says(c, "interval", v)
            <=> v.shape = "day to second" /\ SaysMicros(v.parts, 0, c.value * Thousand)
      BY <1>4, <2>5 DEF Says, Second, Millisecond, Microsecond, Nanosecond
    <3> QED
      BY <1>1, <2>1, <2>2, <2>3, <2>5, <3>1, <3>2, DurationSaid DEF v
  <2>6. CASE c.arg = Microsecond
    <3>1. Survives(c) <=> c.value >= -MaxInt
      BY <1>4, <2>6 DEF Survives, Floating, Decimals, Listing, ListViews,
                          Second, Millisecond, Microsecond, Nanosecond
    <3>2. Says(c, "interval", v) <=> v.shape = "day to second" /\ SaysMicros(v.parts, 0, c.value)
      BY <1>4, <2>6 DEF Says, Second, Millisecond, Microsecond, Nanosecond
    <3> QED
      BY <1>1, <2>1, <2>2, <2>3, <2>6, <3>1, <3>2, DurationSaid DEF v
  <2>7. CASE c.arg = Nanosecond
    <3>1. Survives(c) <=> c.value % Thousand = 0
      BY <1>4, <2>7 DEF Survives, Floating, Decimals, Listing, ListViews,
                          Second, Millisecond, Microsecond, Nanosecond
    <3>2. Says(c, "interval", v)
            <=> /\ v.shape = "day to second" /\ c.value % Thousand = 0
                /\ SaysMicros(v.parts, 0, c.value \div Thousand)
      BY <1>4, <2>7 DEF Says, Second, Millisecond, Microsecond, Nanosecond
    <3> QED
      BY <1>1, <2>1, <2>2, <2>3, <2>7, <3>1, <3>2, DurationSaid DEF v
  <2> QED
    BY <2>2, <2>4, <2>5, <2>6, <2>7 DEF Units
<1> QED
  BY <1>2, <1>3, <1>4

LEMMA DecimalCellSaid ==
  ASSUME NEW c, ~IsNull(c), c.type \in Decimals, c.value \in Int, c.arg \in Int
  PROVE  Says(c, DetectSparkType(c.type), ExtractArrowValue(c)) <=> Survives(c)
<1> DEFINE v == ExtractArrowValue(c)
<1>1. DetectSparkType(c.type) = "decimal"
  BY DEF DetectSparkType, Integral, Floating, Textual, Bytes, Decimals, Listing, Structs,
         SmallDecimals, ListViews
<1>2. v = DecimalToString(c.value, c.arg)
  BY DEF ExtractArrowValue, Integral, Floating, Textual, Bytes, Decimals, Listing, Structs,
         SmallDecimals, ListViews
<1>3. Survives(c) <=> c.arg >= 0
  BY DEF Survives, Floating, Decimals, Listing, ListViews
<1> HIDE DEF v
<1>4. v # Value("number in a text", <<c.value, c.arg>>)
  <2>1. v.shape = "text"
    <3>1. \A parts : Value("text", parts).shape = "text"
      BY DEF Value
    <3>2. \E parts : v = Value("text", parts)
      BY <1>2, Zenon DEF DecimalToString
    <3> QED
      BY <3>1, <3>2
  <2>2. Value("number in a text", <<c.value, c.arg>>).shape = "number in a text"
    BY DEF Value
  <2> QED
    BY <2>1, <2>2
<1>5. Says(c, "decimal", v)
        <=> c.arg >= 0 /\ v.shape = "text" /\ SaysDecimal(v.parts, c.value, c.arg)
  BY <1>4 DEF Says
<1>6. c.arg >= 0 => v.shape = "text" /\ SaysDecimal(v.parts, c.value, c.arg)
  BY <1>2, DecimalSaid
<1> QED
  BY <1>1, <1>3, <1>5, <1>6 DEF v

\* Arrow writes the number of a small decimal with its scale.
LEMMA SmallDecimalCellSaid ==
  ASSUME NEW c, ~IsNull(c), c.type \in SmallDecimals
  PROVE  Says(c, DetectSparkType(c.type), ExtractArrowValue(c)) /\ Survives(c)
<1>1. DetectSparkType(c.type) = "decimal"
  BY DEF DetectSparkType, Integral, Floating, Textual, Bytes, Decimals, Listing, Structs,
         SmallDecimals, ListViews
<1>2. ExtractArrowValue(c) = ByDefault(c)
  BY DEF ExtractArrowValue, Integral, Floating, Textual, Bytes, Decimals, Listing, Structs,
         SmallDecimals, ListViews
<1>3. ByDefault(c) = Value("number in a text", <<c.value, c.arg>>)
  BY DEF ByDefault
<1>4. Survives(c)
  BY DEF Survives, Floating, Decimals, Listing, Structs, SmallDecimals, ListViews
<1> QED
  BY <1>1, <1>2, <1>3, <1>4 DEF Says

\* A number in a list or a map is what JSON makes of it: kept if it is a float64.
LEMMA NestedCellSaid ==
  ASSUME NEW c, ~IsNull(c), c.type \in Listing \cup ListViews \cup {"MAP"} \cup Structs,
         c.value \in Int
  PROVE  Says(c, DetectSparkType(c.type), ExtractArrowValue(c)) <=> Survives(c)
<1>1. CASE c.type \in Listing \cup ListViews
  <2>1. DetectSparkType(c.type) = "array"
    BY <1>1 
    DEF DetectSparkType, Integral, Floating, Textual, Bytes, Decimals, Listing, Structs,
        SmallDecimals, ListViews
  <2>2. ExtractArrowValue(c) = Value("array", <<Float64(c.value)>>)
    BY <1>1 
    DEF ExtractArrowValue, ByDefault, Integral, Floating, Textual, Bytes, Decimals, Listing,
        Structs, SmallDecimals, ListViews
  <2>3. Survives(c) <=> c.value % Spacing(c.value) = 0
    BY <1>1 DEF Survives, Floating, Decimals, Listing, ListViews
  <2>4. Says(c, "array", Value("array", <<Float64(c.value)>>)) <=> Float64(c.value) = c.value
    BY DEF Says, Value
  <2> QED
    BY <2>1, <2>2, <2>3, <2>4, Float64Keeps
<1>2. CASE c.type = "MAP"
  <2>1. DetectSparkType(c.type) = "map"
    BY <1>2 
    DEF DetectSparkType, Integral, Floating, Textual, Bytes, Decimals, Listing, Structs,
        SmallDecimals, ListViews
  <2>2. ExtractArrowValue(c) = Value("object", <<Float64(c.value), Float64(c.value)>>)
    BY <1>2 
    DEF ExtractArrowValue, Integral, Floating, Textual, Bytes, Decimals, Listing, Structs,
        SmallDecimals, ListViews
  <2>3. Survives(c) <=> c.value % Spacing(c.value) = 0
    BY <1>2 DEF Survives, Floating, Decimals, Listing, ListViews
  <2>4. Says(c, "map", Value("object", <<Float64(c.value), Float64(c.value)>>))
          <=> Float64(c.value) = c.value
    BY DEF Says, Value
  <2> QED
    BY <2>1, <2>2, <2>3, <2>4, Float64Keeps
<1>3. CASE c.type \in Structs
  <2>1. DetectSparkType(c.type) = "struct"
    BY <1>3 
    DEF DetectSparkType, Integral, Floating, Textual, Bytes, Decimals, Listing, Structs,
        SmallDecimals, ListViews
  <2>2. ExtractArrowValue(c) = SanitizeStruct(c)
    BY <1>3 
    DEF ExtractArrowValue, Integral, Floating, Textual, Bytes, Decimals, Listing, Structs,
        SmallDecimals, ListViews
  <2>3. Survives(c) <=> c.type = "STRUCT"
    BY <1>3 DEF Survives, Floating, Decimals, Listing, ListViews, Structs
  <2>4. Says(c, "struct", SanitizeStruct(c)) <=> c.type = "STRUCT"
    BY <1>3 DEF Says, SanitizeStruct, Value, Structs
  <2> QED
    BY <2>1, <2>2, <2>3, <2>4
<1> QED
  BY <1>1, <1>2, <1>3

\* Whatever the widths of the integers and the lengths of the units of time, a client
\* that goes by the type in the schema reads from the answer what the cell holds if and
\* only if the cell is one of those that survive: no loss that the model does not name,
\* and none of those it names is a mere caution.
THEOREM CellsSayWhatTheyHold ==
  ASSUME NEW c, IsCell(c)
  PROVE  Says(c, DetectSparkType(c.type), ExtractArrowValue(c)) <=> Survives(c)
<1>1. CASE IsNull(c)
  BY <1>1 DEF Says, ExtractArrowValue, Survives
<1>2. CASE ~IsNull(c)
  <2>1. /\ c.value \in Int /\ c.arg \in Int
        /\ c.type = "TIMESTAMP" => c.arg \in Units
        /\ c.type \in Integral => c.value # NotFinite
    BY DEF IsCell
  <2>2. \/ c.type \in {"BOOL", "DATE32"} \cup Integral \cup Floating \cup Textual \cup Bytes
        \/ c.type \in {"DATE64", "TIMESTAMP"}
        \/ c.type \in {"INTERVAL_MONTHS", "INTERVAL_DAY_TIME", "DURATION"}
        \/ c.type \in Decimals
        \/ c.type \in SmallDecimals
        \/ c.type \in Listing \cup ListViews \cup {"MAP"} \cup Structs
    BY DEF IsCell
  <2> QED
    BY <1>2, <2>1, <2>2, PlainCellSaid, TimeCellSaid, IntervalCellSaid, DecimalCellSaid,
       SmallDecimalCellSaid, NestedCellSaid
<1> QED
  BY <1>1, <1>2
=============================================================================
