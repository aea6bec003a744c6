------------------------------ MODULE Conversions ------------------------------
(***************************************************************************)
(* What becomes of one cell of a result on its way from an Arrow array to  *)
(* the JSON of an answer.                                                  *)
(*                                                                         *)
(* A cell is the type of its column, its value as an integer (days, time   *)
(* units, the unscaled number of a decimal, the element of a collection)   *)
(* and the type's parameter: the scale, or the time unit.  A value is what *)
(* encoding/json is handed: a shape and the numbers that it spells out.    *)
(*                                                                         *)
(* The numbers that the code writes as literals are constants where a      *)
(* small instance needs them smaller.                                      *)
(***************************************************************************)
EXTENDS GoIntegers, Sequences

CONSTANTS
  Thousand,  \* milliseconds per second, and so on
  Sixty,     \* seconds per minute and minutes per hour
  DayHours,  \* hours per day
  Mantissa   \* 2^53: float64 has every integer up to it

ASSUME ConversionsAssumption ==
  /\ Thousand \in Nat \ {0, 1}
  /\ Sixty \in Nat \ {0, 1}
  /\ DayHours \in Nat \ {0, 1}
  /\ Mantissa \in Nat \ {0}

\* The units of time columns, by their number in Arrow.
Second == 0
Millisecond == 1
Microsecond == 2
Nanosecond == 3

Million == Thousand * Thousand
Hour == Sixty * Sixty
Day == DayHours * Hour

PerSecond(unit) ==
  CASE unit = Second      -> 1
    [] unit = Millisecond -> Thousand
    [] unit = Microsecond -> Million
    [] unit = Nanosecond  -> Thousand * Million

\* Instead of an integer: no value, and a float that is NaN or infinite.
Absent == MaxInt + 1
NotFinite == MaxInt + 2

IsNull(c) == c.value = Absent

-----------------------------------------------------------------------------
(* Values.                                                                 *)

Value(shape, parts) == [shape |-> shape, parts |-> parts]

Null == Value("null", <<>>)

\* encoding/json refuses floats that JSON cannot write.
Encodable(v) == v # Value("number", <<NotFinite>>)

-----------------------------------------------------------------------------
(* Decimals.                                                               *)

Ten(k) == Power(10, k)

\* The decimal digits of a natural number.
Width(n) == CHOOSE w \in 1 .. n + 1 : Ten(w) > n /\ (w = 1 \/ Ten(w - 1) <= n)
Digits(n) == [i \in 1 .. Width(n) |-> (n \div Ten(Width(n) - i)) % 10]

Minus == -1
Point == -2
Sign(n) == IF n < 0 THEN <<Minus>> ELSE <<>>
Magnitude(n) == IF n < 0 THEN -n ELSE n

\* Zeros in front until there are more than `scale` digits.
Padded(digits, scale) ==
  LET missing == IF Len(digits) <= scale THEN scale + 1 - Len(digits) ELSE 0
  IN [i \in 1 .. missing |-> 0] \o digits

DecimalToString(n, scale) ==
  IF scale <= 0 THEN Value("text", Sign(n) \o Digits(Magnitude(n)))
  ELSE LET digits == Padded(Digits(Magnitude(n)), scale)
           dot    == Len(digits) - scale
       IN Value("text", Sign(n) \o SubSeq(digits, 1, dot)
                          \o <<Point>> \o SubSeq(digits, dot + 1, Len(digits)))

-----------------------------------------------------------------------------
(* Intervals: the sign and the fields, in the order they are written.      *)

WrittenSign(n) == IF n < 0 THEN -1 ELSE 1

YearToMonth(n, years, months) == Value("year to month", <<WrittenSign(n), years, months>>)

DayToSecond(n, days, hours, minutes, seconds, micros) ==
  Value("day to second", <<WrittenSign(n), days, hours, minutes, seconds, micros>>)

\* The smallest int32 stays negative when it is negated.
FormatMonthInterval(m) ==
  LET months == IF m < 0 THEN Int32(-m) ELSE m
  IN YearToMonth(m, Quo(months, 12), Rem(months, 12))

\* Days and milliseconds, each with a sign of its own; what is written has that of
\* the days.  A negative rest of milliseconds is not written.
FormatDayTime(days, millis) ==
  LET seconds == Quo(millis, Thousand)
      rest    == Rem(millis, Thousand)
  IN DayToSecond(days, Magnitude(days), Quo(seconds, Hour), Quo(Rem(seconds, Hour), Sixty),
                          Rem(seconds, Sixty), IF rest > 0 THEN rest * Thousand ELSE 0)

InMicroseconds(d, unit) ==
  CASE unit = Second      -> Int64(d * Million)
    [] unit = Millisecond -> Int64(d * Thousand)
    [] unit = Nanosecond  -> Quo(d, Thousand)
    [] OTHER              -> d

\* Wrong: the remainder of the day is not taken before the hours are counted.
FormatMicrosHoursRunOn(micros) ==
  LET size    == IF micros < 0 THEN Int64(-micros) ELSE micros
      seconds == Quo(size, Million)
  IN DayToSecond(micros, Quo(seconds, Day), Quo(seconds, Hour),
                            Quo(Rem(seconds, Hour), Sixty), Rem(seconds, Sixty),
                            IF Rem(size, Million) > 0 THEN Rem(size, Million) ELSE 0)

\* The smallest int64 stays negative, and so do its fields but for the fraction.
FormatMicros(micros) ==
  LET size    == IF micros < 0 THEN Int64(-micros) ELSE micros
      seconds == Quo(size, Million)
      ofDay   == Rem(seconds, Day)
      ofHour  == Rem(ofDay, Hour)
      rest    == Rem(size, Million)
  IN DayToSecond(micros, Quo(seconds, Day), Quo(ofDay, Hour), Quo(ofHour, Sixty),
                            Rem(ofHour, Sixty), IF rest > 0 THEN rest ELSE 0)

FormatDuration(d, unit) == FormatMicros(InMicroseconds(d, unit))

-----------------------------------------------------------------------------
(* Collections go through JSON, where every number becomes a float64.      *)

\* Up to the mantissa every integer is a float64, up to twice the mantissa every
\* second one, and so on.
Spacing(n) ==
  Power(2, CHOOSE k \in 0 .. Magnitude(n) :
             /\ Magnitude(n) <= Power(2, k) * Mantissa
             /\ k = 0 \/ Magnitude(n) > Power(2, k - 1) * Mantissa)

\* The nearest float64; of two, the even one.
Float64(n) ==
  LET gap   == Spacing(n)
      below == n \div gap
      rest  == n % gap
  IN IF 2 * rest < gap \/ (2 * rest = gap /\ below % 2 = 0) THEN below * gap
     ELSE (below + 1) * gap

\* The field of a struct is a Go value of its own type.  A list there is still its
\* JSON text, to SanitizeValue a slice of bytes, and comes out in base64.
SanitizeStruct(c) ==
  Value(IF c.type = "STRUCT OF LIST" THEN "object of base64" ELSE "object", <<c.value>>)

-----------------------------------------------------------------------------
Integral == {"INT8", "INT16", "INT32", "INT64", "UINT8", "UINT16", "UINT32", "UINT64"}
Floating == {"FLOAT16", "FLOAT32", "FLOAT64"}
Textual  == {"STRING", "LARGE_STRING", "STRING_VIEW"}
Bytes    == {"BINARY", "LARGE_BINARY", "BINARY_VIEW", "FIXED_SIZE_BINARY"}
Decimals == {"DECIMAL128", "DECIMAL256"}
Listing  == {"LIST", "LARGE_LIST", "FIXED_SIZE_LIST"}

\* Those that extractArrowValue has no case for.
SmallDecimals == {"DECIMAL32", "DECIMAL64"}
ListViews     == {"LIST_VIEW", "LARGE_LIST_VIEW"}

Structs  == {"STRUCT", "STRUCT OF LIST"}

Units == {Second, Millisecond, Microsecond, Nanosecond}

\* The cells that an Arrow array can hold.
IsCell(c) ==
  /\ c.type \in {"BOOL", "DATE32", "DATE64", "TIMESTAMP", "INTERVAL_MONTHS", "INTERVAL_DAY_TIME",
                 "DURATION", "MAP"}
               \cup Integral \cup Floating \cup Textual \cup Bytes \cup Decimals
               \cup SmallDecimals \cup Listing \cup ListViews \cup Structs
  /\ c.value \in Int /\ c.arg \in Int
  /\ c.type \in {"TIMESTAMP", "DURATION"} => c.arg \in Units
  /\ c.type \in Integral => c.value # NotFinite
  /\ ~IsNull(c) =>
       /\ c.type = "INTERVAL_MONTHS" => c.value \in -(MaxInt32 + 1) .. MaxInt32
       /\ c.type = "DURATION" => c.value \in -(MaxInt + 1) .. MaxInt

\* The type a column has in the schema of the answer.
DetectSparkType(type) ==
  CASE type = "BOOL"                                  -> "boolean"
    [] type \in {"INT8", "UINT8"}                     -> "byte"
    [] type \in {"INT16", "UINT16"}                   -> "short"
    [] type \in {"INT32", "UINT32"}                   -> "integer"
    [] type \in {"INT64", "UINT64"}                   -> "long"
    [] type \in {"FLOAT16", "FLOAT32"}                -> "float"
    [] type = "FLOAT64"                               -> "double"
    [] type \in Decimals \cup SmallDecimals           -> "decimal"
    [] type \in Bytes                                 -> "binary"
    [] type \in {"DATE32", "DATE64"}                  -> "date"
    [] type = "TIMESTAMP"                             -> "timestamp"
    [] type \in {"INTERVAL_MONTHS", "INTERVAL_DAY_TIME", "DURATION"} -> "interval"
    [] type \in Listing \cup ListViews                -> "array"
    [] type = "MAP"                                   -> "map"
    [] type \in Structs                               -> "struct"
    [] OTHER                                          -> "string"

\* Arrow's own value: of a small decimal the number with its scale as a text in
\* Arrow's form, of a list its JSON text, which is read again.
ByDefault(c) ==
  IF c.type \in SmallDecimals THEN Value("number in a text", <<c.value, c.arg>>)
  ELSE Value("array", <<Float64(c.value)>>)

ExtractArrowValue(c) ==
  IF IsNull(c) THEN Null ELSE
  CASE c.type = "BOOL"                -> Value("boolean", <<c.value>>)
    [] c.type \in Integral \cup Floating -> Value("number", <<c.value>>)
    [] c.type \in Textual             -> Value("text", <<c.value>>)
    [] c.type \in Bytes               -> Value("base64", <<c.value>>)
    [] c.type = "DATE32"              -> Value("date", <<c.value>>)
    [] c.type = "DATE64"              -> Value("date", <<c.value \div (Day * Thousand)>>)
    [] c.type = "TIMESTAMP"           -> Value("time", <<c.value \div PerSecond(c.arg)>>)
    [] c.type = "INTERVAL_MONTHS"     -> FormatMonthInterval(c.value)
    [] c.type = "INTERVAL_DAY_TIME"   -> FormatDayTime(c.arg, c.value)
    [] c.type = "DURATION"            -> FormatDuration(c.value, c.arg)
    [] c.type \in Decimals            -> DecimalToString(c.value, c.arg)
    [] c.type \in Listing             -> Value("array", <<Float64(c.value)>>)
    [] c.type = "MAP"                 -> Value("object", <<Float64(c.value), Float64(c.value)>>)
    [] c.type \in Structs             -> SanitizeStruct(c)
    [] OTHER                          -> ByDefault(c)

-----------------------------------------------------------------------------
(* What a client reads from a value, knowing the type in the schema.       *)

\* The number of smallest units that the fields of an interval stand for, each
\* within its range.
SaysMonths(parts, m) ==
  /\ parts[2] \in Nat /\ parts[3] \in 0 .. 11
  /\ parts[1] * (12 * parts[2] + parts[3]) = m

MicrosOf(parts) ==
  parts[1] * (parts[2] * Day + parts[3] * Hour + parts[4] * Sixty + parts[5]) * Million
    + parts[1] * parts[6]

SaysMicros(parts, days, micros) ==
  /\ \A i \in 2 .. 6 : parts[i] \in Nat
  /\ parts[3] < DayHours /\ parts[4] < Sixty /\ parts[5] < Sixty /\ parts[6] < Million
  /\ MicrosOf(parts) = days * Day * Million + micros

\* A decimal in full: the whole part without needless zeros, `scale` decimals.
SaysDecimal(parts, n, scale) ==
  LET one   == Ten(scale)
      whole == Digits(Magnitude(n) \div one)
      rest  == Magnitude(n) % one
  IN parts = Sign(n) \o whole \o
       (IF scale = 0 THEN <<>>
        ELSE <<Point>> \o [i \in 1 .. scale |-> (rest \div Ten(scale - i)) % 10])

Says(c, type, v) ==
  IF IsNull(c) THEN v = Null ELSE
  CASE type = "boolean"    -> v = Value("boolean", <<c.value>>)
    [] type \in {"byte", "short", "integer", "long", "float", "double"} ->
                              v = Value("number", <<c.value>>) /\ Encodable(v)
    [] type = "string"     -> v = Value("text", <<c.value>>)
    [] type = "binary"     -> v = Value("base64", <<c.value>>)
    [] type = "decimal"    -> \/ v = Value("number in a text", <<c.value, c.arg>>)
                              \/ /\ c.arg >= 0
                                 /\ v.shape = "text" /\ SaysDecimal(v.parts, c.value, c.arg)
    [] type = "date"       -> /\ v.shape = "date"
                              /\ v.parts[1] * (IF c.type = "DATE64" THEN Day * Thousand ELSE 1) = c.value
    [] type = "timestamp"  -> v.shape = "time" /\ v.parts[1] * PerSecond(c.arg) = c.value
    [] type = "array"      -> v = Value("array", <<c.value>>)
    [] type = "map"        -> v = Value("object", <<c.value, c.value>>)
    [] type = "struct"     -> v = Value("object", <<c.value>>)
    [] type = "interval"   ->
         CASE c.type = "INTERVAL_MONTHS"   -> v.shape = "year to month" /\ SaysMonths(v.parts, c.value)
           [] c.type = "INTERVAL_DAY_TIME" -> /\ v.shape = "day to second"
                                              /\ SaysMicros(v.parts, c.arg, c.value * Thousand)
           [] c.type = "DURATION"          -> /\ v.shape = "day to second"
                                              /\ CASE c.arg = Second      -> SaysMicros(v.parts, 0, c.value * Million)
                                                   [] c.arg = Millisecond -> SaysMicros(v.parts, 0, c.value * Thousand)
                                                   [] c.arg = Microsecond -> SaysMicros(v.parts, 0, c.value)
                                                   [] c.arg = Nanosecond  -> /\ c.value % Thousand = 0
                                                                             /\ SaysMicros(v.parts, 0, c.value \div Thousand)

\* The cells that do not survive: NaN and the infinities, which no answer carries,
\* times with a fraction of a second, durations that
\* overflow or are finer than a microsecond, the smallest interval of months,
\* milliseconds of another sign than the days or of more than a day, decimals of
\* negative scale, numbers beyond the mantissa in a collection, lists in a struct.
Survives(c) ==
  IsNull(c) \/
  CASE c.type \in Floating          -> c.value # NotFinite
    [] c.type = "TIMESTAMP"         -> c.value % PerSecond(c.arg) = 0
    [] c.type = "DATE64"            -> c.value % (Day * Thousand) = 0
    [] c.type = "INTERVAL_MONTHS"   -> c.value >= -MaxInt32
    [] c.type = "INTERVAL_DAY_TIME" -> c.value = 0 \/ (c.arg >= 0 /\ c.value \in 1 .. Day * Thousand - 1)
    [] c.type = "DURATION"          ->
         (CASE c.arg = Nanosecond  -> c.value % Thousand = 0
            [] c.arg = Microsecond -> c.value >= -MaxInt
            [] c.arg = Millisecond -> Magnitude(c.value * Thousand) <= MaxInt
            [] c.arg = Second      -> Magnitude(c.value * Million) <= MaxInt)
    [] c.type \in Decimals          -> c.arg >= 0
    [] c.type \in Listing \cup ListViews \cup {"MAP"} -> c.value % Spacing(c.value) = 0
    [] c.type = "STRUCT OF LIST"    -> FALSE
    [] OTHER                        -> TRUE
=============================================================================
