-------------------------------- MODULE Buffer --------------------------------
(***************************************************************************)
(* The library's Buffer: bytes written one after the other, and read.      *)
(*                                                                         *)
(* A buffer that is being read is a record r: data, the position pos (the  *)
(* number of bytes read or skipped, possibly more than there are), the     *)
(* byte order little, failed (a ParseException), and v, what has been read *)
(* so far, by name.  A sequence of reads is a layout, a sequence of        *)
(* <<operation, name>>.  Four-byte numbers are taken to stay below 2^31.   *)
(***************************************************************************)
EXTENDS Integers, SequencesExt

-----------------------------------------------------------------------------
(* Writing.                                                                *)

Ordered(bytes, little) ==
    IF little THEN [i \in DOMAIN bytes |-> bytes[Len(bytes) + 1 - i]] ELSE bytes

Short(n, little) == Ordered(<<(n \div 256) % 256, n % 256>>, little)
Long(n, little) ==
    Ordered(<<n \div 16777216, (n \div 65536) % 256, (n \div 256) % 256, n % 256>>, little)
Zeros(n) == [i \in 1 .. n |-> 0]

\* A marker: two bytes that are set to the length of what follows.
Sized(little, body) == Short(Len(body), little) \o body

\* operator<<(const string&), PackByteString, PackUint16StringNull
PackString(s, little) == Sized(little, s)
PackByteString(s) == <<Len(s) % 256>> \o s
PackUint16StringNull(s) == Short(Len(s) + 1, TRUE) \o s \o <<0>>

\* Contact::UINtoString and StringtoUIN
UINtoString(uin) ==
    LET digits[n \in Nat] == IF n < 10 THEN <<48 + n>> ELSE Append(digits[n \div 10], 48 + (n % 10))
    IN  digits[uin]
StringtoUIN(s) ==
    LET end == SelectInSeq(Append(s, 0), LAMBDA c : c \notin 48 .. 57)
    IN  FoldLeft(LAMBDA n, c : (n * 10) + (c - 48), 0, SubSeq(s, 1, end - 1))

-----------------------------------------------------------------------------
(* Reading.                                                                *)

Reader(bytes) ==
    [data |-> bytes, pos |-> 0, little |-> FALSE, failed |-> FALSE, v |-> <<>>]
Fail(r) == [r EXCEPT !.failed = TRUE]
With(r, name, value) == [r EXCEPT !.v = (name :> value) @@ @]
Advance(r, n) == [r EXCEPT !.pos = @ + n]
BeforeEnd(r) == r.pos < Len(r.data)

\* The most significant byte comes first.
BigEndian(b) ==
    CASE Len(b) = 1 -> b[1]
      [] Len(b) = 2 -> (b[1] * 256) + b[2]
      [] Len(b) = 4 -> (((((b[1] * 256) + b[2]) * 256) + b[3]) * 256) + b[4]
Number(bytes, little) == BigEndian(Ordered(bytes, little))

\* Unpack: as many bytes as there are
Take(r, name, n) == Advance(With(r, name, SubSeq(r.data, r.pos + 1, r.pos + n)), n)
Unpack(r, name, n) ==
    Take(r, name, IF r.pos >= Len(r.data) THEN 0
                  ELSE IF r.pos + n > Len(r.data) THEN Len(r.data) - r.pos ELSE n)

\* A short or a long past the end is zero and advances all the same; a byte
\* does not advance.
Width == [byte |-> 1, short |-> 2, long |-> 4]
UnpackNumber(r, name, width) ==
    IF r.pos + width <= Len(r.data)
    THEN Advance(With(r, name, Number(SubSeq(r.data, r.pos + 1, r.pos + width), r.little)), width)
    ELSE Advance(With(r, name, 0), IF width = 1 THEN 0 ELSE width)

\* Strings that are preceded by their length, which has been read.  A text
\* has one byte more, zero, that is no part of it.
LengthWidth == ("byte string" :> 1) @@ ("string" :> 2) @@ ("long string" :> 4) @@ ("text" :> 2)
UnpackString(r, name) == Unpack(r, name, r.v["l"])
UnpackUint16StringNull(r, name) ==
    IF r.v["l"] = 0 THEN With(r, name, <<>>) ELSE Advance(Unpack(r, name, r.v["l"] - 1), 1)
UnpackCounted(r, op, x) ==
    IF op = "text" THEN UnpackUint16StringNull(r, x) ELSE UnpackString(r, x)

Get(r, op, x) ==
    CASE op \in DOMAIN Width -> UnpackNumber(r, x, Width[op])
      [] op \in DOMAIN LengthWidth -> UnpackCounted(UnpackNumber(r, "l", LengthWidth[op]), op, x)
      [] op = "chars" -> Unpack(r, x, r.v["l"] - 4)
      [] op = "advance" -> Advance(r, x)
      [] op = "advance by" -> Advance(r, r.v[x])
      [] op = "little endian" -> [r EXCEPT !.little = x]
RECURSIVE Read(_, _)
Read(r, layout) ==
    IF layout = <<>> THEN r ELSE Read(Get(r, layout[1][1], layout[1][2]), Tail(layout))
=============================================================================
