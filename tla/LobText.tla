------------------------------ MODULE LobText ------------------------------
(***************************************************************************)
(* The characters of a LOB on the wire: the conversions of                 *)
(* internal/driver/ttc/clob_executor.go and the unit of amounts of         *)
(* lobamt_unit.go.  A character is its code point, a UTF-16 code unit is a *)
(* number below 65536, a payload is a sequence of bytes.  The operators    *)
(* about one character are those of Go's packages unicode/utf16 and        *)
(* unicode/utf8, which the driver calls.                                   *)
(***************************************************************************)
EXTENDS Integers, Sequences

Surrogate1 == 55296      \* 0xD800, the first high surrogate
Surrogate2 == 56320      \* 0xDC00, the first low surrogate
Surrogate3 == 57344      \* 0xE000, the first unit after the surrogates
Supplementary == 65536   \* 0x10000, the first code point of two units
MaxRune == 1114111       \* 0x10FFFF
Replacement == 65533     \* U+FFFD
bytesPerUTF16CodeUnit == 2

IsSurrogate(u) == Surrogate1 <= u /\ u < Surrogate3

\* utf16.Encode of one rune, and utf16.DecodeRune of a surrogate pair.
UnitsOf(r) ==
  IF Supplementary <= r /\ r <= MaxRune
  THEN <<Surrogate1 + ((r - Supplementary) \div 1024), Surrogate2 + ((r - Supplementary) % 1024)>>
  ELSE IF r < 0 \/ r > MaxRune \/ IsSurrogate(r) THEN <<Replacement>> ELSE <<r>>

IsPair(u, v) == Surrogate1 <= u /\ u < Surrogate2 /\ Surrogate2 <= v /\ v < Surrogate3
RuneOfPair(u, v) == Supplementary + (u - Surrogate1) * 1024 + (v - Surrogate2)
RuneOfUnit(u) == IF IsSurrogate(u) THEN Replacement ELSE u

\* One code unit in writeUTF16ToBuffer, and in readUTF16CodeUnits.
BytesOfUnit(u, littleEndian) ==
  IF littleEndian THEN <<u % 256, u \div 256>> ELSE <<u \div 256, u % 256>>
UnitOfBytes(b, c, littleEndian) ==
  IF littleEndian THEN b + 256 * c ELSE 256 * b + c

\* The length of the UTF-8 form of a rune.
Utf8Length(r) == IF r < 128 THEN 1 ELSE IF r < 2048 THEN 2 ELSE IF r < Supplementary THEN 3 ELSE 4

getByteBufferSizeForConversion(variableWidth, numChars) ==
  IF variableWidth THEN numChars * bytesPerUTF16CodeUnit ELSE numChars * 3

\* The unit of lobAmt for a character set; "none" is the error of an unsupported one.
resolveLobAmtUnit(charSet) ==
  CASE charSet = "AL16UTF16" -> "codeUnit"
    [] charSet = "AL32UTF8"  -> "codePoint"
    [] OTHER -> "none"
============================================================================
