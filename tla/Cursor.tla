------------------------------- MODULE Cursor -------------------------------
(***************************************************************************)
(* The text form of a cursor (internal/service/cursor.go), over an         *)
(* alphabet of a few characters.  "v1" stands for the version tag, "x" for *)
(* any other character, and "?" for a byte that is not UTF-8.  Numerals    *)
(* have two digits here instead of ten.  A token is a text in an encoding: *)
(* "exact" is what RawURLEncoding writes, "padded" has padding, "broken"   *)
(* newlines, and "loose" bits beyond its end that are not zero.  Base64    *)
(* writes three bytes in four characters: the bound on a token, 2048, is   *)
(* one on its text, 1536 bytes.                                            *)
(***************************************************************************)
EXTENDS Integers, Sequences

CONSTANTS
  NoCursor,
  MaxTokenLength,  \* maxCursorTokenLength, as a bound on the text
  MaxMillis        \* the largest int64

Chars     == {"v1", "|", "-", "0", "1", "x", "?"}
Encodings == {"exact", "padded", "broken", "loose"}

TextsUpTo(n) == UNION {[1 .. k -> Chars] : k \in 0 .. n}

Digit(d) == IF d = 0 THEN "0" ELSE "1"

(* strconv.FormatInt and ParseInt; ParseInt takes a sign and zeros in      *)
(* front, and nothing beyond its width.                                    *)
Numeral[n \in Nat] ==
  IF n < 2 THEN <<Digit(n)>> ELSE Append(Numeral[n \div 2], Digit(n % 2))

IsDigits(text) == text # <<>> /\ \A i \in 1 .. Len(text) : text[i] \in {"0", "1"}

IsInt(text) == IsDigits(text) \/ (text # <<>> /\ Head(text) = "-" /\ IsDigits(Tail(text)))

DigitsValue[text \in Seq({"0", "1"})] ==
  IF text = <<>> THEN 0
  ELSE 2 * DigitsValue[SubSeq(text, 1, Len(text) - 1)]
         + (IF text[Len(text)] = "0" THEN 0 ELSE 1)

ParseInt(text) ==
  IF Head(text) = "-" THEN - DigitsValue[Tail(text)] ELSE DigitsValue[text]

-----------------------------------------------------------------------------
Token(cursor) ==
  [encoding |-> "exact",
   text     |-> <<"v1", "|">> \o Numeral[cursor.millis] \o <<"|">> \o cursor.key]

DecodesWithoutStrict(token) ==
  /\ token.text # <<>> /\ Len(token.text) <= MaxTokenLength
  /\ token.encoding \in {"exact", "loose"}

Decodes(token) ==
  /\ token.text # <<>> /\ Len(token.text) <= MaxTokenLength
  /\ token.encoding = "exact"

Bars(text) == {i \in 1 .. Len(text) : text[i] = "|"}

FirstOf(indices) == CHOOSE i \in indices : \A j \in indices : i <= j

(* strings.SplitN in three: whatever bars come later belong to the key.    *)
Split(text) ==
  LET first  == FirstOf(Bars(text))
      second == FirstOf(Bars(text) \ {first})
  IN  [tag    |-> SubSeq(text, 1, first - 1),
       millis |-> SubSeq(text, first + 1, second - 1),
       key    |-> SubSeq(text, second + 1, Len(text))]

HasThreeFields(text) == \E i, j \in Bars(text) : i < j

CanonicalMillis(text) ==
  IsInt(text) /\ ParseInt(text) \in 0 .. MaxMillis /\ Numeral[ParseInt(text)] = text

ValidKey(key) == key # <<>> /\ \A i \in 1 .. Len(key) : key[i] # "?"

WellFormed(token) ==
  /\ Decodes(token) /\ HasThreeFields(token.text)
  /\ LET fields == Split(token.text)
     IN  fields.tag = <<"v1">> /\ CanonicalMillis(fields.millis) /\ ValidKey(fields.key)

ParseCursor(token) ==
  IF WellFormed(token)
    THEN [millis |-> ParseInt(Split(token.text).millis), key |-> Split(token.text).key]
    ELSE NoCursor
=============================================================================
