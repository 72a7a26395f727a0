--------------------------------- MODULE Money ---------------------------------
(***************************************************************************)
(* lib/money.ts: amounts are integers of the minor unit of their currency; *)
(* what is displayed and typed is a decimal string of the major unit.  A   *)
(* string is a record of its sign and its digits on each side of the point *)
(* (<<>> after the point when there is none).                              *)
(***************************************************************************)
EXTENDS Integers, SequencesExt

CONSTANTS
  Currencies,
  ZERO_DECIMAL_CURRENCIES, THREE_DECIMAL_CURRENCIES,
  MaxSafeInteger

ASSUME MoneyAssumption ==
  /\ ZERO_DECIMAL_CURRENCIES \subseteq Currencies /\ THREE_DECIMAL_CURRENCIES \subseteq Currencies
  /\ ZERO_DECIMAL_CURRENCIES \cap THREE_DECIMAL_CURRENCIES = {}
  /\ MaxSafeInteger \in Nat

Digit == 0..9

GetExponent(currency) ==
  CASE currency \in ZERO_DECIMAL_CURRENCIES -> 0
    [] currency \in THREE_DECIMAL_CURRENCIES -> 3
    [] OTHER -> 2

\* String(n), and Number of a string of digits.
DigitsOf[n \in Nat] == IF n < 10 THEN <<n>> ELSE Append(DigitsOf[n \div 10], n % 10)
Number(digits) == FoldLeft(LAMBDA sum, digit : 10 * sum + digit, 0, digits)

Zeros(n) == [i \in 1..n |-> 0]
PadStart(digits, width) == Zeros(IF Len(digits) < width THEN width - Len(digits) ELSE 0) \o digits
PadEnd(digits, width) == digits \o Zeros(IF Len(digits) < width THEN width - Len(digits) ELSE 0)

MinorToMajorString(minor, currency) ==
  LET exp == GetExponent(currency)
      padded == PadStart(DigitsOf[IF minor < 0 THEN -minor ELSE minor], exp + 1)
  IN [neg |-> minor < 0,
      int |-> SubSeq(padded, 1, Len(padded) - exp),
      frac |-> SubSeq(padded, Len(padded) - exp + 1, Len(padded))]

NoAmount == -1
\* What is not a plain decimal, or has more digits after the point than the currency, is
\* refused, and so is what is too large to be exact.
MajorStringToMinor(major, currency) ==
  LET exp == GetExponent(currency)
      n == Number(major.int \o PadEnd(major.frac, exp))
  IN IF major.neg \/ major.int = <<>> \/ Len(major.frac) > exp \/ n > MaxSafeInteger
     THEN NoAmount ELSE n
=============================================================================
