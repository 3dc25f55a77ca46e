----------------------------- MODULE CheckDigits -----------------------------
(***************************************************************************)
(* IBANs and card numbers with their check digits.  A character is its value *)
(* in the MOD-97 computation: a digit is 0..9, a letter 10..35 and whatever  *)
(* else a user may type is 36.  A string is the sequence of its characters,  *)
(* blanks already dropped and letters already capital.                       *)
(***************************************************************************)
EXTENDS Integers, Sequences, FiniteSetsExt

IsDigit(c) == c \in 0..9
IsLetter(c) == c \in 10..35
DE == <<13, 14>>
DemoBankCode == <<9, 9, 9, 9, 9, 9, 9, 9>>
GermanIBANLength == 22

\* What is left of a string of digits and letters modulo 97, its first four
\* characters moved to the end.
mod97(iban) ==
  LET rearranged == SubSeq(iban, 5, Len(iban)) \o SubSeq(iban, 1, 4)
      remainder[i \in 0..Len(iban)] ==
        IF i = 0 THEN 0
        ELSE (remainder[i - 1] * (IF IsDigit(rearranged[i]) THEN 10 ELSE 100)
              + rearranged[i]) % 97
  IN  remainder[Len(iban)]

\* Mutant: any remainder but none is taken for a good one.
ValidateIBANLoosely(iban) ==
  /\ Len(iban) \in 15..34
  /\ \A i \in 1..Len(iban) : IsDigit(iban[i]) \/ IsLetter(iban[i])
  /\ mod97(iban) # 0

ValidateIBAN(iban) ==
  /\ Len(iban) \in 15..34
  /\ SubSeq(iban, 1, 2) = DE => Len(iban) = GermanIBANLength
  /\ \A i \in 1..2 : IsLetter(iban[i])
  /\ \A i \in 3..4 : IsDigit(iban[i])
  /\ \A i \in 5..Len(iban) : IsDigit(iban[i]) \/ IsLetter(iban[i])
  /\ mod97(iban) = 1

\* A number of decimal digits modulo m, as the big integers compute it.
Modulo(digits, m) ==
  LET r[i \in 0..Len(digits)] ==
        IF i = 0 THEN 0 ELSE (r[i - 1] * 10 + digits[i]) % m
  IN  r[Len(digits)]

\* The decimal digits of n, filled up with zeros to ten of them.
TenDigits(n) ==
  LET rest[i \in 0..9] == IF i = 0 THEN n ELSE rest[i - 1] \div 10
  IN  [i \in 1..10 |-> rest[10 - i] % 10]

\* The IBAN of an account number: 131400 stands for DE and the check digits 00.
GermanDemoIBANForAccount(number) ==
  LET bban == DemoBankCode \o TenDigits(number)
      checkDigits == 98 - Modulo(bban \o <<1, 3, 1, 4, 0, 0>>, 97)
  IN  DE \o <<checkDigits \div 10, checkDigits % 10>> \o bban

\* Luhn: every other digit from the first counts double, less 9 from 10 on.
validPAN(pan) ==
  LET Weight(i) ==
        LET d == IF i % 2 = 1 THEN 2 * pan[i] ELSE pan[i]
        IN  IF d > 9 THEN d - 9 ELSE d
      sum[i \in 0..Len(pan)] == IF i = 0 THEN 0 ELSE sum[i - 1] + Weight(i)
  IN  /\ Len(pan) = 16 /\ pan[1] = 4
      /\ \A i \in 1..16 : IsDigit(pan[i])
      /\ sum[16] % 10 = 0

\* The card number of fourteen drawn digits: the first check digit that fits.
generatePAN(prefix) ==
  LET candidate(digit) == <<4>> \o prefix \o <<digit>>
  IN  candidate(Min({digit \in 0..9 : validPAN(candidate(digit))}))

-----------------------------------------------------------------------------
(* What a user gets wrong.                                                  *)

\* One wrong character, of any kind, or two neighbours in the wrong order.
Mistyped(s, i, c) == [s EXCEPT ![i] = c]
Swapped(s, i) == [s EXCEPT ![i] = s[i + 1], ![i + 1] = s[i]]
OneSlip(s) ==
  {Mistyped(s, i, c) : i \in 1..Len(s), c \in 0..36}
    \cup {Swapped(s, i) : i \in 1..Len(s) - 1}

\* In a card number, a 0 and a 9 that are swapped are not noticed.
ZeroNine(pan) == {i \in 1..15 : {pan[i], pan[i + 1]} = {0, 9}}
PANSlips(pan) ==
  OneSlip(pan) \ ({pan} \cup {Swapped(pan, i) : i \in ZeroNine(pan)})

\* A letter counts as two digits.  Typed for a digit behind the first four
\* characters of an IBAN it is not noticed where the number before it makes up
\* for that: never for more than one letter in a place, and for some in every
\* IBAN of the bank, whose code 99999999 is the same with N for its third 9.
Unnoticed(iban) ==
  {u \in (5..GermanIBANLength) \X (10..35) :
     LET before == Modulo(SubSeq(iban, 5, u[1] - 1), 97)
     IN  (100 * before + u[2]) % 97 = (10 * before + iban[u[1]]) % 97}
=============================================================================
