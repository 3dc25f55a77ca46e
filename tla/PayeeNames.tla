------------------------------ MODULE PayeeNames ------------------------------
(***************************************************************************)
(* How the payee name a customer typed is compared with the name the bank    *)
(* knows.  A name is a sequence of characters, and a character a number: n   *)
(* for the n-th letter, 100 + n for its capital, and 0 for a blank or any    *)
(* other mark.                                                              *)
(***************************************************************************)
EXTENDS Integers, SequencesExt

Blank == 0
lower(c) == c % 100

\* A name is made of blanks and of characters that have a small letter.
IsName(name) ==
  /\ name \in Seq(Nat)
  /\ \A i \in 1..Len(name) : name[i] = Blank \/ lower(name[i]) # Blank

\* Small letters, one blank for a run of marks, and none at either end.
normalizePersonName(name) ==
  LET out[i \in 0..Len(name)] ==
        IF i = 0 THEN <<>>
        ELSE IF name[i] # Blank THEN Append(out[i - 1], lower(name[i]))
        ELSE IF out[i - 1] # <<>> /\ Last(out[i - 1]) # Blank
             THEN Append(out[i - 1], Blank)
        ELSE out[i - 1]
      written == out[Len(name)]
  IN  IF written # <<>> /\ Last(written) = Blank THEN Front(written)
      ELSE written

\* The tokens of a normalized name.
Fields(name) ==
  LET out[i \in 0..Len(name)] ==
        IF i = 0 THEN << <<>> >>
        ELSE IF name[i] = Blank THEN Append(out[i - 1], <<>>)
        ELSE Append(Front(out[i - 1]), Append(Last(out[i - 1]), name[i]))
  IN  out[Len(name)]

sameNameTokens(a, b) ==
  LET aTokens == Fields(a)
      bTokens == Fields(b)
      Count(s, token) == Cardinality({i \in DOMAIN s : s[i] = token})
  IN  /\ Len(aTokens) = Len(bTokens)
      /\ Len(aTokens) >= 2
      /\ \A token \in ToSet(aTokens) \cup ToSet(bTokens) :
           Count(aTokens, token) = Count(bTokens, token)

Least(x, y, z) == CHOOSE m \in {x, y, z} : m <= x /\ m <= y /\ m <= z

\* Mutant: a row starts at 0 instead of its number.
levenshteinSuffix(a, b) ==
  LET row[i \in 0..Len(a)] ==
        IF i = 0 THEN [j \in 1..Len(b) + 1 |-> j - 1]
        ELSE LET previous == row[i - 1]
                 cells[j \in 0..Len(b)] ==
                   IF j = 0 THEN <<0>>
                   ELSE LET current == cells[j - 1]
                        IN  Append(current,
                              Least(current[j] + 1, previous[j + 1] + 1,
                                    previous[j] + (IF a[i] = b[j] THEN 0
                                                   ELSE 1)))
             IN  cells[Len(previous) - 1]
  IN  row[Len(a)][Len(b) + 1]

\* One row of the distance table after the other, each as long as the one
\* before; a row's first entry is for the empty beginning of b.
levenshtein(a, b) ==
  LET row[i \in 0..Len(a)] ==
        IF i = 0 THEN [j \in 1..Len(b) + 1 |-> j - 1]
        ELSE LET previous == row[i - 1]
                 cells[j \in 0..Len(b)] ==
                   IF j = 0 THEN <<i>>
                   ELSE LET current == cells[j - 1]
                        IN  Append(current,
                              Least(current[j] + 1, previous[j + 1] + 1,
                                    previous[j] + (IF a[i] = b[j] THEN 0
                                                   ELSE 1)))
             IN  cells[Len(previous) - 1]
  IN  row[Len(a)][Len(b) + 1]

Threshold(actual) ==
  IF 2 > Len(actual) \div 5 THEN 2 ELSE Len(actual) \div 5

NoName == <<>>
Verdicts == {"MATCH", "CLOSE_MATCH", "NO_MATCH", "OTHER"}

\* The verdict on a typed name, given the name on record or none.
EvaluateVoP(providedName, actualName) ==
  LET provided == normalizePersonName(providedName)
      actual == normalizePersonName(actualName)
  IN  IF actualName = NoName \/ provided = <<>> THEN "OTHER"
      ELSE IF provided = actual THEN "MATCH"
      ELSE IF \/ levenshtein(provided, actual) <= Threshold(actual)
              \/ sameNameTokens(provided, actual)
           THEN "CLOSE_MATCH"
      ELSE "NO_MATCH"

-----------------------------------------------------------------------------
(* What the verdict should be, without the code's algorithms.               *)

\* The words of a name: its longest runs of letters, in order, as small letters.
Runs(name) ==
  {w \in (1..Len(name)) \X (1..Len(name)) :
     /\ w[1] <= w[2]
     /\ \A i \in w[1]..w[2] : name[i] # Blank
     /\ w[1] > 1 => name[w[1] - 1] = Blank
     /\ w[2] < Len(name) => name[w[2] + 1] = Blank}
Words(name) ==
  LET runs == Runs(name)
      Place(w) == Cardinality({v \in runs : v[1] <= w[1]})
      run(k) == CHOOSE w \in runs : Place(w) = k
  IN  [k \in 1..Cardinality(runs) |->
         [i \in 1..run(k)[2] - run(k)[1] + 1 |->
            name[run(k)[1] + i - 1] % 100]]

\* Words behind each other, a blank between two.
Joint(w) ==
  LET out[i \in 0..Len(w)] ==
        IF i = 0 THEN <<>>
        ELSE IF i = 1 THEN w[1]
        ELSE out[i - 1] \o <<Blank>> \o w[i]
  IN  out[Len(w)]
Spoken(name) == Joint(Words(name))

\* The names one typing error away: a character left out, added or wrong.
Slips(s, alphabet) ==
  {RemoveAt(s, i) : i \in 1..Len(s)} \cup
  {InsertAt(s, i, c) : i \in 1..Len(s) + 1, c \in alphabet} \cup
  {ReplaceAt(s, i, c) : i \in 1..Len(s), c \in alphabet}

Within(s, n, alphabet) ==
  LET ball[k \in 0..n] ==
        IF k = 0 THEN {s}
        ELSE ball[k - 1] \cup UNION {Slips(u, alphabet) : u \in ball[k - 1]}
  IN  ball[n]

\* At most n typing errors lead from a to b.
ErrorsApart(a, b, n) ==
  LET alphabet == ToSet(a) \cup ToSet(b)
  IN  Within(a, n \div 2, alphabet) \cap
      Within(b, n - n \div 2, alphabet) # {}

Rearranged(v, w) ==
  /\ Len(v) = Len(w) /\ Len(v) > 1
  /\ \E f \in [1..Len(v) -> 1..Len(v)] :
       IsInjective(f) /\ v = [i \in 1..Len(v) |-> w[f[i]]]

Verdict(provided, actual) ==
  IF actual = NoName \/ Words(provided) = <<>> THEN "OTHER"
  ELSE IF Words(provided) = Words(actual) THEN "MATCH"
  ELSE IF \/ ErrorsApart(Spoken(provided), Spoken(actual),
                         IF Len(Spoken(actual)) < 15 THEN 2
                         ELSE Len(Spoken(actual)) \div 5)
          \/ Rearranged(Words(provided), Words(actual))
       THEN "CLOSE_MATCH"
  ELSE "NO_MATCH"
=============================================================================
