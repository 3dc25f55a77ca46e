--------------------------- MODULE PayeeNamesProofs ---------------------------
(***************************************************************************)
(* Proofs about PayeeNames, for any two names: the verdict of the code's     *)
(* algorithms is the verdict of the plain definitions.                      *)
(*                                                                          *)
(* The distance table: two strings that are one error apart have last rows   *)
(* that differ by one at most, so no way of k errors is shorter than what    *)
(* the table says; and every entry of the table is a way of that many        *)
(* errors between two beginnings.                                           *)
(*                                                                          *)
(* The normalized name: reading a name character by character keeps the      *)
(* list of the runs of letters so far next to what is written, which spells  *)
(* the words those runs are.                                                *)
(***************************************************************************)
EXTENDS PayeeNames, FoldTheorems, SequenceTheorems, FunctionTheorems

-----------------------------------------------------------------------------
(* Strings, and a string with one error.                                    *)

\* A string of n characters of S, and one behind another.
IsString(s, S, n) == s \in Seq(S) /\ Len(s) = n
Joined(a, b) == a \o b
Joins(w, a, m, b, k) ==
  /\ \A i \in 1..m : w[i] = a[i]
  /\ \A i \in 1..k : w[m + i] = b[i]

\* The length and the characters of two strings that are joined.
LEMMA StringsJoin ==
  ASSUME NEW S, NEW m \in Nat, NEW k \in Nat,
         NEW a, IsString(a, S, m), NEW b, IsString(b, S, k)
  PROVE  /\ IsString(Joined(a, b), S, m + k)
         /\ Joins(Joined(a, b), a, m, b, k)
<1> DEFINE w == Joined(a, b)
<1>1. a \in Seq(S) /\ b \in Seq(S) /\ Len(a) = m /\ Len(b) = k
  BY DEF IsString
<1>2. /\ w \in Seq(S) /\ Len(w) = Len(a) + Len(b)
      /\ \A i \in 1..Len(a) + Len(b) :
           w[i] = IF i <= Len(a) THEN a[i] ELSE b[i - Len(a)]
  BY <1>1, ConcatProperties, Zenon DEF Joined
<1> HIDE DEF w
<1>3. ASSUME NEW i \in 1..m
      PROVE  w[i] = a[i]
  <2>1. i \in 1..Len(a) + Len(b) /\ i <= Len(a)
    BY <1>1
  <2> QED BY <1>2, <2>1
<1>4. ASSUME NEW i \in 1..k
      PROVE  w[m + i] = b[i]
  <2>1. /\ m + i \in 1..Len(a) + Len(b) /\ ~(m + i <= Len(a))
        /\ (m + i) - Len(a) = i
    BY <1>1
  <2> QED BY <1>2, <2>1
<1>5. IsString(w, S, m + k)
  BY <1>1, <1>2 DEF IsString
<1>6. Joins(w, a, m, b, k)
  BY <1>3, <1>4 DEF Joins
<1> QED BY <1>5, <1>6 DEF w

\* Part of a string, and its characters.
Cut(s, lo, hi) == SubSeq(s, lo, hi)
IsCut(w, s, lo, n) == \A i \in 1..n : w[i] = s[lo + i - 1]

\* A cut is a string of its characters.
LEMMA StringCut ==
  ASSUME NEW S, NEW n \in Nat, NEW s, IsString(s, S, n),
         NEW lo \in 1..n + 1, NEW hi \in lo - 1..n
  PROVE  /\ IsString(Cut(s, lo, hi), S, hi - lo + 1)
         /\ IsCut(Cut(s, lo, hi), s, lo, hi - lo + 1)
<1> DEFINE w == Cut(s, lo, hi)
<1>1. \A i \in lo..hi : s[i] \in S
  <2>1. s \in [1..n -> S]
    BY LenProperties DEF IsString
  <2> QED BY <2>1
<1>2. /\ w \in Seq(S) /\ Len(w) = IF lo <= hi THEN hi - lo + 1 ELSE 0
      /\ \A i \in 1..hi - lo + 1 : w[i] = s[lo + i - 1]
  <2>1. lo \in Int /\ hi \in Int
    OBVIOUS
  <2> QED BY <1>1, <2>1, SubSeqProperties DEF Cut
<1> HIDE DEF w
<1>3. Len(w) = hi - lo + 1
  BY <1>2
<1>4. IsString(w, S, hi - lo + 1)
  BY <1>2, <1>3 DEF IsString
<1>5. IsCut(w, s, lo, hi - lo + 1)
  BY <1>2 DEF IsCut
<1> QED BY <1>4, <1>5 DEF w

\* A string is a function from its places, and is known by its characters.
LEMMA StringTyped ==
  ASSUME NEW S, NEW n \in Nat, NEW s, IsString(s, S, n)
  PROVE  s \in [1..n -> S]
BY LenProperties DEF IsString

\* A function on 1..n is a string of n characters.
LEMMA FunctionIsString ==
  ASSUME NEW S, NEW n \in Nat, NEW s \in [1..n -> S]
  PROVE  IsString(s, S, n)
<1>1. s = [i \in 1..n |-> s[i]] /\ \A i \in 1..n : s[i] \in S
  OBVIOUS
<1> QED BY <1>1 DEF IsString

\* Strings with the same characters are equal.
LEMMA StringsEqual ==
  ASSUME NEW S, NEW n \in Nat, NEW s, IsString(s, S, n), NEW t, IsString(t, S, n),
         IsCut(s, t, 1, n)
  PROVE  s = t
<1>1. s \in [1..n -> S] /\ t \in [1..n -> S]
  BY StringTyped
<1>2. \A i \in 1..n : s[i] = t[i]
  <2>1. \A i \in 1..n : 1 + i - 1 = i
    OBVIOUS
  <2> QED BY <2>1 DEF IsCut
<1> QED BY <1>1, <1>2

\* A string of one character.
LEMMA OneCharacter ==
  ASSUME NEW S, NEW c \in S
  PROVE  IsString(<<c>>, S, 1) /\ <<c>>[1] = c
BY DEF IsString

(* Typing errors.                                                           *)

\* v is u with one character left out; v is u with one character replaced.
LeftOut(u, n, v, m) ==
  /\ n = m + 1
  /\ \E i \in 1..n : /\ \A k \in 1..i - 1 : v[k] = u[k]
                     /\ \A k \in i..m : v[k] = u[k + 1]
Rewritten(u, n, v, m) ==
  n = m /\ \E i \in 1..n : \A k \in 1..n : k # i => v[k] = u[k]

\* One typing error leads from u to v, and so one leads back.
Edited(u, n, v, m) ==
  LeftOut(u, n, v, m) \/ LeftOut(v, m, u, n) \/ Rewritten(u, n, v, m)

\* v is u, of n characters, without its i-th; with c put before the i-th; with
\* c in place of the i-th.
IsRemoved(v, u, n, i) ==
  /\ \A k \in 1..i - 1 : v[k] = u[k]
  /\ \A k \in i..n - 1 : v[k] = u[k + 1]
IsInserted(v, u, n, i, c) ==
  /\ \A k \in 1..i - 1 : v[k] = u[k]
  /\ v[i] = c
  /\ \A k \in i..n : v[k + 1] = u[k]
IsReplaced(v, u, n, i, c) ==
  /\ v[i] = c
  /\ \A k \in 1..n : k # i => v[k] = u[k]

\* Leaving out, adding and replacing a character, as cuts and joins give them.
LEMMA RemoveAtIs ==
  ASSUME NEW A, NEW n \in Nat, NEW u, IsString(u, A, n), NEW i \in 1..n
  PROVE  /\ IsString(RemoveAt(u, i), A, n - 1)
         /\ IsRemoved(RemoveAt(u, i), u, n, i)
<1> DEFINE front == Cut(u, 1, i - 1)
           back == Cut(u, i + 1, n)
           v == Joined(front, back)
<1>1. RemoveAt(u, i) = v
  BY DEF RemoveAt, Joined, Cut, IsString
<1>2. IsString(front, A, i - 1) /\ IsCut(front, u, 1, i - 1)
  <2>1. 1 \in 1..n + 1 /\ i - 1 \in 1 - 1..n /\ (i - 1) - 1 + 1 = i - 1
    OBVIOUS
  <2> HIDE DEF front
  <2>2. /\ IsString(Cut(u, 1, i - 1), A, (i - 1) - 1 + 1)
        /\ IsCut(Cut(u, 1, i - 1), u, 1, (i - 1) - 1 + 1)
    BY <2>1, StringCut
  <2> QED BY <2>1, <2>2 DEF front
<1>3. IsString(back, A, n - i) /\ IsCut(back, u, i + 1, n - i)
  <2>1. i + 1 \in 1..n + 1 /\ n \in (i + 1) - 1..n /\ n - (i + 1) + 1 = n - i
    OBVIOUS
  <2> HIDE DEF back
  <2>2. /\ IsString(Cut(u, i + 1, n), A, n - (i + 1) + 1)
        /\ IsCut(Cut(u, i + 1, n), u, i + 1, n - (i + 1) + 1)
    BY <2>1, StringCut
  <2> QED BY <2>1, <2>2 DEF back
<1> HIDE DEF front, back
<1>4. IsString(v, A, (i - 1) + (n - i)) /\ Joins(v, front, i - 1, back, n - i)
  <2>1. i - 1 \in Nat /\ n - i \in Nat
    OBVIOUS
  <2> QED BY <1>2, <1>3, <2>1, StringsJoin
<1> HIDE DEF v
<1>5. IsString(v, A, n - 1)
  <2>1. (i - 1) + (n - i) = n - 1
    OBVIOUS
  <2> QED BY <1>4, <2>1
<1>6. ASSUME NEW k \in 1..i - 1
      PROVE  v[k] = u[k]
  <2>1. v[k] = front[k] /\ front[k] = u[1 + k - 1]
    BY <1>2, <1>4 DEF Joins, IsCut
  <2> QED BY <2>1
<1>7. ASSUME NEW k \in i..n - 1
      PROVE  v[k] = u[k + 1]
  <2>1. k - (i - 1) \in 1..n - i /\ (i - 1) + (k - (i - 1)) = k
        /\ (i + 1) + (k - (i - 1)) - 1 = k + 1
    OBVIOUS
  <2>2. v[(i - 1) + (k - (i - 1))] = back[k - (i - 1)]
    BY <1>4, <2>1 DEF Joins
  <2>3. back[k - (i - 1)] = u[(i + 1) + (k - (i - 1)) - 1]
    BY <1>3, <2>1 DEF IsCut
  <2> QED BY <2>1, <2>2, <2>3
<1>8. IsRemoved(v, u, n, i)
  BY <1>6, <1>7 DEF IsRemoved
<1> QED BY <1>1, <1>5, <1>8

\* A character more has the rest behind it, one place later.
LEMMA InsertAtIs ==
  ASSUME NEW A, NEW n \in Nat, NEW u, IsString(u, A, n), NEW i \in 1..n + 1,
         NEW c \in A
  PROVE  /\ IsString(InsertAt(u, i, c), A, n + 1)
         /\ IsInserted(InsertAt(u, i, c), u, n, i, c)
<1> DEFINE front == Cut(u, 1, i - 1)
           one == <<c>>
           back == Cut(u, i, n)
           half == Joined(front, one)
           v == Joined(half, back)
<1>1. InsertAt(u, i, c) = v
  BY DEF InsertAt, Joined, Cut, IsString
<1>2. IsString(front, A, i - 1) /\ IsCut(front, u, 1, i - 1)
  <2>1. 1 \in 1..n + 1 /\ i - 1 \in 1 - 1..n /\ (i - 1) - 1 + 1 = i - 1
    OBVIOUS
  <2> HIDE DEF front
  <2>2. /\ IsString(Cut(u, 1, i - 1), A, (i - 1) - 1 + 1)
        /\ IsCut(Cut(u, 1, i - 1), u, 1, (i - 1) - 1 + 1)
    BY <2>1, StringCut
  <2> QED BY <2>1, <2>2 DEF front
<1>3. IsString(back, A, n - i + 1) /\ IsCut(back, u, i, n - i + 1)
  <2>1. i \in 1..n + 1 /\ n \in i - 1..n
    OBVIOUS
  <2> HIDE DEF back
  <2>2. /\ IsString(Cut(u, i, n), A, n - i + 1)
        /\ IsCut(Cut(u, i, n), u, i, n - i + 1)
    BY <2>1, StringCut
  <2> QED BY <2>2 DEF back
<1>4. IsString(one, A, 1) /\ one[1] = c
  BY OneCharacter
<1> HIDE DEF front, one, back
<1>5. IsString(half, A, (i - 1) + 1) /\ Joins(half, front, i - 1, one, 1)
  <2>1. i - 1 \in Nat /\ 1 \in Nat
    OBVIOUS
  <2> QED BY <1>2, <1>4, <2>1, StringsJoin
<1> HIDE DEF half
<1>6. IsString(v, A, i + (n - i + 1)) /\ Joins(v, half, i, back, n - i + 1)
  <2>1. i \in Nat /\ n - i + 1 \in Nat /\ (i - 1) + 1 = i
    OBVIOUS
  <2>2. IsString(half, A, i)
    BY <1>5, <2>1
  <2> QED BY <1>3, <2>1, <2>2, StringsJoin
<1> HIDE DEF v
<1>7. IsString(v, A, n + 1)
  <2>1. i + (n - i + 1) = n + 1
    OBVIOUS
  <2> QED BY <1>6, <2>1
<1>8. ASSUME NEW k \in 1..i - 1
      PROVE  v[k] = u[k]
  <2>1. v[k] = half[k] /\ half[k] = front[k] /\ front[k] = u[1 + k - 1]
    BY <1>2, <1>5, <1>6 DEF Joins, IsCut
  <2> QED BY <2>1
<1>9. v[i] = c
  <2>1. i \in 1..i /\ 1 \in 1..1 /\ (i - 1) + 1 = i
    OBVIOUS
  <2>2. v[i] = half[i] /\ half[(i - 1) + 1] = one[1]
    BY <1>5, <1>6, <2>1 DEF Joins
  <2> QED BY <1>4, <2>1, <2>2
<1>10. ASSUME NEW k \in i..n
       PROVE  v[k + 1] = u[k]
  <2>1. k - i + 1 \in 1..n - i + 1 /\ i + (k - i + 1) = k + 1
        /\ i + (k - i + 1) - 1 = k
    OBVIOUS
  <2>2. v[i + (k - i + 1)] = back[k - i + 1]
    BY <1>6, <2>1 DEF Joins
  <2>3. back[k - i + 1] = u[i + (k - i + 1) - 1]
    BY <1>3, <2>1 DEF IsCut
  <2> QED BY <2>1, <2>2, <2>3
<1>11. IsInserted(v, u, n, i, c)
  BY <1>8, <1>9, <1>10 DEF IsInserted
<1> QED BY <1>1, <1>7, <1>11

\* A character that is replaced leaves the others where they are.
LEMMA ReplaceAtIs ==
  ASSUME NEW A, NEW n \in Nat, NEW u, IsString(u, A, n), NEW i \in 1..n,
         NEW c \in A
  PROVE  /\ IsString(ReplaceAt(u, i, c), A, n)
         /\ IsReplaced(ReplaceAt(u, i, c), u, n, i, c)
<1>1. u \in [1..n -> A]
  BY StringTyped
<1>2. [u EXCEPT ![i] = c] \in [1..n -> A]
  BY <1>1
<1>3. IsString([u EXCEPT ![i] = c], A, n)
  BY <1>2, FunctionIsString
<1>4. IsReplaced([u EXCEPT ![i] = c], u, n, i, c)
  BY <1>1 DEF IsReplaced
<1> QED BY <1>3, <1>4 DEF ReplaceAt

-----------------------------------------------------------------------------
(* Ways of one error after the other.                                       *)

\* A string one typing error away is written with one error ...
LEMMA SlipIsEdit ==
  ASSUME NEW A, NEW n \in Nat, NEW u, IsString(u, A, n), NEW v \in Slips(u, A)
  PROVE  \E m \in Nat : IsString(v, A, m) /\ Edited(u, n, v, m)
<1>1. Len(u) = n
  BY DEF IsString
<1>2. \/ \E i \in 1..n : v = RemoveAt(u, i)
      \/ \E i \in 1..n + 1, c \in A : v = InsertAt(u, i, c)
      \/ \E i \in 1..n, c \in A : v = ReplaceAt(u, i, c)
  BY <1>1 DEF Slips
<1>3. CASE \E i \in 1..n : v = RemoveAt(u, i)
  <2>1. PICK i \in 1..n : v = RemoveAt(u, i)
    BY <1>3
  <2>2. IsString(v, A, n - 1) /\ IsRemoved(v, u, n, i)
    BY <2>1, RemoveAtIs
  <2>3. n - 1 \in Nat /\ n = (n - 1) + 1
    BY <2>1
  <2>4. LeftOut(u, n, v, n - 1)
    BY <2>2, <2>3 DEF LeftOut, IsRemoved
  <2> QED BY <2>2, <2>3, <2>4 DEF Edited
<1>4. CASE \E i \in 1..n + 1, c \in A : v = InsertAt(u, i, c)
  <2>1. PICK i \in 1..n + 1, c \in A : v = InsertAt(u, i, c)
    BY <1>4
  <2>2. IsString(v, A, n + 1) /\ IsInserted(v, u, n, i, c)
    BY <2>1, InsertAtIs
  <2>3. LeftOut(v, n + 1, u, n)
    BY <2>2 DEF LeftOut, IsInserted
  <2> QED BY <2>2, <2>3 DEF Edited
<1>5. CASE \E i \in 1..n, c \in A : v = ReplaceAt(u, i, c)
  <2>1. PICK i \in 1..n, c \in A : v = ReplaceAt(u, i, c)
    BY <1>5
  <2>2. IsString(v, A, n) /\ IsReplaced(v, u, n, i, c)
    BY <2>1, ReplaceAtIs
  <2>3. Rewritten(u, n, v, n)
    BY <2>2 DEF Rewritten, IsReplaced
  <2> QED BY <2>2, <2>3 DEF Edited
<1> QED BY <1>2, <1>3, <1>4, <1>5

\* ... and a string written with one error is one typing error away.
LEMMA EditIsSlip ==
  ASSUME NEW A, NEW n \in Nat, NEW u, IsString(u, A, n),
         NEW m \in Nat, NEW v, IsString(v, A, m), Edited(u, n, v, m)
  PROVE  v \in Slips(u, A)
<1>1. Len(u) = n
  BY DEF IsString
<1>2. v \in [1..m -> A]
  BY StringTyped
<1>3. CASE LeftOut(u, n, v, m)
  <2>1. PICK i \in 1..n : /\ \A k \in 1..i - 1 : v[k] = u[k]
                          /\ \A k \in i..m : v[k] = u[k + 1]
    BY <1>3 DEF LeftOut
  <2>2. n - 1 = m
    BY <1>3 DEF LeftOut
  <2> DEFINE w == RemoveAt(u, i)
  <2>3. IsString(w, A, m) /\ IsRemoved(w, u, n, i)
    <3>1. IsString(w, A, n - 1) /\ IsRemoved(w, u, n, i)
      BY RemoveAtIs
    <3> HIDE DEF w
    <3> QED BY <2>2, <3>1
  <2> HIDE DEF w
  <2>4. \A k \in 1..m : v[k] = w[k]
    <3>1. \A k \in 1..m : k \in 1..i - 1 \/ k \in i..m
      OBVIOUS
    <3> QED BY <2>1, <2>2, <2>3, <3>1 DEF IsRemoved
  <2>5. IsCut(v, w, 1, m)
    BY <2>4 DEF IsCut
  <2>6. v = w
    BY <2>3, <2>5, StringsEqual
  <2> QED BY <1>1, <2>6 DEF w, Slips
<1>4. CASE LeftOut(v, m, u, n)
  <2>1. PICK i \in 1..m : /\ \A k \in 1..i - 1 : u[k] = v[k]
                          /\ \A k \in i..n : u[k] = v[k + 1]
    BY <1>4 DEF LeftOut
  <2>2. m = n + 1 /\ i \in 1..n + 1
    BY <1>4 DEF LeftOut
  <2> DEFINE c == v[i]
             w == InsertAt(u, i, c)
  <2>3. c \in A
    BY <1>2
  <2>4. IsString(w, A, m) /\ IsInserted(w, u, n, i, c)
    <3> HIDE DEF c
    <3>1. IsString(w, A, n + 1) /\ IsInserted(w, u, n, i, c)
      BY <2>2, <2>3, InsertAtIs
    <3> HIDE DEF w
    <3> QED BY <2>2, <3>1
  <2> HIDE DEF w
  <2>5. ASSUME NEW k \in 1..m
        PROVE  v[k] = w[k]
    <3>1. CASE k < i
      <4>1. k \in 1..i - 1
        BY <3>1
      <4> QED BY <2>1, <2>4, <4>1 DEF IsInserted
    <3>2. CASE k = i
      BY <2>4, <3>2 DEF IsInserted
    <3>3. CASE k > i
      <4>1. k - 1 \in i..n /\ (k - 1) + 1 = k
        BY <2>2, <3>3
      <4>2. w[(k - 1) + 1] = u[k - 1] /\ u[k - 1] = v[(k - 1) + 1]
        BY <2>1, <2>4, <4>1 DEF IsInserted
      <4> QED BY <4>1, <4>2
    <3> QED BY <3>1, <3>2, <3>3
  <2>6. IsCut(v, w, 1, m)
    BY <2>5 DEF IsCut
  <2>7. v = w
    BY <2>4, <2>6, StringsEqual
  <2> QED BY <1>1, <2>2, <2>3, <2>7 DEF w, Slips
<1>5. CASE Rewritten(u, n, v, m)
  <2>1. PICK i \in 1..n : \A k \in 1..n : k # i => v[k] = u[k]
    BY <1>5 DEF Rewritten
  <2>2. m = n
    BY <1>5 DEF Rewritten
  <2> DEFINE c == v[i]
             w == ReplaceAt(u, i, c)
  <2>3. c \in A
    BY <1>2, <2>2
  <2>4. IsString(w, A, n) /\ IsReplaced(w, u, n, i, c)
    <3> HIDE DEF c
    <3> QED BY <2>3, ReplaceAtIs
  <2> HIDE DEF w
  <2>5. \A k \in 1..n : v[k] = w[k]
    BY <2>1, <2>4 DEF IsReplaced
  <2>6. IsCut(v, w, 1, n)
    BY <2>5 DEF IsCut
  <2>7. v = w
    BY <2>2, <2>4, <2>6, StringsEqual
  <2> QED BY <1>1, <2>3, <2>7 DEF w, Slips
<1> QED BY <1>3, <1>4, <1>5 DEF Edited

\* An error can be put right by an error.
LEMMA EditedBack ==
  ASSUME NEW n, NEW u, NEW m, NEW v, Edited(u, n, v, m)
  PROVE  Edited(v, m, u, n)
<1>1. Rewritten(u, n, v, m) => Rewritten(v, m, u, n)
  BY DEF Rewritten
<1> QED BY <1>1 DEF Edited

(* Several typing errors.                                                   *)

\* One error at most leads from u to v.
Step(u, v) == u = v \/ Edited(u, Len(u), v, Len(v))

\* k errors at most lead from u to v.
IsWay(f, A, u, v, k) ==
  /\ f \in [0..k -> Seq(A)]
  /\ f[0] = u /\ f[k] = v
  /\ \A i \in 1..k : Step(f[i - 1], f[i])
Way(A, u, v, k) == \E f : IsWay(f, A, u, v, k)

\* A step goes both ways.
LEMMA StepBack ==
  ASSUME NEW u, NEW v, Step(u, v)
  PROVE  Step(v, u)
BY EditedBack DEF Step

\* No error leads nowhere.
LEMMA WayStart ==
  ASSUME NEW A, NEW u \in Seq(A)
  PROVE  Way(A, u, u, 0)
<1> DEFINE f == [i \in 0..0 |-> u]
<1>1. f \in [0..0 -> Seq(A)] /\ f[0] = u
  OBVIOUS
<1>2. IsWay(f, A, u, u, 0)
  BY <1>1 DEF IsWay
<1> QED BY <1>2 DEF Way

\* A way leads from string to string.
LEMMA WayTyped ==
  ASSUME NEW A, NEW u, NEW v, NEW k \in Nat, Way(A, u, v, k)
  PROVE  u \in Seq(A) /\ v \in Seq(A)
<1>1. PICK f : IsWay(f, A, u, v, k)
  BY DEF Way
<1>2. 0 \in 0..k /\ k \in 0..k
  OBVIOUS
<1> QED BY <1>1, <1>2 DEF IsWay

\* Two ways make one.
LEMMA WayOn ==
  ASSUME NEW A, NEW k \in Nat, NEW l \in Nat, NEW u, NEW v, NEW w,
         Way(A, u, v, k), Way(A, v, w, l)
  PROVE  Way(A, u, w, k + l)
<1>1. PICK f : IsWay(f, A, u, v, k)
  BY DEF Way
<1>2. PICK g : IsWay(g, A, v, w, l)
  BY DEF Way
<1> DEFINE h == [i \in 0..k + l |-> IF i <= k THEN f[i] ELSE g[i - k]]
<1>3. \A i \in 0..k : f[i] \in Seq(A)
  BY <1>1 DEF IsWay
<1>4. \A i \in 0..l : g[i] \in Seq(A)
  BY <1>2 DEF IsWay
<1>5. h \in [0..k + l -> Seq(A)]
  <2>1. ASSUME NEW i \in 0..k + l
        PROVE  (IF i <= k THEN f[i] ELSE g[i - k]) \in Seq(A)
    <3>1. CASE i <= k
      BY <1>3, <3>1
    <3>2. CASE ~(i <= k)
      <4>1. i - k \in 0..l
        BY <3>2
      <4> QED BY <1>4, <3>2, <4>1
    <3> QED BY <3>1, <3>2
  <2> QED BY <2>1
<1>6. f[0] = u /\ f[k] = v /\ g[0] = v /\ g[l] = w
  BY <1>1, <1>2 DEF IsWay
<1>7. h[0] = u /\ h[k + l] = w
  <2>1. h[0] = f[0]
    OBVIOUS
  <2>2. CASE l = 0
    BY <1>6, <2>1, <2>2
  <2>3. CASE l # 0
    <3>1. k + l \in 0..k + l /\ ~(k + l <= k) /\ (k + l) - k = l
      BY <2>3
    <3> QED BY <1>6, <2>1, <3>1
  <2> QED BY <2>2, <2>3
<1>8. ASSUME NEW i \in 1..k + l
      PROVE  Step(h[i - 1], h[i])
  <2>1. CASE i <= k
    <3>1. i \in 1..k /\ i \in 0..k + l /\ i - 1 \in 0..k + l /\ i - 1 <= k
      BY <2>1
    <3>2. h[i] = f[i] /\ h[i - 1] = f[i - 1]
      BY <2>1, <3>1
    <3>3. Step(f[i - 1], f[i])
      BY <1>1, <3>1 DEF IsWay
    <3> QED BY <3>2, <3>3
  <2>2. CASE ~(i <= k)
    <3>1. /\ i - k \in 1..l /\ i \in 0..k + l /\ i - 1 \in 0..k + l
          /\ (i - 1) - k = (i - k) - 1
      BY <2>2
    <3>2. h[i] = g[i - k]
      BY <2>2, <3>1
    <3>3. h[i - 1] = g[(i - k) - 1]
      <4>1. CASE i - 1 = k
        <5>1. h[i - 1] = f[k] /\ (i - k) - 1 = 0
          BY <3>1, <4>1
        <5> QED BY <1>6, <5>1
      <4>2. CASE i - 1 # k
        <5>1. ~(i - 1 <= k)
          BY <2>2, <4>2
        <5> QED BY <3>1, <5>1
      <4> QED BY <4>1, <4>2
    <3>4. Step(g[(i - k) - 1], g[i - k])
      BY <1>2, <3>1 DEF IsWay
    <3> QED BY <3>2, <3>3, <3>4
  <2> QED BY <2>1, <2>2
<1> HIDE DEF h
<1>9. IsWay(h, A, u, w, k + l)
  BY <1>5, <1>7, <1>8 DEF IsWay
<1> QED BY <1>9 DEF Way

\* A way can be gone back.
LEMMA WayBack ==
  ASSUME NEW A, NEW k \in Nat, NEW u, NEW v, Way(A, u, v, k)
  PROVE  Way(A, v, u, k)
<1>1. PICK f : IsWay(f, A, u, v, k)
  BY DEF Way
<1> DEFINE h == [i \in 0..k |-> f[k - i]]
<1>2. h \in [0..k -> Seq(A)]
  <2>1. \A i \in 0..k : k - i \in 0..k
    OBVIOUS
  <2> QED BY <1>1, <2>1 DEF IsWay
<1>3. h[0] = v /\ h[k] = u
  <2>1. k - 0 = k /\ k - k = 0
    OBVIOUS
  <2> QED BY <1>1, <2>1 DEF IsWay
<1>4. ASSUME NEW i \in 1..k
      PROVE  Step(h[i - 1], h[i])
  <2>1. k - i + 1 \in 1..k /\ (k - i + 1) - 1 = k - i /\ k - (i - 1) = k - i + 1
    OBVIOUS
  <2>2. Step(f[(k - i + 1) - 1], f[k - i + 1])
    BY <1>1, <2>1 DEF IsWay
  <2>3. h[i] = f[k - i] /\ h[i - 1] = f[k - i + 1]
    BY <2>1
  <2> QED BY <2>1, <2>2, <2>3, StepBack
<1> HIDE DEF h
<1>5. IsWay(h, A, v, u, k)
  BY <1>2, <1>3, <1>4 DEF IsWay
<1> QED BY <1>5 DEF Way

\* A way has a place in the middle.
LEMMA WayPart ==
  ASSUME NEW A, NEW k \in Nat, NEW l \in Nat, NEW u, NEW w, Way(A, u, w, k + l)
  PROVE  \E v : Way(A, u, v, k) /\ Way(A, v, w, l)
<1>1. PICK f : IsWay(f, A, u, w, k + l)
  BY DEF Way
<1> DEFINE g == [i \in 0..k |-> f[i]]
           h == [i \in 0..l |-> f[k + i]]
           v == f[k]
<1>2. /\ \A i \in 0..k + l : f[i] \in Seq(A)
      /\ \A i \in 1..k + l : Step(f[i - 1], f[i])
      /\ f[0] = u /\ f[k + l] = w
  BY <1>1 DEF IsWay
<1>3. IsWay(g, A, u, v, k)
  <2>1. g \in [0..k -> Seq(A)]
    BY <1>2
  <2>2. \A i \in 1..k : g[i] = f[i] /\ g[i - 1] = f[i - 1]
    OBVIOUS
  <2>3. g[0] = u /\ g[k] = v
    BY <1>2
  <2>4. \A i \in 1..k : i \in 1..k + l
    OBVIOUS
  <2> HIDE DEF g, v
  <2> QED BY <1>2, <2>1, <2>2, <2>3, <2>4 DEF IsWay
<1>4. IsWay(h, A, v, w, l)
  <2>1. \A i \in 0..l : k + i \in 0..k + l
    OBVIOUS
  <2>2. h \in [0..l -> Seq(A)]
    BY <1>2, <2>1
  <2>3. h[0] = v /\ h[l] = w
    <3>1. k + 0 = k
      OBVIOUS
    <3> QED BY <1>2, <3>1
  <2>4. ASSUME NEW i \in 1..l
        PROVE  Step(h[i - 1], h[i])
    <3>1. k + i \in 1..k + l /\ k + (i - 1) = (k + i) - 1
      OBVIOUS
    <3>2. h[i] = f[k + i] /\ h[i - 1] = f[k + (i - 1)]
      OBVIOUS
    <3> QED BY <1>2, <3>1, <3>2
  <2> HIDE DEF h, v
  <2> QED BY <2>2, <2>3, <2>4 DEF IsWay
<1> QED BY <1>3, <1>4 DEF Way

\* More errors than needed are no obstacle.
LEMMA WayWait ==
  ASSUME NEW A, NEW k \in Nat, NEW l \in Nat, k <= l, NEW u, NEW v, Way(A, u, v, k)
  PROVE  Way(A, u, v, l)
<1>1. v \in Seq(A)
  BY WayTyped
<1> DEFINE f == [i \in 0..l - k |-> v]
<1>2. IsWay(f, A, v, v, l - k)
  <2>1. f \in [0..l - k -> Seq(A)] /\ l - k \in 0..l - k /\ 0 \in 0..l - k
    BY <1>1
  <2>2. f[0] = v /\ f[l - k] = v
    BY <2>1
  <2>3. \A i \in 1..l - k : f[i - 1] = f[i]
    OBVIOUS
  <2> HIDE DEF f
  <2> QED BY <2>1, <2>2, <2>3 DEF IsWay, Step
<1>3. Way(A, v, v, l - k)
  BY <1>2 DEF Way
<1>4. l - k \in Nat /\ k + (l - k) = l
  OBVIOUS
<1>5. Way(A, u, v, k + (l - k))
  BY <1>3, <1>4, WayOn
<1> QED BY <1>4, <1>5

\* One step is a way.
LEMMA StepWay ==
  ASSUME NEW A, NEW u \in Seq(A), NEW v \in Seq(A), Step(u, v)
  PROVE  Way(A, u, v, 1)
<1> DEFINE f == [i \in 0..1 |-> IF i = 0 THEN u ELSE v]
<1>1. f \in [0..1 -> Seq(A)] /\ f[0] = u /\ f[1] = v
  OBVIOUS
<1>2. \A i \in 1..1 : i = 1 /\ i - 1 = 0
  OBVIOUS
<1> HIDE DEF f
<1>3. IsWay(f, A, u, v, 1)
  BY <1>1, <1>2 DEF IsWay
<1> QED BY <1>3 DEF Way

\* A way of one error at most is one step.
LEMMA WayIsStep ==
  ASSUME NEW A, NEW u, NEW v, Way(A, u, v, 1)
  PROVE  Step(u, v)
<1>1. PICK f : IsWay(f, A, u, v, 1)
  BY DEF Way
<1>2. 1 \in 1..1 /\ 1 - 1 = 0
  OBVIOUS
<1> QED BY <1>1, <1>2 DEF IsWay

\* A string is a step away when it is the string itself or one slip away.
LEMMA SlipIsStep ==
  ASSUME NEW A, NEW u \in Seq(A)
  PROVE  /\ Slips(u, A) \subseteq Seq(A)
         /\ \A v \in Seq(A) : Step(u, v) <=> u = v \/ v \in Slips(u, A)
<1>1. Len(u) \in Nat /\ IsString(u, A, Len(u))
  BY LenProperties DEF IsString
<1>2. ASSUME NEW v \in Slips(u, A)
      PROVE  v \in Seq(A) /\ Edited(u, Len(u), v, Len(v))
  <2>1. PICK m \in Nat : IsString(v, A, m) /\ Edited(u, Len(u), v, m)
    BY <1>1, SlipIsEdit
  <2> QED BY <2>1 DEF IsString
<1>3. ASSUME NEW v \in Seq(A), Edited(u, Len(u), v, Len(v))
      PROVE  v \in Slips(u, A)
  <2>1. Len(v) \in Nat /\ IsString(v, A, Len(v))
    BY LenProperties DEF IsString
  <2> QED BY <1>1, <1>3, <2>1, EditIsSlip
<1> QED BY <1>2, <1>3 DEF Step

\* What is reached with one slip more.
Wider(B, A) == B \cup UNION {Slips(u, A) : u \in B}

\* The strings within k slips are those to which a way of k errors leads.
LEMMA WithinIsWay ==
  ASSUME NEW A, NEW s \in Seq(A), NEW n \in Nat
  PROVE  \A v : v \in Within(s, n, A) <=> Way(A, s, v, n)
<1> DEFINE D == SUBSET Seq(A)
           F == [p \in Nat \X D |-> Wider(p[2], A)]
           IsBall(f) == f = [k \in 0..n |-> IF k = 0 THEN {s}
                               ELSE f[k - 1] \cup UNION {Slips(u, A) : u \in f[k - 1]}]
           ball == CHOOSE f : IsBall(f)
<1>1. \A B \in D : Wider(B, A) \in D
  BY SlipIsStep DEF Wider
<1>2. F \in [Nat \X D -> D]
  BY <1>1
<1>3. \A k \in Nat, B \in D : F[<<k, B>>] = Wider(B, A)
  OBVIOUS
<1>4. {s} \in D
  OBVIOUS
<1>5. Within(s, n, A) = ball[n]
  BY DEF Within
<1>6. PICK g \in [0..n -> D] : Recurrence(g, n, {s}, F)
  <2> HIDE DEF D, F
  <2> QED BY <1>2, <1>4, RecurrenceExists
<1>7. IsBall(g)
  <2>1. ASSUME NEW k \in 1..n
        PROVE  g[k] = Wider(g[k - 1], A)
    <3>1. g[k] = F[<<k, g[k - 1]>>] /\ g[k - 1] \in D /\ k \in Nat
      <4> HIDE DEF F, D
      <4> QED BY <1>6 DEF Recurrence
    <3> HIDE DEF F, D
    <3> QED BY <1>3, <3>1
  <2>2. g[0] = {s} /\ g = [k \in 0..n |-> g[k]]
    BY <1>6 DEF Recurrence
  <2>3. g = [k \in 0..n |-> IF k = 0 THEN {s} ELSE Wider(g[k - 1], A)]
    <3>1. \A k \in 0..n : g[k] = IF k = 0 THEN {s} ELSE Wider(g[k - 1], A)
      <4>1. g[0] = {s}
        BY <2>2
      <4>2. \A k \in 0..n : k = 0 \/ k \in 1..n
        OBVIOUS
      <4> QED BY ONLY <2>1, <4>1, <4>2, Zenon
    <3> QED BY ONLY <2>2, <3>1
  <2> QED BY ONLY <2>3 DEF Wider
<1>8. IsBall(ball)
  <2> HIDE DEF IsBall
  <2> QED BY <1>7
<1> HIDE DEF ball
<1>9. ball[0] = {s} /\ \A k \in 1..n : ball[k] = Wider(ball[k - 1], A)
  <2>1. \A k \in 0..n : ball[k] = IF k = 0 THEN {s}
                 ELSE ball[k - 1] \cup UNION {Slips(u, A) : u \in ball[k - 1]}
    <3> DEFINE G == [k \in 0..n |-> IF k = 0 THEN {s}
                 ELSE ball[k - 1] \cup UNION {Slips(u, A) : u \in ball[k - 1]}]
    <3>1. ball = G
      BY <1>8
    <3>2. \A k \in 0..n : G[k] = IF k = 0 THEN {s}
                 ELSE ball[k - 1] \cup UNION {Slips(u, A) : u \in ball[k - 1]}
      OBVIOUS
    <3> HIDE DEF G
    <3> QED BY <3>1, <3>2
  <2>2. \A k \in 0..n : ball[k] = IF k = 0 THEN {s} ELSE Wider(ball[k - 1], A)
    BY ONLY <2>1 DEF Wider
  <2> QED BY <2>2
<1> HIDE DEF IsBall, F, D
<1> DEFINE Good == {k \in Nat : k <= n => \A v : v \in ball[k] <=> Way(A, s, v, k)}
<1>10. 0 \in Good
  <2>1. Way(A, s, s, 0)
    BY WayStart
  <2>2. ASSUME NEW v, Way(A, s, v, 0)
        PROVE  v = s
    BY <2>2 DEF Way, IsWay
  <2> QED BY <1>9, <2>1, <2>2
<1>11. ASSUME NEW k \in Nat, k \in Good
       PROVE  k + 1 \in Good
  <2>1. SUFFICES ASSUME k + 1 <= n, NEW v
                 PROVE  v \in ball[k + 1] <=> Way(A, s, v, k + 1)
    OBVIOUS
  <2>2. ball[k + 1] = Wider(ball[k], A)
    <3>1. k + 1 \in 1..n /\ (k + 1) - 1 = k
      BY <2>1
    <3> QED BY <1>9, <3>1
  <2>3. \A u : u \in ball[k] <=> Way(A, s, u, k)
    BY <1>11, <2>1
  <2> HIDE DEF Good
  <2>4. \A u \in ball[k] : u \in Seq(A)
    BY <2>3, WayTyped
  <2>5. ASSUME v \in ball[k + 1]
        PROVE  Way(A, s, v, k + 1)
    <3>1. PICK u \in ball[k] : u = v \/ v \in Slips(u, A)
      BY <2>2, <2>5 DEF Wider
    <3>2. v \in Seq(A) /\ Step(u, v)
      BY <2>4, <3>1, SlipIsStep
    <3>3. Way(A, s, u, k) /\ Way(A, u, v, 1)
      BY <2>3, <2>4, <3>2, StepWay
    <3> QED BY <3>3, WayOn
  <2>6. ASSUME Way(A, s, v, k + 1)
        PROVE  v \in ball[k + 1]
    <3>1. PICK u : Way(A, s, u, k) /\ Way(A, u, v, 1)
      BY <2>6, WayPart
    <3>2. u \in ball[k] /\ Step(u, v)
      BY <2>3, <3>1, WayIsStep
    <3>3. u \in Seq(A) /\ v \in Seq(A)
      BY <3>1, WayTyped
    <3>4. u = v \/ v \in Slips(u, A)
      BY <3>2, <3>3, SlipIsStep
    <3> QED BY <2>2, <3>2, <3>4 DEF Wider
  <2> QED BY <2>5, <2>6
<1>12. n \in Good
  <2> HIDE DEF Good
  <2>1. Nat \subseteq Good
    BY <1>10, <1>11, NumberInduction
  <2> QED BY <2>1
<1> QED BY <1>5, <1>12

\* The characters of two strings.
Letters(a, b) == ToSet(a) \cup ToSet(b)

\* Both strings are made of the letters of the two.
LEMMA LettersAre ==
  ASSUME NEW S, NEW a \in Seq(S), NEW b \in Seq(S)
  PROVE  a \in Seq(Letters(a, b)) /\ b \in Seq(Letters(a, b))
<1>1. \A i \in 1..Len(a) : a[i] \in Letters(a, b)
  BY DEF Letters, ToSet
<1>2. \A i \in 1..Len(b) : b[i] \in Letters(a, b)
  BY DEF Letters, ToSet
<1>3. a \in [1..Len(a) -> Letters(a, b)] /\ Len(a) \in Nat
  BY <1>1, LenProperties
<1>4. b \in [1..Len(b) -> Letters(a, b)] /\ Len(b) \in Nat
  BY <1>2, LenProperties
<1> QED BY <1>3, <1>4, FunctionIsString DEF IsString

\* Two strings are n errors apart when a way of n errors leads from one to the
\* other.
LEMMA ErrorsAreWay ==
  ASSUME NEW S, NEW a \in Seq(S), NEW b \in Seq(S), NEW n \in Nat
  PROVE  ErrorsApart(a, b, n) <=> Way(Letters(a, b), a, b, n)
<1> DEFINE A == Letters(a, b)
           p == n \div 2
           q == n - n \div 2
<1>1. p \in Nat /\ q \in Nat /\ p + q = n
  OBVIOUS
<1>2. a \in Seq(A) /\ b \in Seq(A)
  BY LettersAre
<1>3. ErrorsApart(a, b, n) <=> \E v : v \in Within(a, p, A) /\ v \in Within(b, q, A)
  <2> QED BY DEF ErrorsApart, Letters
<1> HIDE DEF A, p, q
<1>4. ErrorsApart(a, b, n) <=> \E v : Way(A, a, v, p) /\ Way(A, b, v, q)
  BY <1>1, <1>2, <1>3, WithinIsWay
<1>5. ASSUME NEW v, Way(A, a, v, p), Way(A, b, v, q)
      PROVE  Way(A, a, b, p + q)
  <2>1. Way(A, v, b, q)
    BY <1>1, <1>5, WayBack
  <2> QED BY <1>1, <1>5, <2>1, WayOn
<1>6. ASSUME Way(A, a, b, p + q)
      PROVE  \E v : Way(A, a, v, p) /\ Way(A, b, v, q)
  <2>1. PICK v : Way(A, a, v, p) /\ Way(A, v, b, q)
    BY <1>1, <1>6, WayPart
  <2> QED BY <1>1, <2>1, WayBack
<1> QED BY <1>1, <1>4, <1>5, <1>6 DEF A

-----------------------------------------------------------------------------
(* The distance table, row by row.                                          *)

\* The least of three numbers is one of them and not above any.
LEMMA LeastIs ==
  ASSUME NEW x \in Nat, NEW y \in Nat, NEW z \in Nat
  PROVE  /\ Least(x, y, z) \in Nat
         /\ Least(x, y, z) <= x /\ Least(x, y, z) <= y /\ Least(x, y, z) <= z
         /\ \/ Least(x, y, z) = x
            \/ Least(x, y, z) = y
            \/ Least(x, y, z) = z
<1>1. \E m \in {x, y, z} : m <= x /\ m <= y /\ m <= z
  <2>1. CASE x <= y /\ x <= z
    BY <2>1
  <2>2. CASE y <= x /\ y <= z
    BY <2>2
  <2>3. CASE z <= x /\ z <= y
    BY <2>3
  <2> QED BY <2>1, <2>2, <2>3
<1> DEFINE m == Least(x, y, z)
<1>2. m \in {x, y, z} /\ m <= x /\ m <= y /\ m <= z
  BY <1>1 DEF Least
<1> HIDE DEF m
<1>3. m \in Nat /\ m <= x /\ m <= y /\ m <= z /\ (m = x \/ m = y \/ m = z)
  BY <1>2
<1> QED BY <1>3 DEF m

\* What a replaced character costs.
Cost(c, d) == IF c = d THEN 0 ELSE 1

\* s is the row behind r, number i, for the character c, up to the j-th
\* character of b.
Cell(s, r, c, d, j) == Least(s[j] + 1, r[j + 1] + 1, r[j] + Cost(c, d))
Follows(s, r, i, c, b, j) ==
  /\ s[1] = i
  /\ \A k \in 1..j : s[k + 1] = Cell(s, r, c, b[k], k)

\* The code's cells of a row, its next row, and its rows.
IsCells(f, r, i, c, b) ==
  f = [j \in 0..Len(b) |->
         IF j = 0 THEN <<i>>
         ELSE Append(f[j - 1], Cell(f[j - 1], r, c, b[j], j))]
NextRow(r, i, c, b) == (CHOOSE f : IsCells(f, r, i, c, b))[Len(r) - 1]
FirstRow(b) == [j \in 1..Len(b) + 1 |-> j - 1]
IsRows(f, a, b) ==
  f = [i \in 0..Len(a) |->
         IF i = 0 THEN FirstRow(b) ELSE NextRow(f[i - 1], i, a[i], b)]

\* The code's distance is the last entry of the last row.
LEMMA LevenshteinByRows ==
  \A a, b : levenshtein(a, b) = (CHOOSE f : IsRows(f, a, b))[Len(a)][Len(b) + 1]
BY DEF levenshtein, IsRows, NextRow, IsCells, Cell, Cost, FirstRow

\* A row as long as b has an entry more than b.
Row(m) == [1..m + 1 -> Nat]

\* w is s with e behind its j entries.
IsAppended(w, s, j, e) == w[j + 1] = e /\ \A k \in 1..j : w[k] = s[k]

\* A string of numbers grows by its next cell.
LEMMA CellAdded ==
  ASSUME NEW m \in Nat, NEW r \in Row(m), NEW c, NEW d, NEW j \in 1..m,
         NEW s, IsString(s, Nat, j)
  PROVE  /\ Cell(s, r, c, d, j) \in Nat
         /\ IsString(Append(s, Cell(s, r, c, d, j)), Nat, j + 1)
         /\ IsAppended(Append(s, Cell(s, r, c, d, j)), s, j, Cell(s, r, c, d, j))
<1> DEFINE e == Cell(s, r, c, d, j)
<1>1. s \in [1..j -> Nat]
  <2>1. j \in Nat
    OBVIOUS
  <2> QED BY <2>1, StringTyped
<1>2. s[j] \in Nat /\ r[j + 1] \in Nat /\ r[j] \in Nat /\ Cost(c, d) \in Nat
  BY <1>1 DEF Row, Cost
<1>3. e \in Nat
  <2>1. s[j] + 1 \in Nat /\ r[j + 1] + 1 \in Nat /\ r[j] + Cost(c, d) \in Nat
    BY <1>2
  <2> DEFINE x == s[j] + 1
             y == r[j + 1] + 1
             z == r[j] + Cost(c, d)
  <2>2. x \in Nat /\ y \in Nat /\ z \in Nat
    BY <2>1
  <2> HIDE DEF x, y, z
  <2>3. Least(x, y, z) \in Nat
    BY <2>2, LeastIs
  <2> QED BY <2>3 DEF x, y, z, Cell
<1> HIDE DEF e
<1>4. s \in Seq(Nat) /\ Len(s) = j
  BY DEF IsString
<1>5. /\ Append(s, e) \in Seq(Nat) /\ Len(Append(s, e)) = j + 1
      /\ \A k \in 1..j : Append(s, e)[k] = s[k]
      /\ Append(s, e)[j + 1] = e
  BY <1>3, <1>4, AppendProperties
<1> QED BY <1>3, <1>5 DEF e, IsString, IsAppended

\* The cells of a row can be computed one after the other.
LEMMA CellsExist ==
  ASSUME NEW b, Len(b) \in Nat, NEW r \in Row(Len(b)), NEW i \in Nat, NEW c
  PROVE  \E f : IsCells(f, r, i, c, b)
<1> DEFINE m == Len(b)
           D == Seq(Nat)
           Fits(j, s) == j \in 1..m /\ Len(s) = j
           Next(j, s) == Append(s, Cell(s, r, c, b[j], j))
           F == [p \in Nat \X D |-> IF Fits(p[1], p[2]) THEN Next(p[1], p[2]) ELSE p[2]]
<1>1. ASSUME NEW j \in 1..m, NEW s, IsString(s, Nat, j)
      PROVE  IsString(Next(j, s), Nat, j + 1)
  BY <1>1, CellAdded
<1>2. F \in [Nat \X D -> D]
  <2>1. ASSUME NEW p \in Nat \X D
        PROVE  (IF Fits(p[1], p[2]) THEN Next(p[1], p[2]) ELSE p[2]) \in D
    <3>1. CASE Fits(p[1], p[2])
      <4>1. p[1] \in 1..m /\ IsString(p[2], Nat, p[1])
        BY <2>1, <3>1 DEF IsString
      <4> HIDE DEF Fits, Next
      <4>2. Next(p[1], p[2]) \in Seq(Nat)
        BY <1>1, <4>1 DEF IsString
      <4> QED BY <3>1, <4>2
    <3>2. CASE ~Fits(p[1], p[2])
      <4> HIDE DEF Fits, Next
      <4> QED BY <2>1, <3>2
    <3> QED BY <3>1, <3>2
  <2> HIDE DEF Fits, Next
  <2> QED BY <2>1
<1>3. <<i>> \in D /\ Len(<<i>>) = 1
  OBVIOUS
<1>4. \A j \in 1..m, s \in D : Len(s) = j => F[<<j, s>>] = Next(j, s)
  <2> HIDE DEF Next, D
  <2> QED OBVIOUS
<1>5. PICK g \in [0..m -> D] : Recurrence(g, m, <<i>>, F)
  <2> HIDE DEF D, F
  <2> QED BY <1>2, <1>3, RecurrenceExists
<1> HIDE DEF F
<1> DEFINE Good == {j \in Nat : j <= m => Len(g[j]) = j + 1}
<1>6. ASSUME NEW j \in Nat, j + 1 <= m, Len(g[j]) = j + 1
      PROVE  g[j + 1] = Next(j + 1, g[j]) /\ Len(g[j + 1]) = j + 2
  <2>1. j + 1 \in 1..m /\ (j + 1) - 1 = j /\ (j + 1) + 1 = j + 2 /\ j \in 0..m
    BY <1>6
  <2>2. g[j] \in D
    BY <2>1
  <2>3. g[j + 1] = F[<<j + 1, g[j]>>]
    BY <1>5, <2>1 DEF Recurrence
  <2>4. IsString(g[j], Nat, j + 1)
    BY <1>6, <2>2 DEF IsString
  <2> HIDE DEF Next, D
  <2>5. F[<<j + 1, g[j]>>] = Next(j + 1, g[j])
    BY <1>4, <1>6, <2>1, <2>2
  <2>6. IsString(Next(j + 1, g[j]), Nat, (j + 1) + 1)
    BY <1>1, <2>1, <2>4
  <2> QED BY <2>1, <2>3, <2>5, <2>6 DEF IsString
<1>7. Nat \subseteq Good
  <2>1. 0 \in Good
    <3>1. g[0] = <<i>>
      BY <1>5 DEF Recurrence
    <3>2. Len(g[0]) = 0 + 1
      BY <1>3, <3>1
    <3> QED BY <3>2
  <2>2. ASSUME NEW j \in Nat, j \in Good
        PROVE  j + 1 \in Good
    BY <1>6, <2>2
  <2> HIDE DEF Good
  <2> QED BY <2>1, <2>2, NumberInduction
<1>8. ASSUME NEW j \in 1..m
      PROVE  g[j] = Next(j, g[j - 1])
  <2>1. j - 1 \in Nat /\ (j - 1) + 1 = j /\ j - 1 \in Good
    BY <1>7
  <2> HIDE DEF Next
  <2> QED BY <1>6, <2>1
<1>9. g = [j \in 0..m |-> IF j = 0 THEN <<i>> ELSE Next(j, g[j - 1])]
  <2>1. \A j \in 0..m : g[j] = IF j = 0 THEN <<i>> ELSE Next(j, g[j - 1])
    <3>1. g[0] = <<i>>
      BY <1>5 DEF Recurrence
    <3>2. \A j \in 0..m : j = 0 \/ j \in 1..m
      OBVIOUS
    <3> HIDE DEF Next
    <3> QED BY ONLY <1>8, <3>1, <3>2, Zenon
  <2> HIDE DEF Next, D
  <2> QED BY <2>1
<1>10. IsCells(g, r, i, c, b)
  BY <1>9 DEF IsCells
<1> QED BY <1>10

\* The next row follows the row before.
LEMMA NextRowFollows ==
  ASSUME NEW b, Len(b) \in Nat, NEW r \in Row(Len(b)), NEW i \in Nat, NEW c
  PROVE  /\ NextRow(r, i, c, b) \in Row(Len(b))
         /\ Follows(NextRow(r, i, c, b), r, i, c, b, Len(b))
<1> DEFINE m == Len(b)
           cells == CHOOSE f : IsCells(f, r, i, c, b)
           Next(j, s) == Append(s, Cell(s, r, c, b[j], j))
<1>1. Len(r) - 1 = m
  <2>1. IsString(r, Nat, m + 1)
    BY FunctionIsString DEF Row
  <2> QED BY <2>1 DEF IsString
<1>2. NextRow(r, i, c, b) = cells[m]
  BY <1>1 DEF NextRow
<1>3. IsCells(cells, r, i, c, b)
  BY CellsExist
<1> HIDE DEF cells
<1>4. \A j \in 0..m : cells[j] = IF j = 0 THEN <<i>> ELSE Next(j, cells[j - 1])
  <2> DEFINE G == [j \in 0..m |-> IF j = 0 THEN <<i>> ELSE Next(j, cells[j - 1])]
  <2>1. cells = G
    BY <1>3 DEF IsCells
  <2>2. \A j \in 0..m : G[j] = IF j = 0 THEN <<i>> ELSE Next(j, cells[j - 1])
    <3> HIDE DEF Next
    <3> QED OBVIOUS
  <2> HIDE DEF G, Next
  <2> QED BY <2>1, <2>2
<1>5. cells[0] = <<i>> /\ \A j \in 1..m : cells[j] = Next(j, cells[j - 1])
  <2> HIDE DEF Next
  <2> QED BY <1>4
<1> DEFINE Good == {j \in Nat : j <= m =>
                      /\ IsString(cells[j], Nat, j + 1)
                      /\ Follows(cells[j], r, i, c, b, j)}
<1>6. 0 \in Good
  <2>1. IsString(<<i>>, Nat, 1) /\ <<i>>[1] = i
    BY OneCharacter
  <2> DEFINE one == <<i>>
  <2>2. cells[0] = one /\ IsString(one, Nat, 1) /\ one[1] = i
    BY <1>5, <2>1
  <2> HIDE DEF one
  <2>3. Follows(one, r, i, c, b, 0)
    BY <2>2 DEF Follows
  <2>4. 0 + 1 = 1
    OBVIOUS
  <2>5. IsString(cells[0], Nat, 0 + 1) /\ Follows(cells[0], r, i, c, b, 0)
    BY <2>2, <2>3, <2>4
  <2> QED BY <2>5
<1>7. ASSUME NEW j \in Nat, j \in Good
      PROVE  j + 1 \in Good
  <2>1. SUFFICES ASSUME j + 1 <= m
                 PROVE  /\ IsString(cells[j + 1], Nat, (j + 1) + 1)
                        /\ Follows(cells[j + 1], r, i, c, b, j + 1)
    OBVIOUS
  <2> DEFINE s == cells[j]
             e == Cell(s, r, c, b[j + 1], j + 1)
             t == cells[j + 1]
  <2>2. j + 1 \in 1..m /\ (j + 1) - 1 = j
    BY <2>1
  <2>3. t = Append(s, e)
    BY <1>5, <2>2
  <2>4. IsString(s, Nat, j + 1) /\ Follows(s, r, i, c, b, j)
    BY <1>7, <2>1
  <2> HIDE DEF s
  <2>5. /\ IsString(Append(s, e), Nat, (j + 1) + 1)
        /\ IsAppended(Append(s, e), s, j + 1, e)
    BY <2>2, <2>4, CellAdded
  <2> HIDE DEF t
  <2>6. \A k \in 1..j + 1 : t[k] = s[k]
    BY <2>3, <2>5 DEF IsAppended
  <2>7. t[1] = i
    <3>1. 1 \in 1..j + 1 /\ s[1] = i
      BY <2>4 DEF Follows
    <3> QED BY <2>6, <3>1
  <2>8. ASSUME NEW k \in 1..j + 1
        PROVE  t[k + 1] = Cell(t, r, c, b[k], k)
    <3>1. Cell(t, r, c, b[k], k) = Cell(s, r, c, b[k], k)
      BY <2>6 DEF Cell
    <3>2. CASE k = j + 1
      <4>1. t[(j + 1) + 1] = e
        BY <2>3, <2>5 DEF IsAppended
      <4> QED BY <3>1, <3>2, <4>1
    <3>3. CASE k # j + 1
      <4>1. k \in 1..j /\ k + 1 \in 1..j + 1
        BY <3>3
      <4>2. s[k + 1] = Cell(s, r, c, b[k], k) /\ t[k + 1] = s[k + 1]
        BY <2>4, <2>6, <4>1 DEF Follows
      <4> QED BY <3>1, <4>2
    <3> QED BY <3>2, <3>3
  <2>9. Follows(t, r, i, c, b, j + 1)
    BY <2>7, <2>8 DEF Follows
  <2>10. IsString(t, Nat, (j + 1) + 1)
    BY <2>3, <2>5
  <2> QED BY <2>9, <2>10 DEF t
<1>8. m \in Good
  <2> HIDE DEF Good
  <2>1. Nat \subseteq Good
    BY <1>6, <1>7, NumberInduction
  <2> QED BY <2>1
<1>9. IsString(cells[m], Nat, m + 1) /\ Follows(cells[m], r, i, c, b, m)
  BY <1>8
<1>10. cells[m] \in Row(m)
  <2>1. m + 1 \in Nat
    OBVIOUS
  <2> QED BY <1>9, <2>1, StringTyped DEF Row
<1> QED BY <1>2, <1>9, <1>10

\* T is the table of distances of the beginnings of a, of n characters, and b.
IsTable(T, a, n, b) ==
  /\ T \in [0..n -> Row(Len(b))]
  /\ T[0] = FirstRow(b)
  /\ \A i \in 1..n : Follows(T[i], T[i - 1], i, a[i], b, Len(b))

\* The code computes such a table, and the distance is its last entry.
LEMMA LevenshteinIs ==
  ASSUME NEW a, NEW b, Len(a) \in Nat, Len(b) \in Nat
  PROVE  \E T : /\ IsTable(T, a, Len(a), b)
                /\ levenshtein(a, b) = T[Len(a)][Len(b) + 1]
<1> DEFINE n == Len(a)
           m == Len(b)
           D == Row(m)
           F == [p \in Nat \X D |-> NextRow(p[2], p[1], a[p[1]], b)]
           rows == CHOOSE f : IsRows(f, a, b)
<1>1. \A i \in Nat, r \in D : NextRow(r, i, a[i], b) \in D
  BY NextRowFollows
<1>2. F \in [Nat \X D -> D]
  <2> HIDE DEF D
  <2> QED BY <1>1
<1>3. \A i \in Nat, r \in D : F[<<i, r>>] = NextRow(r, i, a[i], b)
  <2> HIDE DEF D
  <2> QED OBVIOUS
<1>4. FirstRow(b) \in D
  BY DEF FirstRow, Row
<1>5. PICK g \in [0..n -> D] : Recurrence(g, n, FirstRow(b), F)
  <2> HIDE DEF D, F
  <2> QED BY <1>2, <1>4, RecurrenceExists
<1>6. ASSUME NEW i \in 1..n
      PROVE  g[i] = NextRow(g[i - 1], i, a[i], b)
  <2>1. i \in Nat /\ i - 1 \in 0..n
    OBVIOUS
  <2>2. g[i - 1] \in D /\ g[i] = F[<<i, g[i - 1]>>]
    <3> HIDE DEF D, F
    <3> QED BY <1>5, <2>1 DEF Recurrence
  <2> HIDE DEF D, F
  <2> QED BY <1>3, <2>1, <2>2
<1> HIDE DEF F
<1>7. g[0] = FirstRow(b) /\ \A i \in 0..n : i = 0 \/ i \in 1..n
  BY <1>5 DEF Recurrence
<1>8. \A i \in 0..n : g[i] = IF i = 0 THEN FirstRow(b)
                             ELSE NextRow(g[i - 1], i, a[i], b)
  BY ONLY <1>6, <1>7, Zenon
<1>9. IsRows(g, a, b)
  <2> HIDE DEF D
  <2>1. g = [i \in 0..n |-> IF i = 0 THEN FirstRow(b)
                            ELSE NextRow(g[i - 1], i, a[i], b)]
    BY <1>8
  <2> QED BY <2>1 DEF IsRows
<1>10. IsRows(rows, a, b)
  BY <1>9
<1>11. levenshtein(a, b) = rows[n][m + 1]
  BY LevenshteinByRows
<1> HIDE DEF rows
<1>12. \A i \in 0..n : rows[i] = IF i = 0 THEN FirstRow(b)
                                 ELSE NextRow(rows[i - 1], i, a[i], b)
  <2> DEFINE G == [i \in 0..n |-> IF i = 0 THEN FirstRow(b)
                                  ELSE NextRow(rows[i - 1], i, a[i], b)]
  <2>1. rows = G
    BY <1>10 DEF IsRows
  <2>2. \A i \in 0..n : G[i] = IF i = 0 THEN FirstRow(b)
                               ELSE NextRow(rows[i - 1], i, a[i], b)
    OBVIOUS
  <2> HIDE DEF G
  <2> QED BY <2>1, <2>2
<1> DEFINE Good == {i \in Nat : i <= n => rows[i] = g[i]}
<1>13. 0 \in Good
  BY <1>7, <1>12
<1>14. ASSUME NEW i \in Nat, i \in Good
       PROVE  i + 1 \in Good
  <2>1. SUFFICES ASSUME i + 1 <= n
                 PROVE  rows[i + 1] = g[i + 1]
    OBVIOUS
  <2>2. i + 1 \in 1..n /\ (i + 1) - 1 = i /\ rows[i] = g[i]
    BY <1>14, <2>1
  <2> QED BY <1>6, <1>12, <2>2
<1>15. rows[n] = g[n]
  <2> HIDE DEF Good
  <2>1. Nat \subseteq Good
    BY <1>13, <1>14, NumberInduction
  <2>2. n \in Good
    BY <2>1
  <2> QED BY <2>2 DEF Good
<1>16. IsTable(g, a, n, b)
  <2>1. ASSUME NEW i \in 1..n
        PROVE  Follows(g[i], g[i - 1], i, a[i], b, m)
    <3>1. i \in Nat /\ g[i - 1] \in D
      <4>1. i \in Nat /\ i - 1 \in 0..n
        OBVIOUS
      <4> HIDE DEF D
      <4> QED BY <1>5, <4>1
    <3> QED BY <1>6, <3>1, NextRowFollows
  <2> QED BY <1>5, <1>7, <2>1 DEF IsTable
<1> QED BY <1>11, <1>15, <1>16

(* One error in a changes a distance by one at most.                        *)

\* Two rows differ by e at most, up to the j-th entry; an entry is above the one
\* before by one at most.
Close(x, y, e) == x <= y + e /\ y <= x + e
Near(r, s, j, e) == \A k \in 1..j : Close(r[k], s[k], e)
Smooth(r, j) == \A k \in 1..j : r[k + 1] <= r[k] + 1

\* The least of three numbers changes no more than they do.
LEMMA LeastClose ==
  ASSUME NEW e \in Nat,
         NEW x \in Nat, NEW y \in Nat, NEW z \in Nat,
         NEW u \in Nat, NEW v \in Nat, NEW w \in Nat,
         Close(x, u, e), Close(y, v, e), Close(z, w, e)
  PROVE  Close(Least(x, y, z), Least(u, v, w), e)
<1> DEFINE p == Least(x, y, z)
           q == Least(u, v, w)
<1>1. p \in Nat /\ p <= x /\ p <= y /\ p <= z /\ (p = x \/ p = y \/ p = z)
  BY LeastIs
<1>2. q \in Nat /\ q <= u /\ q <= v /\ q <= w /\ (q = u \/ q = v \/ q = w)
  BY LeastIs
<1> HIDE DEF p, q
<1>3. Close(p, q, e)
  BY <1>1, <1>2 DEF Close
<1> QED BY <1>3 DEF p, q

\* A cell changes no more than the cells it is computed from.
LEMMA CellClose ==
  ASSUME NEW m \in Nat, NEW r \in Row(m), NEW s \in Row(m),
         NEW t \in Row(m), NEW u \in Row(m), NEW e \in Nat, NEW j \in 1..m,
         NEW c, NEW d, NEW x, Near(r, t, m + 1, e), Close(s[j], u[j], e),
         Close(r[j] + Cost(c, x), t[j] + Cost(d, x), e)
  PROVE  Close(Cell(s, r, c, x, j), Cell(u, t, d, x, j), e)
<1>1. /\ s[j] \in Nat /\ r[j + 1] \in Nat /\ r[j] \in Nat
      /\ u[j] \in Nat /\ t[j + 1] \in Nat /\ t[j] \in Nat
      /\ Cost(c, x) \in Nat /\ Cost(d, x) \in Nat
  BY DEF Row, Cost
<1>2. Close(r[j + 1], t[j + 1], e)
  <2>1. j + 1 \in 1..m + 1
    OBVIOUS
  <2> QED BY <2>1 DEF Near
<1> DEFINE s1 == s[j] + 1
           r1 == r[j + 1] + 1
           r2 == r[j] + Cost(c, x)
           u1 == u[j] + 1
           t1 == t[j + 1] + 1
           t2 == t[j] + Cost(d, x)
<1>3. /\ s1 \in Nat /\ r1 \in Nat /\ r2 \in Nat
      /\ u1 \in Nat /\ t1 \in Nat /\ t2 \in Nat
  BY <1>1
<1>4. Close(s1, u1, e) /\ Close(r1, t1, e) /\ Close(r2, t2, e)
  BY <1>1, <1>2 DEF Close
<1> HIDE DEF s1, r1, r2, u1, t1, t2
<1>5. Close(Least(s1, r1, r2), Least(u1, t1, t2), e)
  BY <1>3, <1>4, LeastClose
<1> QED BY <1>5 DEF s1, r1, r2, u1, t1, t2, Cell

\* Rows that are near to each other have next rows that are.
LEMMA NextNear ==
  ASSUME NEW b, Len(b) \in Nat, NEW e \in Nat,
         NEW r \in Row(Len(b)), NEW s \in Row(Len(b)),
         NEW t \in Row(Len(b)), NEW u \in Row(Len(b)),
         NEW i \in Nat, NEW l \in Nat, Close(i, l, e), NEW c, NEW d,
         Follows(s, r, i, c, b, Len(b)), Follows(u, t, l, d, b, Len(b)),
         Near(r, t, Len(b) + 1, e),
         \A j \in 1..Len(b) :
           Close(r[j] + Cost(c, b[j]), t[j] + Cost(d, b[j]), e)
  PROVE  Near(s, u, Len(b) + 1, e)
<1> DEFINE m == Len(b)
           Good == {j \in Nat : j <= m => Close(s[j + 1], u[j + 1], e)}
<1>1. 0 \in Good
  <2>1. s[1] = i /\ u[1] = l
    BY DEF Follows
  <2>2. 0 + 1 = 1
    OBVIOUS
  <2> QED BY <2>1, <2>2
<1>2. ASSUME NEW j \in Nat, j \in Good
      PROVE  j + 1 \in Good
  <2>1. SUFFICES ASSUME j + 1 <= m
                 PROVE  Close(s[(j + 1) + 1], u[(j + 1) + 1], e)
    OBVIOUS
  <2> DEFINE k == j + 1
  <2>2. k \in 1..m /\ Close(s[k], u[k], e)
    BY <1>2, <2>1
  <2> HIDE DEF k
  <2>3. s[k + 1] = Cell(s, r, c, b[k], k) /\ u[k + 1] = Cell(u, t, d, b[k], k)
    BY <2>2 DEF Follows
  <2>4. Close(Cell(s, r, c, b[k], k), Cell(u, t, d, b[k], k), e)
    BY <2>2, CellClose
  <2> QED BY <2>3, <2>4 DEF k
<1>3. Nat \subseteq Good
  <2> HIDE DEF Good
  <2> QED BY <1>1, <1>2, NumberInduction
<1>4. ASSUME NEW j \in 1..m + 1
      PROVE  Close(s[j], u[j], e)
  <2>1. j - 1 \in Nat /\ j - 1 <= m /\ (j - 1) + 1 = j
    OBVIOUS
  <2>2. j - 1 \in Good
    BY <1>3, <2>1
  <2> QED BY <2>1, <2>2
<1> QED BY <1>4 DEF Near

\* The numbers in a table, row by row: no entry is above the one before by more
\* than one, and a row starts with its number.
LEMMA CellBound ==
  ASSUME NEW m \in Nat, NEW r \in Row(m), NEW s \in Row(m),
         NEW c, NEW x, NEW j \in 1..m, s[j + 1] = Cell(s, r, c, x, j)
  PROVE  /\ s[j] \in Nat /\ r[j] \in Nat /\ r[j + 1] \in Nat /\ s[j + 1] \in Nat
         /\ s[j + 1] <= s[j] + 1 /\ s[j + 1] <= r[j + 1] + 1
         /\ s[j + 1] <= r[j] + Cost(c, x)
         /\ \/ s[j + 1] = s[j] + 1
            \/ s[j + 1] = r[j + 1] + 1
            \/ s[j + 1] = r[j] + Cost(c, x)
<1>1. s[j] \in Nat /\ r[j] \in Nat /\ r[j + 1] \in Nat /\ Cost(c, x) \in Nat
      /\ s[j + 1] \in Nat
  BY DEF Row, Cost
<1> DEFINE s1 == s[j] + 1
           r1 == r[j + 1] + 1
           r2 == r[j] + Cost(c, x)
           p == Least(s1, r1, r2)
<1>2. s1 \in Nat /\ r1 \in Nat /\ r2 \in Nat
  BY <1>1
<1>3. s[j + 1] = p
  BY DEF Cell
<1>4. p <= s1 /\ p <= r1 /\ p <= r2 /\ (p = s1 \/ p = r1 \/ p = r2)
  <2> HIDE DEF s1, r1, r2
  <2> QED BY <1>2, LeastIs
<1> HIDE DEF p
<1> QED BY <1>1, <1>3, <1>4

\* Every row of the table is one, and its entries change by one at most.
LEMMA TableSmooth ==
  ASSUME NEW a, NEW n \in Nat, NEW b, Len(b) \in Nat, NEW T, IsTable(T, a, n, b),
         NEW i \in 0..n
  PROVE  T[i] \in Row(Len(b)) /\ T[i][1] = i /\ Smooth(T[i], Len(b))
<1> DEFINE m == Len(b)
<1>1. T[i] \in Row(m)
  BY DEF IsTable
<1>2. CASE i = 0
  <2>1. T[i] = [j \in 1..m + 1 |-> j - 1]
    BY <1>2 DEF IsTable, FirstRow
  <2>2. T[i][1] = 0
    BY <2>1
  <2>3. \A j \in 1..m : T[i][j] = j - 1 /\ T[i][j + 1] = j
    BY <2>1
  <2> QED BY <1>1, <1>2, <2>2, <2>3 DEF Smooth
<1>3. CASE i # 0
  <2>1. i \in 1..n /\ i - 1 \in 0..n
    BY <1>3
  <2>2. Follows(T[i], T[i - 1], i, a[i], b, m) /\ T[i - 1] \in Row(m)
    BY <2>1 DEF IsTable
  <2>3. ASSUME NEW j \in 1..m
        PROVE  T[i][j + 1] <= T[i][j] + 1
    <3> DEFINE s == T[i]
               r == T[i - 1]
    <3>1. s[j + 1] = Cell(s, r, a[i], b[j], j)
      BY <2>2 DEF Follows
    <3>2. s \in Row(m) /\ r \in Row(m)
      BY <1>1, <2>2
    <3> HIDE DEF s, r
    <3>3. s[j + 1] <= s[j] + 1
      BY <3>1, <3>2, CellBound
    <3> QED BY <3>3 DEF s
  <2> QED BY <1>1, <2>2, <2>3 DEF Follows, Smooth
<1> QED BY <1>2, <1>3

\* A row is near to the row before.
LEMMA RowNear ==
  ASSUME NEW a, NEW n \in Nat, NEW b, Len(b) \in Nat, NEW T, IsTable(T, a, n, b),
         NEW i \in 1..n
  PROVE  Near(T[i], T[i - 1], Len(b) + 1, 1)
<1> DEFINE m == Len(b)
           s == T[i]
           r == T[i - 1]
<1>1. i \in 0..n /\ i - 1 \in 0..n /\ i \in Nat
  OBVIOUS
<1>2. /\ s \in Row(m) /\ s[1] = i
      /\ r \in Row(m) /\ r[1] = i - 1 /\ Smooth(r, m)
  <2>1. s \in Row(m) /\ s[1] = i
    <3>1. i \in 0..n
      OBVIOUS
    <3> HIDE DEF s
    <3>2. T[i] \in Row(m) /\ T[i][1] = i
      BY <3>1, TableSmooth
    <3> QED BY <3>2 DEF s
  <2>2. r \in Row(m) /\ r[1] = i - 1 /\ Smooth(r, m)
    <3> DEFINE k == i - 1
    <3>1. k \in 0..n
      OBVIOUS
    <3> HIDE DEF k, s
    <3>2. T[k] \in Row(m) /\ T[k][1] = k /\ Smooth(T[k], m)
      BY <3>1, TableSmooth
    <3> QED BY <3>2 DEF k
  <2> QED BY <2>1, <2>2
<1>3. \A j \in 1..m : s[j + 1] = Cell(s, r, a[i], b[j], j)
  BY DEF IsTable, Follows
<1> HIDE DEF s, r
<1> DEFINE Good == {j \in Nat : j <= m => Close(s[j + 1], r[j + 1], 1)}
<1>4. 0 \in Good
  <2>1. Close(s[0 + 1], r[0 + 1], 1)
    BY <1>1, <1>2 DEF Close
  <2> QED BY <2>1
<1>5. ASSUME NEW j \in Nat, j \in Good
      PROVE  j + 1 \in Good
  <2>1. SUFFICES ASSUME j + 1 <= m
                 PROVE  Close(s[(j + 1) + 1], r[(j + 1) + 1], 1)
    OBVIOUS
  <2> DEFINE k == j + 1
  <2>2. k \in 1..m /\ Close(s[k], r[k], 1)
    BY <1>5, <2>1
  <2> HIDE DEF k
  <2>3. s[k + 1] = Cell(s, r, a[i], b[k], k)
    BY <1>3, <2>2
  <2> DEFINE cost == Cost(a[i], b[k])
  <2>4. cost \in {0, 1}
    BY DEF Cost
  <2>5. /\ s[k] \in Nat /\ r[k] \in Nat /\ r[k + 1] \in Nat /\ s[k + 1] \in Nat
        /\ s[k + 1] <= s[k] + 1 /\ s[k + 1] <= r[k + 1] + 1
        /\ \/ s[k + 1] = s[k] + 1
           \/ s[k + 1] = r[k + 1] + 1
           \/ s[k + 1] = r[k] + cost
    BY <1>2, <2>2, <2>3, CellBound
  <2> HIDE DEF cost
  <2>6. r[k + 1] <= r[k] + 1
    BY <1>2, <2>2 DEF Smooth
  <2>7. Close(s[k + 1], r[k + 1], 1)
    BY ONLY <2>2, <2>4, <2>5, <2>6 DEF Close
  <2> QED BY <2>7 DEF k
<1>6. Nat \subseteq Good
  <2> HIDE DEF Good
  <2> QED BY <1>4, <1>5, NumberInduction
<1>7. ASSUME NEW j \in 1..m + 1
      PROVE  Close(s[j], r[j], 1)
  <2>1. j - 1 \in Nat /\ j - 1 <= m /\ (j - 1) + 1 = j
    OBVIOUS
  <2>2. j - 1 \in Good
    BY <1>6, <2>1
  <2> QED BY <2>1, <2>2
<1>8. Near(s, r, m + 1, 1)
  BY <1>7 DEF Near
<1> QED BY <1>8 DEF s, r

\* The h characters behind the p-th of a are those behind the q-th of c.
Alike(a, p, c, q, h) == \A k \in 1..h : a[p + k] = c[q + k]

\* Rows of two tables that are near to each other stay near as long as the same
\* characters come.
LEMMA RowsStayNear ==
  ASSUME NEW a, NEW n \in Nat, NEW c, NEW l \in Nat, NEW b, Len(b) \in Nat,
         NEW T, IsTable(T, a, n, b), NEW U, IsTable(U, c, l, b),
         NEW p \in 0..n, NEW q \in 0..l, NEW e \in Nat, Close(p, q, e),
         Near(T[p], U[q], Len(b) + 1, e),
         NEW h \in Nat, NEW x \in 0..n, NEW y \in 0..l, x = p + h, y = q + h,
         Alike(a, p, c, q, h)
  PROVE  Near(T[x], U[y], Len(b) + 1, e)
<1> DEFINE m == Len(b)
           Good == {k \in Nat : k <= h => Near(T[p + k], U[q + k], m + 1, e)}
<1>1. 0 \in Good
  <2>1. p + 0 = p /\ q + 0 = q
    OBVIOUS
  <2> QED BY <2>1
<1>2. ASSUME NEW k \in Nat, k \in Good
      PROVE  k + 1 \in Good
  <2>1. SUFFICES ASSUME k + 1 <= h
                 PROVE  Near(T[p + (k + 1)], U[q + (k + 1)], m + 1, e)
    OBVIOUS
  <2> DEFINE i == p + (k + 1)
             j == q + (k + 1)
             r == T[p + k]
             t == U[q + k]
             s == T[i]
             u == U[j]
  <2>2. /\ i \in 1..n /\ i - 1 = p + k /\ j \in 1..l /\ j - 1 = q + k
        /\ k + 1 \in 1..h
    BY <2>1
  <2>3. Near(r, t, m + 1, e)
    BY <1>2, <2>1
  <2>4. a[i] = c[j]
    BY <2>2 DEF Alike
  <2> HIDE DEF i, j
  <2>5. Follows(s, r, i, a[i], b, m) /\ Follows(u, t, j, a[i], b, m)
    BY <2>2, <2>4 DEF IsTable
  <2>6. r \in Row(m) /\ s \in Row(m) /\ t \in Row(m) /\ u \in Row(m)
    <3>1. i \in 0..n /\ p + k \in 0..n /\ j \in 0..l /\ q + k \in 0..l
      BY <2>2
    <3> QED BY <3>1 DEF IsTable
  <2>7. i \in Nat /\ j \in Nat /\ Close(i, j, e)
    BY <2>2 DEF Close, i, j
  <2> HIDE DEF r, s, t, u
  <2>8. ASSUME NEW z \in 1..m
        PROVE  Close(r[z] + Cost(a[i], b[z]), t[z] + Cost(a[i], b[z]), e)
    <3>1. r[z] \in Nat /\ t[z] \in Nat /\ Cost(a[i], b[z]) \in {0, 1}
      <4>1. z \in 1..m + 1
        OBVIOUS
      <4>2. r[z] \in Nat /\ t[z] \in Nat
        BY ONLY <2>6, <4>1 DEF Row
      <4> QED BY ONLY <4>2 DEF Cost
    <3>2. Close(r[z], t[z], e)
      BY <2>3 DEF Near
    <3> QED BY ONLY <3>1, <3>2, e \in Nat DEF Close
  <2>9. Near(s, u, m + 1, e)
    BY <2>3, <2>5, <2>6, <2>7, <2>8, NextNear
  <2> QED BY <2>9 DEF s, u, i, j
<1>3. h \in Good
  <2> HIDE DEF Good
  <2>1. Nat \subseteq Good
    BY <1>1, <1>2, NumberInduction
  <2> QED BY <2>1
<1> QED BY <1>3

\* One error changes the last row by one at most: a character left out ...
LEMMA LeftOutNear ==
  ASSUME NEW a, NEW n \in Nat, NEW c, NEW l \in Nat, NEW b, Len(b) \in Nat,
         NEW T, IsTable(T, a, n, b), NEW U, IsTable(U, c, l, b),
         LeftOut(a, n, c, l)
  PROVE  Near(T[n], U[l], Len(b) + 1, 1)
<1> DEFINE m == Len(b)
<1>1. PICK i \in 1..n : /\ \A k \in 1..i - 1 : c[k] = a[k]
                        /\ \A k \in i..l : c[k] = a[k + 1]
  BY DEF LeftOut
<1>2. n = l + 1
  BY DEF LeftOut
<1> DEFINE p == i - 1
           h == n - i
<1>3. /\ p \in 0..n /\ p \in 0..l /\ p \in Nat /\ i \in 0..n /\ h \in Nat
      /\ 0 + p = p /\ i + h = n /\ p + h = l /\ 0 \in 0..n /\ 0 \in 0..l
  BY <1>2
<1>4. Alike(a, 0, c, 0, p)
  <2>1. \A k \in 1..p : 0 + k = k
    OBVIOUS
  <2> QED BY <1>1, <2>1 DEF Alike
<1>5. Alike(a, i, c, p, h)
  <2>1. \A k \in 1..h : p + k \in i..l /\ (p + k) + 1 = i + k
    BY <1>2
  <2> QED BY <1>1, <2>1 DEF Alike
<1>6. Near(T[0], U[0], m + 1, 0)
  <2>1. T[0] = U[0] /\ T[0] \in Row(m)
    BY <1>3 DEF IsTable
  <2> DEFINE r == T[0]
  <2>2. r \in Row(m)
    BY <2>1
  <2> HIDE DEF r
  <2>3. \A k \in 1..m + 1 : r[k] \in Nat
    BY <2>2 DEF Row
  <2>4. Near(r, r, m + 1, 0)
    BY <2>3 DEF Near, Close
  <2> QED BY <2>1, <2>4 DEF r
<1>7. Close(0, 0, 0) /\ 0 \in Nat /\ Close(i, p, 1) /\ 1 \in Nat
  BY DEF Close
<1>8. Near(T[i], T[p], m + 1, 1)
  BY RowNear
<1> HIDE DEF p, h
<1>9. Near(T[p], U[p], m + 1, 0)
  <2>1. p = 0 + p
    BY <1>3
  <2> QED BY <1>3, <1>4, <1>6, <1>7, <2>1, RowsStayNear
<1>10. Near(T[i], U[p], m + 1, 1)
  <2> DEFINE r == T[i]
             s == T[p]
             t == U[p]
  <2>1. r \in Row(m) /\ s \in Row(m) /\ t \in Row(m)
    BY <1>3 DEF IsTable
  <2>2. Near(r, s, m + 1, 1) /\ Near(s, t, m + 1, 0)
    BY <1>8, <1>9
  <2> HIDE DEF r, s, t
  <2>3. ASSUME NEW k \in 1..m + 1
        PROVE  Close(r[k], t[k], 1)
    <3>1. r[k] \in Nat /\ s[k] \in Nat /\ t[k] \in Nat
      BY ONLY <2>1, k \in 1..m + 1 DEF Row
    <3>2. Close(r[k], s[k], 1) /\ Close(s[k], t[k], 0)
      BY <2>2 DEF Near
    <3> QED BY <3>1, <3>2 DEF Close
  <2>4. Near(r, t, m + 1, 1)
    BY <2>3 DEF Near
  <2> QED BY <2>4 DEF r, t
<1>11. Near(T[n], U[l], m + 1, 1)
  <2>1. n \in 0..n /\ l \in 0..l /\ n = i + h /\ l = p + h
    BY <1>3
  <2> QED BY <1>3, <1>5, <1>7, <1>10, <2>1, RowsStayNear
<1> QED BY <1>11

\* ... or a wrong one.
LEMMA ReplacedNear ==
  ASSUME NEW a, NEW n \in Nat, NEW c, NEW l \in Nat, NEW b, Len(b) \in Nat,
         NEW T, IsTable(T, a, n, b), NEW U, IsTable(U, c, l, b),
         Rewritten(a, n, c, l)
  PROVE  Near(T[n], U[l], Len(b) + 1, 1)
<1> DEFINE m == Len(b)
<1>1. PICK i \in 1..n : \A k \in 1..n : k # i => c[k] = a[k]
  BY DEF Rewritten
<1>2. n = l
  BY DEF Rewritten
<1> DEFINE p == i - 1
           h == n - i
<1>3. /\ p \in 0..n /\ p \in 0..l /\ p \in Nat /\ i \in 0..n /\ i \in 0..l /\ h \in Nat
      /\ 0 + p = p /\ i + h = n /\ i + h = l /\ 0 \in 0..n /\ 0 \in 0..l
      /\ i \in 1..l /\ i \in Nat
  BY <1>2
<1>4. Alike(a, 0, c, 0, p)
  <2>1. \A k \in 1..p : 0 + k = k /\ k \in 1..n /\ k # i
    OBVIOUS
  <2> QED BY <1>1, <2>1 DEF Alike
<1>5. Alike(a, i, c, i, h)
  <2>1. \A k \in 1..h : i + k \in 1..n /\ i + k # i
    BY <1>2
  <2> QED BY <1>1, <2>1 DEF Alike
<1>6. Near(T[0], U[0], m + 1, 0)
  <2>1. T[0] = U[0] /\ T[0] \in Row(m)
    BY <1>3 DEF IsTable
  <2> DEFINE r == T[0]
  <2>2. r \in Row(m)
    BY <2>1
  <2> HIDE DEF r
  <2>3. \A k \in 1..m + 1 : r[k] \in Nat
    BY <2>2 DEF Row
  <2>4. Near(r, r, m + 1, 0)
    BY <2>3 DEF Near, Close
  <2> QED BY <2>1, <2>4 DEF r
<1>7. Close(0, 0, 0) /\ 0 \in Nat /\ Close(i, i, 1) /\ 1 \in Nat
  BY DEF Close
<1>8. Follows(T[i], T[p], i, a[i], b, m) /\ Follows(U[i], U[p], i, c[i], b, m)
  BY <1>3 DEF IsTable
<1> HIDE DEF p, h
<1>9. Near(T[p], U[p], m + 1, 0)
  <2>1. p = 0 + p
    BY <1>3
  <2> QED BY <1>3, <1>4, <1>6, <1>7, <2>1, RowsStayNear
<1>10. Near(T[i], U[i], m + 1, 1)
  <2> DEFINE r == T[p]
             s == T[i]
             t == U[p]
             u == U[i]
  <2>1. r \in Row(m) /\ s \in Row(m) /\ t \in Row(m) /\ u \in Row(m)
    BY <1>3 DEF IsTable
  <2>2. Near(r, t, m + 1, 0) /\ Follows(s, r, i, a[i], b, m) /\ Follows(u, t, i, c[i], b, m)
    BY <1>8, <1>9
  <2> HIDE DEF r, s, t, u
  <2>3. \A k \in 1..m + 1 : r[k] \in Nat /\ t[k] \in Nat /\ Close(r[k], t[k], 0)
    <3>1. \A k \in 1..m + 1 : r[k] \in Nat /\ t[k] \in Nat
      BY ONLY <2>1 DEF Row
    <3> QED BY <2>2, <3>1 DEF Near
  <2>4. Near(r, t, m + 1, 1)
    BY <2>3 DEF Near, Close
  <2>5. ASSUME NEW k \in 1..m
        PROVE  Close(r[k] + Cost(a[i], b[k]), t[k] + Cost(c[i], b[k]), 1)
    <3>1. k \in 1..m + 1
      OBVIOUS
    <3>2. Cost(a[i], b[k]) \in {0, 1} /\ Cost(c[i], b[k]) \in {0, 1}
      BY DEF Cost
    <3>3. r[k] \in Nat /\ t[k] \in Nat /\ Close(r[k], t[k], 0)
      BY <2>3, <3>1
    <3> QED BY ONLY <3>2, <3>3 DEF Close
  <2>6. Near(s, u, m + 1, 1)
    BY <1>3, <1>7, <2>1, <2>2, <2>4, <2>5, NextNear
  <2> QED BY <2>6 DEF s, u
<1>11. Near(T[n], U[l], m + 1, 1)
  <2>1. n \in 0..n /\ l \in 0..l /\ n = i + h /\ l = i + h
    BY <1>3
  <2> QED BY <1>3, <1>5, <1>7, <1>10, <2>1, RowsStayNear
<1> QED BY <1>11

\* One error more brings the distance up by one at most.
LEMMA StepClose ==
  ASSUME NEW S, NEW u \in Seq(S), NEW v \in Seq(S), NEW b \in Seq(S), Step(u, v)
  PROVE  /\ levenshtein(u, b) \in Nat /\ levenshtein(v, b) \in Nat
         /\ levenshtein(v, b) <= levenshtein(u, b) + 1
<1> DEFINE n == Len(u)
           l == Len(v)
           m == Len(b)
<1>1. n \in Nat /\ l \in Nat /\ m \in Nat
  BY LenProperties
<1>2. PICK T : IsTable(T, u, n, b) /\ levenshtein(u, b) = T[n][m + 1]
  BY <1>1, LevenshteinIs
<1>3. PICK U : IsTable(U, v, l, b) /\ levenshtein(v, b) = U[l][m + 1]
  BY <1>1, LevenshteinIs
<1> DEFINE r == T[n]
           s == U[l]
<1>4. r \in Row(m) /\ s \in Row(m)
  <2>1. n \in 0..n /\ l \in 0..l
    BY <1>1
  <2> QED BY <1>2, <1>3, <2>1 DEF IsTable
<1>5. r[m + 1] \in Nat /\ s[m + 1] \in Nat
  <2>1. m + 1 \in 1..m + 1
    BY <1>1
  <2> HIDE DEF r, s, m
  <2> QED BY <1>4, <2>1 DEF Row
<1>6. CASE u = v
  <2>1. levenshtein(v, b) = levenshtein(u, b)
    BY <1>6
  <2> QED BY <1>2, <1>5, <2>1
<1>7. CASE Edited(u, n, v, l)
  <2>1. Near(r, s, m + 1, 1) \/ Near(s, r, m + 1, 1)
    <3>1. CASE LeftOut(u, n, v, l)
      BY <1>1, <1>2, <1>3, <3>1, LeftOutNear
    <3>2. CASE LeftOut(v, l, u, n)
      BY <1>1, <1>2, <1>3, <3>2, LeftOutNear
    <3>3. CASE Rewritten(u, n, v, l)
      BY <1>1, <1>2, <1>3, <3>3, ReplacedNear
    <3> QED BY <1>7, <3>1, <3>2, <3>3 DEF Edited
  <2>2. m + 1 \in 1..m + 1
    BY <1>1
  <2>3. s[m + 1] <= r[m + 1] + 1
    <3> HIDE DEF r, s, m
    <3> QED BY <2>1, <2>2 DEF Near, Close
  <2> QED BY <1>2, <1>3, <1>5, <2>3
<1> QED BY <1>6, <1>7 DEF Step

\* A string has no distance from itself.
LEMMA NoDistance ==
  ASSUME NEW b, Len(b) \in Nat
  PROVE  levenshtein(b, b) = 0
<1> DEFINE m == Len(b)
<1>1. PICK T : IsTable(T, b, m, b) /\ levenshtein(b, b) = T[m][m + 1]
  BY LevenshteinIs
<1> DEFINE Good == {j \in Nat : j <= m => T[j][j + 1] = 0}
<1>2. 0 \in Good
  <2>1. T[0] = [j \in 1..m + 1 |-> j - 1]
    BY <1>1 DEF IsTable, FirstRow
  <2>2. T[0][1] = 0
    BY <2>1
  <2>3. 0 + 1 = 1
    OBVIOUS
  <2> QED BY <2>2, <2>3
<1>3. ASSUME NEW j \in Nat, j \in Good
      PROVE  j + 1 \in Good
  <2>1. SUFFICES ASSUME j + 1 <= m
                 PROVE  T[j + 1][(j + 1) + 1] = 0
    OBVIOUS
  <2> DEFINE k == j + 1
             r == T[k - 1]
             s == T[k]
  <2>2. k \in 1..m /\ k \in 0..m /\ k - 1 \in 0..m /\ k - 1 = j
    BY <2>1
  <2>3. r[k] = 0
    BY <1>3, <2>1, <2>2
  <2> HIDE DEF k
  <2>4. Follows(s, r, k, b[k], b, m) /\ r \in Row(m) /\ s \in Row(m)
    BY <1>1, <2>2 DEF IsTable
  <2> HIDE DEF r, s
  <2>5. s[k + 1] = Cell(s, r, b[k], b[k], k)
    BY <2>2, <2>4 DEF Follows
  <2>6. s[k + 1] \in Nat /\ s[k + 1] <= r[k] + Cost(b[k], b[k])
    BY <2>2, <2>4, <2>5, CellBound
  <2>7. Cost(b[k], b[k]) = 0
    BY DEF Cost
  <2>8. s[k + 1] = 0
    BY <2>3, <2>6, <2>7
  <2> QED BY <2>8 DEF s, k
<1>4. m \in Good
  <2> HIDE DEF Good
  <2>1. Nat \subseteq Good
    BY <1>2, <1>3, NumberInduction
  <2> QED BY <2>1
<1> QED BY <1>1, <1>4

\* Where k errors lead is not farther than k.
LEMMA WayBounds ==
  ASSUME NEW A, NEW k \in Nat, NEW a, NEW b, Way(A, a, b, k)
  PROVE  levenshtein(a, b) <= k
<1>1. a \in Seq(A) /\ b \in Seq(A) /\ Way(A, b, a, k)
  BY WayTyped, WayBack
<1>2. PICK f : IsWay(f, A, b, a, k)
  BY <1>1 DEF Way
<1>3. /\ f[0] = b /\ f[k] = a
      /\ \A i \in 0..k : f[i] \in Seq(A)
      /\ \A i \in 1..k : Step(f[i - 1], f[i])
  BY <1>2 DEF IsWay
<1> DEFINE Good == {i \in Nat : i <= k => levenshtein(f[i], b) <= i}
<1>4. 0 \in Good
  <2>1. levenshtein(f[0], b) = 0
    BY <1>1, <1>3, NoDistance, LenProperties
  <2> QED BY <2>1
<1>5. ASSUME NEW i \in Nat, i \in Good
      PROVE  i + 1 \in Good
  <2>1. SUFFICES ASSUME i + 1 <= k
                 PROVE  levenshtein(f[i + 1], b) <= i + 1
    OBVIOUS
  <2> DEFINE u == f[i]
             v == f[i + 1]
  <2>2. levenshtein(u, b) <= i
    BY <1>5, <2>1
  <2>3. u \in Seq(A) /\ v \in Seq(A) /\ Step(u, v)
    <3>1. i \in 0..k /\ i + 1 \in 0..k /\ i + 1 \in 1..k /\ (i + 1) - 1 = i
      BY <2>1
    <3> QED BY <1>3, <3>1
  <2> HIDE DEF u, v
  <2>4. /\ levenshtein(u, b) \in Nat /\ levenshtein(v, b) \in Nat
        /\ levenshtein(v, b) <= levenshtein(u, b) + 1
    BY <1>1, <2>3, StepClose
  <2>5. levenshtein(v, b) <= i + 1
    BY <2>2, <2>4
  <2> QED BY <2>5 DEF v
<1>6. k \in Good
  <2> HIDE DEF Good
  <2>1. Nat \subseteq Good
    BY <1>4, <1>5, NumberInduction
  <2> QED BY <2>1
<1> QED BY <1>3, <1>6

(* As many errors as the distance are enough.                               *)

\* A step or a way between two strings is one between them with a character
\* behind.
LEMMA StepBehind ==
  ASSUME NEW A, NEW u \in Seq(A), NEW v \in Seq(A), NEW c \in A, Step(u, v)
  PROVE  Step(Append(u, c), Append(v, c))
<1> DEFINE n == Len(u)
           m == Len(v)
           w == Append(u, c)
           x == Append(v, c)
<1>1. /\ n \in Nat /\ Len(w) = n + 1 /\ IsAppended(w, u, n, c)
      /\ m \in Nat /\ Len(x) = m + 1 /\ IsAppended(x, v, m, c)
  BY AppendProperties, LenProperties DEF IsAppended
<1>2. ASSUME u = v
      PROVE  w = x
  BY <1>2
<1> HIDE DEF n, m, w, x
<1>3. ASSUME NEW s, NEW t, NEW y, NEW z, NEW k \in Nat, NEW l \in Nat,
             LeftOut(s, k, t, l), IsAppended(y, s, k, c), IsAppended(z, t, l, c)
      PROVE  LeftOut(y, k + 1, z, l + 1)
  <2>1. k = l + 1
    BY <1>3 DEF LeftOut
  <2>2. PICK i \in 1..k : /\ \A j \in 1..i - 1 : t[j] = s[j]
                          /\ \A j \in i..l : t[j] = s[j + 1]
    BY <1>3 DEF LeftOut
  <2>3. ASSUME NEW j \in 1..i - 1
        PROVE  z[j] = y[j]
    <3>1. j \in 1..k /\ j \in 1..l
      BY <2>1
    <3> QED BY <1>3, <2>2, <3>1 DEF IsAppended
  <2>4. ASSUME NEW j \in i..l + 1
        PROVE  z[j] = y[j + 1]
    <3>1. CASE j = l + 1
      BY <1>3, <2>1, <3>1 DEF IsAppended
    <3>2. CASE j # l + 1
      <4>1. j \in 1..l /\ j \in i..l /\ j + 1 \in 1..k
        BY <2>1, <3>2
      <4> QED BY <1>3, <2>2, <4>1 DEF IsAppended
    <3> QED BY <3>1, <3>2
  <2>5. i \in 1..k + 1 /\ k + 1 = (l + 1) + 1
    BY <2>1
  <2> QED BY <2>3, <2>4, <2>5 DEF LeftOut
<1>4. ASSUME Rewritten(u, n, v, m)
      PROVE  Rewritten(w, n + 1, x, m + 1)
  <2>1. n = m
    BY <1>4 DEF Rewritten
  <2>2. PICK i \in 1..n : \A j \in 1..n : j # i => v[j] = u[j]
    BY <1>4 DEF Rewritten
  <2>3. ASSUME NEW j \in 1..n + 1, j # i
        PROVE  x[j] = w[j]
    <3>1. CASE j = n + 1
      BY <1>1, <2>1, <3>1 DEF IsAppended
    <3>2. CASE j # n + 1
      <4>1. j \in 1..n
        BY <1>1, <3>2
      <4> QED BY <1>1, <2>1, <2>2, <2>3, <4>1 DEF IsAppended
    <3> QED BY <3>1, <3>2
  <2>4. i \in 1..n + 1
    BY <1>1
  <2> QED BY <2>1, <2>3, <2>4 DEF Rewritten
<1>5. u = v \/ Edited(u, n, v, m)
  BY DEF Step, n, m
<1>6. w = x \/ Edited(w, n + 1, x, m + 1)
  <2>1. LeftOut(u, n, v, m) => LeftOut(w, n + 1, x, m + 1)
    BY <1>1, <1>3
  <2>2. LeftOut(v, m, u, n) => LeftOut(x, m + 1, w, n + 1)
    BY <1>1, <1>3
  <2> QED BY <1>2, <1>4, <1>5, <2>1, <2>2 DEF Edited
<1>7. Step(w, x)
  BY <1>1, <1>6 DEF Step
<1> QED BY <1>7 DEF w, x

\* The same character behind both strings costs no error.
LEMMA WayBehind ==
  ASSUME NEW A, NEW k \in Nat, NEW u, NEW v, Way(A, u, v, k), NEW c \in A
  PROVE  Way(A, Append(u, c), Append(v, c), k)
<1>1. PICK f : IsWay(f, A, u, v, k)
  BY DEF Way
<1>2. /\ f[0] = u /\ f[k] = v
      /\ \A i \in 0..k : f[i] \in Seq(A)
      /\ \A i \in 1..k : Step(f[i - 1], f[i])
  BY <1>1 DEF IsWay
<1> DEFINE g == [i \in 0..k |-> Append(f[i], c)]
<1>3. g \in [0..k -> Seq(A)]
  BY <1>2, AppendProperties
<1>4. g[0] = Append(u, c) /\ g[k] = Append(v, c)
  <2>1. 0 \in 0..k /\ k \in 0..k
    OBVIOUS
  <2>2. g[0] = Append(f[0], c) /\ g[k] = Append(f[k], c)
    BY <2>1
  <2> QED BY <1>2, <2>2
<1>5. ASSUME NEW i \in 1..k
      PROVE  Step(g[i - 1], g[i])
  <2>1. i \in 0..k /\ i - 1 \in 0..k
    OBVIOUS
  <2>2. Step(Append(f[i - 1], c), Append(f[i], c))
    BY <1>2, <2>1, StepBehind
  <2> QED BY <2>1, <2>2
<1> HIDE DEF g
<1>6. IsWay(g, A, Append(u, c), Append(v, c), k)
  BY <1>3, <1>4, <1>5 DEF IsWay
<1> QED BY <1>6 DEF Way

-----------------------------------------------------------------------------
(* The beginnings of two strings, and the entries of the table.             *)

\* The first i characters of a string.
Beginning(a, i) == Cut(a, 1, i)

\* A beginning is a string of the characters there.
LEMMA BeginIs ==
  ASSUME NEW A, NEW n \in Nat, NEW a, IsString(a, A, n), NEW i \in 0..n
  PROVE  IsString(Beginning(a, i), A, i) /\ \A k \in 1..i : Beginning(a, i)[k] = a[k]
<1>1. 1 \in 1..n + 1 /\ i \in 1 - 1..n /\ i - 1 + 1 = i
  OBVIOUS
<1>2. IsString(Beginning(a, i), A, i - 1 + 1) /\ IsCut(Beginning(a, i), a, 1, i - 1 + 1)
  BY <1>1, StringCut DEF Beginning
<1>3. \A k \in 1..i : 1 + k - 1 = k
  OBVIOUS
<1> QED BY <1>1, <1>2, <1>3 DEF IsCut

\* A beginning is the one before with a character behind, all of the string, or
\* nothing.
LEMMA BeginGrows ==
  ASSUME NEW A, NEW n \in Nat, NEW a, IsString(a, A, n), NEW i \in 0..n - 1
  PROVE  /\ Beginning(a, i) \in Seq(A) /\ Beginning(a, i + 1) \in Seq(A)
         /\ a[i + 1] \in A
         /\ Beginning(a, i + 1) = Append(Beginning(a, i), a[i + 1])
<1> DEFINE u == Beginning(a, i)
           v == Beginning(a, i + 1)
           c == a[i + 1]
           w == Append(u, c)
<1>1. i \in 0..n /\ i + 1 \in 0..n /\ i + 1 \in 1..n
  OBVIOUS
<1>2. c \in A
  <2>1. a \in [1..n -> A]
    BY StringTyped
  <2> QED BY <1>1, <2>1
<1>3. IsString(u, A, i) /\ \A k \in 1..i : u[k] = a[k]
  BY <1>1, BeginIs
<1>4. IsString(v, A, i + 1) /\ \A k \in 1..i + 1 : v[k] = a[k]
  <2> DEFINE j == i + 1
  <2>1. j \in 0..n
    BY <1>1
  <2> HIDE DEF j
  <2>2. IsString(Beginning(a, j), A, j) /\ \A k \in 1..j : Beginning(a, j)[k] = a[k]
    BY <2>1, BeginIs
  <2> QED BY <2>2 DEF j
<1> HIDE DEF u, v, c
<1>5. IsString(w, A, i + 1) /\ IsAppended(w, u, i, c)
  <2>1. u \in Seq(A) /\ Len(u) = i
    BY <1>3 DEF IsString
  <2>2. /\ w \in Seq(A) /\ Len(w) = Len(u) + 1
        /\ \A k \in 1..Len(u) : w[k] = u[k]
        /\ w[Len(u) + 1] = c
    BY <1>2, <2>1, AppendProperties
  <2> HIDE DEF w
  <2> QED BY <2>1, <2>2 DEF IsString, IsAppended
<1> HIDE DEF w
<1>6. ASSUME NEW k \in 1..i + 1
      PROVE  v[k] = w[k]
  <2>1. CASE k = i + 1
    BY <1>4, <1>5, <2>1 DEF IsAppended, c
  <2>2. CASE k # i + 1
    <3>1. k \in 1..i
      BY <2>2
    <3> QED BY <1>3, <1>4, <1>5, <3>1 DEF IsAppended
  <2> QED BY <2>1, <2>2
<1>7. v = w
  <2>1. IsCut(v, w, 1, i + 1)
    <3>1. \A k \in 1..i + 1 : 1 + k - 1 = k
      OBVIOUS
    <3> QED BY <1>6, <3>1 DEF IsCut
  <2>2. i + 1 \in Nat
    OBVIOUS
  <2> QED BY <1>4, <1>5, <2>1, <2>2, StringsEqual
<1> QED BY <1>2, <1>3, <1>4, <1>7 DEF u, v, c, w, IsString

\* All of a string, and nothing of it.
LEMMA BeginAll ==
  ASSUME NEW A, NEW n \in Nat, NEW a, IsString(a, A, n)
  PROVE  Beginning(a, n) = a /\ Beginning(a, 0) = <<>>
<1>1. n \in 0..n /\ 0 \in 0..n
  OBVIOUS
<1>2. IsString(Beginning(a, n), A, n) /\ \A k \in 1..n : Beginning(a, n)[k] = a[k]
  BY <1>1, BeginIs
<1>3. IsCut(Beginning(a, n), a, 1, n)
  <2>1. \A k \in 1..n : 1 + k - 1 = k
    OBVIOUS
  <2> QED BY <1>2, <2>1 DEF IsCut
<1>4. Beginning(a, n) = a
  BY <1>2, <1>3, StringsEqual
<1>5. IsString(Beginning(a, 0), A, 0)
  BY <1>1, BeginIs
<1>6. Beginning(a, 0) = <<>>
  BY <1>5, EmptySeq DEF IsString
<1> QED BY <1>4, <1>6

\* One character more is one error.
LEMMA AppendStep ==
  ASSUME NEW A, NEW u \in Seq(A), NEW c \in A
  PROVE  Step(u, Append(u, c)) /\ Step(Append(u, c), u)
<1> DEFINE n == Len(u)
           w == Append(u, c)
<1>1. n \in Nat /\ Len(w) = n + 1 /\ \A k \in 1..n : w[k] = u[k]
  BY AppendProperties, LenProperties
<1> HIDE DEF n, w
<1>2. LeftOut(w, n + 1, u, n)
  <2>1. n + 1 \in 1..n + 1 /\ (n + 1) - 1 = n
    BY <1>1
  <2>2. \A k \in n + 1..n : FALSE
    BY <1>1
  <2>3. (\A k \in 1..(n + 1) - 1 : u[k] = w[k]) /\ \A k \in n + 1..n : u[k] = w[k + 1]
    BY <1>1, <2>1, <2>2
  <2> QED BY <2>1, <2>3 DEF LeftOut
<1>3. Edited(w, n + 1, u, n) /\ Edited(u, n, w, n + 1)
  BY <1>2 DEF Edited
<1> QED BY <1>1, <1>3 DEF Step, n, w

\* Another last character costs one error, the same one none.
LEMMA LastStep ==
  ASSUME NEW A, NEW v \in Seq(A), NEW c \in A, NEW d \in A
  PROVE  Way(A, Append(v, c), Append(v, d), Cost(c, d))
<1> DEFINE n == Len(v)
           w == Append(v, c)
           x == Append(v, d)
<1>1. /\ n \in Nat /\ w \in Seq(A) /\ Len(w) = n + 1 /\ \A k \in 1..n : w[k] = v[k]
      /\ x \in Seq(A) /\ Len(x) = n + 1 /\ \A k \in 1..n : x[k] = v[k]
  BY AppendProperties, LenProperties
<1>2. CASE c = d
  <2>1. w = x /\ Cost(c, d) = 0
    BY <1>2 DEF Cost
  <2> QED BY <1>1, <2>1, WayStart
<1>3. CASE c # d
  <2> HIDE DEF n, w, x
  <2>1. n + 1 \in 1..n + 1 /\ \A k \in 1..n + 1 : k # n + 1 => x[k] = w[k]
    <3>1. \A k \in 1..n + 1 : k # n + 1 => k \in 1..n
      BY <1>1
    <3> QED BY <1>1, <3>1
  <2>2. Rewritten(w, n + 1, x, n + 1)
    BY <2>1 DEF Rewritten
  <2>3. Step(w, x)
    BY <1>1, <2>2 DEF Step, Edited
  <2>4. Way(A, w, x, 1)
    BY <1>1, <2>3, StepWay
  <2>5. Cost(c, d) = 1
    BY <1>3 DEF Cost
  <2> QED BY <2>4, <2>5 DEF w, x
<1> QED BY <1>2, <1>3

\* The entry of a table is a number of errors that lead from one beginning to
\* the other.
Reached(A, a, b, T, i, j) == Way(A, Beginning(a, i), Beginning(b, j), T[i][j + 1])

\* Three ways to two beginnings that are a character longer.
LEMMA WaysOn ==
  ASSUME NEW A, NEW u \in Seq(A), NEW c \in A, NEW v \in Seq(A), NEW d \in A,
         NEW x \in Nat, NEW y \in Nat, NEW z \in Nat,
         Way(A, Append(u, c), v, x),
         Way(A, u, Append(v, d), y),
         Way(A, u, v, z)
  PROVE  /\ Way(A, Append(u, c), Append(v, d), x + 1)
         /\ Way(A, Append(u, c), Append(v, d), y + 1)
         /\ Way(A, Append(u, c), Append(v, d), z + Cost(c, d))
<1> DEFINE w == Append(u, c)
           t == Append(v, d)
           s == Append(v, c)
           e == Cost(c, d)
<1>1. w \in Seq(A) /\ t \in Seq(A) /\ s \in Seq(A) /\ e \in Nat
  BY AppendProperties DEF Cost
<1>2. Step(v, t) /\ Step(w, u)
  BY AppendStep
<1>3. Way(A, s, t, e)
  BY LastStep
<1>4. Way(A, w, s, z)
  BY WayBehind
<1> HIDE DEF w, t, s, e
<1>5. Way(A, v, t, 1) /\ Way(A, w, u, 1)
  BY <1>1, <1>2, StepWay
<1>6. Way(A, w, t, x + 1)
  <2>1. Way(A, w, v, x)
    BY DEF w
  <2> QED BY <1>5, <2>1, WayOn
<1>7. Way(A, w, t, y + 1)
  <2>1. Way(A, u, t, y)
    BY DEF t
  <2>2. Way(A, w, t, 1 + y)
    BY <1>5, <2>1, WayOn
  <2>3. 1 + y = y + 1
    OBVIOUS
  <2> QED BY <2>2, <2>3
<1>8. Way(A, w, t, z + e)
  BY <1>1, <1>3, <1>4, WayOn
<1> QED BY <1>6, <1>7, <1>8 DEF w, t, e

\* Every entry of the table is errors enough between its two beginnings.
LEMMA TableReached ==
  ASSUME NEW A, NEW n \in Nat, NEW a, IsString(a, A, n),
         NEW b, Len(b) \in Nat, IsString(b, A, Len(b)), NEW T, IsTable(T, a, n, b)
  PROVE  \A i \in 0..n, j \in 0..Len(b) : Reached(A, a, b, T, i, j)
<1> DEFINE m == Len(b)
           Rows == {i \in Nat : i <= n => \A j \in 0..m : Reached(A, a, b, T, i, j)}
<1>0. Beginning(a, 0) = <<>> /\ Beginning(b, 0) = <<>> /\ Way(A, <<>>, <<>>, 0)
  <2>1. <<>> \in Seq(A)
    OBVIOUS
  <2>2. Beginning(a, 0) = <<>>
    BY ONLY n \in Nat, IsString(a, A, n), BeginAll
  <2>3. Beginning(b, 0) = <<>>
    BY ONLY m \in Nat, IsString(b, A, m), BeginAll
  <2>4. Way(A, <<>>, <<>>, 0)
    BY ONLY <2>1, WayStart
  <2> QED BY ONLY <2>2, <2>3, <2>4
<1>1. 0 \in Rows
  <2> DEFINE Good == {j \in Nat : j <= m => Reached(A, a, b, T, 0, j)}
  <2>1. \A j \in 0..m : T[0][j + 1] = j
    <3>1. T[0] = [j \in 1..m + 1 |-> j - 1]
      BY DEF IsTable, FirstRow
    <3> QED BY <3>1
  <2>2. 0 \in Good
    <3>1. T[0][0 + 1] = 0
      BY <2>1
    <3> QED BY <1>0, <3>1 DEF Reached
  <2>3. ASSUME NEW j \in Nat, j \in Good
        PROVE  j + 1 \in Good
    <3>1. SUFFICES ASSUME j + 1 <= m
                   PROVE  Reached(A, a, b, T, 0, j + 1)
      OBVIOUS
    <3>2. j \in 0..m - 1 /\ j \in 0..m /\ j + 1 \in 0..m
      BY <3>1
    <3>3. Way(A, Beginning(a, 0), Beginning(b, j), j)
      <4>1. Reached(A, a, b, T, 0, j) /\ T[0][j + 1] = j
        BY <2>1, <2>3, <3>2
      <4> QED BY <4>1 DEF Reached
    <3>4. /\ Beginning(b, j) \in Seq(A) /\ Beginning(b, j + 1) \in Seq(A)
          /\ Step(Beginning(b, j), Beginning(b, j + 1))
      <4> HIDE DEF m
      <4>1. /\ Beginning(b, j) \in Seq(A) /\ Beginning(b, j + 1) \in Seq(A)
            /\ b[j + 1] \in A
            /\ Beginning(b, j + 1) = Append(Beginning(b, j), b[j + 1])
        BY <3>2, BeginGrows DEF m
      <4> QED BY <4>1, AppendStep
    <3>5. Way(A, Beginning(b, j), Beginning(b, j + 1), 1)
      BY <3>4, StepWay
    <3>6. Way(A, Beginning(a, 0), Beginning(b, j + 1), j + 1)
      BY <3>3, <3>5, WayOn
    <3>7. T[0][(j + 1) + 1] = j + 1
      BY <2>1, <3>2
    <3> QED BY <3>6, <3>7 DEF Reached
  <2>4. Nat \subseteq Good
    <3> HIDE DEF Good
    <3> QED BY <2>2, <2>3, NumberInduction
  <2> QED BY <2>4
<1>2. ASSUME NEW i \in Nat, i \in Rows
      PROVE  i + 1 \in Rows
  <2>1. SUFFICES ASSUME i + 1 <= n
                 PROVE  \A j \in 0..m : Reached(A, a, b, T, i + 1, j)
    OBVIOUS
  <2> DEFINE p == i + 1
             u == Beginning(a, i)
             c == a[i + 1]
             r == T[i]
             s == T[p]
  <2>2. i \in 0..n - 1 /\ p \in 1..n /\ p \in 0..n /\ p - 1 = i /\ i \in 0..n /\ p \in Nat
    BY <2>1
  <2>3. u \in Seq(A) /\ c \in A /\ Beginning(a, p) = Append(u, c)
    <3> HIDE DEF u, c
    <3>1. /\ Beginning(a, i) \in Seq(A) /\ a[i + 1] \in A
          /\ Beginning(a, i + 1) = Append(Beginning(a, i), a[i + 1])
      <4>1. i \in 0..n - 1
        BY <2>2
      <4> QED BY ONLY n \in Nat, IsString(a, A, n), <4>1, BeginGrows
    <3> QED BY <3>1 DEF u, c
  <2>4. \A j \in 0..m : Reached(A, a, b, T, i, j)
    BY <1>2, <2>1
  <2>5. r \in Row(m) /\ r[1] = i
    BY <2>2, TableSmooth
  <2>6. Follows(s, r, p, a[p], b, m)
    BY <2>2 DEF IsTable
  <2> HIDE DEF p
  <2>7. s \in Row(m) /\ s[1] = p
    <3> HIDE DEF s
    <3>1. T[p] \in Row(m) /\ T[p][1] = p
      <4>1. p \in 0..n
        BY <2>2
      <4> HIDE DEF Rows, u, c, r
      <4> QED BY ONLY n \in Nat, m \in Nat, IsTable(T, a, n, b), <4>1, TableSmooth
    <3> QED BY <3>1 DEF s
  <2> DEFINE Good == {j \in Nat : j <= m => Reached(A, a, b, T, p, j)}
  <2>8. 0 \in Good
    <3>1. 0 \in 0..m /\ 0 + 1 = 1
      OBVIOUS
    <3>2. Way(A, u, <<>>, i)
      <4>1. Reached(A, a, b, T, i, 0)
        BY <2>4, <3>1
      <4> QED BY <1>0, <2>5, <3>1, <4>1 DEF Reached
    <3>3. Way(A, Append(u, c), u, 1)
      <4> HIDE DEF u, c
      <4>1. Append(u, c) \in Seq(A)
        BY <2>3, AppendProperties
      <4> QED BY <2>3, <4>1, AppendStep, StepWay
    <3>4. Way(A, Append(u, c), <<>>, 1 + i)
      BY <3>2, <3>3, WayOn
    <3>5. 1 + i = p
      BY DEF p
    <3>6. Reached(A, a, b, T, p, 0)
      <4> HIDE DEF u, c
      <4> QED BY <1>0, <2>3, <2>7, <3>1, <3>4, <3>5 DEF Reached
    <3> QED BY <3>6
  <2>9. ASSUME NEW j \in Nat, j \in Good
        PROVE  j + 1 \in Good
    <3>1. SUFFICES ASSUME j + 1 <= m
                   PROVE  Reached(A, a, b, T, p, j + 1)
      OBVIOUS
    <3> DEFINE q == j + 1
               v == Beginning(b, j)
               d == b[j + 1]
    <3>2. j \in 0..m - 1 /\ j \in 0..m /\ q \in 0..m /\ q \in 1..m
      BY <3>1
    <3>3. v \in Seq(A) /\ d \in A /\ Beginning(b, q) = Append(v, d)
      <4> HIDE DEF m
      <4> QED BY <3>2, BeginGrows DEF m
    <3>4. Way(A, Beginning(a, p), v, s[q])
      <4>1. Reached(A, a, b, T, p, j)
        BY <2>9, <3>2
      <4> QED BY <4>1 DEF Reached
    <3>5. Way(A, u, v, r[q])
      <4>1. Reached(A, a, b, T, i, j)
        BY <2>4, <3>2
      <4> QED BY <4>1 DEF Reached
    <3> HIDE DEF r, s, v, d
    <3> HIDE DEF q
    <3>6. Way(A, u, Beginning(b, q), r[q + 1])
      <4>1. Reached(A, a, b, T, i, q)
        BY <2>4, <3>2
      <4> QED BY <4>1 DEF Reached, r
    <3>7. s[q + 1] = Cell(s, r, a[p], b[q], q)
      BY <2>6, <3>2 DEF Follows
    <3>8. a[p] = c /\ b[q] = d
      BY DEF p, q, d
    <3> HIDE DEF u, c
    <3>9. /\ s[q] \in Nat /\ r[q] \in Nat /\ r[q + 1] \in Nat /\ s[q + 1] \in Nat
          /\ \/ s[q + 1] = s[q] + 1
             \/ s[q + 1] = r[q + 1] + 1
             \/ s[q + 1] = r[q] + Cost(c, d)
      BY <2>5, <2>7, <3>2, <3>7, <3>8, CellBound
    <3>10. /\ Way(A, Append(u, c), v, s[q])
           /\ Way(A, u, Append(v, d), r[q + 1])
           /\ Way(A, u, v, r[q])
      BY <2>3, <3>3, <3>4, <3>5, <3>6
    <3>11. /\ Way(A, Append(u, c), Append(v, d), s[q] + 1)
           /\ Way(A, Append(u, c), Append(v, d), r[q + 1] + 1)
           /\ Way(A, Append(u, c), Append(v, d), r[q] + Cost(c, d))
      BY <2>3, <3>3, <3>9, <3>10, WaysOn
    <3>12. Way(A, Append(u, c), Append(v, d), s[q + 1])
      BY <3>9, <3>11
    <3>13. Reached(A, a, b, T, p, q)
      BY <2>3, <3>3, <3>12 DEF Reached, s
    <3> QED BY <3>13 DEF q
  <2>10. Nat \subseteq Good
    <3> HIDE DEF Good
    <3> QED BY <2>8, <2>9, NumberInduction
  <2>11. \A j \in 0..m : Reached(A, a, b, T, p, j)
    BY <2>10
  <2> QED BY <2>11 DEF p
<1>3. Nat \subseteq Rows
  <2> HIDE DEF Rows
  <2> QED BY <1>1, <1>2, NumberInduction
<1> QED BY <1>3

\* The code's distance is the least number of typing errors.
THEOREM LevenshteinCountsErrors ==
  ASSUME NEW S, NEW a \in Seq(S), NEW b \in Seq(S), NEW k \in Nat
  PROVE  levenshtein(a, b) <= k <=> ErrorsApart(a, b, k)
<1> DEFINE A == Letters(a, b)
           n == Len(a)
           m == Len(b)
           d == levenshtein(a, b)
<1>1. a \in Seq(A) /\ b \in Seq(A)
  BY LettersAre
<1>2. n \in Nat /\ m \in Nat
  BY LenProperties
<1> HIDE DEF A
<1>3. PICK T : IsTable(T, a, n, b) /\ d = T[n][m + 1]
  BY <1>2, LevenshteinIs
<1>4. IsString(a, A, n) /\ IsString(b, A, m)
  BY <1>1 DEF IsString
<1>5. Reached(A, a, b, T, n, m)
  <2>1. n \in 0..n /\ m \in 0..m
    BY <1>2
  <2>2. \A i \in 0..n, j \in 0..m : Reached(A, a, b, T, i, j)
    BY <1>2, <1>3, <1>4, TableReached
  <2> QED BY <2>1, <2>2
<1>6. Way(A, a, b, d)
  <2>1. Beginning(a, n) = a /\ Beginning(b, m) = b
    <3> HIDE DEF n, m
    <3> QED BY <1>2, <1>4, BeginAll
  <2> HIDE DEF d
  <2> QED BY <1>3, <1>5, <2>1 DEF Reached
<1>7. d \in Nat
  <2>1. Step(a, a)
    BY DEF Step
  <2> QED BY <2>1, StepClose
<1>8. ErrorsApart(a, b, k) <=> Way(A, a, b, k)
  BY ErrorsAreWay DEF A
<1>9. Way(A, a, b, k) => d <= k
  BY WayBounds
<1>10. d <= k => Way(A, a, b, k)
  <2> HIDE DEF d
  <2> QED BY <1>6, <1>7, WayWait
<1> QED BY <1>8, <1>9, <1>10

-----------------------------------------------------------------------------
(* The same tokens in another order.                                        *)

\* The places of a token in a list.
At(s, n, token) == {i \in 1..n : s[i] = token}

\* A token is in finitely many places.
LEMMA AtFinite ==
  ASSUME NEW s, NEW n \in Nat, NEW token
  PROVE  IsFiniteSet(At(s, n, token)) /\ At(s, n, token) \subseteq 1..n
<1>1. IsFiniteSet(1..n) /\ At(s, n, token) \subseteq 1..n
  BY FS_Interval DEF At
<1> QED BY <1>1, FS_Subset

\* v is w rearranged by f.
Arranges(f, v, w, n) ==
  f \in Bijection(1..n, 1..n) /\ \A i \in 1..n : v[i] = w[f[i]]

\* A list that is rearranged has as many of each token.
LEMMA ArrangedCounts ==
  ASSUME NEW n \in Nat, NEW v, NEW w, NEW f, Arranges(f, v, w, n), NEW token
  PROVE  Cardinality(At(v, n, token)) = Cardinality(At(w, n, token))
<1> DEFINE S == At(v, n, token)
           T == At(w, n, token)
           g == [i \in S |-> f[i]]
<1>1. /\ f \in [1..n -> 1..n]
      /\ \A i, j \in 1..n : f[i] = f[j] => i = j
      /\ \A j \in 1..n : \E i \in 1..n : f[i] = j
  <2> DEFINE D == 1..n
  <2>1. f \in Bijection(D, D)
    BY DEF Arranges
  <2> HIDE DEF D
  <2>2. /\ f \in [D -> D]
        /\ \A i, j \in D : f[i] = f[j] => i = j
        /\ \A j \in D : \E i \in D : f[i] = j
    BY <2>1, Fun_BijectionProperties
  <2> QED BY <2>2 DEF D
<1>2. \A i \in 1..n : v[i] = w[f[i]]
  BY DEF Arranges
<1>3. g \in [S -> T]
  BY <1>1, <1>2 DEF At
<1>4. \A i, j \in S : g[i] = g[j] => i = j
  BY <1>1 DEF At
<1>5. \A j \in T : \E i \in S : g[i] = j
  <2>1. SUFFICES ASSUME NEW j \in T PROVE \E i \in S : g[i] = j
    OBVIOUS
  <2>2. j \in 1..n /\ w[j] = token
    BY DEF At
  <2>3. PICK i \in 1..n : f[i] = j
    BY <1>1, <2>2
  <2>4. i \in S
    BY <1>2, <2>2, <2>3 DEF At
  <2> QED BY <2>3, <2>4
<1> HIDE DEF S, T, g
<1>6. g \in Bijection(S, T)
  BY <1>3, <1>4, <1>5, Fun_IsBij
<1>7. ExistsBijection(S, T)
  BY <1>6, Fun_ExistsBij
<1>8. IsFiniteSet(S)
  BY AtFinite DEF S
<1> QED BY <1>7, <1>8, FS_Bijection DEF S, T

\* v has each of its tokens as often as w has it; f takes v's tokens from w, none
\* twice.
Counts(v, w, n) ==
  \A k \in 1..n : Cardinality(At(v, n, v[k])) = Cardinality(At(w, n, v[k]))
Takes(f, v, w, n) ==
  /\ f \in [1..n -> 1..n]
  /\ \A i, j \in 1..n : f[i] = f[j] => i = j
  /\ \A i \in 1..n : v[i] = w[f[i]]

\* Of two lists with as many of each token, one is the other rearranged.
LEMMA CountsArranged ==
  ASSUME NEW n \in Nat, NEW v, NEW w, Counts(v, w, n)
  PROVE  \E f : Takes(f, v, w, n)
<1> DEFINE G(token) == CHOOSE g : g \in Bijection(At(v, n, token), At(w, n, token))
           f == [i \in 1..n |-> G(v[i])[i]]
<1>1. ASSUME NEW k \in 1..n
      PROVE  G(v[k]) \in Bijection(At(v, n, v[k]), At(w, n, v[k]))
  <2> DEFINE S == At(v, n, v[k])
             T == At(w, n, v[k])
  <2>1. IsFiniteSet(S) /\ IsFiniteSet(T) /\ Cardinality(S) = Cardinality(T)
    BY AtFinite DEF Counts
  <2> HIDE DEF S, T
  <2>2. ExistsBijection(S, T)
    BY <2>1, FS_SameCardinalityBij
  <2>3. \E g : g \in Bijection(S, T)
    BY <2>2, Fun_ExistsBij
  <2> QED BY <2>3 DEF S, T
<1>2. ASSUME NEW k \in 1..n
      PROVE  /\ G(v[k]) \in [At(v, n, v[k]) -> At(w, n, v[k])]
             /\ \A i, j \in At(v, n, v[k]) : G(v[k])[i] = G(v[k])[j] => i = j
  <2> HIDE DEF G
  <2> QED BY <1>1, Fun_BijectionProperties
<1> HIDE DEF G
<1>3. ASSUME NEW i \in 1..n
      PROVE  f[i] \in 1..n /\ v[i] = w[f[i]]
  <2>1. i \in At(v, n, v[i])
    BY DEF At
  <2>2. G(v[i])[i] \in At(w, n, v[i])
    BY <1>2, <2>1
  <2> QED BY <2>2 DEF At
<1>4. ASSUME NEW i \in 1..n, NEW j \in 1..n, f[i] = f[j]
      PROVE  i = j
  <2>1. v[i] = v[j]
    BY <1>3, <1>4
  <2>2. i \in At(v, n, v[i]) /\ j \in At(v, n, v[i])
    BY <2>1 DEF At
  <2>3. G(v[i])[i] = G(v[i])[j]
    BY <1>4, <2>1
  <2> QED BY <1>2, <2>2, <2>3
<1>5. f \in [1..n -> 1..n]
  BY <1>3
<1> HIDE DEF f
<1>6. Takes(f, v, w, n)
  BY <1>3, <1>4, <1>5 DEF Takes
<1> QED BY <1>6

\* The same tokens in another order are the words rearranged.
SameTokens(v, w) ==
  /\ Len(v) = Len(w)
  /\ Len(v) >= 2
  /\ \A token \in ToSet(v) \cup ToSet(w) :
       Cardinality({i \in DOMAIN v : v[i] = token}) =
         Cardinality({i \in DOMAIN w : w[i] = token})

\* Equal counts are a rearrangement, and the other way round.
LEMMA SameTokensAreRearranged ==
  ASSUME NEW S, NEW v \in Seq(S), NEW w \in Seq(S)
  PROVE  SameTokens(v, w) <=> Rearranged(v, w)
<1> DEFINE n == Len(v)
<1>1. /\ n \in Nat /\ DOMAIN v = 1..n /\ v = [i \in 1..n |-> v[i]]
      /\ DOMAIN w = 1..Len(w)
  BY LenProperties
<1>2. ASSUME SameTokens(v, w)
      PROVE  Rearranged(v, w)
  <2>1. Len(w) = n /\ n > 1
    BY <1>1, <1>2 DEF SameTokens
  <2>2. ASSUME NEW k \in 1..n
        PROVE  Cardinality(At(v, n, v[k])) = Cardinality(At(w, n, v[k]))
    <3>1. v[k] \in ToSet(v)
      BY DEF ToSet
    <3> QED BY <1>1, <1>2, <2>1, <3>1 DEF SameTokens, At
  <2> HIDE DEF n
  <2>3. Counts(v, w, n)
    BY <2>2 DEF Counts
  <2>6. PICK f : Takes(f, v, w, n)
    BY <1>1, <2>3, CountsArranged
  <2>4. f \in [1..n -> 1..n] /\ IsInjective(f)
    BY <2>6 DEF IsInjective, Takes
  <2>5. v = [i \in 1..n |-> w[f[i]]]
    BY <1>1, <2>6 DEF Takes
  <2> QED BY <2>1, <2>4, <2>5 DEF Rearranged, n
<1>3. ASSUME Rearranged(v, w)
      PROVE  SameTokens(v, w)
  <2>1. Len(w) = n /\ n >= 2
    BY <1>1, <1>3 DEF Rearranged
  <2>2. PICK f \in [1..n -> 1..n] : IsInjective(f) /\ v = [i \in 1..n |-> w[f[i]]]
    BY <1>3 DEF Rearranged
  <2> HIDE DEF n
  <2>3. f \in Bijection(1..n, 1..n)
    <3> DEFINE D == 1..n
    <3>0. IsFiniteSet(D)
      <4>1. n \in Nat
        BY <1>1
      <4> QED BY ONLY <4>1, FS_Interval
    <3>4. f \in [D -> D] /\ IsInjective(f)
      BY <2>2
    <3> HIDE DEF D
    <3>1. IsFiniteSet(D) /\ f \in [D -> D] /\ \A a, b \in D : f[a] = f[b] => a = b
      BY <3>0, <3>4 DEF IsInjective
    <3>2. f \in Injection(D, D)
      BY <3>1, Fun_IsInj
    <3>3. f \in Surjection(D, D)
      BY <3>1, <3>2, FS_Injection
    <3> QED BY <3>2, <3>3, Fun_IsBij DEF D
  <2>4. Arranges(f, v, w, n)
    <3>1. \A i \in 1..n : v[i] = w[f[i]]
      BY <2>2
    <3> QED BY <2>3, <3>1 DEF Arranges
  <2>5. ASSUME NEW token
        PROVE  Cardinality({i \in DOMAIN v : v[i] = token}) =
                 Cardinality({i \in DOMAIN w : w[i] = token})
    <3>1. Cardinality(At(v, n, token)) = Cardinality(At(w, n, token))
      BY <1>1, <2>4, ArrangedCounts
    <3> QED BY <1>1, <2>1, <3>1 DEF At
  <2> QED BY <2>1, <2>5 DEF SameTokens, n
<1> QED BY <1>2, <1>3

\* The code's comparison of tokens finds what is rearranged.
LEMMA TokensRearranged ==
  ASSUME NEW S, NEW a, NEW b, Fields(a) \in Seq(S), Fields(b) \in Seq(S)
  PROVE  sameNameTokens(a, b) <=> Rearranged(Fields(a), Fields(b))
<1>1. sameNameTokens(a, b) <=> SameTokens(Fields(a), Fields(b))
  BY DEF sameNameTokens, SameTokens
<1> DEFINE v == Fields(a)
           w == Fields(b)
<1>2. v \in Seq(S) /\ w \in Seq(S)
  OBVIOUS
<1> HIDE DEF v, w
<1>3. SameTokens(v, w) <=> Rearranged(v, w)
  BY <1>2, SameTokensAreRearranged
<1> QED BY <1>1, <1>3 DEF v, w

-----------------------------------------------------------------------------
(* The tokens of a string, the words put together, and the normalized name. *)

\* A recursion whose steps are defined as far as they go.
LEMMA RecurrenceTo ==
  ASSUME NEW D, NEW a \in D, NEW n \in Nat, NEW F \in [(1..n) \X D -> D]
  PROVE  \E g \in [0..n -> D] : Recurrence(g, n, a, F)
<1> DEFINE G == [p \in Nat \X D |-> IF p[1] \in 1..n THEN F[p] ELSE p[2]]
<1>1. G \in [Nat \X D -> D]
  <2>1. ASSUME NEW p \in Nat \X D
        PROVE  (IF p[1] \in 1..n THEN F[p] ELSE p[2]) \in D
    <3>1. p[1] \in 1..n => p \in (1..n) \X D
      OBVIOUS
    <3> QED BY <3>1
  <2> QED BY <2>1
<1>2. \A i \in 1..n, x \in D : G[<<i, x>>] = F[<<i, x>>]
  OBVIOUS
<1> HIDE DEF G
<1>3. PICK g \in [0..n -> D] : Recurrence(g, n, a, G)
  BY <1>1, RecurrenceExists
<1>4. \A i \in 1..n : g[i] = F[<<i, g[i - 1]>>]
  <2>1. ASSUME NEW i \in 1..n
        PROVE  g[i] = F[<<i, g[i - 1]>>]
    <3>1. g[i] = G[<<i, g[i - 1]>>] /\ g[i - 1] \in D
      BY <1>3 DEF Recurrence
    <3> QED BY <1>2, <3>1
  <2> QED BY <2>1
<1> QED BY <1>3, <1>4 DEF Recurrence

\* The front and the last element of what is appended to.
LEMMA FrontLast ==
  ASSUME NEW S, NEW s \in Seq(S), NEW e \in S
  PROVE  /\ Append(s, e) \in Seq(S) /\ Append(s, e) # <<>>
         /\ Front(Append(s, e)) = s /\ Last(Append(s, e)) = e
<1> DEFINE w == Append(s, e)
           n == Len(s)
           u == SubSeq(w, 1, n)
<1>1. /\ w \in Seq(S) /\ w # <<>> /\ Len(w) = n + 1 /\ n \in Nat
      /\ \A i \in 1..n : w[i] = s[i]
      /\ w[n + 1] = e
  BY AppendProperties, LenProperties
<1> HIDE DEF w
<1>2. Last(w) = e
  BY <1>1 DEF Last
<1>3. Front(w) = u
  <2>1. Len(w) - 1 = n
    BY <1>1
  <2> HIDE DEF n
  <2> QED BY <2>1 DEF Front
<1>4. IsString(w, S, n + 1) /\ n + 1 \in Nat
  BY <1>1 DEF IsString
<1>5. IsString(u, S, n) /\ IsCut(u, w, 1, n)
  <2> DEFINE k == n + 1
  <2>1. 1 \in 1..k + 1 /\ n \in 1 - 1..k /\ n - 1 + 1 = n
    BY <1>1
  <2> HIDE DEF k, n, u
  <2>2. IsString(Cut(w, 1, n), S, n - 1 + 1) /\ IsCut(Cut(w, 1, n), w, 1, n - 1 + 1)
    BY <1>4, <2>1, StringCut DEF k
  <2> QED BY <2>1, <2>2 DEF Cut, u
<1>6. IsString(s, S, n)
  BY DEF IsString
<1>7. IsCut(u, s, 1, n)
  <2>1. \A i \in 1..n : 1 + i - 1 = i
    BY <1>1
  <2> HIDE DEF n, u
  <2> QED BY <1>1, <1>5, <2>1 DEF IsCut
<1>8. u = s
  <2> HIDE DEF n, u
  <2> QED BY <1>1, <1>5, <1>6, <1>7, StringsEqual
<1> QED BY <1>1, <1>2, <1>3, <1>8 DEF w

\* A string that is not empty has a front and a last element.
LEMMA FrontAndLast ==
  ASSUME NEW S, NEW w \in Seq(S), w # <<>>
  PROVE  Front(w) \in Seq(S) /\ Last(w) \in S /\ w = Append(Front(w), Last(w))
<1>1. PICK s \in Seq(S), e \in S : w = Append(s, e)
  BY SequenceEmptyOrAppend
<1> QED BY <1>1, FrontLast

(* The tokens of a string.                                                  *)

Lists == Seq(Seq(Nat)) \ {<<>>}
FieldStep(x, c) ==
  IF c = Blank THEN Append(x, <<>>) ELSE Append(Front(x), Append(Last(x), c))
FieldSteps(f, s, n) ==
  /\ f \in [0..n -> Lists]
  /\ f[0] = << <<>> >>
  /\ \A i \in 1..n : f[i] = FieldStep(f[i - 1], s[i])

\* A list stays a list with one word or more.
LEMMA FieldStepTyped ==
  ASSUME NEW x \in Lists, NEW c \in Nat
  PROVE  FieldStep(x, c) \in Lists
<1> DEFINE S == Seq(Nat)
<1>1. x \in Seq(S) /\ x # <<>> /\ <<>> \in S
  BY DEF Lists
<1> HIDE DEF S
<1>2. Append(x, <<>>) \in Seq(S) /\ Append(x, <<>>) # <<>>
  BY <1>1, AppendProperties
<1>3. Front(x) \in Seq(S) /\ Last(x) \in S
  BY <1>1, FrontAndLast
<1>4. Append(Last(x), c) \in S
  BY <1>3, AppendProperties DEF S
<1>5. Append(Front(x), Append(Last(x), c)) \in Seq(S) /\ Append(Front(x), Append(Last(x), c)) # <<>>
  BY <1>3, <1>4, AppendProperties
<1> QED BY <1>2, <1>5 DEF FieldStep, Lists, S

\* The tokens are computed character by character.
LEMMA FieldsAre ==
  ASSUME NEW s \in Seq(Nat)
  PROVE  \E f : FieldSteps(f, s, Len(s)) /\ Fields(s) = f[Len(s)]
<1> DEFINE n == Len(s)
           IsOut(f) == f = [i \in 0..n |-> IF i = 0 THEN << <<>> >>
                                           ELSE FieldStep(f[i - 1], s[i])]
           out == CHOOSE f : IsOut(f)
           F == [p \in (1..n) \X Lists |-> FieldStep(p[2], s[p[1]])]
           one == << <<>> >>
<1>1. n \in Nat /\ \A i \in 1..n : s[i] \in Nat
  BY LenProperties
<1>2. Fields(s) = out[n]
  BY DEF Fields, FieldStep
<1> HIDE DEF n
<1>3. F \in [(1..n) \X Lists -> Lists]
  BY <1>1, FieldStepTyped
<1>4. \A i \in 1..n, x \in Lists : F[<<i, x>>] = FieldStep(x, s[i])
  OBVIOUS
<1>5. one \in Lists
  <2>1. <<>> \in Seq(Nat)
    OBVIOUS
  <2> QED BY <2>1 DEF Lists
<1> HIDE DEF F
<1>6. PICK g \in [0..n -> Lists] : Recurrence(g, n, one, F)
  <2> HIDE DEF one
  <2> QED BY <1>1, <1>3, <1>5, RecurrenceTo
<1>7. \A i \in 1..n : g[i] = FieldStep(g[i - 1], s[i])
  <2>1. ASSUME NEW i \in 1..n
        PROVE  g[i] = FieldStep(g[i - 1], s[i])
    <3>1. g[i] = F[<<i, g[i - 1]>>] /\ g[i - 1] \in Lists
      BY <1>1, <1>6 DEF Recurrence
    <3> QED BY <1>4, <3>1
  <2> QED BY <2>1
<1>8. g[0] = one
  BY <1>6 DEF Recurrence
<1>9. IsOut(g)
  <2>1. \A i \in 0..n : i = 0 \/ i \in 1..n
    BY <1>1
  <2>2. \A i \in 0..n : g[i] = IF i = 0 THEN one ELSE FieldStep(g[i - 1], s[i])
    BY ONLY <1>7, <1>8, <2>1, Zenon
  <2> HIDE DEF one
  <2>3. g = [i \in 0..n |-> IF i = 0 THEN one ELSE FieldStep(g[i - 1], s[i])]
    BY <1>6, <2>2
  <2> QED BY <2>3 DEF one
<1>10. IsOut(out)
  <2> HIDE DEF IsOut
  <2> QED BY <1>9
<1> HIDE DEF out
<1>11. \A i \in 0..n : out[i] = IF i = 0 THEN one ELSE FieldStep(out[i - 1], s[i])
  <2> DEFINE G == [i \in 0..n |-> IF i = 0 THEN one ELSE FieldStep(out[i - 1], s[i])]
  <2>1. out = G
    BY <1>10
  <2>2. \A i \in 0..n : G[i] = IF i = 0 THEN one ELSE FieldStep(out[i - 1], s[i])
    <3> HIDE DEF one
    <3> QED OBVIOUS
  <2> HIDE DEF G, one
  <2> QED BY <2>1, <2>2
<1>12. FieldSteps(g, s, n)
  BY <1>6, <1>7, <1>8 DEF FieldSteps
<1> HIDE DEF IsOut, one
<1> DEFINE Good == {i \in Nat : i <= n => out[i] = g[i]}
<1>13. 0 \in Good
  <2>1. 0 \in 0..n
    BY <1>1
  <2> QED BY <1>8, <1>11, <2>1
<1>14. ASSUME NEW i \in Nat, i \in Good
       PROVE  i + 1 \in Good
  <2>1. SUFFICES ASSUME i + 1 <= n
                 PROVE  out[i + 1] = g[i + 1]
    OBVIOUS
  <2>2. i + 1 \in 1..n /\ i + 1 \in 0..n /\ i + 1 # 0 /\ (i + 1) - 1 = i /\ out[i] = g[i]
    BY <1>1, <1>14, <2>1
  <2>3. out[i + 1] = FieldStep(out[(i + 1) - 1], s[i + 1])
    BY <1>11, <2>2
  <2>4. g[i + 1] = FieldStep(g[(i + 1) - 1], s[i + 1])
    BY <1>7, <2>2
  <2> QED BY <2>2, <2>3, <2>4
<1>15. n \in Good
  <2> HIDE DEF Good
  <2>1. Nat \subseteq Good
    BY <1>13, <1>14, NumberInduction
  <2> QED BY <1>1, <2>1
<1>16. out[n] = g[n]
  BY <1>1, <1>15
<1> QED BY <1>2, <1>12, <1>16 DEF n

\* The tokens of nothing, and of a string with a character behind.
LEMMA FieldsOfNothing == Fields(<<>>) = << <<>> >>
<1>1. <<>> \in Seq(Nat) /\ Len(<<>>) = 0
  OBVIOUS
<1>2. PICK f : FieldSteps(f, <<>>, Len(<<>>)) /\ Fields(<<>>) = f[Len(<<>>)]
  BY <1>1, FieldsAre
<1> QED BY <1>1, <1>2 DEF FieldSteps

\* A character more takes one step more.
LEMMA FieldsGrow ==
  ASSUME NEW s \in Seq(Nat), NEW c \in Nat
  PROVE  Fields(s) \in Lists /\ Fields(Append(s, c)) = FieldStep(Fields(s), c)
<1> DEFINE n == Len(s)
           t == Append(s, c)
<1>1. /\ n \in Nat /\ t \in Seq(Nat) /\ Len(t) = n + 1
      /\ \A i \in 1..n : t[i] = s[i]
      /\ t[n + 1] = c
  BY AppendProperties, LenProperties
<1> HIDE DEF t
<1>2. PICK f : FieldSteps(f, s, n) /\ Fields(s) = f[n]
  BY FieldsAre
<1>3. PICK g : FieldSteps(g, t, n + 1) /\ Fields(t) = g[n + 1]
  <2>1. \E g : FieldSteps(g, t, Len(t)) /\ Fields(t) = g[Len(t)]
    BY <1>1, FieldsAre
  <2> QED BY <1>1, <2>1
<1> HIDE DEF n
<1>4. /\ f \in [0..n -> Lists] /\ f[0] = << <<>> >>
      /\ \A i \in 1..n : f[i] = FieldStep(f[i - 1], s[i])
  BY <1>2 DEF FieldSteps
<1>5. g[0] = << <<>> >> /\ \A i \in 1..n + 1 : g[i] = FieldStep(g[i - 1], t[i])
  BY <1>3 DEF FieldSteps
<1> DEFINE Good == {i \in Nat : i <= n => f[i] = g[i]}
<1>6. 0 \in Good
  BY <1>4, <1>5
<1>7. ASSUME NEW i \in Nat, i \in Good
      PROVE  i + 1 \in Good
  <2>1. SUFFICES ASSUME i + 1 <= n
                 PROVE  f[i + 1] = g[i + 1]
    OBVIOUS
  <2>2. i + 1 \in 1..n /\ i + 1 \in 1..n + 1 /\ (i + 1) - 1 = i /\ f[i] = g[i]
    BY <1>1, <1>7, <2>1
  <2>3. f[i + 1] = FieldStep(f[(i + 1) - 1], s[i + 1])
    BY <1>4, <2>2
  <2>4. g[i + 1] = FieldStep(g[(i + 1) - 1], t[i + 1])
    BY <1>5, <2>2
  <2> QED BY <1>1, <2>2, <2>3, <2>4
<1>8. f[n] = g[n]
  <2> HIDE DEF Good
  <2>1. Nat \subseteq Good
    BY <1>6, <1>7, NumberInduction
  <2>2. n \in Good
    BY <1>1, <2>1
  <2> QED BY <1>1, <2>2 DEF Good
<1>9. g[n + 1] = FieldStep(g[n], c)
  <2>1. n + 1 \in 1..n + 1 /\ (n + 1) - 1 = n
    BY <1>1
  <2>2. g[n + 1] = FieldStep(g[(n + 1) - 1], t[n + 1])
    BY <1>5, <2>1
  <2> QED BY <1>1, <2>1, <2>2
<1>10. f[n] \in Lists
  <2>1. n \in 0..n
    BY <1>1
  <2> QED BY <1>4, <2>1
<1> QED BY <1>2, <1>3, <1>8, <1>9, <1>10 DEF t

\* The words of a list behind each other, a blank between two.
JointStep(i, x, u) == IF i = 1 THEN u ELSE x \o <<Blank>> \o u
JointSteps(f, w, n) ==
  /\ f \in [0..n -> Seq(Nat)]
  /\ f[0] = <<>>
  /\ \A i \in 1..n : f[i] = JointStep(i, f[i - 1], w[i])

\* A word more keeps a string a string.
LEMMA JointStepTyped ==
  ASSUME NEW i, NEW x \in Seq(Nat), NEW u \in Seq(Nat)
  PROVE  JointStep(i, x, u) \in Seq(Nat)
<1>1. <<Blank>> \in Seq(Nat)
  BY DEF Blank
<1>2. x \o <<Blank>> \in Seq(Nat)
  BY <1>1, ConcatProperties, Zenon
<1>3. (x \o <<Blank>>) \o u \in Seq(Nat)
  BY <1>2, ConcatProperties, Zenon
<1> QED BY <1>3 DEF JointStep

\* The words are put together one by one.
LEMMA JointIs ==
  ASSUME NEW w \in Seq(Seq(Nat))
  PROVE  \E f : JointSteps(f, w, Len(w)) /\ Joint(w) = f[Len(w)]
<1> DEFINE n == Len(w)
           D == Seq(Nat)
           IsOut(f) == f = [i \in 0..n |-> IF i = 0 THEN <<>>
                                           ELSE IF i = 1 THEN w[1]
                                           ELSE f[i - 1] \o <<Blank>> \o w[i]]
           out == CHOOSE f : IsOut(f)
           F == [p \in (1..n) \X D |-> JointStep(p[1], p[2], w[p[1]])]
<1>1. n \in Nat /\ \A i \in 1..n : w[i] \in D
  <2> HIDE DEF D
  <2> QED BY LenProperties DEF D
<1>2. Joint(w) = out[n]
  BY DEF Joint
<1> HIDE DEF n
<1>3. F \in [(1..n) \X D -> D]
  <2>1. \A i \in 1..n, x \in D : JointStep(i, x, w[i]) \in D
    BY <1>1, JointStepTyped
  <2> HIDE DEF D
  <2> QED BY <2>1
<1>4. \A i \in 1..n, x \in D : F[<<i, x>>] = JointStep(i, x, w[i])
  <2> HIDE DEF D
  <2> QED OBVIOUS
<1>5. <<>> \in D
  OBVIOUS
<1> HIDE DEF F, D
<1>6. PICK g \in [0..n -> D] : Recurrence(g, n, <<>>, F)
  BY <1>1, <1>3, <1>5, RecurrenceTo
<1>7. \A i \in 1..n : g[i] = JointStep(i, g[i - 1], w[i])
  <2>1. ASSUME NEW i \in 1..n
        PROVE  g[i] = JointStep(i, g[i - 1], w[i])
    <3>1. g[i] = F[<<i, g[i - 1]>>] /\ g[i - 1] \in D
      BY <1>1, <1>6 DEF Recurrence
    <3> QED BY <1>4, <3>1
  <2> QED BY <2>1
<1>8. g[0] = <<>>
  BY <1>6 DEF Recurrence
<1>9. \A f : IsOut(f) <=> f = [i \in 0..n |-> IF i = 0 THEN <<>>
                                              ELSE JointStep(i, f[i - 1], w[i])]
  <2>1. ASSUME NEW f
        PROVE  [i \in 0..n |-> IF i = 0 THEN <<>>
                               ELSE IF i = 1 THEN w[1]
                               ELSE f[i - 1] \o <<Blank>> \o w[i]]
                 = [i \in 0..n |-> IF i = 0 THEN <<>>
                                   ELSE JointStep(i, f[i - 1], w[i])]
    BY DEF JointStep
  <2> QED BY <2>1
<1>10. IsOut(g)
  <2>1. \A i \in 0..n : i = 0 \/ i \in 1..n
    BY <1>1
  <2>2. \A i \in 0..n : g[i] = IF i = 0 THEN <<>> ELSE JointStep(i, g[i - 1], w[i])
    BY ONLY <1>7, <1>8, <2>1, Zenon
  <2>3. g = [i \in 0..n |-> IF i = 0 THEN <<>> ELSE JointStep(i, g[i - 1], w[i])]
    BY <1>6, <2>2
  <2> HIDE DEF IsOut
  <2> QED BY <1>9, <2>3
<1> HIDE DEF IsOut
<1>11. IsOut(out)
  BY <1>10
<1> HIDE DEF out
<1>12. \A i \in 0..n : out[i] = IF i = 0 THEN <<>> ELSE JointStep(i, out[i - 1], w[i])
  <2> DEFINE G == [i \in 0..n |-> IF i = 0 THEN <<>> ELSE JointStep(i, out[i - 1], w[i])]
  <2>1. out = G
    BY <1>9, <1>11
  <2>2. \A i \in 0..n : G[i] = IF i = 0 THEN <<>> ELSE JointStep(i, out[i - 1], w[i])
    OBVIOUS
  <2> HIDE DEF G
  <2> QED BY <2>1, <2>2
<1>13. JointSteps(g, w, n)
  BY <1>6, <1>7, <1>8 DEF JointSteps, D
<1> DEFINE Good == {i \in Nat : i <= n => out[i] = g[i]}
<1>14. 0 \in Good
  <2>1. 0 \in 0..n
    BY <1>1
  <2> QED BY <1>8, <1>12, <2>1
<1>15. ASSUME NEW i \in Nat, i \in Good
       PROVE  i + 1 \in Good
  <2>1. SUFFICES ASSUME i + 1 <= n
                 PROVE  out[i + 1] = g[i + 1]
    OBVIOUS
  <2>2. i + 1 \in 1..n /\ i + 1 \in 0..n /\ i + 1 # 0 /\ (i + 1) - 1 = i /\ out[i] = g[i]
    BY <1>1, <1>15, <2>1
  <2>3. out[i + 1] = JointStep(i + 1, out[(i + 1) - 1], w[i + 1])
    BY <1>12, <2>2
  <2>4. g[i + 1] = JointStep(i + 1, g[(i + 1) - 1], w[i + 1])
    BY <1>7, <2>2
  <2> QED BY <2>2, <2>3, <2>4
<1>16. out[n] = g[n]
  <2> HIDE DEF Good
  <2>1. Nat \subseteq Good
    BY <1>14, <1>15, NumberInduction
  <2>2. n \in Good
    BY <1>1, <2>1
  <2> QED BY <1>1, <2>2 DEF Good
<1> QED BY <1>2, <1>13, <1>16 DEF n

\* No words are nothing; a word more comes behind a blank, if it is not the first.
LEMMA JointOfNothing == Joint(<<>>) = <<>>
<1>1. <<>> \in Seq(Seq(Nat)) /\ Len(<<>>) = 0
  OBVIOUS
<1>2. PICK f : JointSteps(f, <<>>, Len(<<>>)) /\ Joint(<<>>) = f[Len(<<>>)]
  BY <1>1, JointIs
<1> QED BY <1>1, <1>2 DEF JointSteps

\* A word more comes behind a blank, unless it is the first.
LEMMA JointGrows ==
  ASSUME NEW w \in Seq(Seq(Nat)), NEW u \in Seq(Nat)
  PROVE  /\ Joint(w) \in Seq(Nat)
         /\ Joint(Append(w, u)) =
              IF w = <<>> THEN u ELSE Joint(w) \o <<Blank>> \o u
<1> DEFINE n == Len(w)
           t == Append(w, u)
           D == Seq(Nat)
<1>1. /\ n \in Nat /\ t \in Seq(D) /\ Len(t) = n + 1
      /\ \A i \in 1..n : t[i] = w[i]
      /\ t[n + 1] = u
  <2>1. w \in Seq(D) /\ u \in D
    OBVIOUS
  <2> HIDE DEF D
  <2> QED BY <2>1, AppendProperties, LenProperties
<1>0. n = 0 <=> w = <<>>
  BY EmptySeq
<1> HIDE DEF t
<1>2. PICK f : JointSteps(f, w, n) /\ Joint(w) = f[n]
  BY JointIs
<1>3. PICK g : JointSteps(g, t, n + 1) /\ Joint(t) = g[n + 1]
  <2>1. \E g : JointSteps(g, t, Len(t)) /\ Joint(t) = g[Len(t)]
    BY <1>1, JointIs
  <2> QED BY <1>1, <2>1
<1> HIDE DEF n
<1>4. /\ f \in [0..n -> Seq(Nat)] /\ f[0] = <<>>
      /\ \A i \in 1..n : f[i] = JointStep(i, f[i - 1], w[i])
  BY <1>2 DEF JointSteps
<1>5. g[0] = <<>> /\ \A i \in 1..n + 1 : g[i] = JointStep(i, g[i - 1], t[i])
  BY <1>3 DEF JointSteps
<1> DEFINE Good == {i \in Nat : i <= n => f[i] = g[i]}
<1>6. 0 \in Good
  BY <1>4, <1>5
<1>7. ASSUME NEW i \in Nat, i \in Good
      PROVE  i + 1 \in Good
  <2>1. SUFFICES ASSUME i + 1 <= n
                 PROVE  f[i + 1] = g[i + 1]
    OBVIOUS
  <2>2. i + 1 \in 1..n /\ i + 1 \in 1..n + 1 /\ (i + 1) - 1 = i /\ f[i] = g[i]
    BY <1>1, <1>7, <2>1
  <2>3. f[i + 1] = JointStep(i + 1, f[(i + 1) - 1], w[i + 1])
    BY <1>4, <2>2
  <2>4. g[i + 1] = JointStep(i + 1, g[(i + 1) - 1], t[i + 1])
    BY <1>5, <2>2
  <2> QED BY <1>1, <2>2, <2>3, <2>4
<1>8. f[n] = g[n]
  <2> HIDE DEF Good
  <2>1. Nat \subseteq Good
    BY <1>6, <1>7, NumberInduction
  <2>2. n \in Good
    BY <1>1, <2>1
  <2> QED BY <1>1, <2>2 DEF Good
<1>9. g[n + 1] = JointStep(n + 1, g[n], u)
  <2>1. n + 1 \in 1..n + 1 /\ (n + 1) - 1 = n
    BY <1>1
  <2>2. g[n + 1] = JointStep(n + 1, g[(n + 1) - 1], t[n + 1])
    BY <1>5, <2>1
  <2> QED BY <1>1, <2>1, <2>2
<1>10. f[n] \in Seq(Nat)
  <2>1. n \in 0..n
    BY <1>1
  <2> QED BY <1>4, <2>1
<1>11. n + 1 = 1 <=> w = <<>>
  BY <1>0, <1>1
<1>12. JointStep(n + 1, g[n], u) = IF w = <<>> THEN u ELSE g[n] \o <<Blank>> \o u
  BY <1>11 DEF JointStep
<1> QED BY <1>2, <1>3, <1>8, <1>9, <1>10, <1>12 DEF t

\* A character more in the last word is one behind it all.
LEMMA LastWordGrows ==
  ASSUME NEW w \in Seq(Seq(Nat)), NEW u \in Seq(Nat), NEW c \in Nat
  PROVE  Joint(Append(w, Append(u, c))) = Append(Joint(Append(w, u)), c)
<1> DEFINE x == Joint(w)
           y == Append(u, c)
<1>1. y \in Seq(Nat) /\ x \in Seq(Nat)
  BY AppendProperties, JointGrows
<1> HIDE DEF y
<1>2. Joint(Append(w, u)) = IF w = <<>> THEN u ELSE (x \o <<Blank>>) \o u
  BY JointGrows
<1>3. Joint(Append(w, y)) = IF w = <<>> THEN y ELSE (x \o <<Blank>>) \o y
  BY <1>1, JointGrows
<1> HIDE DEF x
<1> DEFINE z == x \o <<Blank>>
<1>4. z \in Seq(Nat)
  <2>1. <<Blank>> \in Seq(Nat)
    BY DEF Blank
  <2> QED BY <1>1, <2>1, ConcatProperties, Zenon
<1>5. z \o y = Append(z \o u, c)
  <2> HIDE DEF z
  <2>1. y = u \o <<c>>
    BY AppendIsConcat DEF y
  <2>2. <<c>> \in Seq(Nat)
    OBVIOUS
  <2>3. (z \o u) \o <<c>> = z \o (u \o <<c>>)
    <3> DEFINE q == <<c>>
    <3>1. q \in Seq(Nat)
      BY <2>2
    <3> HIDE DEF q
    <3>2. (z \o u) \o q = z \o (u \o q)
      BY ONLY <1>4, <3>1, u \in Seq(Nat)
    <3> QED BY <3>2 DEF q
  <2>4. z \o u \in Seq(Nat)
    BY <1>4, ConcatProperties, Zenon
  <2>5. Append(z \o u, c) = (z \o u) \o <<c>>
    BY <2>4, AppendIsConcat, Zenon
  <2> QED BY <2>1, <2>3, <2>5
<1> QED BY <1>2, <1>3, <1>5 DEF y

(* The normalized name, character by character.                             *)

NormStep(x, c) ==
  IF c # Blank THEN Append(x, lower(c))
  ELSE IF x # <<>> /\ Last(x) # Blank THEN Append(x, Blank)
  ELSE x
NormSteps(f, s, n) ==
  /\ f \in [0..n -> Seq(Nat)]
  /\ f[0] = <<>>
  /\ \A i \in 1..n : f[i] = NormStep(f[i - 1], s[i])
Trimmed(x) == IF x # <<>> /\ Last(x) = Blank THEN Front(x) ELSE x

\* A character more keeps a string a string.
LEMMA NormStepTyped ==
  ASSUME NEW x \in Seq(Nat), NEW c \in Nat
  PROVE  NormStep(x, c) \in Seq(Nat)
<1>1. lower(c) \in Nat /\ Blank \in Nat
  BY DEF lower, Blank
<1>2. Append(x, lower(c)) \in Seq(Nat) /\ Append(x, Blank) \in Seq(Nat)
  <2> DEFINE d == lower(c)
             e == Blank
  <2>1. d \in Nat /\ e \in Nat
    BY <1>1
  <2> HIDE DEF d, e
  <2>2. Append(x, d) \in Seq(Nat) /\ Append(x, e) \in Seq(Nat)
    BY <2>1, AppendProperties
  <2> QED BY <2>2 DEF d, e
<1> QED BY <1>2 DEF NormStep

\* A name is normalized character by character, and a last blank is cut off.
LEMMA NormalizeIs ==
  ASSUME NEW s \in Seq(Nat)
  PROVE  \E f : NormSteps(f, s, Len(s)) /\ normalizePersonName(s) = Trimmed(f[Len(s)])
<1> DEFINE n == Len(s)
           D == Seq(Nat)
           IsOut(f) == f = [i \in 0..n |-> IF i = 0 THEN <<>>
                              ELSE IF s[i] # Blank THEN Append(f[i - 1], lower(s[i]))
                              ELSE IF f[i - 1] # <<>> /\ Last(f[i - 1]) # Blank
                                   THEN Append(f[i - 1], Blank)
                              ELSE f[i - 1]]
           out == CHOOSE f : IsOut(f)
           F == [p \in (1..n) \X D |-> NormStep(p[2], s[p[1]])]
<1>1. n \in Nat /\ \A i \in 1..n : s[i] \in Nat
  BY LenProperties
<1>2. normalizePersonName(s) = Trimmed(out[n])
  BY DEF normalizePersonName, Trimmed
<1> HIDE DEF n
<1>3. F \in [(1..n) \X D -> D]
  <2>1. \A i \in 1..n, x \in D : NormStep(x, s[i]) \in D
    BY <1>1, NormStepTyped
  <2> HIDE DEF D
  <2> QED BY <2>1
<1>4. \A i \in 1..n, x \in D : F[<<i, x>>] = NormStep(x, s[i])
  <2> HIDE DEF D
  <2> QED OBVIOUS
<1>5. <<>> \in D
  OBVIOUS
<1> HIDE DEF F, D
<1>6. PICK g \in [0..n -> D] : Recurrence(g, n, <<>>, F)
  BY <1>1, <1>3, <1>5, RecurrenceTo
<1>7. \A i \in 1..n : g[i] = NormStep(g[i - 1], s[i])
  <2>1. ASSUME NEW i \in 1..n
        PROVE  g[i] = NormStep(g[i - 1], s[i])
    <3>1. g[i] = F[<<i, g[i - 1]>>] /\ g[i - 1] \in D
      BY <1>1, <1>6 DEF Recurrence
    <3> QED BY <1>4, <3>1
  <2> QED BY <2>1
<1>8. g[0] = <<>>
  BY <1>6 DEF Recurrence
<1>9. \A f : IsOut(f) <=> f = [i \in 0..n |-> IF i = 0 THEN <<>>
                                              ELSE NormStep(f[i - 1], s[i])]
  BY DEF NormStep
<1>10. IsOut(g)
  <2>1. \A i \in 0..n : i = 0 \/ i \in 1..n
    BY <1>1
  <2>2. \A i \in 0..n : g[i] = IF i = 0 THEN <<>> ELSE NormStep(g[i - 1], s[i])
    BY ONLY <1>7, <1>8, <2>1, Zenon
  <2>3. g = [i \in 0..n |-> IF i = 0 THEN <<>> ELSE NormStep(g[i - 1], s[i])]
    BY <1>6, <2>2
  <2> HIDE DEF IsOut
  <2> QED BY <1>9, <2>3
<1> HIDE DEF IsOut
<1>11. IsOut(out)
  BY <1>10
<1> HIDE DEF out
<1>12. \A i \in 0..n : out[i] = IF i = 0 THEN <<>> ELSE NormStep(out[i - 1], s[i])
  <2> DEFINE G == [i \in 0..n |-> IF i = 0 THEN <<>> ELSE NormStep(out[i - 1], s[i])]
  <2>1. out = G
    BY <1>9, <1>11
  <2>2. \A i \in 0..n : G[i] = IF i = 0 THEN <<>> ELSE NormStep(out[i - 1], s[i])
    OBVIOUS
  <2> HIDE DEF G
  <2> QED BY <2>1, <2>2
<1>13. NormSteps(g, s, n)
  BY <1>6, <1>7, <1>8 DEF NormSteps, D
<1> DEFINE Good == {i \in Nat : i <= n => out[i] = g[i]}
<1>14. 0 \in Good
  <2>1. 0 \in 0..n
    BY <1>1
  <2> QED BY <1>8, <1>12, <2>1
<1>15. ASSUME NEW i \in Nat, i \in Good
       PROVE  i + 1 \in Good
  <2>1. SUFFICES ASSUME i + 1 <= n
                 PROVE  out[i + 1] = g[i + 1]
    OBVIOUS
  <2>2. i + 1 \in 1..n /\ i + 1 \in 0..n /\ i + 1 # 0 /\ (i + 1) - 1 = i /\ out[i] = g[i]
    BY <1>1, <1>15, <2>1
  <2>3. out[i + 1] = NormStep(out[(i + 1) - 1], s[i + 1])
    BY <1>12, <2>2
  <2>4. g[i + 1] = NormStep(g[(i + 1) - 1], s[i + 1])
    BY <1>7, <2>2
  <2> QED BY <2>2, <2>3, <2>4
<1>16. out[n] = g[n]
  <2> HIDE DEF Good
  <2>1. Nat \subseteq Good
    BY <1>14, <1>15, NumberInduction
  <2>2. n \in Good
    BY <1>1, <2>1
  <2> QED BY <1>1, <2>2 DEF Good
<1> QED BY <1>2, <1>13, <1>16 DEF n

-----------------------------------------------------------------------------
(* A string that spells a list of words, and the runs of letters in a name. *)

\* The string x spells the words w.
Spelled(x, w) ==
  /\ x \in Seq(Nat) /\ w \in Seq(Seq(Nat))
  /\ x # <<>> /\ Last(x) # Blank
  /\ x = Joint(w) /\ Fields(x) = w

\* A first letter, the first letter of a word more, and a letter more in the last
\* word.
LEMMA SpellFirst ==
  ASSUME NEW c \in Nat, c # Blank
  PROVE  Spelled(Append(<<>>, c), Append(<<>>, Append(<<>>, c)))
<1> DEFINE D == Seq(Nat)
           x == Append(<<>>, c)
           w == Append(<<>>, x)
<1>1. <<>> \in Seq(Nat) /\ <<>> \in Seq(D) /\ <<>> \in D
  OBVIOUS
<1>2. x \in Seq(Nat) /\ x # <<>> /\ Last(x) = c
  BY <1>1, FrontLast
<1>3. x \in D
  BY <1>2
<1> HIDE DEF x, D
<1>4. w \in Seq(D)
  BY <1>1, <1>3, AppendProperties
<1>5. Joint(w) = x
  <2>1. <<>> \in Seq(Seq(Nat))
    OBVIOUS
  <2> QED BY <1>2, <2>1, JointGrows
<1>6. Fields(x) = w
  <2>1. Fields(x) = FieldStep(Fields(<<>>), c)
    BY <1>1, FieldsGrow DEF x
  <2> DEFINE e == <<>>
             one == Append(e, e)
  <2>2. one = << <<>> >>
    OBVIOUS
  <2>3. e \in Seq(D) /\ e \in D
    BY <1>1
  <2> HIDE DEF e
  <2>4. Front(one) = e /\ Last(one) = e
    BY <2>3, FrontLast
  <2> HIDE DEF one
  <2>5. FieldStep(one, c) = Append(e, Append(e, c))
    BY <2>4 DEF FieldStep
  <2> QED BY <2>1, <2>2, <2>5, FieldsOfNothing DEF e, x
<1> QED BY <1>2, <1>4, <1>5, <1>6 DEF Spelled, D, x

\* A letter behind a blank starts a word.
LEMMA SpellStart ==
  ASSUME NEW y, NEW w, Spelled(y, w), w # <<>>, NEW c \in Nat, c # Blank
  PROVE  Spelled(Append(Append(y, Blank), c), Append(w, Append(<<>>, c)))
<1> DEFINE D == Seq(Nat)
           u == Append(<<>>, c)
           x == Append(y, Blank)
           z == Append(x, c)
           v == Append(w, u)
<1>1. y \in Seq(Nat) /\ w \in Seq(D) /\ y = Joint(w) /\ Fields(y) = w
  BY DEF Spelled
<1>2. Blank \in Nat /\ <<>> \in Seq(Nat) /\ <<>> \in D
  BY DEF Blank
<1>3. u \in D /\ u = <<c>>
  OBVIOUS
<1>4. x \in Seq(Nat)
  BY <1>1, <1>2, AppendProperties
<1>5. z \in Seq(Nat) /\ z # <<>> /\ Last(z) = c
  <2> HIDE DEF x
  <2> QED BY <1>4, FrontLast
<1>6. v \in Seq(D)
  <2> HIDE DEF u, D
  <2> QED BY <1>1, <1>3, AppendProperties
<1>7. Joint(v) = z
  <2>1. Joint(v) = (y \o <<Blank>>) \o u
    <3> HIDE DEF u
    <3> QED BY <1>1, <1>3, JointGrows
  <2>2. y \o <<Blank>> = x
    BY <1>1, <1>2, AppendIsConcat, Zenon
  <2>3. x \o <<c>> = z
    BY <1>4, AppendIsConcat, Zenon
  <2> QED BY <1>3, <2>1, <2>2, <2>3
<1>8. Fields(z) = v
  <2>1. Fields(x) = FieldStep(w, Blank)
    BY <1>1, <1>2, FieldsGrow
  <2>2. Fields(x) = Append(w, <<>>)
    BY <2>1 DEF FieldStep
  <2>3. Fields(z) = FieldStep(Fields(x), c)
    <3> HIDE DEF x
    <3> QED BY <1>4, FieldsGrow
  <2> DEFINE e == <<>>
  <2>4. e \in D
    BY <1>2
  <2> HIDE DEF e, D
  <2>5. Front(Append(w, e)) = w /\ Last(Append(w, e)) = e
    BY <1>1, <2>4, FrontLast
  <2>6. FieldStep(Append(w, e), c) = Append(w, Append(e, c))
    BY <2>5 DEF FieldStep
  <2> QED BY <2>2, <2>3, <2>6 DEF e
<1> QED BY <1>5, <1>6, <1>7, <1>8 DEF Spelled

\* A letter behind a letter makes the last word longer.
LEMMA SpellGrow ==
  ASSUME NEW x, NEW v \in Seq(Seq(Nat)), NEW u \in Seq(Nat), Spelled(x, Append(v, u)),
         NEW c \in Nat, c # Blank
  PROVE  Spelled(Append(x, c), Append(v, Append(u, c)))
<1> DEFINE D == Seq(Nat)
           t == Append(u, c)
           z == Append(x, c)
           w == Append(v, t)
<1>1. x \in Seq(Nat) /\ x = Joint(Append(v, u)) /\ Fields(x) = Append(v, u)
  BY DEF Spelled
<1>2. t \in D
  BY AppendProperties
<1>3. z \in Seq(Nat) /\ z # <<>> /\ Last(z) = c
  BY <1>1, FrontLast
<1>4. v \in Seq(D) /\ u \in D
  OBVIOUS
<1>5. w \in Seq(D)
  <2> HIDE DEF t, D
  <2> QED BY <1>2, <1>4, AppendProperties
<1>6. Joint(w) = z
  BY <1>1, LastWordGrows
<1>7. Fields(z) = w
  <2>1. Fields(z) = FieldStep(Append(v, u), c)
    BY <1>1, FieldsGrow
  <2>2. Front(Append(v, u)) = v /\ Last(Append(v, u)) = u
    <3> HIDE DEF D
    <3> QED BY <1>4, FrontLast
  <2> QED BY <2>1, <2>2 DEF FieldStep
<1> QED BY <1>3, <1>5, <1>6, <1>7 DEF Spelled

IsRun(s, n, a, z) ==
  /\ a \in 1..n /\ z \in 1..n /\ a <= z
  /\ \A i \in a..z : s[i] # Blank
  /\ a > 1 => s[a - 1] = Blank
  /\ z < n => s[z + 1] = Blank

\* A blank ends a run, a letter behind a blank is a run, and one behind a letter
\* makes a run longer.
LEMMA RunsBlank ==
  ASSUME NEW s, NEW n \in Nat, s[n + 1] = Blank
  PROVE  \A a, z : IsRun(s, n + 1, a, z) <=> IsRun(s, n, a, z)
<1>1. ASSUME NEW a, NEW z, IsRun(s, n + 1, a, z)
      PROVE  IsRun(s, n, a, z)
  <2>1. z # n + 1
    <3>1. z \in a..z
      BY <1>1 DEF IsRun
    <3> QED BY <1>1, <3>1 DEF IsRun
  <2> QED BY <1>1, <2>1 DEF IsRun
<1>2. ASSUME NEW a, NEW z, IsRun(s, n, a, z)
      PROVE  IsRun(s, n + 1, a, z)
  BY <1>2 DEF IsRun
<1> QED BY <1>1, <1>2

\* A letter behind a blank is a run.
LEMMA RunsStart ==
  ASSUME NEW s, NEW n \in Nat, s[n + 1] # Blank, n = 0 \/ s[n] = Blank
  PROVE  \A a, z : IsRun(s, n + 1, a, z) <=>
                     IsRun(s, n, a, z) \/ (a = n + 1 /\ z = n + 1)
<1>1. ASSUME NEW a, NEW z, IsRun(s, n + 1, a, z), ~(a = n + 1 /\ z = n + 1)
      PROVE  IsRun(s, n, a, z)
  <2>1. z # n + 1
    <3>1. SUFFICES ASSUME z = n + 1 PROVE FALSE
      OBVIOUS
    <3>2. n \in a..z /\ n # 0
      BY <1>1, <3>1 DEF IsRun
    <3> QED BY <1>1, <3>2 DEF IsRun
  <2> QED BY <1>1, <2>1 DEF IsRun
<1>2. ASSUME NEW a, NEW z, IsRun(s, n, a, z)
      PROVE  IsRun(s, n + 1, a, z)
  <2>1. z # n
    <3>1. z \in a..z /\ n # 0
      BY <1>2 DEF IsRun
    <3> QED BY <1>2, <3>1 DEF IsRun
  <2> QED BY <1>2, <2>1 DEF IsRun
<1>3. IsRun(s, n + 1, n + 1, n + 1)
  BY DEF IsRun
<1> QED BY <1>1, <1>2, <1>3

\* Two runs with one end are the same run.
LEMMA RunEndsOnce ==
  ASSUME NEW s, NEW n \in Nat, NEW a, NEW b, NEW z, IsRun(s, n, a, z), IsRun(s, n, b, z)
  PROVE  a = b
<1>1. a \in 1..n /\ b \in 1..n /\ z \in 1..n
  BY DEF IsRun
<1>2. ASSUME a < b
      PROVE  FALSE
  <2>1. b - 1 \in a..z /\ b > 1
    BY <1>1, <1>2 DEF IsRun
  <2> QED BY <2>1 DEF IsRun
<1>3. ASSUME b < a
      PROVE  FALSE
  <2>1. a - 1 \in b..z /\ a > 1
    BY <1>1, <1>3 DEF IsRun
  <2> QED BY <2>1 DEF IsRun
<1> QED BY <1>1, <1>2, <1>3

\* A letter behind a letter makes a run longer.
LEMMA RunsGrow ==
  ASSUME NEW s, NEW n \in Nat, s[n + 1] # Blank, n # 0, s[n] # Blank
  PROVE  \A a, z : IsRun(s, n + 1, a, z) <=>
                     \/ IsRun(s, n, a, z) /\ z # n
                     \/ IsRun(s, n, a, n) /\ z = n + 1
<1>1. ASSUME NEW a, NEW z, IsRun(s, n + 1, a, z), z # n + 1
      PROVE  IsRun(s, n, a, z) /\ z # n
  <2>1. z # n
    BY <1>1 DEF IsRun
  <2> QED BY <1>1, <2>1 DEF IsRun
<1>2. ASSUME NEW a, NEW z, IsRun(s, n + 1, a, z), z = n + 1
      PROVE  IsRun(s, n, a, n)
  <2>1. a # n + 1
    <3>1. a = n + 1 => a - 1 = n
      OBVIOUS
    <3> QED BY <1>2, <3>1 DEF IsRun
  <2> QED BY <1>2, <2>1 DEF IsRun
<1>3. ASSUME NEW a, NEW z, IsRun(s, n, a, z), z # n
      PROVE  IsRun(s, n + 1, a, z)
  BY <1>3 DEF IsRun
<1>4. ASSUME NEW a, IsRun(s, n, a, n)
      PROVE  IsRun(s, n + 1, a, n + 1)
  <2>1. \A i \in a..n + 1 : i \in a..n \/ i = n + 1
    BY <1>4 DEF IsRun
  <2> QED BY <1>4, <2>1 DEF IsRun
<1> QED BY <1>1, <1>2, <1>3, <1>4

\* W lists the runs of letters in the first n characters of s, in order.
Pairs == Nat \X Nat
Enumerates(W, s, n) ==
  /\ W \in Seq(Pairs)
  /\ \A k \in 1..Len(W) : IsRun(s, n, W[k][1], W[k][2])
  /\ \A a, z : IsRun(s, n, a, z) => \E k \in 1..Len(W) : W[k] = <<a, z>>
  /\ \A j, k \in 1..Len(W) : j < k => W[j][1] < W[k][1]

\* What is behind a list that a pair is added to.
Grown(X, W, n, r) ==
  /\ X \in Seq(Pairs) /\ Len(X) = n + 1
  /\ \A k \in 1..n : X[k] = W[k]
  /\ X[n + 1] = r

\* A pair more leaves the others where they are.
LEMMA PairAdded ==
  ASSUME NEW W \in Seq(Pairs), NEW r \in Pairs
  PROVE  Len(W) \in Nat /\ Grown(Append(W, r), W, Len(W), r)
<1>1. /\ Append(W, r) \in Seq(Pairs) /\ Len(Append(W, r)) = Len(W) + 1
      /\ \A k \in 1..Len(W) : Append(W, r)[k] = W[k]
      /\ Append(W, r)[Len(W) + 1] = r
  BY AppendProperties
<1> QED BY <1>1, LenProperties DEF Grown

\* There is no run in nothing.
LEMMA EnumNothing ==
  ASSUME NEW s
  PROVE  Enumerates(<<>>, s, 0)
<1>1. <<>> \in Seq(Pairs) /\ Len(<<>>) = 0
  OBVIOUS
<1>2. \A a, z : ~IsRun(s, 0, a, z)
  BY DEF IsRun
<1> QED BY <1>1, <1>2 DEF Enumerates

\* A blank makes no run.
LEMMA EnumBlank ==
  ASSUME NEW s, NEW n \in Nat, s[n + 1] = Blank, NEW W, Enumerates(W, s, n)
  PROVE  Enumerates(W, s, n + 1)
<1>1. \A a, z : IsRun(s, n + 1, a, z) <=> IsRun(s, n, a, z)
  BY RunsBlank
<1> QED BY <1>1 DEF Enumerates

\* A run that starts comes last in the list.
LEMMA EnumStart ==
  ASSUME NEW s, NEW n \in Nat, s[n + 1] # Blank, n = 0 \/ s[n] = Blank,
         NEW W, Enumerates(W, s, n)
  PROVE  Enumerates(Append(W, <<n + 1, n + 1>>), s, n + 1)
<1> DEFINE r == <<n + 1, n + 1>>
           X == Append(W, r)
           m == Len(W)
<1>1. /\ W \in Seq(Pairs)
      /\ \A k \in 1..m : IsRun(s, n, W[k][1], W[k][2])
      /\ \A a, z : IsRun(s, n, a, z) => \E k \in 1..m : W[k] = <<a, z>>
      /\ \A j, k \in 1..m : j < k => W[j][1] < W[k][1]
  BY DEF Enumerates
<1>2. r \in Pairs
  BY DEF Pairs
<1>3. r[1] = n + 1 /\ r[2] = n + 1 /\ r = <<n + 1, n + 1>>
  OBVIOUS
<1> HIDE DEF r
<1>4. m \in Nat /\ Grown(X, W, m, r)
  BY <1>1, <1>2, PairAdded
<1> HIDE DEF X, m
<1>5. \A a, z : IsRun(s, n + 1, a, z) <=>
                  IsRun(s, n, a, z) \/ (a = n + 1 /\ z = n + 1)
  BY RunsStart
<1>6. \A k \in 1..m + 1 : k \in 1..m \/ k = m + 1
  BY <1>4
<1>7. ASSUME NEW k \in 1..m + 1
      PROVE  IsRun(s, n + 1, X[k][1], X[k][2])
  <2>1. CASE k \in 1..m
    BY <1>1, <1>4, <1>5, <2>1 DEF Grown
  <2>2. CASE k = m + 1
    BY <1>3, <1>4, <1>5, <2>2 DEF Grown
  <2> QED BY <1>6, <2>1, <2>2
<1>8. ASSUME NEW a, NEW z, IsRun(s, n + 1, a, z)
      PROVE  \E k \in 1..m + 1 : X[k] = <<a, z>>
  <2>1. CASE IsRun(s, n, a, z)
    <3>1. PICK k \in 1..m : W[k] = <<a, z>>
      BY <1>1, <2>1
    <3>2. k \in 1..m + 1 /\ X[k] = W[k]
      BY <1>4 DEF Grown
    <3> QED BY <3>1, <3>2
  <2>2. CASE a = n + 1 /\ z = n + 1
    <3>1. m + 1 \in 1..m + 1 /\ X[m + 1] = r
      BY <1>4 DEF Grown
    <3> QED BY <1>3, <2>2, <3>1
  <2> QED BY <1>5, <1>8, <2>1, <2>2
<1>9. ASSUME NEW j \in 1..m + 1, NEW k \in 1..m + 1, j < k
      PROVE  X[j][1] < X[k][1]
  <2>1. j \in 1..m /\ X[j] = W[j]
    BY <1>4, <1>9 DEF Grown
  <2>2. CASE k \in 1..m
    <3>1. X[k] = W[k]
      BY <1>4, <2>2 DEF Grown
    <3> QED BY <1>1, <1>9, <2>1, <2>2, <3>1
  <2>3. CASE k = m + 1
    <3>1. X[k][1] = n + 1
      BY <1>3, <1>4, <2>3 DEF Grown
    <3>2. W[j][1] \in 1..n
      BY <1>1, <2>1 DEF IsRun
    <3> QED BY <2>1, <3>1, <3>2
  <2> QED BY <1>6, <2>2, <2>3
<1>10. X \in Seq(Pairs) /\ Len(X) = m + 1
  BY <1>4 DEF Grown
<1>11. Enumerates(X, s, n + 1)
  BY <1>7, <1>8, <1>9, <1>10 DEF Enumerates
<1> QED BY <1>11 DEF X, r

\* The last run in the list grows.
LEMMA EnumGrow ==
  ASSUME NEW s, NEW n \in Nat, s[n + 1] # Blank, n # 0, s[n] # Blank,
         NEW V \in Seq(Pairs), NEW a \in Nat, Enumerates(Append(V, <<a, n>>), s, n)
  PROVE  Enumerates(Append(V, <<a, n + 1>>), s, n + 1)
<1> DEFINE q == <<a, n>>
           r == <<a, n + 1>>
           W == Append(V, q)
           X == Append(V, r)
           m == Len(V)
<1>2. q \in Pairs /\ r \in Pairs
  BY DEF Pairs
<1>3. r[1] = a /\ r[2] = n + 1 /\ q[1] = a /\ q[2] = n /\ r = <<a, n + 1>> /\ q = <<a, n>>
  OBVIOUS
<1>0. Enumerates(W, s, n)
  OBVIOUS
<1> HIDE DEF r, q
<1>4. m \in Nat /\ Grown(W, V, m, q) /\ Grown(X, V, m, r)
  BY <1>2, PairAdded
<1> HIDE DEF X, W, m
<1>1. /\ \A k \in 1..m + 1 : IsRun(s, n, W[k][1], W[k][2])
      /\ \A b, z : IsRun(s, n, b, z) => \E k \in 1..m + 1 : W[k] = <<b, z>>
      /\ \A j, k \in 1..m + 1 : j < k => W[j][1] < W[k][1]
  BY <1>0, <1>4 DEF Enumerates, Grown
<1>5. \A b, z : IsRun(s, n + 1, b, z) <=>
                  \/ IsRun(s, n, b, z) /\ z # n
                  \/ IsRun(s, n, b, n) /\ z = n + 1
  BY RunsGrow
<1>6. \A k \in 1..m + 1 : k \in 1..m \/ k = m + 1
  BY <1>4
<1>12. m + 1 \in 1..m + 1 /\ W[m + 1] = q /\ X[m + 1] = r
  BY <1>4 DEF Grown
<1>13. \A k \in 1..m : k \in 1..m + 1 /\ k < m + 1 /\ W[k] = X[k]
  BY <1>4 DEF Grown
<1>14. IsRun(s, n, a, n)
  BY <1>1, <1>3, <1>12
<1>15. ASSUME NEW k \in 1..m
       PROVE  W[k][2] # n
  <2>1. SUFFICES ASSUME W[k][2] = n PROVE FALSE
    OBVIOUS
  <2>2. IsRun(s, n, W[k][1], n) /\ W[k][1] < W[m + 1][1]
    BY <1>1, <1>12, <1>13, <2>1
  <2>3. W[k][1] = a
    BY <1>14, <2>2, RunEndsOnce
  <2>4. a < a
    BY <1>3, <1>12, <2>2, <2>3
  <2> QED BY <2>4
<1>7. ASSUME NEW k \in 1..m + 1
      PROVE  IsRun(s, n + 1, X[k][1], X[k][2])
  <2>1. CASE k \in 1..m
    BY <1>1, <1>5, <1>13, <1>15, <2>1
  <2>2. CASE k = m + 1
    BY <1>3, <1>5, <1>12, <1>14, <2>2
  <2> QED BY <1>6, <2>1, <2>2
<1>8. ASSUME NEW b, NEW z, IsRun(s, n + 1, b, z)
      PROVE  \E k \in 1..m + 1 : X[k] = <<b, z>>
  <2>1. CASE IsRun(s, n, b, z) /\ z # n
    <3>1. PICK k \in 1..m + 1 : W[k] = <<b, z>>
      BY <1>1, <2>1
    <3>2. k # m + 1
      BY <1>3, <1>12, <2>1, <3>1
    <3> QED BY <1>6, <1>13, <3>1, <3>2
  <2>2. CASE IsRun(s, n, b, n) /\ z = n + 1
    <3>1. b = a
      BY <1>14, <2>2, RunEndsOnce
    <3> QED BY <1>3, <1>12, <2>2, <3>1
  <2> QED BY <1>5, <1>8, <2>1, <2>2
<1>9. ASSUME NEW j \in 1..m + 1, NEW k \in 1..m + 1, j < k
      PROVE  X[j][1] < X[k][1]
  <2>1. \A i \in 1..m + 1 : X[i][1] = W[i][1]
    BY <1>3, <1>6, <1>12, <1>13
  <2> QED BY <1>1, <1>9, <2>1
<1>10. X \in Seq(Pairs) /\ Len(X) = m + 1
  BY <1>4 DEF Grown
<1>11. Enumerates(X, s, n + 1)
  BY <1>7, <1>8, <1>9, <1>10 DEF Enumerates
<1> QED BY <1>11 DEF X, r

\* The word a run is, in small letters, and the words a list of runs is.
WordOf(s, r) == [i \in 1..r[2] - r[1] + 1 |-> s[r[1] + i - 1] % 100]
Listed(s, W) == [k \in 1..Len(W) |-> WordOf(s, W[k])]

\* A run of letters is a word.
LEMMA WordTyped ==
  ASSUME NEW s, NEW n \in Nat, NEW a \in 1..n, NEW z \in a..n,
         \A i \in 1..n : s[i] \in Nat
  PROVE  WordOf(s, <<a, z>>) \in Seq(Nat)
<1> DEFINE w == WordOf(s, <<a, z>>)
           k == z - a + 1
<1>1. k \in Nat
  OBVIOUS
<1>2. w = [i \in 1..k |-> s[a + i - 1] % 100]
  BY DEF WordOf
<1>3. ASSUME NEW i \in 1..k
      PROVE  s[a + i - 1] % 100 \in Nat
  <2>1. a + i - 1 \in 1..n
    OBVIOUS
  <2> QED BY <2>1
<1> HIDE DEF k
<1>4. w \in [1..k -> Nat]
  BY <1>2, <1>3
<1> HIDE DEF w
<1>5. w \in Seq(Nat)
  BY <1>1, <1>4, FunctionIsString DEF IsString
<1> QED BY <1>5 DEF w

\* A run of one letter is that letter.
LEMMA WordStarts ==
  ASSUME NEW s, NEW n \in Nat
  PROVE  WordOf(s, <<n + 1, n + 1>>) = Append(<<>>, lower(s[n + 1]))
<1> DEFINE c == lower(s[n + 1])
           w == WordOf(s, <<n + 1, n + 1>>)
<1>1. w = [i \in 1..1 |-> s[(n + 1) + i - 1] % 100]
  <2>1. (n + 1) - (n + 1) + 1 = 1
    OBVIOUS
  <2> QED BY <2>1 DEF WordOf
<1>2. w = [i \in 1..1 |-> c]
  <2>1. \A i \in 1..1 : (n + 1) + i - 1 = n + 1
    OBVIOUS
  <2> QED BY <1>1, <2>1 DEF lower
<1> HIDE DEF w, c
<1>3. w = <<c>>
  BY <1>2
<1>4. Append(<<>>, c) = <<c>>
  OBVIOUS
<1> QED BY <1>3, <1>4 DEF w, c

-----------------------------------------------------------------------------
(* The words of a name.                                                     *)

\* Functions on 1..n that agree are the same sequence.
LEMMA AppendIs ==
  ASSUME NEW S, NEW n \in Nat, NEW w \in [1..n -> S], NEW x \in [1..n + 1 -> S],
         \A i \in 1..n : x[i] = w[i]
  PROVE  x = Append(w, x[n + 1])
<1> DEFINE e == x[n + 1]
           y == Append(w, e)
<1>1. e \in S
  OBVIOUS
<1> HIDE DEF e
<1>2. w \in Seq(S) /\ Len(w) = n
  BY FunctionIsString DEF IsString
<1>3. /\ y \in Seq(S) /\ Len(y) = n + 1
      /\ \A i \in 1..n : y[i] = w[i]
      /\ y[n + 1] = e
  BY <1>1, <1>2, AppendProperties
<1> HIDE DEF y
<1>4. IsString(y, S, n + 1) /\ IsString(x, S, n + 1)
  <2> DEFINE m == n + 1
  <2>1. m \in Nat /\ x \in [1..m -> S]
    OBVIOUS
  <2> HIDE DEF m
  <2>2. IsString(x, S, m)
    BY <2>1, FunctionIsString
  <2> QED BY <1>3, <2>2 DEF IsString, m
<1>5. \A i \in 1..n + 1 : i \in 1..n \/ i = n + 1
  OBVIOUS
<1>6. IsCut(x, y, 1, n + 1)
  <2>1. \A i \in 1..n + 1 : x[i] = y[i] /\ 1 + i - 1 = i
    BY <1>3, <1>5 DEF e
  <2> QED BY <2>1 DEF IsCut
<1>7. x = y
  <2>1. n + 1 \in Nat
    OBVIOUS
  <2> QED BY <1>4, <1>6, <2>1, StringsEqual
<1> QED BY <1>7 DEF y, e

\* A longer run is a longer word.
LEMMA WordGrows ==
  ASSUME NEW s, NEW n \in Nat, NEW a \in 1..n, \A i \in 1..n + 1 : s[i] \in Nat
  PROVE  WordOf(s, <<a, n + 1>>) = Append(WordOf(s, <<a, n>>), lower(s[n + 1]))
<1> DEFINE w == WordOf(s, <<a, n>>)
           x == WordOf(s, <<a, n + 1>>)
           k == n - a + 1
<1>1. k \in Nat /\ (n + 1) - a + 1 = k + 1 /\ a + (k + 1) - 1 = n + 1
  OBVIOUS
<1>2. w = [i \in 1..k |-> s[a + i - 1] % 100]
  BY DEF WordOf
<1>3. x = [i \in 1..k + 1 |-> s[a + i - 1] % 100]
  BY <1>1 DEF WordOf
<1>4. \A i \in 1..k + 1 : s[a + i - 1] % 100 \in Nat
  <2>1. ASSUME NEW i \in 1..k + 1
        PROVE  s[a + i - 1] % 100 \in Nat
    <3>1. a + i - 1 \in 1..n + 1
      OBVIOUS
    <3> QED BY <3>1
  <2> QED BY <2>1
<1>5. k + 1 \in 1..k + 1 /\ \A i \in 1..k : i \in 1..k + 1
  BY <1>1
<1> HIDE DEF w, x, k
<1>6. w \in [1..k -> Nat] /\ x \in [1..k + 1 -> Nat]
  BY <1>2, <1>3, <1>4, <1>5
<1>7. \A i \in 1..k : x[i] = w[i]
  BY <1>2, <1>3, <1>5
<1>8. x[k + 1] = lower(s[n + 1])
  <2>1. x[k + 1] = s[a + (k + 1) - 1] % 100
    BY <1>3, <1>5
  <2> QED BY <1>1, <2>1 DEF lower
<1>9. x = Append(w, x[k + 1])
  BY <1>1, <1>6, <1>7, AppendIs
<1> QED BY <1>8, <1>9 DEF w, x

\* A run more is a word more.
LEMMA ListedGrows ==
  ASSUME NEW s, NEW W \in Seq(Pairs), NEW r \in Pairs
  PROVE  Listed(s, Append(W, r)) = Append(Listed(s, W), WordOf(s, r))
<1> DEFINE X == Append(W, r)
           n == Len(W)
           S == {WordOf(s, p) : p \in Pairs}
           w == Listed(s, W)
           x == Listed(s, X)
<1>1. n \in Nat /\ Grown(X, W, n, r)
  BY PairAdded
<1> HIDE DEF X, n
<1>2. \A k \in 1..n : W[k] \in Pairs
  <2> HIDE DEF S
  <2>1. W \in [1..n -> Pairs]
    BY LenProperties DEF n
  <2> QED BY <2>1
<1>3. \A k \in 1..n + 1 : k \in 1..n \/ k = n + 1
  BY <1>1
<1>4. w = [k \in 1..n |-> WordOf(s, W[k])]
  BY DEF Listed, n
<1>5. x = [k \in 1..n + 1 |-> WordOf(s, X[k])]
  BY <1>1 DEF Listed, Grown
<1>6. \A k \in 1..n + 1 : X[k] \in Pairs
  BY <1>1, <1>2, <1>3 DEF Grown
<1> HIDE DEF w, x
<1>7. w \in [1..n -> S]
  BY <1>2, <1>4
<1>8. x \in [1..n + 1 -> S]
  BY <1>5, <1>6
<1>9. n + 1 \in 1..n + 1 /\ \A k \in 1..n : k \in 1..n + 1
  BY <1>1
<1>10. \A k \in 1..n : x[k] = w[k]
  <2>1. \A k \in 1..n : X[k] = W[k]
    BY <1>1 DEF Grown
  <2> QED BY <1>4, <1>5, <1>9, <2>1
<1>11. x[n + 1] = WordOf(s, r)
  <2>1. X[n + 1] = r
    BY <1>1 DEF Grown
  <2> QED BY <1>5, <1>9, <2>1
<1> HIDE DEF S
<1>12. x = Append(w, x[n + 1])
  BY <1>1, <1>7, <1>8, <1>10, AppendIs
<1> QED BY <1>11, <1>12 DEF w, x, X

\* A list of runs inside the first n characters is a list of words.
Inside(W, n) ==
  /\ W \in Seq(Pairs)
  /\ \A k \in 1..Len(W) : W[k][1] \in 1..n /\ W[k][2] \in W[k][1]..n

\* Runs are inside the name.
LEMMA EnumInside ==
  ASSUME NEW s, NEW n \in Nat, NEW W, Enumerates(W, s, n)
  PROVE  Inside(W, n)
BY DEF Enumerates, Inside, IsRun

\* A shorter list is inside, too.
LEMMA InsideShrinks ==
  ASSUME NEW n \in Nat, NEW V \in Seq(Pairs), NEW r \in Pairs, Inside(Append(V, r), n)
  PROVE  Inside(V, n)
<1> DEFINE W == Append(V, r)
<1>1. Len(V) \in Nat /\ Grown(W, V, Len(V), r)
  BY PairAdded
<1> HIDE DEF W
<1>2. \A k \in 1..Len(V) : k \in 1..Len(W) /\ W[k] = V[k]
  BY <1>1 DEF Grown
<1> QED BY <1>2 DEF Inside, W

\* As many words as runs.
LEMMA ListedTyped ==
  ASSUME NEW s, NEW n \in Nat, \A i \in 1..n : s[i] \in Nat,
         NEW W, Inside(W, n)
  PROVE  Listed(s, W) \in Seq(Seq(Nat)) /\ Len(Listed(s, W)) = Len(W)
<1> DEFINE m == Len(W)
           w == Listed(s, W)
           D == Seq(Nat)
<1>1. W \in Seq(Pairs)
  BY DEF Inside
<1>2. m \in Nat /\ \A k \in 1..m : W[k] \in Pairs
  <2>1. W \in [1..m -> Pairs] /\ m \in Nat
    BY <1>1, LenProperties
  <2> QED BY <2>1
<1>3. \A k \in 1..m : WordOf(s, W[k]) \in D
  <2>1. ASSUME NEW k \in 1..m
        PROVE  WordOf(s, W[k]) \in D
    <3> DEFINE a == W[k][1]
               z == W[k][2]
    <3>1. W[k] = <<a, z>>
      BY <1>2 DEF Pairs
    <3>2. a \in 1..n /\ z \in a..n
      BY DEF Inside
    <3> HIDE DEF a, z
    <3>3. WordOf(s, <<a, z>>) \in Seq(Nat)
      BY <3>2, WordTyped
    <3> QED BY <3>1, <3>3
  <2> QED BY <2>1
<1>4. w = [k \in 1..m |-> WordOf(s, W[k])]
  BY DEF Listed
<1> HIDE DEF m, w, D
<1>5. w \in [1..m -> D]
  BY <1>3, <1>4
<1>6. IsString(w, D, m)
  BY <1>2, <1>5, FunctionIsString
<1> QED BY <1>6 DEF IsString, m, w, D

\* As many values as places, if no value is there twice.
LEMMA CountValues ==
  ASSUME NEW n \in Nat, NEW W, \A i, j \in 1..n : W[i] = W[j] => i = j
  PROVE  Cardinality({W[i] : i \in 1..n}) = n
<1> DEFINE D == 1..n
           R == {W[i] : i \in D}
           f == [i \in D |-> W[i]]
<1>1. f \in [D -> R]
  OBVIOUS
<1>2. \A i, j \in D : f[i] = f[j] => i = j
  OBVIOUS
<1>3. \A r \in R : \E i \in D : f[i] = r
  OBVIOUS
<1> HIDE DEF f, R
<1>4. f \in Bijection(D, R)
  BY <1>1, <1>2, <1>3, Fun_IsBij
<1>5. ExistsBijection(1..n, R)
  BY <1>4, Fun_ExistsBij DEF D
<1>6. Cardinality(R) = n
  BY <1>5, FS_CountingElements
<1> QED BY <1>6 DEF R, D

\* The words of a name are the words its runs are.
LEMMA WordsAreListed ==
  ASSUME NEW s, Len(s) \in Nat, NEW W, Enumerates(W, s, Len(s))
  PROVE  Words(s) = Listed(s, W)
<1> DEFINE n == Len(s)
           m == Len(W)
           R == Runs(s)
           Place(w) == Cardinality({v \in R : v[1] <= w[1]})
           run(k) == CHOOSE w \in R : Place(w) = k
<1>1. /\ W \in Seq(Pairs) /\ m \in Nat
      /\ \A k \in 1..m : IsRun(s, n, W[k][1], W[k][2])
      /\ \A a, z : IsRun(s, n, a, z) => \E k \in 1..m : W[k] = <<a, z>>
      /\ \A j, k \in 1..m : j < k => W[j][1] < W[k][1]
  BY LenProperties DEF Enumerates
<1>2. Words(s) = [k \in 1..Cardinality(R) |-> WordOf(s, run(k))]
  BY DEF Words, WordOf
<1>3. \A a, z : <<a, z>> \in R <=> IsRun(s, n, a, z)
  BY DEF Runs, IsRun
<1>4. R \subseteq Pairs
  BY DEF Runs, Pairs
<1>5. \A k \in 1..m : W[k] \in Pairs
  <2>1. W \in [1..m -> Pairs]
    BY <1>1, LenProperties
  <2> QED BY <2>1
<1> HIDE DEF n, m, R
<1>6. \A p \in Pairs : p = <<p[1], p[2]>> /\ p[1] \in Nat /\ p[2] \in Nat
  BY DEF Pairs
<1>7. R = {W[k] : k \in 1..m}
  <2>1. ASSUME NEW r \in R
        PROVE  r \in {W[k] : k \in 1..m}
    <3>1. r = <<r[1], r[2]>>
      BY <1>4, <1>6
    <3>2. IsRun(s, n, r[1], r[2])
      BY <1>3, <3>1
    <3>3. \E k \in 1..m : W[k] = r
      BY <1>1, <3>1, <3>2
    <3> QED BY <3>3
  <2>2. ASSUME NEW k \in 1..m
        PROVE  W[k] \in R
    <3>1. W[k] = <<W[k][1], W[k][2]>>
      BY <1>5, <1>6
    <3>2. <<W[k][1], W[k][2]>> \in R
      BY <1>1, <1>3
    <3> QED BY <3>1, <3>2
  <2> QED BY <2>1, <2>2
<1>8. \A j, k \in 1..m : W[j] = W[k] => j = k
  <2>1. ASSUME NEW j \in 1..m, NEW k \in 1..m, W[j] = W[k], j # k
        PROVE  FALSE
    <3>1. j < k \/ k < j
      BY <1>1, <2>1
    <3>2. W[j][1] < W[k][1] \/ W[k][1] < W[j][1]
      BY <1>1, <3>1
    <3>3. W[j][1] \in Nat /\ W[k][1] \in Nat
      BY <1>5, <1>6
    <3> QED BY <2>1, <3>2, <3>3
  <2> QED BY <2>1
<1>9. Cardinality(R) = m
  <2>1. m \in Nat
    BY <1>1
  <2>2. Cardinality({W[k] : k \in 1..m}) = m
    BY <1>8, <2>1, CountValues
  <2> QED BY <1>7, <2>2
<1>10. ASSUME NEW k \in 1..m
       PROVE  Place(W[k]) = k
  <2> DEFINE T == {v \in R : v[1] <= W[k][1]}
  <2>1. T = {W[j] : j \in 1..k}
    <3>1. \A j \in 1..k : j \in 1..m /\ (j < k \/ j = k)
      BY <1>1
    <3>2. ASSUME NEW j \in 1..k
          PROVE  W[j] \in T
      <4>1. j \in 1..m /\ (j < k \/ j = k)
        BY <3>1
      <4>2. W[j][1] < W[k][1] \/ W[j][1] = W[k][1]
        BY <1>1, <4>1
      <4>3. W[j] \in R /\ W[j][1] \in Nat /\ W[k][1] \in Nat
        BY <1>5, <1>6, <1>7, <4>1
      <4> QED BY <4>2, <4>3
    <3>3. ASSUME NEW v \in T
          PROVE  v \in {W[j] : j \in 1..k}
      <4>1. PICK j \in 1..m : v = W[j]
        BY <1>7
      <4>2. W[j][1] <= W[k][1] /\ W[j][1] \in Nat /\ W[k][1] \in Nat
        BY <1>5, <1>6, <4>1
      <4>3. ~(k < j)
        <5>1. k < j => W[k][1] < W[j][1]
          BY <1>1
        <5> QED BY <4>2, <5>1
      <4>4. j \in 1..k
        BY <1>1, <4>3
      <4> QED BY <4>1, <4>4
    <3> QED BY <3>2, <3>3
  <2>2. \A i, j \in 1..k : W[i] = W[j] => i = j
    <3>1. \A j \in 1..k : j \in 1..m
      BY <1>1
    <3> QED BY <1>8, <3>1
  <2>3. k \in Nat
    BY <1>1
  <2>4. Cardinality({W[j] : j \in 1..k}) = k
    BY <2>2, <2>3, CountValues
  <2> QED BY <2>1, <2>4
<1>11. ASSUME NEW k \in 1..m
       PROVE  run(k) = W[k]
  <2>1. W[k] \in R /\ Place(W[k]) = k
    BY <1>7, <1>10
  <2> HIDE DEF Place
  <2>2. run(k) \in R /\ Place(run(k)) = k
    BY <2>1
  <2> HIDE DEF run
  <2>3. PICK j \in 1..m : run(k) = W[j]
    BY <1>7, <2>2
  <2>4. Place(W[j]) = j
    BY <1>10
  <2>5. j = k
    BY <2>2, <2>3, <2>4
  <2> QED BY <2>3, <2>5
<1>12. Listed(s, W) = [k \in 1..m |-> WordOf(s, W[k])]
  BY DEF Listed, m
<1> HIDE DEF Place, run
<1>13. \A k \in 1..m : WordOf(s, run(k)) = WordOf(s, W[k])
  BY <1>11
<1>14. [k \in 1..m |-> WordOf(s, run(k))] = [k \in 1..m |-> WordOf(s, W[k])]
  BY <1>13, Zenon
<1> QED BY <1>2, <1>9, <1>12, <1>14

-----------------------------------------------------------------------------
(* A name read character by character.                                      *)

\* After n characters, W are the runs so far and x is what is written: nothing
\* yet, a word that may go on, or words and a blank.
Nothing(s, n, W, x) == W = <<>> /\ x = <<>> /\ (n = 0 \/ s[n] = Blank)
InWord(s, n, W, x) ==
  /\ n > 0 /\ s[n] # Blank
  /\ \E V \in Seq(Pairs), a \in 1..n : W = Append(V, <<a, n>>)
  /\ Spelled(x, Listed(s, W))
Between(s, n, W, x) ==
  /\ n > 0 /\ s[n] = Blank /\ W # <<>>
  /\ \E y : x = Append(y, Blank) /\ Spelled(y, Listed(s, W))
Reading(s, n, W, x) ==
  /\ Enumerates(W, s, n)
  /\ Nothing(s, n, W, x) \/ InWord(s, n, W, x) \/ Between(s, n, W, x)

\* The characters of a name: blanks and what has a small letter.
IsLetters(s, n) == \A i \in 1..n : s[i] \in Nat /\ (s[i] = Blank \/ lower(s[i]) # Blank)

\* The small letter of a character is a character.
LEMMA LettersLower ==
  ASSUME NEW s, NEW n \in Nat, IsLetters(s, n), NEW i \in 1..n
  PROVE  s[i] \in Nat /\ lower(s[i]) \in Nat /\ (s[i] # Blank => lower(s[i]) # Blank)
<1>1. s[i] \in Nat /\ (s[i] = Blank \/ lower(s[i]) # Blank)
  BY DEF IsLetters
<1> QED BY <1>1 DEF lower

\* Nothing is read yet, and one character more is.
LEMMA NothingReads ==
  ASSUME NEW s, NEW n \in Nat, IsLetters(s, n + 1), NEW W, NEW x,
         Enumerates(W, s, n), Nothing(s, n, W, x)
  PROVE  \E X : Reading(s, n + 1, X, NormStep(x, s[n + 1]))
<1> DEFINE c == s[n + 1]
           m == n + 1
<1>0. m \in Nat /\ m \in 1..m /\ m > 0 /\ IsLetters(s, m) /\ c = s[m]
  OBVIOUS
<1> HIDE DEF m
<1>1. c \in Nat /\ lower(c) \in Nat /\ (c # Blank => lower(c) # Blank)
  BY <1>0, LettersLower
<1>2. CASE c = Blank
  <2>1. Enumerates(W, s, m)
    BY <1>2, EnumBlank DEF m
  <2>2. NormStep(x, c) = x
    BY <1>2 DEF Nothing, NormStep
  <2>3. Nothing(s, m, W, x)
    BY <1>0, <1>2 DEF Nothing
  <2> QED BY <2>1, <2>2, <2>3 DEF Reading, m
<1>3. CASE c # Blank
  <2> DEFINE r == <<m, m>>
             X == Append(W, r)
             d == lower(c)
             u == Append(<<>>, d)
  <2>1. Enumerates(X, s, m)
    BY <1>3, EnumStart DEF Nothing, m
  <2>2. NormStep(x, c) = u
    BY <1>3 DEF NormStep, Nothing
  <2>3. W \in Seq(Pairs) /\ r \in Pairs /\ W = <<>>
    BY <1>0 DEF Nothing, Enumerates, Pairs
  <2>4. Listed(s, X) = Append(Listed(s, W), WordOf(s, r))
    BY <2>3, ListedGrows
  <2>5. Listed(s, W) = <<>>
    BY <2>3 DEF Listed
  <2>6. WordOf(s, r) = u
    BY <1>0, WordStarts DEF m
  <2>7. Spelled(u, Append(<<>>, u))
    BY <1>1, <1>3, SpellFirst
  <2>8. Spelled(u, Listed(s, X))
    BY <2>4, <2>5, <2>6, <2>7
  <2>9. \E V \in Seq(Pairs), a \in 1..m : X = Append(V, <<a, m>>)
    BY <1>0, <2>3
  <2> HIDE DEF X, u, r
  <2>10. InWord(s, m, X, u)
    BY <1>0, <1>3, <2>8, <2>9 DEF InWord
  <2> QED BY <2>1, <2>2, <2>10 DEF Reading, m
<1> QED BY <1>2, <1>3

\* A word is being read, and one character more is.
LEMMA InWordReads ==
  ASSUME NEW s, NEW n \in Nat, IsLetters(s, n + 1), NEW W, NEW x,
         Enumerates(W, s, n), InWord(s, n, W, x)
  PROVE  \E X : Reading(s, n + 1, X, NormStep(x, s[n + 1]))
<1> DEFINE c == s[n + 1]
           m == n + 1
<1>0. m \in Nat /\ m \in 1..m /\ m > 0 /\ IsLetters(s, m) /\ c = s[m]
  OBVIOUS
<1> HIDE DEF m
<1>1. c \in Nat /\ lower(c) \in Nat /\ (c # Blank => lower(c) # Blank)
  BY <1>0, LettersLower
<1>4. Spelled(x, Listed(s, W)) /\ n # 0 /\ s[n] # Blank
  BY DEF InWord
<1>5. PICK V \in Seq(Pairs), a \in 1..n : W = Append(V, <<a, n>>)
  BY DEF InWord
<1>2. CASE c = Blank
  <2>1. Enumerates(W, s, m)
    BY <1>2, EnumBlank DEF m
  <2>2. NormStep(x, c) = Append(x, Blank)
    BY <1>2, <1>4 DEF Spelled, NormStep
  <2>3. W # <<>>
    <3> DEFINE q == <<a, n>>
    <3>1. q \in Pairs
      BY DEF Pairs
    <3> HIDE DEF q
    <3>2. Append(V, q) # <<>>
      BY <3>1, FrontLast
    <3> QED BY <1>5, <3>2 DEF q
  <2>4. Between(s, m, W, Append(x, Blank))
    BY <1>0, <1>2, <1>4, <2>3 DEF Between
  <2> QED BY <2>1, <2>2, <2>4 DEF Reading, m
<1>3. CASE c # Blank
  <2> DEFINE q == <<a, n>>
             r == <<a, m>>
             X == Append(V, r)
             d == lower(c)
             v == Listed(s, V)
             u == WordOf(s, q)
  <2>0. a \in Nat
    OBVIOUS
  <2>1. Enumerates(X, s, m)
    BY <1>3, <1>4, <1>5, <2>0, EnumGrow DEF m
  <2>2. NormStep(x, c) = Append(x, d)
    BY <1>3 DEF NormStep
  <2>3. r \in Pairs /\ q \in Pairs
    BY <1>0, <2>0 DEF Pairs
  <2>4. Listed(s, X) = Append(v, WordOf(s, r)) /\ Listed(s, W) = Append(v, u)
    BY <1>5, <2>3, ListedGrows
  <2>5. \A i \in 1..n + 1 : s[i] \in Nat
    BY <1>0 DEF IsLetters, m
  <2>6. WordOf(s, r) = Append(u, d)
    BY <2>5, WordGrows DEF m
  <2>7. \A i \in 1..n : s[i] \in Nat
    BY <2>5
  <2>8. v \in Seq(Seq(Nat))
    <3>1. Inside(W, n)
      BY EnumInside
    <3>2. Inside(V, n)
      BY <1>5, <2>3, <3>1, InsideShrinks
    <3> QED BY <2>7, <3>2, ListedTyped
  <2>9. u \in Seq(Nat)
    <3>1. n \in a..n
      OBVIOUS
    <3> QED BY <2>7, <3>1, WordTyped
  <2>10. \E U \in Seq(Pairs), b \in 1..m : X = Append(U, <<b, m>>)
    <3>1. a \in 1..m
      BY DEF m
    <3> QED BY <3>1
  <2> HIDE DEF X, u, r, q, v, d
  <2>11. Spelled(Append(x, d), Append(v, Append(u, d)))
    <3>1. d \in Nat /\ d # Blank
      BY <1>1, <1>3 DEF d
    <3>2. Spelled(x, Append(v, u))
      BY <1>4, <2>4
    <3> QED BY <2>8, <2>9, <3>1, <3>2, SpellGrow
  <2>12. Spelled(Append(x, d), Listed(s, X))
    BY <2>4, <2>6, <2>11
  <2>13. InWord(s, m, X, Append(x, d))
    BY <1>0, <1>3, <2>10, <2>12 DEF InWord
  <2> QED BY <2>1, <2>2, <2>13 DEF Reading, m
<1> QED BY <1>2, <1>3

\* A word has ended, and one character more is read.
LEMMA BetweenReads ==
  ASSUME NEW s, NEW n \in Nat, IsLetters(s, n + 1), NEW W, NEW x,
         Enumerates(W, s, n), Between(s, n, W, x)
  PROVE  \E X : Reading(s, n + 1, X, NormStep(x, s[n + 1]))
<1> DEFINE c == s[n + 1]
           m == n + 1
<1>0. m \in Nat /\ m \in 1..m /\ m > 0 /\ IsLetters(s, m) /\ c = s[m]
  OBVIOUS
<1> HIDE DEF m
<1>1. c \in Nat /\ lower(c) \in Nat /\ (c # Blank => lower(c) # Blank)
  BY <1>0, LettersLower
<1>4. W # <<>> /\ s[n] = Blank /\ n > 0
  BY DEF Between
<1>5. PICK y : x = Append(y, Blank) /\ Spelled(y, Listed(s, W))
  BY DEF Between
<1>6. x # <<>> /\ Last(x) = Blank
  <2> DEFINE e == Blank
  <2>1. e \in Nat /\ y \in Seq(Nat)
    BY <1>5 DEF Blank, Spelled
  <2> HIDE DEF e
  <2>2. Append(y, e) # <<>> /\ Last(Append(y, e)) = e
    BY <2>1, FrontLast
  <2> QED BY <1>5, <2>2 DEF e
<1>2. CASE c = Blank
  <2>1. Enumerates(W, s, m)
    BY <1>2, EnumBlank DEF m
  <2>2. NormStep(x, c) = x
    BY <1>2, <1>6 DEF NormStep
  <2>4. Between(s, m, W, x)
    BY <1>0, <1>2, <1>4, <1>5 DEF Between
  <2> QED BY <2>1, <2>2, <2>4 DEF Reading, m
<1>3. CASE c # Blank
  <2> DEFINE r == <<m, m>>
             X == Append(W, r)
             d == lower(c)
             w == Listed(s, W)
             u == Append(<<>>, d)
  <2>1. Enumerates(X, s, m)
    BY <1>3, <1>4, EnumStart DEF m
  <2>2. NormStep(x, c) = Append(x, d)
    BY <1>3 DEF NormStep
  <2>3. W \in Seq(Pairs) /\ r \in Pairs
    BY <1>0 DEF Enumerates, Pairs
  <2>4. Listed(s, X) = Append(w, WordOf(s, r))
    BY <2>3, ListedGrows
  <2>5. WordOf(s, r) = u
    BY <1>0, WordStarts DEF m
  <2>6. w # <<>>
    <3>1. Inside(W, n)
      BY EnumInside
    <3>2. \A i \in 1..n : s[i] \in Nat
      BY <1>0 DEF IsLetters, m
    <3>3. Len(w) = Len(W)
      BY <3>1, <3>2, ListedTyped
    <3> HIDE DEF w
    <3>4. Len(W) # 0
      BY <1>4, <2>3, EmptySeq
    <3> QED BY <3>3, <3>4
  <2>7. \E U \in Seq(Pairs), b \in 1..m : X = Append(U, <<b, m>>)
    BY <1>0, <2>3
  <2> HIDE DEF X, r, d, w
  <2>8. Spelled(Append(x, d), Append(w, u))
    <3>1. d \in Nat /\ d # Blank
      BY <1>1, <1>3 DEF d
    <3>2. Spelled(y, w)
      BY <1>5 DEF w
    <3> QED BY <1>5, <2>6, <3>1, <3>2, SpellStart
  <2>9. Spelled(Append(x, d), Listed(s, X))
    BY <2>4, <2>5, <2>8
  <2>10. InWord(s, m, X, Append(x, d))
    BY <1>0, <1>3, <2>7, <2>9 DEF InWord
  <2> QED BY <2>1, <2>2, <2>10 DEF Reading, m
<1> QED BY <1>2, <1>3

-----------------------------------------------------------------------------
(* The verdict.                                                             *)

\* The characters of a name.
LEMMA NamesAreLetters ==
  ASSUME NEW s, IsName(s)
  PROVE  s \in Seq(Nat) /\ Len(s) \in Nat /\ IsLetters(s, Len(s))
<1> DEFINE n == Len(s)
<1>1. s \in Seq(Nat) /\ \A i \in 1..n : s[i] = Blank \/ lower(s[i]) # Blank
  BY DEF IsName
<1>2. n \in Nat /\ s \in [1..n -> Nat]
  BY <1>1, LenProperties
<1> HIDE DEF n
<1>3. IsLetters(s, n)
  BY <1>1, <1>2 DEF IsLetters
<1> QED BY <1>1, <1>2, <1>3 DEF n

\* All of a name is read.
LEMMA NamesRead ==
  ASSUME NEW s, IsName(s), NEW f, NormSteps(f, s, Len(s))
  PROVE  \E W : Reading(s, Len(s), W, f[Len(s)])
<1> DEFINE n == Len(s)
           Good == {i \in Nat : i <= n => \E W : Reading(s, i, W, f[i])}
<1>1. n \in Nat /\ s \in Seq(Nat) /\ IsLetters(s, n)
  BY NamesAreLetters
<1>2. f[0] = <<>> /\ \A i \in 1..n : f[i] = NormStep(f[i - 1], s[i])
  BY DEF NormSteps
<1> HIDE DEF n
<1>3. 0 \in Good
  <2>1. Enumerates(<<>>, s, 0)
    BY EnumNothing
  <2>2. Nothing(s, 0, <<>>, f[0])
    BY <1>2 DEF Nothing
  <2>3. Reading(s, 0, <<>>, f[0])
    BY <2>1, <2>2 DEF Reading
  <2> QED BY <2>3
<1>4. ASSUME NEW i \in Nat, i \in Good
      PROVE  i + 1 \in Good
  <2> SUFFICES ASSUME i + 1 <= n
               PROVE  \E W : Reading(s, i + 1, W, f[i + 1])
    OBVIOUS
  <2>1. i <= n /\ i + 1 \in 1..n /\ (i + 1) - 1 = i
    BY <1>1
  <2>2. PICK W : Reading(s, i, W, f[i])
    BY <1>4, <2>1
  <2>3. f[i + 1] = NormStep(f[i], s[i + 1])
    <3>1. f[i + 1] = NormStep(f[(i + 1) - 1], s[i + 1])
      BY <1>2, <2>1
    <3> QED BY <2>1, <3>1
  <2>4. IsLetters(s, i + 1)
    <3>1. \A k \in 1..i + 1 : k \in 1..n
      BY <1>1, <2>1
    <3> QED BY <1>1, <3>1 DEF IsLetters
  <2>5. Enumerates(W, s, i)
    BY <2>2 DEF Reading
  <2>6. \E X : Reading(s, i + 1, X, NormStep(f[i], s[i + 1]))
    <3>1. CASE Nothing(s, i, W, f[i])
      BY <2>4, <2>5, <3>1, NothingReads
    <3>2. CASE InWord(s, i, W, f[i])
      BY <2>4, <2>5, <3>2, InWordReads
    <3>3. CASE Between(s, i, W, f[i])
      BY <2>4, <2>5, <3>3, BetweenReads
    <3> QED BY <2>2, <3>1, <3>2, <3>3 DEF Reading
  <2> QED BY <2>3, <2>6
<1>5. Nat \subseteq Good
  <2> HIDE DEF Good
  <2> QED BY <1>3, <1>4, NumberInduction
<1>6. \E W : Reading(s, n, W, f[n])
  BY <1>1, <1>5
<1> QED BY <1>6 DEF n

\* A normalized name is its words with a blank between two of them.
LEMMA NormalizedIs ==
  ASSUME NEW s, IsName(s)
  PROVE  \/ Words(s) = <<>> /\ normalizePersonName(s) = <<>>
         \/ Words(s) # <<>> /\ Spelled(normalizePersonName(s), Words(s))
<1> DEFINE n == Len(s)
           z == normalizePersonName(s)
<1>1. n \in Nat /\ s \in Seq(Nat) /\ IsLetters(s, n)
  BY NamesAreLetters
<1>2. PICK f : NormSteps(f, s, n) /\ z = Trimmed(f[n])
  BY <1>1, NormalizeIs
<1> DEFINE x == f[n]
<1>3. PICK W : Reading(s, n, W, x)
  BY <1>2, NamesRead
<1> HIDE DEF n, z
<1>4. Enumerates(W, s, n) /\ W \in Seq(Pairs)
  BY <1>3 DEF Reading, Enumerates
<1>5. Words(s) = Listed(s, W)
  BY <1>1, <1>4, WordsAreListed DEF n
<1>6. W # <<>> => Listed(s, W) # <<>>
  <2>1. Inside(W, n)
    BY <1>1, <1>4, EnumInside
  <2>2. \A i \in 1..n : s[i] \in Nat
    BY <1>1 DEF IsLetters
  <2>3. Len(Listed(s, W)) = Len(W)
    BY <1>1, <2>1, <2>2, ListedTyped
  <2> DEFINE w == Listed(s, W)
  <2>4. Len(w) = Len(W)
    BY <2>3
  <2> HIDE DEF w
  <2>5. W # <<>> => w # <<>>
    BY <1>4, <2>4, EmptySeq
  <2> QED BY <2>5 DEF w
<1> HIDE DEF x
<1>7. z = Trimmed(x)
  BY <1>2 DEF x
<1>8. CASE Nothing(s, n, W, x)
  <2>1. W = <<>> /\ x = <<>>
    BY <1>8 DEF Nothing
  <2>2. Listed(s, <<>>) = <<>>
    BY DEF Listed
  <2>3. z = <<>>
    BY <1>7, <2>1 DEF Trimmed
  <2> QED BY <1>5, <2>1, <2>2, <2>3 DEF z
<1>9. CASE InWord(s, n, W, x)
  <2>1. Spelled(x, Listed(s, W)) /\ \E V \in Seq(Pairs), a \in 1..n : W = Append(V, <<a, n>>)
    BY <1>9 DEF InWord
  <2>2. z = x
    BY <1>7, <2>1 DEF Trimmed, Spelled
  <2>3. W # <<>>
    <3>1. PICK V \in Seq(Pairs), a \in 1..n : W = Append(V, <<a, n>>)
      BY <2>1
    <3> DEFINE q == <<a, n>>
    <3>2. q \in Pairs
      BY <1>1 DEF Pairs
    <3> HIDE DEF q
    <3>3. Append(V, q) # <<>>
      BY <3>2, FrontLast
    <3> QED BY <3>1, <3>3 DEF q
  <2> QED BY <1>5, <1>6, <2>1, <2>2, <2>3 DEF z
<1>10. CASE Between(s, n, W, x)
  <2>1. PICK y : x = Append(y, Blank) /\ Spelled(y, Listed(s, W))
    BY <1>10 DEF Between
  <2>2. W # <<>>
    BY <1>10 DEF Between
  <2> DEFINE e == Blank
  <2>3. e \in Nat /\ y \in Seq(Nat)
    BY <2>1 DEF Blank, Spelled
  <2> HIDE DEF e
  <2>4. Append(y, e) # <<>> /\ Last(Append(y, e)) = e /\ Front(Append(y, e)) = y
    BY <2>3, FrontLast
  <2>5. z = y
    BY <1>7, <2>1, <2>4 DEF Trimmed, e
  <2> QED BY <1>5, <1>6, <2>1, <2>2, <2>5 DEF z
<1> QED BY <1>3, <1>8, <1>9, <1>10 DEF Reading

\* What follows for what is spoken, for equal names and for tokens.
LEMMA NormalizedSpeaks ==
  ASSUME NEW s, IsName(s)
  PROVE  /\ normalizePersonName(s) = Spoken(s)
         /\ normalizePersonName(s) \in Seq(Nat)
         /\ normalizePersonName(s) = <<>> <=> Words(s) = <<>>
         /\ Words(s) # <<>> => Fields(normalizePersonName(s)) = Words(s)
         /\ Words(s) \in Seq(Seq(Nat))
<1>1. Spoken(s) = Joint(Words(s))
  BY DEF Spoken
<1>2. CASE Words(s) = <<>> /\ normalizePersonName(s) = <<>>
  BY <1>1, <1>2, JointOfNothing
<1>3. CASE Words(s) # <<>> /\ Spelled(normalizePersonName(s), Words(s))
  BY <1>1, <1>3 DEF Spelled
<1> QED BY <1>2, <1>3, NormalizedIs

\* The code's verdict is the plain one.
THEOREM VerdictsAgree ==
  ASSUME NEW p, IsName(p), NEW a, IsName(a)
  PROVE  EvaluateVoP(p, a) = Verdict(p, a)
<1> DEFINE x == normalizePersonName(p)
           y == normalizePersonName(a)
           v == Words(p)
           w == Words(a)
           t == Threshold(y)
           close == levenshtein(x, y) <= t
           same == sameNameTokens(x, y)
           near == ErrorsApart(Spoken(p), Spoken(a),
                               IF Len(Spoken(a)) < 15 THEN 2
                               ELSE Len(Spoken(a)) \div 5)
           turned == Rearranged(v, w)
<1>1. /\ x = Spoken(p) /\ x \in Seq(Nat) /\ (x = <<>> <=> v = <<>>)
      /\ (v # <<>> => Fields(x) = v) /\ v \in Seq(Seq(Nat))
  BY NormalizedSpeaks
<1>2. /\ y = Spoken(a) /\ y \in Seq(Nat) /\ (y = <<>> <=> w = <<>>)
      /\ (w # <<>> => Fields(y) = w) /\ w \in Seq(Seq(Nat))
  BY NormalizedSpeaks
<1>3. EvaluateVoP(p, a) = IF a = NoName \/ x = <<>> THEN "OTHER"
                          ELSE IF x = y THEN "MATCH"
                          ELSE IF close \/ same THEN "CLOSE_MATCH"
                          ELSE "NO_MATCH"
  BY DEF EvaluateVoP
<1>4. Verdict(p, a) = IF a = NoName \/ v = <<>> THEN "OTHER"
                      ELSE IF v = w THEN "MATCH"
                      ELSE IF near \/ turned THEN "CLOSE_MATCH"
                      ELSE "NO_MATCH"
  BY DEF Verdict
<1>5. v # <<>> => (x = y <=> v = w)
  <2>1. v = w => x = y
    BY <1>1, <1>2 DEF Spoken
  <2>2. ASSUME v # <<>>, x = y
        PROVE  v = w
    <3>1. w # <<>>
      BY <1>1, <1>2, <2>2
    <3> QED BY <1>1, <1>2, <2>2, <3>1
  <2> QED BY <2>1, <2>2
<1>6. t \in Nat /\ t = IF Len(Spoken(a)) < 15 THEN 2 ELSE Len(Spoken(a)) \div 5
  <2>1. Len(y) \in Nat
    BY <1>2, LenProperties
  <2>2. t = IF 2 > Len(y) \div 5 THEN 2 ELSE Len(y) \div 5
    BY DEF Threshold
  <2> HIDE DEF y, t
  <2>3. t \in Nat /\ t = IF Len(y) < 15 THEN 2 ELSE Len(y) \div 5
    BY <2>1, <2>2
  <2> QED BY <1>2, <2>3
<1>7. close <=> near
  <2>1. near <=> ErrorsApart(x, y, t)
    BY <1>1, <1>2, <1>6
  <2> HIDE DEF x, y, t
  <2>2. levenshtein(x, y) <= t <=> ErrorsApart(x, y, t)
    BY <1>1, <1>2, <1>6, LevenshteinCountsErrors
  <2> QED BY <2>1, <2>2
<1> HIDE DEF close, near, t
<1>8. v # <<>> => (same <=> turned)
  <2>1. SUFFICES ASSUME v # <<>> PROVE same <=> turned
    OBVIOUS
  <2>2. Fields(x) = v /\ Fields(x) \in Seq(Seq(Nat))
    BY <1>1, <2>1
  <2>3. CASE w # <<>>
    <3>1. Fields(y) = w /\ Fields(y) \in Seq(Seq(Nat))
      BY <1>2, <2>3
    <3> HIDE DEF x, y, v, w
    <3>2. sameNameTokens(x, y) <=> Rearranged(Fields(x), Fields(y))
      BY <2>2, <3>1, TokensRearranged
    <3> QED BY <2>2, <3>1, <3>2
  <2>4. CASE w = <<>>
    <3>1. y = <<>> /\ Fields(y) = << <<>> >>
      BY <1>2, <2>4, FieldsOfNothing
    <3>2. Fields(y) \in Seq(Seq(Nat)) /\ Len(Fields(y)) = 1
      <4> DEFINE one == << <<>> >>
                 D == Seq(Nat)
                 e == <<>>
      <4>1. e \in D
        OBVIOUS
      <4>2. one = <<e>>
        OBVIOUS
      <4> HIDE DEF e, D
      <4>3. <<e>> \in Seq(D) /\ Len(<<e>>) = 1
        BY <4>1
      <4> HIDE DEF one
      <4>4. one \in Seq(D) /\ Len(one) = 1
        BY <4>2, <4>3
      <4> QED BY <3>1, <4>4 DEF one, D
    <3> HIDE DEF x, y, v, w
    <3>3. sameNameTokens(x, y) <=> Rearranged(Fields(x), Fields(y))
      BY <2>2, <3>2, TokensRearranged
    <3>4. ~Rearranged(Fields(x), Fields(y))
      <4> DEFINE r == Fields(x)
                 q == Fields(y)
      <4>1. Len(q) = 1
        BY <3>2
      <4> HIDE DEF r, q
      <4>2. ~(Len(r) = Len(q) /\ Len(r) > 1)
        <5>1. ASSUME Len(r) = Len(q)
              PROVE  ~(Len(r) > 1)
          <6>1. Len(r) = 1
            BY ONLY <4>1, <5>1, Zenon
          <6>2. ~(1 > 1)
            BY ONLY SMT
          <6> QED BY ONLY <6>1, <6>2, Zenon
        <5> QED BY <5>1, Zenon
      <4>3. ~Rearranged(r, q)
        BY <4>2, Zenon DEF Rearranged
      <4> QED BY <4>3 DEF r, q
    <3>5. ~Rearranged(v, w)
      <4>1. Len(w) = 0
        BY <2>4
      <4>2. ~(Len(v) = Len(w) /\ Len(v) > 1)
        BY <4>1
      <4> QED BY <4>2, Zenon DEF Rearranged
    <3> QED BY <3>3, <3>4, <3>5
  <2> QED BY <2>3, <2>4
<1> HIDE DEF same, turned, x, y, v, w
<1> QED BY <1>1, <1>3, <1>4, <1>5, <1>7, <1>8
===============================================================================
