------------------------------- MODULE MCPayees -------------------------------
(* Values for the customer-account instance.                                *)
EXTENDS Payees

MCPanPrefixes == {<<0, 0, 0, 0, 0, 0, 0, 0, 0, 0, 0, 0, 0, 0>>,
               <<9, 0, 9, 1, 2, 3, 4, 5, 6, 7, 8, 9, 0, 9>>}

\* "Aaa Bbb Bbb" and the fifteen characters of "Abcabca Cbacbac".
Repeated == <<101, 1, 1, 0, 102, 2, 2, 0, 102, 2, 2>>
Long == <<101, 2, 3, 1, 2, 3, 1, 0, 103, 2, 1, 3, 2, 1, 3>>
MCKnownNames == <<Repeated, Long>>

MCTypedNames ==
  << <<0, 1, 1, 1, 0, 0, 2, 2, 2, 0, 2, 2, 2, 0>>,         \* other marks
   <<102, 2, 2, 0, 101, 1, 1, 0, 102, 2, 2>>,            \* words rearranged
   <<101, 1, 1, 0, 101, 1, 1, 0, 102, 2, 2>>,            \* one word repeated
   <<103, 2, 1, 3, 2, 1, 3>>,                            \* one word only
   <<3, 3, 3, 0, 1, 1, 1, 0, 2, 2, 2, 0, 2, 2, 2>>,      \* one word more
   <<2, 2, 3, 2, 2, 3, 1, 0, 3, 2, 1, 3, 2, 1, 1>>,      \* three errors
   <<2, 2, 3, 2, 2, 3, 1, 0, 3, 2, 1, 3, 2, 2, 1>>,      \* four errors
   <<0>> >>                                                \* no letter

Symmetry == Permutations(Merchants) \cup Permutations(Requests)
=============================================================================
