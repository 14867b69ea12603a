------------------------------- MODULE Arrays -------------------------------
(***************************************************************************)
(* Methods of arrays that the control plane UI is built on, as recursive   *)
(* functions and counts, of which something can be proved.                 *)
(***************************************************************************)
EXTENDS Integers, Sequences, FiniteSets

\* filter: the elements of s that are in some set, in their order.
Filter(s, some) ==
  LET kept[i \in 0 .. Len(s)] ==
        IF i = 0 THEN <<>>
        ELSE IF s[i] \in some THEN Append(kept[i - 1], s[i]) ELSE kept[i - 1]
  IN  kept[Len(s)]

\* map.
Map(Op(_), s) == [i \in DOMAIN s |-> Op(s[i])]

\* sort by numbers, one for each place of s: elements of equal numbers keep their
\* order.
SortStable(s, key) ==
  LET NotAfter(i) == {j \in DOMAIN s : key[j] < key[i] \/ (key[j] = key[i] /\ j <= i)}
  IN  [k \in DOMAIN s |-> s[CHOOSE i \in DOMAIN s : Cardinality(NotAfter(i)) = k]]
=============================================================================
