------------------------------- MODULE Listing -------------------------------
(***************************************************************************)
(* What a comprehension with a condition and sorted() make of a list.      *)
(* SelectSeq and SortSeq would do for TLC; the proof system cannot expand  *)
(* them, so both are written here with folds and functions.                *)
(***************************************************************************)
EXTENDS Integers, Sequences, FiniteSets, SequencesExt

\* An operator of a value that TLC computes once, wherever the operator needs it.
Once(value, Op(_)) == CHOOSE result \in {Op(v) : v \in {value}} : TRUE

\* Some numbers, from the least to the greatest.
Ascending(numbers) ==
    MapThenFoldSet(LAMBDA i, listed : Append(listed, i), <<>>, LAMBDA i : i, LAMBDA s : Max(s), numbers)

\* The elements of a sequence at some of its places, in its order.
Filtered(s, places) == LET at == Ascending(places) IN [k \in DOMAIN at |-> s[at[k]]]

\* The elements of a sequence, each after those at the places ahead of its own.
Arranged(s, ahead) ==
    [k \in DOMAIN s |-> s[CHOOSE i \in DOMAIN s : Cardinality(ahead[i]) = k - 1]]

\* sorted(): each element after those that come before it, equal ones as they were.
StableSort(s, Before(_, _)) ==
    Once(s, LAMBDA t : Arranged(t, [i \in DOMAIN t |-> {j \in DOMAIN t : Before(t[j], t[i]) \/ (~Before(t[i], t[j]) /\ j < i)}]))
=============================================================================
