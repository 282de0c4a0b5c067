----------------------------- MODULE TableScan -----------------------------
(***************************************************************************)
(* The broker keeps its state in tables of fixed size and searches them    *)
(* from index 0, "for (i = 0; i < MAX; i++) if (...)".  Such a search      *)
(* returns the first index of the set of matching ones, or nothing.        *)
(***************************************************************************)
EXTENDS Integers, FiniteSetsExt

CONSTANT None      \* absent value: a null pointer, index -1, an unused entry

First(I) == IF I = {} THEN None ELSE Min(I)
=============================================================================
