-------------------------------- MODULE Sums --------------------------------
(***************************************************************************)
(* The sums of the database (SUM over the rows of a table) and of loops    *)
(* over collections: amounts reserved, quantities filled, costs spent,     *)
(* ledger lines.  They are over functions, and so can be reasoned about.   *)
(***************************************************************************)
EXTENDS Integers, FiniteSets, Folds

\* The sum of f[x] over the elements x of a finite set S.
SumOver(f, S) ==
    MapThenFoldSet(LAMBDA a, b : a + b, 0, LAMBDA x : f[x], LAMBDA s : CHOOSE x \in s : TRUE, S)
=============================================================================
