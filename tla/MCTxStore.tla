----------------------------- MODULE MCTxStore -----------------------------
(* Small instances of TxStore. *)
EXTENDS TxStoreRefinement

CONSTANTS t1, t2

OneTx  == {t1}
TwoTxs == {t1, t2}
OnlyT1 == {t1}
OnlyT2 == {t2}
Nobody == {}

OneName    == <<"a">>
TwoNames   == <<"a", "b">>

NoCrash   == {}
Process   == {"process"}
Power     == {"power"}
Reordered == {"reordered"}

Symmetry == Permutations(TwoTxs)
=============================================================================
