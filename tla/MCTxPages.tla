----------------------------- MODULE MCTxPages ------------------------------
(* Two instances of TxStore that share out pages: in one, two transactions   *)
(* fill and empty two collections, one creating and one dropping; in the     *)
(* other both create, and the table has room for one collection.             *)
EXTENDS MCTxStore

VARIABLE part

Full == INSTANCE TxStore WITH MaxCols <- 1, Creators <- TwoTxs, Droppers <- OnlyT1

PagesInit == part \in {"drop", "full"} /\ Init
PagesNext == /\ UNCHANGED part
             /\ \/ part = "drop" /\ Next
                \/ part = "full" /\ Full!Next
PagesSpec == PagesInit /\ [][PagesNext]_<<part, vars>>

\* Every page has one owner, none is lost, and the collection table never holds more
\* than fits its page: see TxStore.
PagesAccounted == /\ part = "drop" => OneOwner /\ NoLeak
                  /\ part = "full" => Full!OneOwner /\ Full!NoLeak /\ Full!TableFits
=============================================================================
