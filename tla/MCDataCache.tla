---------------------------- MODULE MCDataCache ------------------------------
(* DataCache over four lines, three of them in group 0.                    *)
EXTENDS DataCache

MCLines == {<<0, 0>>, <<0, 1>>, <<1, 0>>, <<2, 0>>}
=============================================================================
