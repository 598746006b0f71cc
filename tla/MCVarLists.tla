------------------------------ MODULE MCVarLists ------------------------------
(* VarLists with lists of one, three and five variables and a lazy list that *)
(* is merged when it gets its second: four names fill a scope from nothing   *)
(* to a merge.                                                               *)
EXTENDS VarLists

CONSTANT fn

MCNames   == 1 .. 4
MCBuiltIn == {3}
MCParamNames == {2, 3}
MCSizes   == <<1, 1, 3, 5>>
MCWatched == <<fn, 2>>
===============================================================================
