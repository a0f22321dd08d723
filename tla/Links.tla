-------------------------------- MODULE Links --------------------------------
(***************************************************************************)
(* Lists in memory, as phase 1 (src/src/pcb.c, src/src/asl.c) threads them *)
(* through fields of its tables: a link is a function from the entries of  *)
(* a table to entries or 0, which is NULL.                                 *)
(***************************************************************************)
EXTENDS Integers, FiniteSets

\* The entries met from x along a link until one is NULL or `stop' comes up:
\* where the loops over a list go.
Walk(link, x, stop) ==
  LET size == Cardinality(DOMAIN link)
      at[i \in 1 .. size] ==
        IF i = 1 THEN x
        ELSE IF at[i-1] \in {0, stop} THEN 0
        ELSE link[at[i-1]]
      met == {i \in 1 .. size : at[i] # 0}
  IN  [i \in 1 .. Cardinality(met) |-> at[i]]
==============================================================================
