------------------------------ MODULE MCConsole -------------------------------
(* Instances of Console for TLC: pages of one row.  Three rows on the events   *)
(* page, so that one can come in above two that are being paged through; two   *)
(* on the audit page, one of each business, with a filter.  Every list but the *)
(* longest may be emptied once.                                                *)
EXTENDS Console

Subject == <<"mill", "factory", "mill">>

Writes == [events |-> 3, audit |-> 2, conflicts |-> 2, preview |-> 2]

Clears == [events |-> 0, audit |-> 1, conflicts |-> 1, preview |-> 1]
================================================================================
