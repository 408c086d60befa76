-------------------------- MODULE MCSectionFilters --------------------------
(* Small instances of SectionFilters for TLC: two tables of one PID with    *)
(* a filter for one of them and one for all (its Mask matches all table ids *)
(* that occur, 255 included); sections that span packets and share one.     *)
EXTENDS SectionFilters

MCKinds == {[pid |-> 1, tid |-> 1, len |-> 3], [pid |-> 1, tid |-> 2, len |-> 1]}
MCWishes == {[pid |-> 1, tids |-> {1}], [pid |-> 1, tids |-> {1, 2, 255}]}
=============================================================================
