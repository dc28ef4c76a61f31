---------------------------- MODULE MCHistoryScreen ----------------------------
(***************************************************************************)
(* Three movements on two shelves, read one to a page.                     *)
(***************************************************************************)
EXTENDS HistoryScreen

CONSTANTS s1, s2
===============================================================================
