----------------------------- MODULE MCOpenList -----------------------------
(* Three slots, two values, three cells: inserts before, between and after *)
(* what is listed, and a slot captured again after it was closed.          *)
EXTENDS OpenList
==============================================================================
