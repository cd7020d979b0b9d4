------------------------------ MODULE MCForLoop ------------------------------
EXTENDS ForLoop

(* From past one end of the integers to past the other.                    *)
AllLimits == -2 * High - 3 .. 2 * High + 3
==============================================================================
