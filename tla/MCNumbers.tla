------------------------------ MODULE MCNumbers -------------------------------
EXTENDS Numbers

AllExponents == -5 .. 5
AllDecimals == 0 .. 40
===============================================================================
