------------------------------ MODULE MCTriton ------------------------------
EXTENDS Triton

CONSTANTS e1, e2, e3, e4

FourExperts == {e1, e2, e3, e4}
=============================================================================
