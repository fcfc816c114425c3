------------------------------ MODULE MCBufRing ------------------------------
EXTENDS BufRing, TLC

CONSTANTS t1, t2, t3, b1, b2, b3, b4

=============================================================================
