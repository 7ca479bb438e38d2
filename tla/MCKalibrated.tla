---------------------------- MODULE MCKalibrated ----------------------------
EXTENDS KalibratedChain
MCK3 == {1, 2}
=============================================================================
