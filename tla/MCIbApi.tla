------------------------------- MODULE MCIbApi -------------------------------
EXTENDS IbApi

CONSTANTS p1, p2, lf, off, own0, own1
==============================================================================
