----------------------------- MODULE MCGpibDriver -----------------------------
EXTENDS GpibDriver

CONSTANTS a1, a2
==============================================================================
