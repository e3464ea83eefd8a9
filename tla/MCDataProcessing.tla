-------------------------- MODULE MCDataProcessing --------------------------
EXTENDS DataProcessing, MCWords

MCOffsets == 0..Width-1
=============================================================================
