------------------------------ MODULE MCReadout ------------------------------
EXTENDS Readout
=============================================================================
