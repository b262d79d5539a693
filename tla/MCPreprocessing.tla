-------------------------- MODULE MCPreprocessing --------------------------
EXTENDS Preprocessing, MCSupplies
=============================================================================
