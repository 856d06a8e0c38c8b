------------------------------ MODULE MCDossiers ------------------------------
EXTENDS Dossiers, TLC

CONSTANTS w1, w2, c1, c2
=============================================================================
