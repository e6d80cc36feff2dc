----------------------------- MODULE MCOperatorRing -----------------------------
EXTENDS OperatorRing
===============================================================================
