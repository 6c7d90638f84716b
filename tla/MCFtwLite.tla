------------------------------ MODULE MCFtwLite ------------------------------
EXTENDS FtwLite

CONSTANT t1
=============================================================================
