------------------------------ MODULE MCRbTree ------------------------------
EXTENDS RbTree
=============================================================================
