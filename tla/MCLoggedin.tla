----------------------------- MODULE MCLoggedin -----------------------------
EXTENDS Loggedin
CONSTANTS p1, p2, p3, p4
=============================================================================
