---------------------------- MODULE MCAuthSessions ----------------------------
EXTENDS AuthSessions

CONSTANTS adm, goo, r1, r2, k1, k2, p1
=============================================================================
