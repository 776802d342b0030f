----------------------------- MODULE MCRequestPath -----------------------------
EXTENDS RequestPath
=============================================================================
