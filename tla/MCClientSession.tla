---------------------------- MODULE MCClientSession ----------------------------
EXTENDS ClientSession
=============================================================================
