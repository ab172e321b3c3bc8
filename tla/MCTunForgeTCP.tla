---------------------------- MODULE MCTunForgeTCP ----------------------------
EXTENDS TunForgeTCP
=============================================================================
