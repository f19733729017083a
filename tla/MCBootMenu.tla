----------------------------- MODULE MCBootMenu -----------------------------
EXTENDS BootMenu
=============================================================================
