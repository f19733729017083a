------------------------------ MODULE MCSdCard ------------------------------
EXTENDS SdCard
=============================================================================
