----------------------------- MODULE MCWlanSta -----------------------------
EXTENDS WlanSta

MCNonces == 1..31
MCGtks   == 1..8
=============================================================================
