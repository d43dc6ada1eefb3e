---------------------------- MODULE MCAth9kReset ----------------------------
\* Two transmit timeouts in a row stand for the five of MAX_GTT_CNT.
EXTENDS Ath9kReset
=============================================================================
