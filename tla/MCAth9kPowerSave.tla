-------------------------- MODULE MCAth9kPowerSave --------------------------
\* Two more threads beside ath9k_config and ath9k_tx; AutoSleep is false on
\* the chips that need the TIM interrupt.
EXTENDS Ath9kPowerSave
=============================================================================
