---------------------------- MODULE MCTxBufList ----------------------------
\* Four buffers stand for the eighty ath_tx_init allocates: an empty pool, a
\* full one, and a frame of two buffers coming back next to others.
EXTENDS TxBufList

CONSTANTS b1, b2, b3, b4
Buffers == {b1, b2, b3, b4}
=============================================================================
