--------------------------- MODULE MCRateControl ---------------------------
\* Two buffers, frames of one byte and words of eight: the pool empties,
\* sent_byte wraps at the fourth frame and, with -c 0, sent_packet at the eighth.
EXTENDS RateControl

MCGarbage == {-1, NBuf, NBuf + 5}
=============================================================================
