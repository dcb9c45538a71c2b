--------------------------- MODULE MCTelegramInbound ---------------------------
\* Two threads: the one that is still in its long poll when the application has
\* been stopped, and the one the next start creates.
EXTENDS TelegramInbound, TLC
=============================================================================
