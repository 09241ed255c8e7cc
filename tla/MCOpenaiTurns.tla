--------------------------- MODULE MCOpenaiTurns ---------------------------
EXTENDS OpenaiTurns

CONSTANTS x, y

\* Two calls, the second of which an interrupt of the first prevents.
MCBatches == {<<x, y>>}
=============================================================================
