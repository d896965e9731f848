----------------------------- MODULE MCFileDrop -----------------------------
EXTENDS FileDrop

\* The third drop, which wraps the ring, is not combined with a crash.
Focus == drops > 2 => crashes = 0
=============================================================================
