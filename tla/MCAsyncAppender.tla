-------------------------- MODULE MCAsyncAppender --------------------------
EXTENDS AsyncAppender

\* Every producer logs a short and then a long line.
MCLineLength == [n \in 1..LinesPer |-> n]
=============================================================================
