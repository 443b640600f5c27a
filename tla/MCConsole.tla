----------------------------- MODULE MCConsole ------------------------------
\* Two columns and two rows of screen over a buffer of three rows: a line of
\* two echoed characters wraps, and six characters shift the buffer by up to
\* four rows.
EXTENDS Console

MCChar == {"a", "b", Space, Newline}
=============================================================================
