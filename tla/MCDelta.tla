------------------------------ MODULE MCDelta ------------------------------
(* TLC instance of Delta: every pair of short files over two byte values.    *)
EXTENDS Delta
============================================================================
