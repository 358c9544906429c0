---------------------------- MODULE MCPortBitmap ----------------------------
(* PortBitmap on a small range: three clients, six ports, blocks of one to *)
(* three ports, so that fragmentation, wrap-around of the cursor and both  *)
(* passes of the search happen.                                            *)
EXTENDS PortBitmap
=============================================================================
