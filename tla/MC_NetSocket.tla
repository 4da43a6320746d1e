---------------------------- MODULE MC_NetSocket ----------------------------
(* Model-checking instance of NetSocket: two bytes from the peer, a send   *)
(* buffer of one byte (so a two-byte send is short and a full buffer       *)
(* would block), and zero, short and long reads and writes.                *)
EXTENDS NetSocket

MCLens == {0, 1, 2}

\* A keepalive idle time whose product with 1000 overflows int but not
\* 32 bits: the wrap is undone by the ULONG fields.
MCIdleSecs == {2147484}

\* The least idle time whose product with 1000 does not fit 32 bits.
MCOverflowIdleSecs == {4294968}
=============================================================================
