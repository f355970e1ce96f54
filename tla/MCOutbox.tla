------------------------------- MODULE MCOutbox -------------------------------
(* An instance of OutboxRelay for TLC: one target with two rows, so that a    *)
(* publisher can hold an old row while another holds a fresh one, the relay   *)
(* and a sweeper as publishers, and two consumers of the broker.              *)
EXTENDS OutboxRelay
=============================================================================
