------------------------------- MODULE MCWire -------------------------------
(* The lengths of the source, and inputs at the boundaries of its arithmetic. *)
EXTENDS Wire

\* Two ids of the same millisecond.
MCUuids == {Repeat(1, 6) \o Repeat(7, 10), Repeat(1, 6) \o (Repeat(7, 9) \o <<8>>)}
MCKeys == {Repeat(3, 32), Repeat(4, 31) \o <<0>>}
MCSigs == {Repeat(5, 63) \o <<6>>}
MCTimes == {Repeat(0, 6), Repeat(255, 6)}
MCNicks == {<< >>, <<97>>, Repeat(98, 20)}
\* Around the ends of one and two blocks, with bytes that look like padding.
MCPlaintexts ==
  {Repeat(b, n) : b \in {0, 1, 16}, n \in {0, 1, 7, 15, 16, 17, 31, 32, 33}}
MCNumbers == {0, 256, 65535}
=============================================================================
