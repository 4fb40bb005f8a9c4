---------------------------- MODULE MC_RegisterStore ----------------------------
(* Configurations for RegisterStore. *)
EXTENDS RegisterStore

Entry(s, r, n, c, k) == [slave |-> s, reg |-> r, len |-> n, cmd |-> c, kind |-> k]

\* Two slaves: a 32 bit value that is said to be longer than a slot, a coil
\* configured as one, and a text, at the same register of both.
PlainConfig == << Entry(1, 0, 3, 3, "pair"), Entry(2, 0, 1, 1, "pair"), Entry(2, 0, 1, 3, "text") >>
=================================================================================
