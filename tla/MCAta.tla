------------------------------- MODULE MCAta -------------------------------
(***************************************************************************)
(* Small media and calls for Ata: LBA registers of one bit, so that an     *)
(* address of 16 sectors needs all four registers, and sector counts of 2  *)
(* bits, so that a call for 4 sectors is written as a count of 0.          *)
(***************************************************************************)
EXTENDS Ata, TLC

Medium(d, n) == [s \in 0 .. n - 1 |-> <<d, s>>]

\* A channel with a master of 8 sectors, and one with a slave of 16 as well.
One == 0 :> Medium(0, 8)
Two == 0 :> Medium(0, 8) @@ 1 :> Medium(1, 16)
MCDisks == {One, Two}

Rd(d, s, n) == [kind |-> "read", dev |-> d, lba |-> s, count |-> n, data |-> <<>>]
Wr(d, s, n, x) == [kind |-> "write", dev |-> d, lba |-> s, count |-> n,
                   data |-> [j \in 1 .. n |-> <<x, j>>]]
Other(what, d) == [kind |-> what, dev |-> d, lba |-> 0, count |-> 0, data |-> <<>>]

\* Reads and writes across every register's carry, past the end of a medium
\* and for as many sectors as the count register has values.
MCReads == {Rd(0, 3, 2), Rd(0, 6, 3), Rd(1, 7, 3), Rd(1, 8, 4)}
MCWrites == {Wr(0, 3, 2, 7), Wr(1, 7, 1, 8), Wr(1, 8, 4, 9)}
MCRequests == MCReads \cup MCWrites \cup
  {Other("identify", 0), Other("identify", 1), Other("init", 0), Other("wait", 0)}

\* A master of 16 sectors: its last 8 need the LBA bits of the drive register.
MCLarge == {0 :> Medium(0, 16)}
MCFarReads == {Rd(0, s, 1) : s \in 0 .. 15}
============================================================================
