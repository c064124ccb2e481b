--------------------------- MODULE MCAllocation ---------------------------
(***************************************************************************)
(* Machines of a dozen pages of 32 bytes, and a heap of 3 pages.           *)
(***************************************************************************)
EXTENDS Allocation

En(b, n, u) == [base |-> b * 32, length |-> n * 32, usable |-> u]

\* A reserved hole in the middle; a usable region up to the end; eight pages
\* and one more, so that the bitmap has a second byte; nothing usable.
Holed  == {En(0, 1, FALSE), En(1, 2, TRUE), En(3, 1, FALSE), En(4, 4, TRUE), En(8, 1, FALSE)}
ToEnd  == {En(0, 2, FALSE), En(2, 6, TRUE)}
Second == {En(0, 4, FALSE), En(4, 5, TRUE), [base |-> 288, length |-> 20, usable |-> FALSE]}
Barren == {En(0, 8, FALSE)}

MCMaps == {Holed, ToEnd, Second, Barren}
MCSizes == {0, 17, 40}
MCNoSizes == {}
============================================================================
