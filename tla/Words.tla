-------------------------------- MODULE Words --------------------------------
(***************************************************************************)
(* The 32-bit integers of the kernel.  A uint32_t is a number below WORD;  *)
(* what is added or multiplied is taken % WORD where the code computes in  *)
(* uint32_t.                                                               *)
(***************************************************************************)
EXTENDS Integers

CONSTANT WORD      \* the values of a uint32_t (2^32)

ASSUME WordAssumption == WORD \in Nat \ {0}

\* A uint32_t that becomes an int.
int(x) == IF 2 * x < WORD THEN x ELSE x - WORD
==============================================================================
