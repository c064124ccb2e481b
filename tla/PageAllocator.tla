--------------------------- MODULE PageAllocator ---------------------------
(***************************************************************************)
(* What the page allocator promises: every usable page of the machine is   *)
(* either free or owned by the one who took it; a page is granted only     *)
(* while it is free, and a request is refused only when none is free.      *)
(***************************************************************************)
CONSTANTS
  Machines,    \* the sets of usable pages that machines have
  NULL,        \* the answer to a request that cannot be met
  IsBatch(_)   \* whether a set of pages is all that the heap asks for at once

VARIABLES free, owned, answer

pavars == <<free, owned, answer>>

PAInit == free \in Machines /\ owned = {} /\ answer = NULL

Grant ==
  \E p \in free :
    free' = free \ {p} /\ owned' = owned \cup {p} /\ answer' = p

\* A batch is granted in full or takes all there is.
GrantBatch ==
  \E S \in (SUBSET free) \ {{}} :
    /\ IsBatch(S) \/ S = free
    /\ free' = free \ S /\ owned' = owned \cup S /\ answer' \in S

RefuseAll == free = {} /\ answer' = NULL /\ UNCHANGED <<free, owned>>

GiveBack ==
  \E p \in owned :
    free' = free \cup {p} /\ owned' = owned \ {p} /\ answer' = NULL

PANext == Grant \/ GrantBatch \/ RefuseAll \/ GiveBack
PASpec == PAInit /\ [][PANext]_pavars
============================================================================
