-------------------------------- MODULE Path --------------------------------
(***************************************************************************)
(* The names in a path, as fat32_find_file takes it apart                  *)
(* (Kernel/src/Drivers/fat32.c): split_path copies the components into one *)
(* buffer, each with a NUL behind it, and keeps a pointer to each;         *)
(* pad_short_name makes a component the name a directory entry has, eight  *)
(* characters and three without the dot.  A character is its ASCII code;   *)
(* a path is a sequence of characters without the final NUL; a pointer     *)
(* into the buffer is an index, from 1.                                    *)
(*                                                                         *)
(* A definition that stands directly before the one it is a variation of,  *)
(* and is used nowhere, is a mutant: the bug a property has to notice.     *)
(***************************************************************************)
EXTENDS Integers, Sequences

CONSTANTS
  NAME_BASE,   \* characters of a short name before the dot (8)
  NAME_EXT     \* and behind it (3)

ASSUME NameAssumption == NAME_BASE \in Nat \ {0} /\ NAME_EXT \in Nat \ {0}

NUL   == 0
SPACE == 32
DOT   == 46
SLASH == 47

\* One character of split_path's loop, after what it has written to buffer
\* and the pointers in parts so far.
Nothing == [buffer |-> <<>>, parts |-> <<>>, active |-> FALSE]
Take(s, c) ==
  CASE c = SLASH /\ s.active -> [s EXCEPT !.buffer = Append(@, NUL), !.active = FALSE]
    [] c = SLASH /\ ~s.active -> s
    [] OTHER -> [buffer |-> Append(s.buffer, c), active |-> TRUE,
                 parts  |-> IF s.active THEN s.parts ELSE Append(s.parts, Len(s.buffer) + 1)]

\* split_path, with the NUL behind the last component.
split_path(path) ==
  LET split[i \in 0 .. Len(path)] == IF i = 0 THEN Nothing ELSE Take(split[i - 1], path[i])
      all == split[Len(path)]
  IN  [parts  |-> all.parts,
       buffer |-> IF all.active THEN Append(all.buffer, NUL) ELSE all.buffer]

\* The string at a pointer: what stands between it and the next NUL.
StringAt(buffer, from) ==
  LET end == CHOOSE n \in from .. Len(buffer) :
               buffer[n] = NUL /\ \A m \in from .. n - 1 : buffer[m] # NUL
  IN  SubSeq(buffer, from, end - 1)

upper(c) == IF c \in 97 .. 122 THEN c - 32 ELSE c

\* pad_short_name, of a component (which begins with no slash): up to
\* NAME_BASE characters before the first dot, up to NAME_EXT behind it.
pad_short_name_unaligned(name) ==
  LET dots == {k \in DOMAIN name : name[k] = DOT}
      dot  == CHOOSE k \in dots : \A d \in dots : k <= d
      base == {j \in 1 .. NAME_BASE : j <= Len(name) /\ \A d \in dots : j < d}
      ext  == {k \in 1 .. NAME_EXT : dots # {} /\ dot + k <= Len(name)}
  IN  [j \in 1 .. NAME_BASE + NAME_EXT |->
         IF j \in base THEN upper(name[j])
         ELSE IF dots # {} /\ j >= dot /\ j - dot + 1 \in ext THEN upper(name[j + 1]) ELSE SPACE]
pad_short_name(name) ==
  LET dots == {k \in DOMAIN name : name[k] = DOT}
      dot  == CHOOSE k \in dots : \A d \in dots : k <= d
      base == {j \in 1 .. NAME_BASE : j <= Len(name) /\ \A d \in dots : j < d}
      ext  == {k \in 1 .. NAME_EXT : dots # {} /\ dot + k <= Len(name)}
  IN  [j \in 1 .. NAME_BASE + NAME_EXT |->
         IF j \in base THEN upper(name[j])
         ELSE IF j - NAME_BASE \in ext THEN upper(name[dot + j - NAME_BASE]) ELSE SPACE]

\* What the names in a path are, said without a buffer: the characters from
\* one that follows no other, up to the next slash.
Starts(path) == {n \in DOMAIN path : path[n] # SLASH /\ (n = 1 \/ path[n - 1] = SLASH)}
Component(path, n) ==
  LET end == CHOOSE m \in n .. Len(path) : /\ m = Len(path) \/ path[m + 1] = SLASH
                                          /\ \A k \in n .. m : path[k] # SLASH
  IN  SubSeq(path, n, end)

\* The short name of a component: the characters before the first dot and
\* those behind it, in capitals, each filled up with spaces.
IsShortName(short, name) ==
  \E dot \in 1 .. Len(name) + 1 :
    /\ dot = Len(name) + 1 \/ name[dot] = DOT
    /\ \A k \in 1 .. dot - 1 : name[k] # DOT
    /\ DOMAIN short = 1 .. NAME_BASE + NAME_EXT
    /\ \A j \in 1 .. NAME_BASE : short[j] = IF j < dot THEN upper(name[j]) ELSE SPACE
    /\ \A k \in 1 .. NAME_EXT :
         short[NAME_BASE + k] = IF dot + k <= Len(name) THEN upper(name[dot + k]) ELSE SPACE

\* names are the short names of the components of path, in their order.
NamedBy(path, names) ==
  \E at \in [1 .. Len(names) -> Starts(path)] :
    /\ \A i, j \in 1 .. Len(names) : i < j => at[i] < at[j]
    /\ \A n \in Starts(path) : \E i \in 1 .. Len(names) : at[i] = n
    /\ \A i \in 1 .. Len(names) : IsShortName(names[i], Component(path, at[i]))
=============================================================================
