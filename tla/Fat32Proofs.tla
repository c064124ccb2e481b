---------------------------- MODULE Fat32Proofs ----------------------------
(***************************************************************************)
(* What the FAT32 driver guarantees for every request and whatever disk    *)
(* reads fail.  On every volume its copies stay in the caller's buffer,    *)
(* tile it, and follow one chain of the allocation table, and its own      *)
(* arrays hold what they are given.  On a consistent volume they are the   *)
(* file that the path names.                                               *)
(*                                                                         *)
(* The last of these rests on what split_path and pad_short_name compute:  *)
(* for every path the names of its components, in their order (NamesRead). *)
(* Take is followed by one invariant, Split, which says for a prefix of    *)
(* the path where each of its components stands in the buffer; the string  *)
(* at a pointer is then the component (StringIs), and padding it gives its *)
(* short name (PadIs).                                                     *)
(***************************************************************************)
EXTENDS Fat32, WellFoundedInduction, SequenceTheorems, TLAPS

\* A set of numbers that is not empty has a least one.
LEMMA Least ==
  ASSUME NEW T, T \subseteq Nat, T # {}
  PROVE  \E x \in T : \A y \in T : x <= y
<1> DEFINE R == OpToRel(<, Nat)
<1>1. IsWellFoundedOn(R, Nat)
  BY NatLessThanWellFounded
<1>2. \A x, y \in Nat : x < y => <<x, y>> \in R
  BY Zenon DEF OpToRel
<1> HIDE DEF R
<1>3. PICK x \in T : \A y \in T : ~(<<y, x>> \in R)
  BY <1>1, WFMin
<1>4. \A y \in T : ~(y < x)
  BY <1>2, <1>3
<1> QED
  BY <1>3, <1>4

\* Induction, for a set instead of a predicate.
LEMMA Induction ==
  ASSUME NEW P, P \subseteq Nat, 0 \in P, \A n \in Nat : n \in P => n + 1 \in P
  PROVE  P = Nat
<1> SUFFICES ASSUME Nat \ P # {} PROVE FALSE
  OBVIOUS
<1>1. PICK x \in Nat \ P : \A y \in Nat \ P : x <= y
  BY Least
<1>2. x # 0 /\ x - 1 \in Nat /\ x - 1 \notin Nat \ P
  BY <1>1
<1> QED
  BY <1>2

\* The values of a recursive definition over 0 .. n.
Iterates(g, n, base, step) == g[0] = base /\ \A i \in 1 .. n : g[i] = step[<<g[i - 1], i>>]

\* A recursive definition over 0 .. n is satisfied by some function.
LEMMA Recursion ==
  ASSUME NEW n \in Nat, NEW S, NEW base \in S, NEW step \in [S \X (1 .. n) -> S]
  PROVE  \E g \in [0 .. n -> S] : Iterates(g, n, base, step)
<1> DEFINE Good(g, m) == g[0] = base /\ \A i \in 1 .. m : g[i] = step[<<g[i - 1], i>>]
           P == {m \in Nat : m <= n => \E g \in [0 .. m -> S] : Good(g, m)}
<1>1. 0 \in P
  <2>1. [i \in 0 .. 0 |-> base] \in [0 .. 0 -> S] /\ Good([i \in 0 .. 0 |-> base], 0)
    OBVIOUS
  <2> QED
    BY <2>1
<1>2. ASSUME NEW m \in Nat, m \in P PROVE m + 1 \in P
  <2> SUFFICES ASSUME m + 1 <= n PROVE \E g \in [0 .. m + 1 -> S] : Good(g, m + 1)
    BY <1>2
  <2>1. PICK g \in [0 .. m -> S] : Good(g, m)
    BY <1>2
  <2> DEFINE h == [i \in 0 .. m + 1 |-> IF i = m + 1 THEN step[<<g[m], m + 1>>] ELSE g[i]]
  <2>2. g[m] \in S /\ m + 1 \in 1 .. n
    BY <2>1
  <2>3. step[<<g[m], m + 1>>] \in S
    BY <2>2
  <2>4. h \in [0 .. m + 1 -> S]
    BY <2>1, <2>3
  <2>5. \A i \in 1 .. m + 1 : h[i] = step[<<h[i - 1], i>>]
    <3> TAKE i \in 1 .. m + 1
    <3>1. CASE i = m + 1
      <4>1. h[m + 1] = step[<<g[m], m + 1>>] /\ h[m] = g[m] /\ i - 1 = m
        BY <3>1
      <4> HIDE DEF h
      <4> QED
        BY <4>1, <3>1
    <3>2. CASE i # m + 1
      <4>1. i \in 1 .. m /\ i - 1 \in 0 .. m
        BY <3>2
      <4>2. h[i] = g[i] /\ h[i - 1] = g[i - 1]
        BY <4>1
      <4>3. g[i] = step[<<g[i - 1], i>>]
        BY <4>1, <2>1
      <4> HIDE DEF h
      <4> QED
        BY <4>2, <4>3
    <3> QED
      BY <3>1, <3>2
  <2>6. h[0] = base
    BY <2>1
  <2> QED
    BY <2>4, <2>5, <2>6
<1>3. P = Nat
  <2> HIDE DEF P
  <2>1. P \subseteq Nat
    BY DEF P
  <2> QED
    BY <1>1, <1>2, <2>1, Induction
<1>4. n \in P
  <2> HIDE DEF P
  <2> QED
    BY <1>3
<1> QED
  BY <1>4 DEF Iterates

\* What the loop of split_path can have in its variables.
Splitting == [buffer : Seq(Nat), parts : Seq(Nat \ {0}), active : BOOLEAN]

\* One character keeps it so.
LEMMA TakeTyped ==
  ASSUME NEW s \in Splitting, NEW c \in Nat
  PROVE  Take(s, c) \in Splitting
<1>1. NUL \in Nat /\ Len(s.buffer) + 1 \in Nat \ {0}
  BY DEF NUL, Splitting
<1>2. CASE c = SLASH /\ s.active
  <2>1. Take(s, c) = [s EXCEPT !.buffer = Append(@, NUL), !.active = FALSE]
    BY <1>2 DEF Take
  <2>2. Append(s.buffer, NUL) \in Seq(Nat)
    BY <1>1 DEF Splitting
  <2> QED
    BY <2>1, <2>2 DEF Splitting
<1>3. CASE c = SLASH /\ ~s.active
  BY <1>3 DEF Take
<1>4. CASE c # SLASH
  <2>1. Take(s, c) = [buffer |-> Append(s.buffer, c), active |-> TRUE,
          parts |-> IF s.active THEN s.parts ELSE Append(s.parts, Len(s.buffer) + 1)]
    BY <1>4 DEF Take
  <2>2. Append(s.buffer, c) \in Seq(Nat) /\ Append(s.parts, Len(s.buffer) + 1) \in Seq(Nat \ {0})
        /\ s.parts \in Seq(Nat \ {0})
    BY <1>1 DEF Splitting
  <2> QED
    BY <2>1, <2>2 DEF Splitting
<1> QED
  BY <1>2, <1>3, <1>4 DEF Splitting

\* The states of the loop of split_path, one per character.
LEMMA SplitStates ==
  ASSUME NEW path \in Seq(Nat)
  PROVE  \E g \in [0 .. Len(path) -> Splitting] :
           /\ g[0] = Nothing
           /\ \A i \in 1 .. Len(path) : g[i] = Take(g[i - 1], path[i])
           /\ LET all == g[Len(path)]
              IN  split_path(path) =
                    [parts  |-> all.parts,
                     buffer |-> IF all.active THEN Append(all.buffer, NUL) ELSE all.buffer]
<1> DEFINE n == Len(path)
           Eq(split) == split = [i \in 0 .. n |-> IF i = 0 THEN Nothing ELSE Take(split[i - 1], path[i])]
           g == CHOOSE split : Eq(split)
           step == [p \in Splitting \X (1 .. n) |-> Take(p[1], path[p[2]])]
<1>1. n \in Nat /\ Nothing \in Splitting
  BY DEF Nothing, Splitting
<1>2. step \in [Splitting \X (1 .. n) -> Splitting]
  BY TakeTyped
<1>3. \A s \in Splitting, i \in 1 .. n : step[<<s, i>>] = Take(s, path[i])
  OBVIOUS
<1>4. \E h : Eq(h)
  <2> HIDE DEF step, n
  <2>1. PICK h \in [0 .. n -> Splitting] : Iterates(h, n, Nothing, step)
    BY <1>1, <1>2, Recursion
  <2>4. h[0] = Nothing /\ \A i \in 1 .. n : h[i] = step[<<h[i - 1], i>>]
    BY <2>1 DEF Iterates
  <2>2. \A i \in 0 .. n : h[i] = IF i = 0 THEN Nothing ELSE Take(h[i - 1], path[i])
    <3> TAKE i \in 0 .. n
    <3>1. CASE i # 0
      <4>1. i \in 1 .. n /\ i - 1 \in 0 .. n
        BY <3>1, <1>1
      <4> QED
        BY <4>1, <3>1, <2>1, <2>4, <1>3
    <3> QED
      BY <3>1, <2>4
  <2>3. Eq(h)
    BY <2>1, <2>2
  <2> QED
    BY <2>3
<1>5. Eq(g)
  <2> HIDE DEF Eq
  <2> QED
    BY <1>4
<1>6. g[0] = Nothing /\ \A i \in 1 .. n : g[i] = Take(g[i - 1], path[i])
  <2> HIDE DEF g
  <2>1. \A i \in 0 .. n : g[i] = IF i = 0 THEN Nothing ELSE Take(g[i - 1], path[i])
    BY <1>5, Zenon
  <2> HIDE DEF n, Eq
  <2>2. 0 \in 0 .. n /\ \A i \in 1 .. n : i \in 0 .. n /\ i # 0
    BY <1>1
  <2> QED
    BY <2>1, <2>2, Zenon
<1>7. \A i \in Nat : i <= n => g[i] \in Splitting
  <2> DEFINE P == {i \in Nat : i <= n => g[i] \in Splitting}
  <2> HIDE DEF g
  <2>1. 0 \in P
    BY <1>1, <1>6
  <2>2. ASSUME NEW i \in Nat, i \in P PROVE i + 1 \in P
    <3> SUFFICES ASSUME i + 1 <= n PROVE g[i + 1] \in Splitting
      OBVIOUS
    <3>1. g[i] \in Splitting /\ i + 1 \in 1 .. n /\ path[i + 1] \in Nat
      BY <2>2, <1>1
    <3> QED
      BY <3>1, <1>6, TakeTyped
  <2>3. P \subseteq Nat
    OBVIOUS
  <2> HIDE DEF P
  <2>4. P = Nat
    BY <2>1, <2>2, <2>3, Induction
  <2> QED
    BY <2>4 DEF P
<1>8. g \in [0 .. n -> Splitting]
  <2> HIDE DEF g
  <2> QED
    BY <1>5, <1>7, <1>1
<1>9. split_path(path) = [parts  |-> g[n].parts,
        buffer |-> IF g[n].active THEN Append(g[n].buffer, NUL) ELSE g[n].buffer]
  BY DEF split_path
<1> HIDE DEF g
<1> QED
  BY <1>6, <1>8, <1>9

\* From n to m there is no slash in path.
Together(path, n, m) == \A l \in n .. m : path[l] # SLASH

\* What the loop of split_path has done after i characters: at says where the
\* component of each pointer begins in path.  Its characters follow each
\* other in buffer as they do in path, with a NUL where there is a slash.
Follow(path, i, s, at) ==
  /\ at \in [1 .. Len(s.parts) -> 1 .. i]
  /\ \A j, k \in 1 .. Len(s.parts) : j < k => at[j] < at[k]
  /\ \A k \in 1 .. Len(s.parts) : at[k] \in Starts(path)
  /\ \A n \in Starts(path) : n <= i => \E k \in 1 .. Len(s.parts) : at[k] = n
Copied(path, i, s, at) ==
  \A k \in 1 .. Len(s.parts) : \A m \in at[k] .. i :
    Together(path, at[k], m) =>
      /\ s.parts[k] + (m - at[k]) \in 1 .. Len(s.buffer)
      /\ s.buffer[s.parts[k] + (m - at[k])] = path[m]
      /\ m < i /\ path[m + 1] = SLASH =>
           /\ s.parts[k] + (m - at[k]) + 1 \in 1 .. Len(s.buffer)
           /\ s.buffer[s.parts[k] + (m - at[k]) + 1] = NUL
UnderWay(path, i, s, at) ==
  /\ s.active <=> i > 0 /\ path[i] # SLASH
  /\ s.active =>
       LET last == Len(s.parts)
       IN  /\ last > 0 /\ s.parts[last] + (i - at[last]) = Len(s.buffer)
           /\ Together(path, at[last], i)
Split(path, i, s) ==
  /\ Len(s.buffer) <= i
  /\ \E at : Follow(path, i, s, at) /\ Copied(path, i, s, at) /\ UnderWay(path, i, s, at)

\* Only the last component can reach to the i-th character.
LEMMA OnlyLast ==
  ASSUME NEW path \in Seq(Nat), NEW i \in Nat, NEW s \in Splitting, NEW at,
         Follow(path, i, s, at), NEW k \in 1 .. Len(s.parts), k # Len(s.parts)
  PROVE  ~Together(path, at[k], i)
<1> DEFINE last == Len(s.parts)
<1>1. last \in 1 .. Len(s.parts) /\ k < last
  BY DEF Splitting
<1>2. at[k] < at[last] /\ at[last] \in Starts(path) /\ at[k] \in 1 .. i /\ at[last] \in 1 .. i
  BY <1>1 DEF Follow
<1> HIDE DEF last
<1>3. at[last] # 1 /\ at[last] - 1 \in at[k] .. i
  BY <1>2
<1>4. path[at[last] - 1] = SLASH
  BY <1>2, <1>3, Zenon DEF Starts
<1> QED
  BY <1>3, <1>4, Zenon DEF Together

\* A character that begins no component leaves the beginnings as they are.
LEMMA FollowStays ==
  ASSUME NEW path \in Seq(Nat), NEW i \in Nat, i + 1 \notin Starts(path),
         NEW s \in Splitting, NEW t, t.parts = s.parts, NEW at, Follow(path, i, s, at)
  PROVE  Follow(path, i + 1, t, at)
<1>1. at \in [1 .. Len(s.parts) -> 1 .. i + 1]
  <2>1. \A k \in 1 .. i : k \in 1 .. i + 1
    OBVIOUS
  <2> QED
    BY <2>1 DEF Follow
<1>2. \A n \in Starts(path) : n <= i + 1 => n <= i
  BY DEF Starts
<1> QED
  BY <1>1, <1>2 DEF Follow

\* A slash ends the component under way.
LEMMA SplitSlash ==
  ASSUME NEW path \in Seq(Nat), NEW i \in Nat, i < Len(path), path[i + 1] = SLASH,
         NEW s \in Splitting, Split(path, i, s), s.active
  PROVE  Split(path, i + 1, Take(s, path[i + 1]))
<1> DEFINE t == Take(s, path[i + 1])
<1>1. PICK at : Follow(path, i, s, at) /\ Copied(path, i, s, at) /\ UnderWay(path, i, s, at)
  BY DEF Split
<1>2. t = [s EXCEPT !.buffer = Append(@, NUL), !.active = FALSE]
  BY DEF Take
<1>3. t.parts = s.parts /\ t.active = FALSE /\ t.buffer = Append(s.buffer, NUL)
  BY <1>2 DEF Splitting
<1> HIDE DEF t
<1>4. /\ Len(t.buffer) = Len(s.buffer) + 1 /\ t.buffer[Len(s.buffer) + 1] = NUL
      /\ \A n \in 1 .. Len(s.buffer) : t.buffer[n] = s.buffer[n]
      /\ Len(s.buffer) \in Nat /\ Len(s.parts) \in Nat
  BY <1>3 DEF Splitting, NUL
<1>5. Follow(path, i + 1, t, at)
  BY <1>1, <1>3, FollowStays DEF Starts
<1>8. \A n \in 1 .. Len(s.buffer) : n \in 1 .. Len(t.buffer) /\ t.buffer[n] = s.buffer[n]
  BY <1>4
<1>6. Copied(path, i + 1, t, at)
  <2> SUFFICES ASSUME NEW k \in 1 .. Len(t.parts), NEW m \in at[k] .. i + 1, Together(path, at[k], m)
               PROVE  /\ t.parts[k] + (m - at[k]) \in 1 .. Len(t.buffer)
                      /\ t.buffer[t.parts[k] + (m - at[k])] = path[m]
                      /\ m < i + 1 /\ path[m + 1] = SLASH =>
                           /\ t.parts[k] + (m - at[k]) + 1 \in 1 .. Len(t.buffer)
                           /\ t.buffer[t.parts[k] + (m - at[k]) + 1] = NUL
    BY DEF Copied
  <2>0. k \in 1 .. Len(s.parts) /\ t.parts[k] = s.parts[k]
    BY <1>3
  <2>1. at[k] \in 1 .. i /\ s.parts[k] \in Nat
    <3>1. s.parts \in Seq(Nat \ {0})
      BY DEF Splitting
    <3> QED
      BY <1>1, <2>0, <3>1, ElementOfSeq DEF Follow
  <2>2. m # i + 1
    BY <2>1 DEF Together
  <2>3. m \in at[k] .. i
    BY <2>1, <2>2
  <2>4. /\ s.parts[k] + (m - at[k]) \in 1 .. Len(s.buffer)
        /\ s.buffer[s.parts[k] + (m - at[k])] = path[m]
    BY <1>1, <2>0, <2>3 DEF Copied
  <2>5. CASE m < i
    <3>1. path[m + 1] = SLASH =>
             /\ s.parts[k] + (m - at[k]) + 1 \in 1 .. Len(s.buffer)
             /\ s.buffer[s.parts[k] + (m - at[k]) + 1] = NUL
      BY <1>1, <2>0, <2>3, <2>5 DEF Copied
    <3> QED
      BY <3>1, <1>8, <2>4, <2>0, <2>5, <2>3
  <2>6. CASE m = i
    <3>1. k = Len(s.parts)
      BY <1>1, <2>0, <2>6, OnlyLast
    <3>2. s.parts[k] + (m - at[k]) = Len(s.buffer)
      BY <1>1, <2>6, <3>1 DEF UnderWay
    <3>4. Len(s.buffer) + 1 \in 1 .. Len(t.buffer)
      BY <1>4
    <3> QED
      BY <1>4, <1>8, <2>0, <2>4, <3>2, <3>4
  <2> QED
    BY <2>3, <2>5, <2>6, <2>1
<1>7. UnderWay(path, i + 1, t, at)
  BY <1>3 DEF UnderWay
<1> QED
  BY <1>4, <1>5, <1>6, <1>7 DEF Split, t

\* A slash behind a slash, or in front, changes nothing.
LEMMA SplitGap ==
  ASSUME NEW path \in Seq(Nat), NEW i \in Nat, i < Len(path), path[i + 1] = SLASH,
         NEW s \in Splitting, Split(path, i, s), ~s.active
  PROVE  Split(path, i + 1, Take(s, path[i + 1]))
<1>1. PICK at : Follow(path, i, s, at) /\ Copied(path, i, s, at) /\ UnderWay(path, i, s, at)
  BY DEF Split
<1>2. Take(s, path[i + 1]) = s
  BY DEF Take
<1>3. Len(s.buffer) \in Nat /\ Len(s.buffer) <= i
  BY DEF Splitting, Split
<1>4. Follow(path, i + 1, s, at)
  BY <1>1, FollowStays DEF Starts
<1>5. Copied(path, i + 1, s, at)
  <2> SUFFICES ASSUME NEW k \in 1 .. Len(s.parts), NEW m \in at[k] .. i + 1, Together(path, at[k], m)
               PROVE  /\ m \in at[k] .. i
                      /\ m < i
    BY <1>1 DEF Copied
  <2>1. at[k] \in 1 .. i
    BY <1>1 DEF Follow
  <2>2. m # i + 1
    BY <2>1 DEF Together
  <2>3. path[i] = SLASH
    BY <1>1, <2>1 DEF UnderWay
  <2>4. m # i
    BY <2>1, <2>3 DEF Together
  <2> QED
    BY <2>1, <2>2, <2>4
<1>6. UnderWay(path, i + 1, s, at)
  BY <1>1 DEF UnderWay, Splitting
<1> QED
  BY <1>2, <1>3, <1>4, <1>5, <1>6 DEF Split

\* A character goes behind the ones of its component.
LEMMA SplitGoesOn ==
  ASSUME NEW path \in Seq(Nat), NEW i \in Nat, i < Len(path), path[i + 1] # SLASH,
         NEW s \in Splitting, Split(path, i, s), s.active
  PROVE  Split(path, i + 1, Take(s, path[i + 1]))
<1> DEFINE t == Take(s, path[i + 1])
<1>1. PICK at : Follow(path, i, s, at) /\ Copied(path, i, s, at) /\ UnderWay(path, i, s, at)
  BY DEF Split
<1>2. t.parts = s.parts /\ t.active = TRUE /\ t.buffer = Append(s.buffer, path[i + 1])
  BY DEF Take
<1> HIDE DEF t
<1>3. /\ Len(t.buffer) = Len(s.buffer) + 1 /\ t.buffer[Len(s.buffer) + 1] = path[i + 1]
      /\ \A n \in 1 .. Len(s.buffer) : t.buffer[n] = s.buffer[n]
      /\ Len(s.buffer) \in Nat /\ Len(s.parts) \in Nat
  BY <1>2 DEF Splitting
<1>4. \A n \in 1 .. Len(s.buffer) : n \in 1 .. Len(t.buffer) /\ t.buffer[n] = s.buffer[n]
  BY <1>3
<1>5. Len(s.buffer) + 1 \in 1 .. Len(t.buffer)
  BY <1>3
<1>6. i > 0 /\ path[i] # SLASH
  BY <1>1 DEF UnderWay
<1>7. Follow(path, i + 1, t, at)
  BY <1>1, <1>2, <1>6, FollowStays DEF Starts
<1> DEFINE last == Len(s.parts)
<1>8. /\ last > 0 /\ s.parts[last] + (i - at[last]) = Len(s.buffer)
      /\ Together(path, at[last], i) /\ at[last] \in 1 .. i /\ s.parts[last] \in Nat
  <2>1. /\ last > 0 /\ s.parts[last] + (i - at[last]) = Len(s.buffer)
        /\ Together(path, at[last], i)
    BY <1>1 DEF UnderWay
  <2>2. last \in 1 .. Len(s.parts)
    BY <1>3, <2>1
  <2>3. s.parts \in Seq(Nat \ {0})
    BY DEF Splitting
  <2> QED
    BY <1>1, <2>1, <2>2, <2>3, ElementOfSeq DEF Follow
<1>12. s.parts[last] + ((i + 1) - at[last]) = Len(s.buffer) + 1
  <2>1. \A p, a, l \in Int : p + (i - a) = l => p + ((i + 1) - a) = l + 1
    OBVIOUS
  <2>3. Len(s.buffer) \in Int
    BY <1>3
  <2>2. s.parts[last] \in Int /\ at[last] \in Int
    BY <1>8
  <2> HIDE DEF last
  <2> QED
    BY <2>1, <2>2, <2>3, <1>8, Zenon
<1>9. Copied(path, i + 1, t, at)
  <2> SUFFICES ASSUME NEW k \in 1 .. Len(t.parts), NEW m \in at[k] .. i + 1, Together(path, at[k], m)
               PROVE  /\ t.parts[k] + (m - at[k]) \in 1 .. Len(t.buffer)
                      /\ t.buffer[t.parts[k] + (m - at[k])] = path[m]
                      /\ m < i + 1 /\ path[m + 1] = SLASH =>
                           /\ t.parts[k] + (m - at[k]) + 1 \in 1 .. Len(t.buffer)
                           /\ t.buffer[t.parts[k] + (m - at[k]) + 1] = NUL
    BY DEF Copied
  <2>0. k \in 1 .. Len(s.parts) /\ t.parts[k] = s.parts[k]
    BY <1>2
  <2>1. at[k] \in 1 .. i
    BY <1>1, <2>0 DEF Follow
  <2>2. CASE m <= i
    <3>1. m \in at[k] .. i
      BY <2>1, <2>2
    <3>2. /\ s.parts[k] + (m - at[k]) \in 1 .. Len(s.buffer)
          /\ s.buffer[s.parts[k] + (m - at[k])] = path[m]
          /\ m < i /\ path[m + 1] = SLASH =>
               /\ s.parts[k] + (m - at[k]) + 1 \in 1 .. Len(s.buffer)
               /\ s.buffer[s.parts[k] + (m - at[k]) + 1] = NUL
      BY <1>1, <2>0, <3>1 DEF Copied
    <3>3. path[m + 1] = SLASH => m < i
      <4>1. m < i \/ m = i
        BY <2>1, <2>2, <3>1
      <4> QED
        BY <4>1
    <3> QED
      BY <3>2, <3>3, <1>4, <2>0
  <2>3. CASE m = i + 1
    <3>1. Together(path, at[k], i)
      BY <2>1, <2>3 DEF Together
    <3>2. k = last
      BY <3>1, <1>1, <2>0, OnlyLast
    <3>3. s.parts[k] + (m - at[k]) = Len(s.buffer) + 1
      BY <3>2, <2>3, <1>12
    <3>4. m < i + 1 <=> FALSE
      BY <2>3
    <3> QED
      BY <3>3, <3>4, <2>0, <2>3, <1>3, <1>5
  <2> QED
    BY <2>1, <2>2, <2>3
<1>10. UnderWay(path, i + 1, t, at)
  <2>1. s.parts[last] + ((i + 1) - at[last]) = Len(t.buffer)
    BY <1>3, <1>8, <1>12
  <2>2. Together(path, at[last], i + 1)
    BY <1>8 DEF Together
  <2> QED
    BY <1>2, <1>8, <2>1, <2>2 DEF UnderWay
<1>11. Len(t.buffer) <= i + 1
  BY <1>3 DEF Split
<1> QED
  BY <1>7, <1>9, <1>10, <1>11 DEF Split, t

\* A character that begins a component gets a pointer to its place.
LEMMA SplitBegins ==
  ASSUME NEW path \in Seq(Nat), NEW i \in Nat, i < Len(path), path[i + 1] # SLASH,
         NEW s \in Splitting, Split(path, i, s), ~s.active
  PROVE  Split(path, i + 1, Take(s, path[i + 1]))
<1> DEFINE t == Take(s, path[i + 1])
           last == Len(s.parts) + 1
<1>1. PICK at : Follow(path, i, s, at) /\ Copied(path, i, s, at) /\ UnderWay(path, i, s, at)
  BY DEF Split
<1>2. /\ t.parts = Append(s.parts, Len(s.buffer) + 1) /\ t.active = TRUE
      /\ t.buffer = Append(s.buffer, path[i + 1])
  BY DEF Take
<1> HIDE DEF t
<1>3. /\ Len(t.buffer) = Len(s.buffer) + 1 /\ t.buffer[Len(s.buffer) + 1] = path[i + 1]
      /\ \A n \in 1 .. Len(s.buffer) : t.buffer[n] = s.buffer[n]
      /\ Len(s.buffer) \in Nat
  BY <1>2 DEF Splitting
<1>4. \A n \in 1 .. Len(s.buffer) : n \in 1 .. Len(t.buffer) /\ t.buffer[n] = s.buffer[n]
  BY <1>3
<1>5. Len(s.buffer) + 1 \in 1 .. Len(t.buffer)
  BY <1>3
<1>6. /\ Len(s.parts) \in Nat /\ Len(t.parts) = last /\ t.parts[last] = Len(s.buffer) + 1
      /\ \A k \in 1 .. Len(s.parts) : t.parts[k] = s.parts[k]
  BY <1>2 DEF Splitting
<1>7. i = 0 \/ path[i] = SLASH
  BY <1>1 DEF UnderWay
<1>8. i + 1 \in Starts(path) /\ i + 1 \in Nat
  BY <1>7 DEF Starts
<1> DEFINE to == [k \in 1 .. last |-> IF k = last THEN i + 1 ELSE at[k]]
<1>9. /\ to[last] = i + 1 /\ last \in 1 .. last
      /\ \A k \in 1 .. Len(s.parts) : k \in 1 .. last /\ to[k] = at[k] /\ at[k] \in 1 .. i
  <2>1. last \in 1 .. last /\ \A k \in 1 .. Len(s.parts) : k \in 1 .. last /\ k # last
    BY <1>6
  <2>2. \A k \in 1 .. Len(s.parts) : at[k] \in 1 .. i
    BY <1>1 DEF Follow
  <2> HIDE DEF last
  <2> QED
    BY <2>1, <2>2
<1>10. \A k \in 1 .. last : k = last \/ k \in 1 .. Len(s.parts)
  BY <1>6
<1>11. to \in [1 .. last -> 1 .. i + 1]
  <2>1. \A k \in 1 .. last : to[k] \in 1 .. i + 1
    <3> HIDE DEF to
    <3>1. \A n \in 1 .. i : n \in 1 .. i + 1
      OBVIOUS
    <3>2. i + 1 \in 1 .. i + 1
      BY <1>8
    <3> QED
      BY <3>1, <3>2, <1>9, <1>10
  <2> HIDE DEF last
  <2> QED
    BY <2>1
<1> HIDE DEF to
<1>12. Follow(path, i + 1, t, to)
  <2>1. \A j, k \in 1 .. last : j < k => to[j] < to[k]
    <3> SUFFICES ASSUME NEW j \in 1 .. last, NEW k \in 1 .. last, j < k PROVE to[j] < to[k]
      OBVIOUS
    <3>1. j \in 1 .. Len(s.parts)
      BY <1>6
    <3>2. CASE k = last
      BY <3>1, <3>2, <1>9
    <3>3. CASE k # last
      BY <3>1, <3>3, <1>1, <1>9, <1>10 DEF Follow
    <3> QED
      BY <3>2, <3>3
  <2>2. \A k \in 1 .. last : to[k] \in Starts(path)
    BY <1>1, <1>8, <1>9, <1>10 DEF Follow
  <2>3. \A n \in Starts(path) : n <= i + 1 => \E k \in 1 .. last : to[k] = n
    <3> SUFFICES ASSUME NEW n \in Starts(path), n <= i + 1 PROVE \E k \in 1 .. last : to[k] = n
      OBVIOUS
    <3>1. CASE n = i + 1
      BY <3>1, <1>9
    <3>2. CASE n # i + 1
      <4>1. n <= i
        BY <3>2 DEF Starts
      <4>2. PICK k \in 1 .. Len(s.parts) : at[k] = n
        BY <4>1, <1>1 DEF Follow
      <4> QED
        BY <4>2, <1>9
    <3> QED
      BY <3>1, <3>2
  <2> QED
    BY <1>6, <1>11, <2>1, <2>2, <2>3 DEF Follow
<1>13. Copied(path, i + 1, t, to)
  <2> SUFFICES ASSUME NEW k \in 1 .. Len(t.parts), NEW m \in to[k] .. i + 1, Together(path, to[k], m)
               PROVE  /\ t.parts[k] + (m - to[k]) \in 1 .. Len(t.buffer)
                      /\ t.buffer[t.parts[k] + (m - to[k])] = path[m]
                      /\ m < i + 1 /\ path[m + 1] = SLASH =>
                           /\ t.parts[k] + (m - to[k]) + 1 \in 1 .. Len(t.buffer)
                           /\ t.buffer[t.parts[k] + (m - to[k]) + 1] = NUL
    BY DEF Copied
  <2>1. CASE k = last
    <3>1. to[k] = i + 1 /\ m = i + 1 /\ t.parts[k] = Len(s.buffer) + 1
      BY <2>1, <1>6, <1>9, <1>8
    <3>2. \A x \in Nat : x + 1 + (m - to[k]) = x + 1
      BY <3>1
    <3>3. t.parts[k] + (m - to[k]) = Len(s.buffer) + 1
      BY <3>1, <3>2, <1>3
    <3>4. ~(m < i + 1)
      BY <3>1
    <3> QED
      BY <3>1, <3>3, <3>4, <1>3, <1>5
  <2>2. CASE k # last
    <3>1. k \in 1 .. Len(s.parts) /\ t.parts[k] = s.parts[k] /\ to[k] = at[k] /\ at[k] \in 1 .. i
      BY <2>2, <1>6, <1>9, <1>10
    <3>2. m # i /\ m # i + 1
      <4>1. path[i] = SLASH
        BY <3>1, <1>7
      <4>2. i \notin at[k] .. m
        BY <3>1, <4>1, Zenon DEF Together
      <4> QED
        BY <3>1, <4>2
    <3>3. m \in at[k] .. i /\ m < i
      <4>1. \A a, x \in Int : x \in a .. i + 1 /\ x # i /\ x # i + 1 => x \in a .. i /\ x < i
        OBVIOUS
      <4> QED
        BY <3>1, <3>2, <4>1
    <3>4. /\ s.parts[k] + (m - at[k]) \in 1 .. Len(s.buffer)
          /\ s.buffer[s.parts[k] + (m - at[k])] = path[m]
          /\ path[m + 1] = SLASH =>
               /\ s.parts[k] + (m - at[k]) + 1 \in 1 .. Len(s.buffer)
               /\ s.buffer[s.parts[k] + (m - at[k]) + 1] = NUL
      BY <1>1, <3>1, <3>3 DEF Copied
    <3> QED
      BY <3>1, <3>4, <1>4
  <2> QED
    BY <2>1, <2>2
<1>14. UnderWay(path, i + 1, t, to)
  <2>1. t.parts[last] + ((i + 1) - to[last]) = Len(t.buffer)
    BY <1>3, <1>6, <1>9
  <2>2. Together(path, to[last], i + 1)
    BY <1>9 DEF Together
  <2> QED
    BY <1>2, <1>6, <2>1, <2>2 DEF UnderWay
<1>15. Len(t.buffer) <= i + 1
  BY <1>3 DEF Split
<1> QED
  BY <1>12, <1>13, <1>14, <1>15 DEF Split, t

\* After every number of characters the loop is where Split says.
LEMMA SplitAll ==
  ASSUME NEW path \in Seq(Nat), NEW g \in [0 .. Len(path) -> Splitting], g[0] = Nothing,
         \A i \in 1 .. Len(path) : g[i] = Take(g[i - 1], path[i])
  PROVE  Split(path, Len(path), g[Len(path)])
<1> DEFINE P == {i \in Nat : i <= Len(path) => Split(path, i, g[i])}
<1>1. 0 \in P
  <2>1. Nothing.buffer = <<>> /\ Nothing.parts = <<>> /\ Nothing.active = FALSE
    BY DEF Nothing
  <2>2. Follow(path, 0, Nothing, <<>>)
    BY <2>1 DEF Follow, Starts
  <2>3. Copied(path, 0, Nothing, <<>>) /\ UnderWay(path, 0, Nothing, <<>>)
    BY <2>1 DEF Copied, UnderWay
  <2>4. Split(path, 0, Nothing)
    BY <2>1, <2>2, <2>3 DEF Split
  <2> QED
    BY <2>4
<1>2. ASSUME NEW i \in Nat, i \in P PROVE i + 1 \in P
  <2> SUFFICES ASSUME i + 1 <= Len(path) PROVE Split(path, i + 1, g[i + 1])
    OBVIOUS
  <2>1. /\ Split(path, i, g[i]) /\ i \in 0 .. Len(path) /\ i + 1 \in 1 .. Len(path)
        /\ i < Len(path)
    BY <1>2
  <2>2. g[i + 1] = Take(g[i], path[i + 1]) /\ g[i] \in Splitting /\ g[i].active \in BOOLEAN
    <3>1. (i + 1) - 1 = i
      OBVIOUS
    <3>2. g[i + 1] = Take(g[i], path[i + 1])
      BY <2>1, <3>1, Zenon
    <3>3. g[i] \in Splitting
      BY <2>1, Zenon
    <3> QED
      BY <3>2, <3>3 DEF Splitting
  <2>3. Split(path, i + 1, Take(g[i], path[i + 1]))
    <3>1. CASE path[i + 1] = SLASH /\ g[i].active
      BY <2>1, <2>2, <3>1, SplitSlash
    <3>2. CASE path[i + 1] = SLASH /\ ~g[i].active
      BY <2>1, <2>2, <3>2, SplitGap
    <3>3. CASE path[i + 1] # SLASH /\ g[i].active
      BY <2>1, <2>2, <3>3, SplitGoesOn
    <3>4. CASE path[i + 1] # SLASH /\ ~g[i].active
      BY <2>1, <2>2, <3>4, SplitBegins
    <3> QED
      BY <3>1, <3>2, <3>3, <3>4
  <2> QED
    BY <2>2, <2>3
<1>3. P \subseteq Nat
  OBVIOUS
<1>4. Len(path) \in P
  <2> HIDE DEF P
  <2>1. P = Nat
    BY <1>1, <1>2, <1>3, Induction
  <2> QED
    BY <2>1
<1> QED
  BY <1>4

\* Where a component ends is determined by where it begins.
LEMMA ComponentIs ==
  ASSUME NEW path \in Seq(Nat), NEW n \in Starts(path)
  PROVE  \E m \in n .. Len(path) :
           /\ m = Len(path) \/ path[m + 1] = SLASH
           /\ Together(path, n, m) /\ Component(path, n) = SubSeq(path, n, m)
<1> DEFINE Ends(m) == /\ m = Len(path) \/ path[m + 1] = SLASH
                      /\ \A k \in n .. m : path[k] # SLASH
           end == CHOOSE m \in n .. Len(path) : Ends(m)
           T == {m \in n .. Len(path) : m = Len(path) \/ path[m + 1] = SLASH}
<1>1. Len(path) \in Nat /\ n \in 1 .. Len(path) /\ path[n] # SLASH
  BY DEF Starts
<1>2. Len(path) \in T /\ T \subseteq Nat
  BY <1>1
<1>3. PICK m \in T : \A y \in T : m <= y
  BY <1>2, Least
<1>4. \A k \in n .. m : path[k] # SLASH
  <2> SUFFICES ASSUME NEW k \in n .. m, path[k] = SLASH PROVE FALSE
    OBVIOUS
  <2>1. k # n /\ k - 1 \in T /\ k - 1 < m
    BY <1>1, <1>3
  <2> QED
    BY <1>3, <2>1, <1>2
<1>5. Ends(m) /\ m \in n .. Len(path)
  BY <1>3, <1>4
<1>6. Ends(end) /\ end \in n .. Len(path)
  <2> HIDE DEF Ends
  <2> QED
    BY <1>5
<1>7. Component(path, n) = SubSeq(path, n, end)
  BY DEF Component
<1> HIDE DEF end
<1> QED
  BY <1>6, <1>7 DEF Together

\* The characters n .. m of path are in buffer from p on, and a NUL behind them.
Lies(path, n, m, buffer, p) ==
  /\ \A k \in n .. m : p + (k - n) \in 1 .. Len(buffer) /\ buffer[p + (k - n)] = path[k]
  /\ p + (m - n) + 1 \in 1 .. Len(buffer) /\ buffer[p + (m - n) + 1] = NUL

\* A pointer of split_path leads to the characters of its component.
LEMMA StringIs ==
  ASSUME NEW path \in Seq(Nat \ {NUL}), NEW buffer \in Seq(Nat), NEW n \in 1 .. Len(path),
         NEW m \in n .. Len(path), NEW p \in Nat \ {0},
         Lies(path, n, m, buffer, p)
  PROVE  StringAt(buffer, p) = SubSeq(path, n, m)
<1> USE DEF Lies
<1> DEFINE e == p + (m - n) + 1
           Ends(x) == buffer[x] = NUL /\ \A y \in p .. x - 1 : buffer[y] # NUL
           end == CHOOSE x \in p .. Len(buffer) : Ends(x)
<1>1. \A k \in n .. m : path[k] # NUL
  <2> SUFFICES ASSUME NEW k \in n .. m PROVE path[k] \in Nat \ {NUL}
    OBVIOUS
  <2> HIDE DEF Lies, e, Ends, end
  <2>1. Len(path) \in Nat
    BY LenProperties
  <2>2. k \in 1 .. Len(path)
    BY <2>1
  <2> QED
    BY <2>2, ElementOfSeq
<1>2. \A y \in p .. e - 1 : buffer[y] # NUL
  <2> TAKE y \in p .. e - 1
  <2>1. n + (y - p) \in n .. m /\ p + ((n + (y - p)) - n) = y
    OBVIOUS
  <2> QED
    BY <1>1, <2>1
<1>3. e \in p .. Len(buffer) /\ Ends(e)
  BY <1>2
<1>4. end \in p .. Len(buffer) /\ Ends(end)
  <2> HIDE DEF Ends, e
  <2> QED
    BY <1>3
<1>5. end = e
  <2> HIDE DEF end, e
  <2>1. ASSUME NEW x \in p .. Len(buffer), NEW y \in p .. Len(buffer), Ends(x), Ends(y), x < y
        PROVE  FALSE
    <3>1. x \in p .. y - 1
      BY <2>1
    <3> QED
      BY <2>1, <3>1
  <2>2. end \in Int /\ e \in Int
    BY <1>3, <1>4
  <2> HIDE DEF Ends, Lies
  <2>3. ~(end < e) /\ ~(e < end)
    BY <1>3, <1>4, <2>1
  <2> QED
    BY <2>2, <2>3
<1>6. StringAt(buffer, p) = SubSeq(buffer, p, end - 1)
  BY DEF StringAt
<1> HIDE DEF end
<1>7. e - 1 = p + (m - n) /\ p + (m - n) \in 1 .. Len(buffer)
  OBVIOUS
<1>8. StringAt(buffer, p) = SubSeq(buffer, p, p + (m - n))
  BY <1>5, <1>6, <1>7
<1>9. SubSeq(buffer, p, p + (m - n)) = [k \in 1 .. (m - n) + 1 |-> buffer[p + k - 1]]
  OBVIOUS
<1>10. SubSeq(path, n, m) = [k \in 1 .. (m - n) + 1 |-> path[n + k - 1]]
  OBVIOUS
<1>11. \A k \in 1 .. (m - n) + 1 : buffer[p + k - 1] = path[n + k - 1]
  <2> TAKE k \in 1 .. (m - n) + 1
  <2>1. n + k - 1 \in n .. m /\ p + ((n + k - 1) - n) = p + k - 1
    OBVIOUS
  <2> QED
    BY <2>1
<1> QED
  BY <1>8, <1>9, <1>10, <1>11

\* The components of a path, in their order.
Enumerates(at, n, path) ==
  /\ at \in [1 .. n -> Starts(path)]
  /\ \A i, j \in 1 .. n : i < j => at[i] < at[j]
  /\ \A x \in Starts(path) : \E i \in 1 .. n : at[i] = x

\* The pointers of split_path lead to the components that at enumerates.
Pointers(s, path, at) ==
  /\ Enumerates(at, Len(s.parts), path)
  /\ \A k \in 1 .. Len(s.parts) : StringAt(s.buffer, s.parts[k]) = Component(path, at[k])

\* split_path, for every path: its pointers lead to the components in their
\* order, and it writes one byte more than the path has, at most.
LEMMA SplitReads ==
  ASSUME NEW path \in Seq(Nat \ {NUL}), NEW s, s = split_path(path)
  PROVE  /\ s.parts \in Seq(Nat) /\ s.buffer \in Seq(Nat) /\ Len(s.buffer) <= Len(path) + 1
         /\ \E at : Pointers(s, path, at)
<1>1. path \in Seq(Nat) /\ Len(path) \in Nat
  OBVIOUS
<1>2. PICK g \in [0 .. Len(path) -> Splitting] :
        /\ g[0] = Nothing
        /\ \A i \in 1 .. Len(path) : g[i] = Take(g[i - 1], path[i])
        /\ LET all == g[Len(path)]
           IN  split_path(path) =
                 [parts  |-> all.parts,
                  buffer |-> IF all.active THEN Append(all.buffer, NUL) ELSE all.buffer]
  BY <1>1, SplitStates
<1> DEFINE all == g[Len(path)]
<1>3. all \in Splitting /\ Split(path, Len(path), all)
  <2>1. Len(path) \in 0 .. Len(path)
    BY <1>1
  <2>2. all \in Splitting
    BY <1>2, <2>1
  <2>3. Split(path, Len(path), all)
    BY <1>1, <1>2, SplitAll
  <2> QED
    BY <2>2, <2>3
<1>4. s.parts = all.parts /\ s.buffer = IF all.active THEN Append(all.buffer, NUL) ELSE all.buffer
  BY <1>2
<1> HIDE DEF all
<1>5. /\ all.parts \in Seq(Nat \ {0}) /\ all.buffer \in Seq(Nat) /\ Len(all.buffer) \in Nat
      /\ Len(all.parts) \in Nat /\ all.active \in BOOLEAN /\ NUL \in Nat
  BY <1>3 DEF Splitting, NUL
<1>6. /\ s.buffer \in Seq(Nat) /\ Len(all.buffer) <= Len(s.buffer)
      /\ Len(s.buffer) <= Len(all.buffer) + 1
      /\ \A x \in 1 .. Len(all.buffer) : s.buffer[x] = all.buffer[x]
      /\ all.active => Len(s.buffer) = Len(all.buffer) + 1 /\ s.buffer[Len(all.buffer) + 1] = NUL
  <2>1. CASE all.active
    BY <1>4, <1>5, <2>1
  <2>2. CASE ~all.active
    BY <1>4, <1>5, <2>2
  <2> QED
    BY <2>1, <2>2
<1>7. Len(s.buffer) <= Len(path) + 1 /\ s.parts \in Seq(Nat)
  BY <1>3, <1>4, <1>5, <1>6 DEF Split
<1>11. \A y \in 1 .. Len(all.buffer) : y \in 1 .. Len(s.buffer) /\ s.buffer[y] = all.buffer[y]
  <2>1. Len(s.buffer) \in Nat
    BY <1>6
  <2>2. Len(all.buffer) \in Nat /\ Len(all.buffer) <= Len(s.buffer)
    BY <1>5, <1>6
  <2>3. \A y \in 1 .. Len(all.buffer) : y \in 1 .. Len(s.buffer)
    BY <2>1, <2>2
  <2>4. \A y \in 1 .. Len(all.buffer) : s.buffer[y] = all.buffer[y]
    BY <1>6, Zenon
  <2> QED
    BY <2>3, <2>4, Zenon
<1>8. PICK at : /\ Follow(path, Len(path), all, at) /\ Copied(path, Len(path), all, at)
                /\ UnderWay(path, Len(path), all, at)
  BY <1>3 DEF Split
<1>9. Enumerates(at, Len(s.parts), path)
  <2>1. \A n \in Starts(path) : n <= Len(path)
    BY <1>1 DEF Starts
  <2>2. at \in [1 .. Len(s.parts) -> Starts(path)]
    BY <1>4, <1>8 DEF Follow
  <2> QED
    BY <1>4, <1>8, <2>1, <2>2 DEF Follow, Enumerates
<1>10. ASSUME NEW k \in 1 .. Len(s.parts)
       PROVE  StringAt(s.buffer, s.parts[k]) = Component(path, at[k])
  <2> DEFINE n == at[k]
             p == all.parts[k]
  <2>1. n \in Starts(path) /\ n \in 1 .. Len(path) /\ k \in 1 .. Len(all.parts) /\ p \in Nat \ {0}
        /\ s.parts[k] = p
    BY <1>4, <1>5, <1>8, ElementOfSeq DEF Follow
  <2> HIDE DEF n, p
  <2>2. PICK m \in n .. Len(path) :
          /\ m = Len(path) \/ path[m + 1] = SLASH
          /\ Together(path, n, m) /\ Component(path, n) = SubSeq(path, n, m)
    BY <1>1, <2>1, ComponentIs
  <2>3. \A x \in n .. m : /\ p + (x - n) \in 1 .. Len(all.buffer)
                          /\ all.buffer[p + (x - n)] = path[x]
                          /\ x < Len(path) /\ path[x + 1] = SLASH =>
                               /\ p + (x - n) + 1 \in 1 .. Len(all.buffer)
                               /\ all.buffer[p + (x - n) + 1] = NUL
    <3> TAKE x \in n .. m
    <3>2. n \in Nat /\ m \in Nat /\ x \in Nat /\ Len(path) \in Nat
      <4>1. Len(path) \in Nat
        BY <1>1
      <4>2. n \in 1 .. Len(path)
        BY <2>1
      <4>3. m \in n .. Len(path)
        BY <2>2
      <4> QED
        BY <4>1, <4>2, <4>3
    <3>3. x \in n .. Len(path) /\ \A y \in n .. x : y \in n .. m
      BY <2>2, <3>2
    <3>4. Together(path, n, x)
      BY <2>2, <3>3 DEF Together
    <3>1. x \in n .. Len(path) /\ Together(path, n, x)
      BY <3>3, <3>4
    <3> QED
      BY <1>8, <2>1, <3>1 DEF Copied, n, p
  <2>4. \A x \in n .. m : p + (x - n) \in 1 .. Len(s.buffer) /\ s.buffer[p + (x - n)] = path[x]
    BY <2>3, <1>11
  <2>5. p + (m - n) + 1 \in 1 .. Len(s.buffer) /\ s.buffer[p + (m - n) + 1] = NUL
    <3>1. m \in n .. m
      BY <2>1
    <3>2. CASE m < Len(path)
      <4>1. p + (m - n) + 1 \in 1 .. Len(all.buffer) /\ all.buffer[p + (m - n) + 1] = NUL
        BY <2>2, <2>3, <3>1, <3>2
      <4> QED
        BY <4>1, <1>11
    <3>3. CASE m = Len(path)
      <4>1. Together(path, n, Len(path)) /\ path[Len(path)] # SLASH /\ Len(path) > 0
        BY <3>1, <3>3, <2>1, <2>2 DEF Together
      <4>2. k = Len(all.parts)
        BY <4>1, <1>1, <1>3, <1>8, <2>1, OnlyLast DEF n
      <4>3. all.active /\ p + (Len(path) - n) = Len(all.buffer)
        BY <4>1, <4>2, <1>8 DEF UnderWay, n, p
      <4>4. p + (m - n) + 1 = Len(all.buffer) + 1
        BY <4>3, <3>3
      <4> QED
        BY <4>3, <4>4, <1>5, <1>6
    <3> QED
      BY <3>2, <3>3, <1>1, <2>1
  <2>6. StringAt(s.buffer, p) = SubSeq(path, n, m)
    <3>1. s.buffer \in Seq(Nat) /\ m \in n .. Len(path)
      BY <1>6, <2>2
    <3>2. Lies(path, n, m, s.buffer, p)
      BY <2>4, <2>5 DEF Lies
    <3> DEFINE b == s.buffer
    <3>3. n \in 1 .. Len(path) /\ p \in Nat \ {0} /\ b \in Seq(Nat) /\ m \in n .. Len(path)
          /\ Lies(path, n, m, b, p)
      BY <2>1, <3>1, <3>2
    <3>5. path \in Seq(Nat \ {NUL})
      OBVIOUS
    <3> HIDE DEF b
    <3>4. StringAt(b, p) = SubSeq(path, n, m)
      BY <3>3, <3>5, StringIs, ZenonT(40)
    <3> QED
      BY <3>4 DEF b
  <2> QED
    BY <2>1, <2>2, <2>6 DEF n
<1> QED
  BY <1>6, <1>7, <1>9, <1>10 DEF Pointers

\* Of two enumerations in order neither misses what the other has.
LEMMA NoneMissed ==
  ASSUME NEW path \in Seq(Nat), NEW m \in Nat, NEW n \in Nat, NEW a, NEW b,
         Enumerates(a, m, path), Enumerates(b, n, path)
  PROVE  \A k \in 1 .. m : k <= n /\ a[k] = b[k]
<1> DEFINE Bad == {k \in 1 .. m : ~(k <= n /\ a[k] = b[k])}
<1> SUFFICES ASSUME Bad # {} PROVE FALSE
  OBVIOUS
<1>1. Bad \subseteq Nat
  OBVIOUS
<1>2. PICK k \in Bad : \A j \in Bad : k <= j
  BY <1>1, Least
<1>3. /\ \A i \in 1 .. m : a[i] \in Nat /\ a[i] \in Starts(path)
      /\ \A i \in 1 .. n : b[i] \in Nat /\ b[i] \in Starts(path)
      /\ \A i, j \in 1 .. m : i < j => a[i] < a[j]
      /\ \A i, j \in 1 .. n : i < j => b[i] < b[j]
      /\ \A x \in Starts(path) : \E i \in 1 .. m : a[i] = x
      /\ \A x \in Starts(path) : \E i \in 1 .. n : b[i] = x
  <2>1. \A x \in Starts(path) : x \in Nat
    BY DEF Starts
  <2> QED
    BY <2>1 DEF Enumerates
<1>4. k \in 1 .. m /\ \A j \in 1 .. k - 1 : j \in 1 .. m /\ j \in 1 .. n /\ a[j] = b[j]
  <2> SUFFICES ASSUME NEW j \in 1 .. k - 1 PROVE j \in 1 .. m /\ j \notin Bad
    OBVIOUS
  <2> HIDE DEF Bad
  <2> QED
    BY <1>1, <1>2 DEF Bad
<1> HIDE DEF Bad
<1>5. PICK j \in 1 .. n : b[j] = a[k]
  BY <1>3, <1>4
<1>6. j >= k
  <2> SUFFICES ASSUME j \in 1 .. k - 1 PROVE FALSE
    BY <1>4
  <2> QED
    BY <1>3, <1>4, <1>5
<1>7. k \in 1 .. n /\ b[k] <= a[k]
  <2>1. k \in 1 .. n
    BY <1>4, <1>6
  <2>2. j = k \/ k < j
    BY <1>4, <1>6
  <2>3. b[k] = b[j] \/ b[k] < b[j]
    BY <2>1, <2>2, <1>3
  <2>4. b[k] \in Nat /\ b[j] \in Nat
    BY <2>1, <1>3
  <2> QED
    BY <2>1, <2>3, <2>4, <1>5
<1>8. PICK l \in 1 .. m : a[l] = b[k]
  BY <1>3, <1>7
<1>9. l >= k
  <2> SUFFICES ASSUME l \in 1 .. k - 1 PROVE FALSE
    BY <1>4
  <2> QED
    BY <1>3, <1>4, <1>7, <1>8
<1>10. a[k] <= b[k]
  BY <1>3, <1>4, <1>8, <1>9
<1>11. a[k] = b[k] /\ k <= n
  BY <1>3, <1>4, <1>7, <1>10
<1> QED
  BY <1>2, <1>11 DEF Bad

SameList(a, m, b, n) == m = n /\ \A k \in 1 .. m : a[k] = b[k]

\* A path has one enumeration of its components.
LEMMA OneEnumeration ==
  ASSUME NEW path \in Seq(Nat), NEW m \in Nat, NEW n \in Nat, NEW a, NEW b,
         Enumerates(a, m, path), Enumerates(b, n, path)
  PROVE  SameList(a, m, b, n)
<1>1. \A k \in 1 .. m : k <= n /\ a[k] = b[k]
  BY NoneMissed
<1>2. \A k \in 1 .. n : k <= m
  BY NoneMissed
<1>3. m <= n /\ n <= m
  <2>1. m = 0 \/ m \in 1 .. m
    OBVIOUS
  <2>2. n = 0 \/ n \in 1 .. n
    OBVIOUS
  <2> QED
    BY <1>1, <1>2, <2>1, <2>2
<1> QED
  BY <1>1, <1>3 DEF SameList

\* pad_short_name makes the short name.
LEMMA PadIs ==
  ASSUME NEW name \in Seq(Nat), NEW short, short \in Seq(Nat), IsShortName(short, name)
  PROVE  pad_short_name(name) = short
<1> DEFINE dots == {k \in DOMAIN name : name[k] = DOT}
           first == CHOOSE k \in dots : \A d \in dots : k <= d
           base == {j \in 1 .. NAME_BASE : j <= Len(name) /\ \A d \in dots : j < d}
           ext == {k \in 1 .. NAME_EXT : dots # {} /\ first + k <= Len(name)}
           padded == [j \in 1 .. NAME_BASE + NAME_EXT |->
                        IF j \in base THEN upper(name[j])
                        ELSE IF j - NAME_BASE \in ext THEN upper(name[first + j - NAME_BASE])
                        ELSE SPACE]
<1>1. PICK dot \in 1 .. Len(name) + 1 :
        /\ dot = Len(name) + 1 \/ name[dot] = DOT
        /\ \A k \in 1 .. dot - 1 : name[k] # DOT
        /\ DOMAIN short = 1 .. NAME_BASE + NAME_EXT
        /\ \A j \in 1 .. NAME_BASE : short[j] = IF j < dot THEN upper(name[j]) ELSE SPACE
        /\ \A k \in 1 .. NAME_EXT :
             short[NAME_BASE + k] = IF dot + k <= Len(name) THEN upper(name[dot + k]) ELSE SPACE
  BY DEF IsShortName
<1>2. /\ Len(name) \in Nat /\ DOMAIN name = 1 .. Len(name) /\ NAME_BASE \in Nat /\ NAME_EXT \in Nat
      /\ dot \in Nat
  BY NameAssumption
<1>3. \A k \in dots : k \in 1 .. Len(name) /\ dot <= k
  BY <1>1, <1>2
<1>4. dots # {} => dot \in dots /\ dot <= Len(name)
  BY <1>1, <1>2, <1>3
<1>5. dots = {} => dot = Len(name) + 1
  <2>1. dot # Len(name) + 1 => dot \in DOMAIN name /\ name[dot] = DOT
    BY <1>1, <1>2
  <2> QED
    BY <2>1
<1>6. dots # {} => first = dot
  <2> SUFFICES ASSUME dots # {} PROVE first = dot
    OBVIOUS
  <2>1. dot \in dots /\ \A d \in dots : dot <= d
    BY <1>3, <1>4
  <2>2. first \in dots /\ \A d \in dots : first <= d
    <3> HIDE DEF dots
    <3> QED
      BY <2>1
  <2> HIDE DEF dots, first
  <2> QED
    BY <1>2, <1>3, <2>1, <2>2
<1>7. \A j \in 1 .. NAME_BASE : j \in base <=> j < dot
  <2> TAKE j \in 1 .. NAME_BASE
  <2>1. CASE dots = {}
    BY <1>2, <1>5, <2>1
  <2>2. CASE dots # {}
    <3> HIDE DEF dots
    <3>1. j < dot => j <= Len(name) /\ \A d \in dots : j < d
      BY <1>2, <1>3, <1>4, <2>2
    <3> QED
      BY <1>4, <2>2, <3>1
  <2> QED
    BY <2>1, <2>2
<1>8. \A k \in 1 .. NAME_EXT : k \in ext <=> dot + k <= Len(name)
  <2> TAKE k \in 1 .. NAME_EXT
  <2> HIDE DEF dots, first
  <2> QED
    BY <1>2, <1>4, <1>5, <1>6
<1>9. \A j \in NAME_BASE + 1 .. NAME_BASE + NAME_EXT :
        j \notin base /\ j - NAME_BASE \in 1 .. NAME_EXT /\ NAME_BASE + (j - NAME_BASE) = j
  BY <1>2
<1>10. \A j \in 1 .. NAME_BASE : j - NAME_BASE \notin ext
  BY <1>2
<1>11. ext # {} => first = dot
  BY <1>6
<1> HIDE DEF base, ext, dots, first
<1>12. ASSUME NEW j \in 1 .. NAME_BASE + NAME_EXT PROVE padded[j] = short[j]
  <2>1. CASE j <= NAME_BASE
    <3>1. j \in 1 .. NAME_BASE
      BY <1>2, <2>1
    <3> QED
      BY <1>1, <1>7, <1>10, <3>1
  <2>2. CASE j > NAME_BASE
    <3>1. j \in NAME_BASE + 1 .. NAME_BASE + NAME_EXT
      BY <1>2, <2>2
    <3> DEFINE k == j - NAME_BASE
    <3>2. j \notin base /\ k \in 1 .. NAME_EXT /\ NAME_BASE + k = j
      BY <1>9, <3>1
    <3>3. k \in ext => first = dot /\ first + j - NAME_BASE = dot + k
      BY <1>2, <1>11, <3>2
    <3>4. short[j] = IF dot + k <= Len(name) THEN upper(name[dot + k]) ELSE SPACE
      BY <1>1, <3>2
    <3>5. k \in ext <=> dot + k <= Len(name)
      BY <1>8, <3>2
    <3>6. padded[j] = IF k \in ext THEN upper(name[first + j - NAME_BASE]) ELSE SPACE
      BY <3>2
    <3> HIDE DEF k, padded
    <3> QED
      BY <3>3, <3>4, <3>5, <3>6
  <2> QED
    BY <1>2, <2>1, <2>2
<1>13. pad_short_name(name) = padded
  BY DEF pad_short_name, base, ext, dots, first
<1>14. short = [j \in 1 .. NAME_BASE + NAME_EXT |-> short[j]]
  BY <1>1
<1>15. padded = [j \in 1 .. NAME_BASE + NAME_EXT |-> padded[j]]
  OBVIOUS
<1> HIDE DEF padded
<1> QED
  BY <1>12, <1>13, <1>14, <1>15

\* What fat32_find_file looks for, after split_path and pad_short_name, is what
\* the path names: the short names of its components, in their order.
THEOREM NamesRead ==
  ASSUME NEW path \in Seq(Nat \ {NUL}), NEW names \in Seq(Seq(Nat)), NamedBy(path, names),
         NEW s, s = split_path(path)
  PROVE  /\ Len(s.parts) = Len(names) /\ Len(s.buffer) <= Len(path) + 1
         /\ [i \in DOMAIN s.parts |-> pad_short_name(StringAt(s.buffer, s.parts[i]))] = names
<1>1. s.parts \in Seq(Nat) /\ s.buffer \in Seq(Nat) /\ Len(s.buffer) <= Len(path) + 1
  BY SplitReads
<1>2. PICK a : /\ Enumerates(a, Len(s.parts), path)
               /\ \A k \in 1 .. Len(s.parts) :
                    StringAt(s.buffer, s.parts[k]) = Component(path, a[k])
  <2>1. \E at : Pointers(s, path, at)
    BY SplitReads
  <2> QED
    BY <2>1 DEF Pointers
<1>3. PICK b : /\ Enumerates(b, Len(names), path)
               /\ \A i \in 1 .. Len(names) : IsShortName(names[i], Component(path, b[i]))
  BY DEF NamedBy, Enumerates
<1>4. Len(s.parts) \in Nat /\ Len(names) \in Nat
  BY <1>1
<1>5. Len(s.parts) = Len(names) /\ \A k \in 1 .. Len(names) : a[k] = b[k]
  <2>1. path \in Seq(Nat)
    OBVIOUS
  <2>2. Enumerates(a, Len(s.parts), path) /\ Enumerates(b, Len(names), path)
    BY <1>2, <1>3
  <2>3. SameList(a, Len(s.parts), b, Len(names))
    BY <2>1, <2>2, <1>4, OneEnumeration
  <2> QED
    BY <2>3 DEF SameList
<1>6. ASSUME NEW k \in 1 .. Len(names)
      PROVE  pad_short_name(StringAt(s.buffer, s.parts[k])) = names[k]
  <2>1. StringAt(s.buffer, s.parts[k]) = Component(path, a[k]) /\ a[k] = b[k]
    BY <1>2, <1>5
  <2>2. Component(path, a[k]) \in Seq(Nat)
    <3>7. k \in 1 .. Len(s.parts)
      BY <1>5
    <3>8. a \in [1 .. Len(s.parts) -> Starts(path)]
      BY <1>2 DEF Enumerates
    <3>9. path \in Seq(Nat)
      OBVIOUS
    <3>1. path \in Seq(Nat) /\ a[k] \in Starts(path)
      BY <3>7, <3>8, <3>9, Zenon
    <3>2. PICK m \in a[k] .. Len(path) : Component(path, a[k]) = SubSeq(path, a[k], m)
      BY <3>1, ComponentIs
    <3>3. a[k] \in 1 .. Len(path)
      <4>1. DOMAIN path = 1 .. Len(path)
        BY <3>9
      <4> QED
        BY <3>1, <4>1, Zenon DEF Starts
    <3>4. \A i \in a[k] .. m : path[i] \in Nat
      <4> TAKE i \in a[k] .. m
      <4>1. i \in 1 .. Len(path)
        BY <3>2, <3>3
      <4> QED
        BY <3>1, <4>1, ElementOfSeq
    <3>5. a[k] \in Int /\ m \in Int
      BY <3>2, <3>3
    <3>6. SubSeq(path, a[k], m) \in Seq(Nat)
      BY <3>4, <3>5, SubSeqProperties, Zenon
    <3> QED
      BY <3>2, <3>6
  <2>3. names[k] \in Seq(Nat) /\ IsShortName(names[k], Component(path, a[k]))
    BY <1>3, <2>1, ElementOfSeq
  <2> QED
    BY <2>1, <2>2, <2>3, PadIs
<1>7. names = [i \in 1 .. Len(names) |-> names[i]] /\ DOMAIN s.parts = 1 .. Len(names)
  BY <1>1, <1>5
<1> QED
  BY <1>1, <1>5, <1>6, <1>7
----------------------------------------------------------------------------
\* fat32_init has computed the layout of the volume in the drive, and the
\* cluster at hand has a word in the allocation table.
Mounted ==
  pc \notin {"boot", "hang"} =>
    /\ vol.bpb.spc > 0 /\ vol.bpb.fatsz > 0
    /\ fs.fat_start = FatStart(vol) /\ fs.data_start = DataStart(vol)
    /\ fs.bps = SECTOR /\ fs.spc = vol.bpb.spc /\ fs.bpc = SECTOR * fs.spc
    /\ fs.root = vol.bpb.root
    /\ InTable(vol, cluster)

\* Nothing is copied before the search has ended, and a call's answer is an
\* error, nothing, or the bytes copied.
NotYet ==
  /\ pc \in {"boot", "hang", "find", "findnext"} => copied = <<>> /\ total = 0
  /\ pc = "boot" => ret = 0 /\ cluster = 0
  /\ pc = "idle" => ret <= 0 \/ ret = total

\* Where the read stands in the chain.
InPlace ==
  /\ pc = "readnext" => copied # <<>> /\ cluster = copied[Len(copied)].clus
  /\ pc = "read" /\ copied # <<>> => cluster = FatSuccessor(vol, copied[Len(copied)].clus)

Progress == Mounted /\ NotYet /\ InPlace /\ total <= call.size /\ TilesBuffer /\ FollowsChain
IInv == TypeOK /\ Progress
----------------------------------------------------------------------------

\* Quotient and remainder.
LEMMA DivMod ==
  ASSUME NEW x \in Nat, NEW d \in Int, d > 0
  PROVE  /\ x \div d \in Nat /\ x % d \in Nat
         /\ x % d < d /\ x = d * (x \div d) + (x % d)
<1>1. x \div d >= 0
  OBVIOUS
<1>2. x \div d \in Int /\ x % d \in Int /\ 0 <= x % d /\ x % d < d
  OBVIOUS
<1>3. x = d * (x \div d) + (x % d)
  OBVIOUS
<1> QED
  BY <1>1, <1>2, <1>3

\* The layout of the table undoes the division of a cluster number into
\* the FAT sector that fat32_next_cluster reads and the offset in it.
LEMMA WordIndex ==
  ASSUME NEW c \in Nat, NEW q \in Int, q > 0, NEW n \in Nat, c < n * q
  PROVE  /\ (4 * c) \div (4 * q) \in 0 .. n - 1
         /\ (((4 * c) \div (4 * q)) % n) * q + ((4 * c) % (4 * q)) \div 4 = c
<1>1. PICK a \in Nat, r \in Nat : /\ a = (4 * c) \div (4 * q) /\ r = (4 * c) % (4 * q)
                                /\ 4 * c = (4 * q) * a + r /\ r < 4 * q
  <2>1. 4 * c \in Nat /\ 4 * q \in Int /\ 4 * q > 0
    OBVIOUS
  <2> QED
    BY <2>1, DivMod
<1>2. a < n
  <2>1. q * a < q * n
    BY <1>1
  <2>2. SUFFICES ASSUME a >= n PROVE FALSE
    BY <1>1
  <2>3. q * (a - n) >= 0
    BY <2>2, <1>1
  <2> QED
    BY <2>1, <2>3, <1>1
<1>3. a % n = a
  <2>1. \A x, y \in Nat : x < y => x % y = x
    OBVIOUS
  <2> QED
    BY <1>2, <2>1
<1>4. r \div 4 = c - q * a
  <2>1. 4 * c = (4 * q) * a + r
    BY <1>1
  <2>2. r = 4 * (c - q * a)
    BY <2>1
  <2>3. \A k \in Int : (4 * k) \div 4 = k
    OBVIOUS
  <2>4. c - q * a \in Int
    OBVIOUS
  <2> QED
    BY <2>2, <2>3, <2>4
<1>5. (a % n) * q + (r \div 4) = c
  BY <1>3, <1>4
<1>6. a \in 0 .. n - 1
  BY <1>2
<1> QED
  BY <1>1, <1>5, <1>6, Zenon

\* A table that has a sector has a word for cluster 0.
LEMMA TableNotEmpty ==
  ASSUME NEW v, IsVolume(v), v.bpb.fatsz > 0
  PROVE  InTable(v, 0)
<1>1. v.bpb.fatsz \in Nat /\ FatWords \in Int /\ FatWords > 0
  BY SectorAssumption DEF IsVolume, Bpb, FatWords
<1> QED
  BY <1>1 DEF InTable

\* The cluster of a directory entry has a word in the table.
LEMMA EntryIn ==
  ASSUME NEW v, IsVolume(v), NEW lba, NEW off
  PROVE  /\ IsEntry(EntryAt(v, lba, off))
         /\ v.bpb.fatsz > 0 => InTable(v, EntryAt(v, lba, off).clus)
<1>1. IsEntry(ZeroEntry) /\ ZeroEntry.clus = 0
  BY DEF ZeroEntry, IsEntry, EntryKind
<1>2. v.bpb.fatsz > 0 => InTable(v, 0) /\ v.bpb.fatsz # 0
  BY TableNotEmpty
<1> QED
  BY <1>1, <1>2 DEF EntryAt, IsVolume

\* A number below the modulus is its own remainder.
LEMMA Below ==
  ASSUME NEW w \in Nat, w > 0, NEW n \in Nat, n < w
  PROVE  n % w = n
OBVIOUS

\* A uint32_t is not negative.
LEMMA Wrapped ==
  ASSUME NEW n \in Int
  PROVE  n % WORD \in Nat
BY WordAssumption

\* A uint32_t in the lower half is itself as an int.
LEMMA IntIs ==
  ASSUME NEW n \in Nat
  PROVE  int(n) \in Int /\ (2 * n < WORD => int(n) = n)
BY WordAssumption DEF int

\* No sector number, and no place in the table, of a volume wraps.
LEMMA VolumeCounted ==
  ASSUME NEW v, IsVolume(v), v.bpb.fatsz > 0, v.bpb.spc > 0
  PROVE  /\ FatStart(v) \in Nat /\ DataStart(v) \in Nat /\ FatStart(v) < WORD /\ DataStart(v) < WORD
         /\ \A w \in 0 .. v.bpb.fatsz - 1 : FatStart(v) + w < WORD
         /\ \A c \in Nat : InTable(v, c) => 4 * c < WORD
         /\ \A c \in Nat : c >= 2 /\ InTable(v, c) =>
              /\ DataStart(v) + (c - 2) * v.bpb.spc \in Nat
              /\ DataStart(v) + (c - 2) * v.bpb.spc < WORD
<1> DEFINE f == v.bpb.fatsz
           q == FatWords
           s == v.bpb.spc
           n == f * q
           m == n * s
           fats == v.bpb.nfats * f
           data == DataStart(v)
           start == FatStart(v)
<1>1. /\ f \in Nat /\ f > 0 /\ s \in Nat /\ s > 0 /\ v.bpb.nfats \in Nat /\ start \in Nat
      /\ WORD \in Nat
  BY WordAssumption DEF IsVolume, Bpb, FatStart
<1>2. q \in Nat /\ q > 0 /\ SECTOR = 4 * q
  BY SectorAssumption DEF FatWords
<1>3. fats \in Nat /\ data = start + fats
  BY <1>1 DEF DataStart
<1>4. data + m <= WORD /\ f * SECTOR <= WORD
  BY <1>1 DEF IsVolume, Counted
<1>5. \A x, y \in Nat : y > 0 => x * y \in Nat /\ x * y >= x
  OBVIOUS
<1> HIDE DEF f, s, q, data, start, fats
<1>6. n \in Nat /\ n >= f
  BY <1>1, <1>2, <1>5
<1> HIDE DEF n
<1>7. m \in Nat /\ m >= n
  BY <1>1, <1>6, <1>5
<1>8. f * SECTOR = 4 * n
  BY <1>1, <1>2 DEF n
<1>9. start \in Nat /\ data \in Nat /\ start < WORD /\ data < WORD
  BY <1>1, <1>3, <1>4, <1>6, <1>7
<1>10. \A w \in 0 .. f - 1 : start + w < WORD
  BY <1>1, <1>3, <1>4, <1>6, <1>7
<1>11. \A c : InTable(v, c) <=> c < n
  BY DEF InTable, n, f, q
<1>12. \A c \in Nat : InTable(v, c) => 4 * c < WORD
  BY <1>1, <1>4, <1>6, <1>8, <1>11
<1>13. ASSUME NEW c \in Nat, c >= 2, InTable(v, c) PROVE data + (c - 2) * s \in Nat /\ data + (c - 2) * s < WORD
  <2>1. c - 2 \in Nat /\ c - 2 < n
    BY <1>6, <1>11, <1>13
  <2>2. \A x, y, z \in Nat : x < y /\ z > 0 => x * z \in Nat /\ x * z < y * z
    OBVIOUS
  <2>3. (c - 2) * s \in Nat /\ (c - 2) * s < m
    BY <1>1, <1>6, <2>1, <2>2
  <2> QED
    BY <1>1, <1>4, <1>7, <1>9, <2>3
<1> QED
  BY <1>9, <1>10, <1>12, <1>13 DEF f, s, data, start

\* What cluster_to_lba computes is where the cluster is on the volume.
LEMMA LbaIs ==
  ASSUME VolumesAssumption, TypeOK, Mounted, pc \notin {"boot", "hang"}, cluster >= 2
  PROVE  cluster_to_lba(cluster) = DataStart(vol) + (cluster - 2) * vol.bpb.spc
<1> DEFINE lba == DataStart(vol) + (cluster - 2) * vol.bpb.spc
<1>1. /\ IsVolume(vol) /\ vol.bpb.fatsz > 0 /\ vol.bpb.spc > 0 /\ cluster \in Nat /\ InTable(vol, cluster)
      /\ fs.data_start = DataStart(vol) /\ fs.spc = vol.bpb.spc
  BY VolumesAssumption DEF TypeOK, Mounted
<1>2. lba \in Nat /\ lba < WORD /\ WORD \in Nat
  BY <1>1, VolumeCounted, WordAssumption
<1>3. cluster_to_lba(cluster) = lba % WORD
  BY <1>1 DEF cluster_to_lba
<1> HIDE DEF lba
<1>4. cluster_to_lba(cluster) = lba
  BY <1>2, <1>3, Below
<1> QED
  BY <1>4 DEF lba

\* Where fat32_next_cluster looks for the word of a cluster of the table.
LEMMA WordPlace ==
  ASSUME VolumesAssumption, TypeOK, Mounted, pc \notin {"boot", "hang"}
  PROVE  /\ fat_sector(cluster) = fs.fat_start + (4 * cluster) \div fs.bps
         /\ ent_offset(cluster) = (4 * cluster) % fs.bps
<1> DEFINE q == FatWords
           w == (4 * cluster) \div fs.bps
<1>1. /\ IsVolume(vol) /\ vol.bpb.fatsz > 0 /\ vol.bpb.spc > 0 /\ cluster \in Nat /\ InTable(vol, cluster)
      /\ fs.fat_start = FatStart(vol) /\ fs.bps = SECTOR
  BY VolumesAssumption DEF TypeOK, Mounted
<1>2. /\ q \in Int /\ q > 0 /\ SECTOR = 4 * q /\ vol.bpb.fatsz \in Nat
      /\ cluster < vol.bpb.fatsz * q
  BY <1>1, SectorAssumption DEF IsVolume, Bpb, FatWords, InTable
<1>3. w \in 0 .. vol.bpb.fatsz - 1
  BY <1>1, <1>2, WordIndex
<1>4. 4 * cluster < WORD /\ 4 * cluster \in Nat /\ WORD \in Nat /\ WORD > 0
  BY <1>1, VolumeCounted, WordAssumption
<1>5. (4 * cluster) % WORD = 4 * cluster
  BY <1>4, Below
<1>6. FatStart(vol) + w \in Nat /\ FatStart(vol) + w < WORD
  <2>1. FatStart(vol) \in Nat /\ FatStart(vol) + w < WORD
    BY <1>1, <1>3, VolumeCounted
  <2> HIDE DEF w
  <2> QED
    BY <1>3, <2>1
<1>7. (FatStart(vol) + w) % WORD = FatStart(vol) + w
  <2> HIDE DEF w
  <2> QED
    BY <1>4, <1>6, Below
<1> QED
  BY <1>1, <1>5, <1>7 DEF fat_sector, ent_offset

\* The cluster that is copied is cut where the caller's buffer ends, and
\* total_read does not wrap.
LEMMA CopyIs ==
  ASSUME SizesAssumption, RequestsAssumption, TypeOK, ~Overruns, total < call.size
  PROVE  /\ to_copy = IF total + fs.bpc > call.size THEN call.size - total ELSE fs.bpc
         /\ (total + to_copy) % WORD = total + to_copy
<1>1. total \in Nat /\ fs.bpc \in Nat /\ CLUSBUF \in Nat /\ 2 * CLUSBUF <= WORD /\ WORD \in Nat
  BY SizesAssumption, WordAssumption DEF TypeOK, FatStruct
<1>2. call.size \in Nat /\ 2 * call.size < WORD
  <2>1. CASE call \in Requests
    BY <2>1, RequestsAssumption
  <2>2. CASE call = NoCall
    BY <1>1, <2>2 DEF NoCall
  <2> QED
    BY <2>1, <2>2 DEF TypeOK
<1>3. fs.bpc <= CLUSBUF
  BY <1>1 DEF Overruns
<1>4. total + fs.bpc \in Nat /\ total + fs.bpc < WORD
  BY <1>1, <1>2, <1>3
<1>5. (total + fs.bpc) % WORD = total + fs.bpc
  BY <1>1, <1>4, Below
<1>6. to_copy = IF total + fs.bpc > call.size THEN call.size - total ELSE fs.bpc
  BY <1>5 DEF to_copy
<1>7. total + to_copy \in Nat /\ total + to_copy < WORD
  BY <1>1, <1>2, <1>4, <1>6
<1>8. (total + to_copy) % WORD = total + to_copy
  <2> DEFINE sum == total + to_copy
  <2>1. sum \in Nat /\ sum < WORD /\ WORD \in Nat /\ WORD > 0
    BY <1>1, <1>7
  <2> HIDE DEF sum
  <2>2. sum % WORD = sum
    BY <2>1, Below
  <2> QED
    BY <2>2 DEF sum
<1> QED
  BY <1>6, <1>8

\* What a call returns as an int is the number of bytes it has read.
LEMMA TotalIs ==
  ASSUME RequestsAssumption, TypeOK, total <= call.size
  PROVE  int(total) = total
<1>1. total \in Nat /\ call.size \in Nat /\ (total = 0 \/ 2 * call.size < WORD) /\ WORD \in Nat /\ WORD > 0
  BY RequestsAssumption, WordAssumption DEF TypeOK, NoCall
<1>2. 2 * total < WORD
  BY <1>1
<1> QED
  BY <1>1, <1>2, IntIs

\* fat32_next_cluster reads the word of the cluster, on every geometry.
LEMMA NextWord ==
  ASSUME VolumesAssumption, SizesAssumption, TypeOK, Mounted, pc \notin {"boot", "hang"},
         NEW ok \in BOOLEAN, Follows(next_cluster(cluster, ok))
  PROVE  next_cluster(cluster, ok) = FatSuccessor(vol, cluster)
<1> DEFINE q == FatWords
           n == vol.bpb.fatsz
           c == cluster
           lba == fs.fat_start + (4 * c) \div fs.bps
           off == (4 * c) % fs.bps
           w == FatWordAt(vol, lba, off) % FAT_MASK
<1>1. q \in Int /\ q > 0 /\ SECTOR = 4 * q /\ n \in Nat /\ c \in Nat /\ c < n * q
  BY SectorAssumption, VolumesAssumption DEF TypeOK, Mounted, IsVolume, Bpb, FatWords, InTable
<1>2. ok /\ next_cluster(c, ok) = w /\ w # 0
  BY WordPlace DEF next_cluster, Follows, NEXT_FAIL, EOC
<1>3. /\ (4 * c) \div (4 * q) \in 0 .. n - 1
      /\ (((4 * c) \div (4 * q)) % n) * q + (((4 * c) % (4 * q)) \div 4) = c
  BY <1>1, WordIndex
<1>4. /\ lba = FatStart(vol) + ((4 * c) \div (4 * q)) /\ off = (4 * c) % (4 * q)
      /\ FatStart(vol) \in Nat
  <2>1. fs.bps = 4 * q /\ fs.fat_start = FatStart(vol)
    BY <1>1 DEF Mounted
  <2>2. FatStart(vol) \in Nat
    BY VolumesAssumption DEF TypeOK, IsVolume, Bpb, FatStart
  <2> QED
    BY <2>1, <2>2, Zenon
<1>5. lba - FatStart(vol) = (4 * c) \div (4 * q)
  BY <1>3, <1>4
<1>6. FatWordAt(vol, lba, off) \in {0, IF c \in DOMAIN vol.fat THEN vol.fat[c] ELSE 0}
  BY <1>3, <1>4, <1>5 DEF FatWordAt
<1>7. 0 % FAT_MASK = 0
  BY DEF FAT_MASK
<1>8. InTable(vol, c)
  BY DEF Mounted
<1> QED
  BY <1>2, <1>6, <1>7, <1>8 DEF FatSuccessor

\* fat32_next_cluster returns a number, also when its read failed.
LEMMA NextNat ==
  ASSUME VolumesAssumption, TypeOK, NEW c, NEW ok \in BOOLEAN
  PROVE  next_cluster(c, ok) \in Nat
<1> DEFINE w(lba, off) == FatWordAt(vol, lba, off)
<1>1. \A lba, off : w(lba, off) \in Nat
  BY VolumesAssumption DEF FatWordAt, TypeOK, IsVolume
<1>2. \A x \in Nat : x % FAT_MASK \in Nat
  BY DEF FAT_MASK
<1> QED
  BY <1>1, <1>2 DEF next_cluster, NEXT_FAIL

\* A word that is not an end of chain names a cluster of the table.
LEMMA SuccessorInTable ==
  ASSUME NEW v, IsVolume(v), v.bpb.fatsz > 0, NEW c, Follows(FatSuccessor(v, c))
  PROVE  InTable(v, FatSuccessor(v, c))
<1>1. FatSuccessor(v, c) = v.fat[c] % FAT_MASK /\ c \in DOMAIN v.fat
  BY DEF Follows, FatSuccessor
<1>2. ~(v.fat[c] % FAT_MASK >= EOC)
  <2>1. v.fat[c] % FAT_MASK \in Int
    BY <1>1 DEF IsVolume, FAT_MASK
  <2> QED
    BY <1>1, <2>1 DEF Follows, EOC
<1> QED
  BY <1>1, <1>2 DEF IsVolume, Bpb
----------------------------------------------------------------------------

\* The types hold before fat32_init.
LEMMA TypeInit == Init => TypeOK
<1> SUFFICES ASSUME Init PROVE TypeOK
  OBVIOUS
<1>1. NoFs \in FatStruct
  BY DEF NoFs, FatStruct
<1>2. <<>> \in Seq(Chunk)
  OBVIOUS
<1>3. ioerr \in BOOLEAN
  BY DEF Init
<1> QED
  BY <1>1, <1>2, <1>3 DEF Init, TypeOK

\* Every step keeps the types.
LEMMA TypeStep ==
  ASSUME VolumesAssumption, SizesAssumption, RequestsAssumption, ReadOutcomesAssumption,
         TypeOK, [Next]_vars
  PROVE  TypeOK'
<1>1. CASE MountFails
  <2>1. ret' \in Int /\ pc' = "hang"
    BY <1>1 DEF MountFails
  <2>2. ioerr' \in BOOLEAN
    BY <1>1 DEF MountFails, TypeOK
  <2> QED
    BY <1>1, <2>1, <2>2 DEF TypeOK, MountFails
<1>2. CASE MountOk
  <2>1. BpbAt(vol, PART_START) \in Bpb
    BY VolumesAssumption DEF TypeOK, BpbAt, ZeroBpb, IsVolume, Bpb
  <2>2. fs' \in FatStruct
    <3> DEFINE b == BpbAt(vol, PART_START)
               start == (PART_START + b.rsvd) % WORD
               data == (PART_START + b.rsvd + b.nfats * b.fatsz) % WORD
    <3>1. b \in Bpb /\ PART_START \in Nat
      BY <2>1, SizesAssumption
    <3>2. fs' = [fat_start |-> start, data_start |-> data, bps |-> b.bps, spc |-> b.spc,
                 bpc |-> b.bps * b.spc, root |-> b.root]
      BY <1>2 DEF MountOk
    <3> HIDE DEF b
    <3>3. /\ b.bps \in Nat /\ b.spc \in Nat /\ b.rsvd \in Nat /\ b.nfats \in Nat /\ b.fatsz \in Nat
          /\ b.root \in Nat
      BY <3>1 DEF Bpb
    <3>4. \A x, y \in Nat : x * y \in Nat /\ x + y \in Nat
      OBVIOUS
    <3>5. start \in Nat
      <4>1. PART_START + b.rsvd \in Int
        BY <3>1, <3>3
      <4> QED
        BY <4>1, Wrapped
    <3>6. data \in Nat
      <4>1. PART_START + b.rsvd + b.nfats * b.fatsz \in Int
        BY <3>1, <3>3, <3>4
      <4> QED
        BY <4>1, Wrapped
    <3> HIDE DEF start, data
    <3> QED
      BY <3>2, <3>3, <3>4, <3>5, <3>6 DEF FatStruct
  <2> QED
    BY <1>2, <2>2 DEF TypeOK, MountOk
<1>3. CASE KmainSpins \/ UNCHANGED vars
  BY <1>3 DEF TypeOK, KmainSpins, vars
<1>4. ASSUME NEW r \in Requests, Call(r) PROVE TypeOK'
  <2>1. ioerr' \in BOOLEAN
    BY <1>4 DEF Call
  <2>2. fs.root \in Nat /\ <<>> \in Seq(Chunk)
    BY DEF TypeOK, FatStruct
  <2> QED
    <3>1. int(fs.root) \in Int
      BY <2>2, IntIs
    <3>2. /\ pc' \in {"corrupt", "find", "read", "idle"} /\ ret' \in {ret, int(fs.root)}
          /\ call' = r /\ part' = 1 /\ cluster' = fs.root /\ total' = 0 /\ copied' = <<>>
          /\ UNCHANGED <<vol, fs>>
      BY <1>4 DEF Call, Return
    <3> QED
      BY <2>1, <2>2, <3>1, <3>2 DEF TypeOK
<1>5. ASSUME NEW ok \in BOOLEAN, FindCluster(ok) PROVE TypeOK'
  <2>1. FirstHit(Target).clus \in Nat
    BY VolumesAssumption, EntryIn DEF TypeOK, FirstHit, IsEntry
  <2>2. int(FirstHit(Target).clus) \in Int
    BY <2>1, IntIs
  <2>3. ioerr' \in BOOLEAN
    BY <1>5 DEF FindCluster, Attempt, TypeOK
  <2>4. /\ pc' \in {"idle", "find", "findnext", "read"} /\ part' \in {part, part + 1}
        /\ cluster' \in {cluster, FirstHit(Target).clus}
        /\ ret' \in {ret, -3, -2, int(FirstHit(Target).clus)}
        /\ UNCHANGED <<vol, fs, call, total, copied>>
    BY <1>5 DEF FindCluster, Return
  <2> QED
    BY <2>1, <2>2, <2>3, <2>4 DEF TypeOK
<1>6. CASE FindStops
  BY <1>6 DEF TypeOK, FindStops, Return
<1>7. ASSUME NEW ok \in BOOLEAN, FindNext(ok) PROVE TypeOK'
  BY <1>7, NextNat, ReadOutcomesAssumption DEF TypeOK, FindNext, Return, Attempt
<1>8. ASSUME NEW ok \in BOOLEAN, ReadCluster(ok) PROVE TypeOK'
  <2>1. ioerr' \in BOOLEAN
    BY <1>8 DEF ReadCluster, Attempt, TypeOK
  <2>2. call.size \in Nat /\ fs.bpc \in Nat /\ fs.spc \in Nat /\ fs.data_start \in Nat
    BY RequestsAssumption DEF TypeOK, NoCall, FatStruct
  <2>3. total \in Nat /\ total < call.size /\ cluster \in Int
    BY <1>8 DEF ReadCluster, TypeOK
  <2>6. to_copy \in Nat /\ Dest \in Nat /\ (total + to_copy) % WORD \in Nat
    BY <2>2, <2>3, WordAssumption DEF to_copy, Dest
  <2>7. cluster_to_lba(cluster) \in Int
    <3> DEFINE n == fs.data_start + (cluster - 2) * fs.spc
    <3>1. n \in Int
      <4>1. \A x, y \in Int : x * y \in Int
        OBVIOUS
      <4> QED
        BY <2>2, <2>3, <4>1
    <3>2. cluster_to_lba(cluster) = n % WORD
      BY DEF cluster_to_lba
    <3> HIDE DEF n
    <3> QED
      BY <3>1, <3>2, Wrapped
  <2>4. [at |-> Dest, n |-> to_copy, clus |-> cluster, lba |-> cluster_to_lba(cluster)] \in Chunk
    BY <2>3, <2>6, <2>7 DEF Chunk
  <2>5. total' \in Nat /\ copied' \in Seq(Chunk)
    <3>1. CASE UNCHANGED <<total, copied>>
      BY <3>1 DEF TypeOK
    <3>2. CASE ok /\ Overruns
      BY <1>8, <3>2 DEF ReadCluster, TypeOK
    <3>3. CASE ~UNCHANGED <<total, copied>>
      <4>1. total' = (total + to_copy) % WORD
        BY <1>8, <3>3 DEF ReadCluster
      <4>2. PICK e \in Chunk : copied' = Append(copied, e)
        BY <1>8, <3>3, <2>4 DEF ReadCluster
      <4> QED
        BY <4>1, <4>2, <2>6 DEF TypeOK
    <3> QED
      BY <3>1, <3>3
  <2> QED
    BY <1>8, <2>1, <2>5 DEF TypeOK, ReadCluster, Return
<1>9. ASSUME NEW ok \in BOOLEAN, ReadNext(ok) PROVE TypeOK'
  BY <1>9, NextNat, IntIs, ReadOutcomesAssumption DEF TypeOK, ReadNext, Return, Attempt
<1>10. CASE ReadDone
  BY <1>10, IntIs DEF TypeOK, ReadDone, Return
<1> QED
  BY <1>1, <1>2, <1>3, <1>4, <1>5, <1>6, <1>7, <1>8, <1>9, <1>10 DEF Next, Step

\* The driver's variables keep their types: fat32_next_cluster never gives
\* a negative cluster, and the counters never leave their ranges.
THEOREM TypeCorrect == Spec => []TypeOK
  BY TypeInit, TypeStep, VolumesAssumption, SizesAssumption, RequestsAssumption,
     ReadOutcomesAssumption, PTL DEF Spec
----------------------------------------------------------------------------

\* There is nothing copied, and nothing mounted, before fat32_init.
LEMMA ProgressInit == Init => Progress
  BY DEF Init, Progress, Mounted, NotYet, InPlace, TilesBuffer, FollowsChain, NoCall

\* A step that copies nothing leaves the history of copies as it was.
LEMMA SameCopies ==
  ASSUME Progress, UNCHANGED <<vol, call, total, copied>>
  PROVE  total' <= call'.size /\ TilesBuffer' /\ FollowsChain'
BY DEF Progress, TilesBuffer, FollowsChain

\* Where the driver goes on from a cluster is the cluster's successor.
LEMMA NextInTable ==
  ASSUME VolumesAssumption, SizesAssumption, TypeOK, Mounted, pc \notin {"boot", "hang"},
         NEW ok \in BOOLEAN, Follows(next_cluster(cluster, ok))
  PROVE  /\ next_cluster(cluster, ok) = FatSuccessor(vol, cluster)
         /\ InTable(vol, next_cluster(cluster, ok))
<1>1. next_cluster(cluster, ok) = FatSuccessor(vol, cluster)
  BY NextWord
<1>2. IsVolume(vol) /\ vol.bpb.fatsz > 0
  BY VolumesAssumption DEF TypeOK, Mounted
<1> QED
  BY <1>1, <1>2, SuccessorInTable

\* The step that copies a cluster extends the tiling and the chain.
LEMMA CopyStep ==
  ASSUME VolumesAssumption, SizesAssumption, RequestsAssumption, IInv, NEW ok \in BOOLEAN,
         ReadCluster(ok), ok, ~Overruns
  PROVE  Progress'
<1> DEFINE e == [at |-> Dest, n |-> to_copy, clus |-> cluster, lba |-> cluster_to_lba(cluster)]
           len == Len(copied)
<1>1. /\ UNCHANGED <<vol, fs, call, part, cluster>> /\ pc = "read" /\ pc' = "readnext"
      /\ copied' = Append(copied, e) /\ total' = (total + to_copy) % WORD
      /\ total < call.size /\ InChain(cluster)
  BY DEF ReadCluster, Return
<1>0. /\ to_copy = IF total + fs.bpc > call.size THEN call.size - total ELSE fs.bpc
      /\ total' = total + to_copy
  BY <1>1, CopyIs DEF IInv
<1>2. copied \in Seq(Chunk) /\ total \in Nat /\ cluster \in Nat /\ len \in Nat
  BY DEF IInv, TypeOK
<1>3. call.size \in Nat /\ fs.bpc \in Nat
  BY RequestsAssumption DEF IInv, TypeOK, NoCall, FatStruct
<1>4. e.at = total /\ e.n = to_copy /\ e.clus = cluster
      /\ e.lba = DataStart(vol) + (cluster - 2) * vol.bpb.spc
  BY <1>1, <1>2, LbaIs DEF Dest, InChain, IInv, Progress
<1>5. Len(copied') = len + 1 /\ copied'[len + 1] = e /\ \A k \in 1 .. len : copied'[k] = copied[k]
  BY <1>1, <1>2
<1>6. total' <= call'.size
  BY <1>0, <1>1, <1>2, <1>3 DEF IInv, Progress
<1>7. TilesBuffer'
  <2>1. \A k \in 1 .. len : copied'[k].at = IF k = 1 THEN 0 ELSE copied'[k - 1].at + copied'[k - 1].n
    <3>1. \A k \in 1 .. len : k = 1 \/ (k - 1) \in 1 .. len
      BY <1>2
    <3>2. \A k \in 1 .. len : copied[k].at = IF k = 1 THEN 0 ELSE copied[k - 1].at + copied[k - 1].n
      BY DEF IInv, Progress, TilesBuffer
    <3> QED
      BY <1>5, <3>1, <3>2
  <2>2. e.at = IF len + 1 = 1 THEN 0 ELSE copied'[len].at + copied'[len].n
    <3>1. CASE len = 0
      BY <3>1, <1>2, <1>4 DEF IInv, Progress, TilesBuffer
    <3>2. CASE len > 0
      BY <3>2, <1>2, <1>4, <1>5 DEF IInv, Progress, TilesBuffer
    <3> QED
      BY <3>1, <3>2, <1>2
  <2>3. total' = copied'[Len(copied')].at + copied'[Len(copied')].n /\ copied' # <<>>
    <3>1. copied'[Len(copied')] = e /\ copied' # <<>>
      BY <1>1, <1>2, <1>5
    <3> QED
      BY <1>0, <1>4, <3>1
  <2>4. ASSUME NEW k \in 1 .. len + 1
        PROVE  copied'[k].at = IF k = 1 THEN 0 ELSE copied'[k - 1].at + copied'[k - 1].n
    <3>1. CASE k \in 1 .. len
      BY <2>1, <3>1
    <3>2. CASE k = len + 1
      <4>1. copied'[k] = e /\ k - 1 = len
        BY <1>2, <1>5, <3>2
      <4> QED
        BY <2>2, <3>2, <4>1
    <3> QED
      BY <1>2, <3>1, <3>2
  <2> QED
    BY <2>3, <2>4, <1>5 DEF TilesBuffer
<1>8. FollowsChain'
  <2>1. \A k \in 1 .. len : copied'[k].lba = DataStart(vol) + (copied'[k].clus - 2) * vol.bpb.spc
    BY <1>5 DEF IInv, Progress, FollowsChain
  <2>2. \A k \in 1 .. len - 1 : copied'[k + 1].clus = FatSuccessor(vol, copied'[k].clus)
    BY <1>2, <1>5 DEF IInv, Progress, FollowsChain
  <2>3. len > 0 => copied'[len + 1].clus = FatSuccessor(vol, copied'[len].clus)
    BY <1>1, <1>2, <1>4, <1>5 DEF IInv, Progress, InPlace
  <2>4. ASSUME NEW k \in 1 .. len
        PROVE  copied'[k + 1].clus = FatSuccessor(vol, copied'[k].clus)
    <3>1. (k = len /\ len > 0) \/ k \in 1 .. len - 1
      BY <1>2
    <3> QED
      BY <2>2, <2>3, <3>1
  <2>5. \A k \in 1 .. len + 1 :
          copied'[k].lba = DataStart(vol) + (copied'[k].clus - 2) * vol.bpb.spc
    <3>1. copied'[len + 1].lba = DataStart(vol) + (copied'[len + 1].clus - 2) * vol.bpb.spc
      BY <1>4, <1>5
    <3>2. \A k \in 1 .. len + 1 : k \in 1 .. len \/ k = len + 1
      BY <1>2
    <3> HIDE DEF e, len
    <3> QED
      BY <2>1, <3>1, <3>2
  <2>6. UNCHANGED vol /\ Len(copied') = len + 1 /\ (len + 1) - 1 = len
    BY <1>1, <1>2, <1>5
  <2> HIDE DEF e, len
  <2> QED
    BY <2>4, <2>5, <2>6 DEF FollowsChain
<1>9. Mounted'
  BY <1>1 DEF IInv, Progress, Mounted
<1>10. NotYet' /\ InPlace'
  BY <1>1, <1>4, <1>5 DEF NotYet, InPlace
<1> QED
  BY <1>6, <1>7, <1>8, <1>9, <1>10 DEF Progress

\* Every step keeps the part of the invariant about the read.
LEMMA ProgressStep ==
  ASSUME VolumesAssumption, SizesAssumption, RequestsAssumption, IInv, [Next]_vars
  PROVE  Progress'
<1> USE DEF IInv
<1>1. CASE MountFails
  <2>1. UNCHANGED <<vol, fs, call, part, cluster, total, copied>> /\ pc = "boot" /\ pc' = "hang"
    BY <1>1 DEF MountFails
  <2> QED
    BY <2>1, SameCopies DEF Progress, Mounted, NotYet, InPlace
<1>2. CASE MountOk
  <2>1. UNCHANGED <<vol, call, part, cluster, total, copied, ret>> /\ pc = "boot" /\ pc' = "idle"
    BY <1>2 DEF MountOk
  <2>2. cluster = 0
    BY <2>1 DEF Progress, NotYet
  <2>3. vol.start = PART_START /\ vol.bpb.bps # 0 /\ vol.bpb.spc # 0 /\ vol.bpb.fatsz # 0
    BY <1>2 DEF MountOk, BpbAt, ZeroBpb
  <2>4. IsVolume(vol) /\ vol.bpb \in Bpb /\ vol.bpb.bps = SECTOR
    BY <2>3, VolumesAssumption DEF TypeOK, IsVolume
  <2>5. /\ fs'.fat_start = FatStart(vol) /\ fs'.data_start = DataStart(vol)
        /\ fs'.bps = SECTOR /\ fs'.spc = vol.bpb.spc /\ fs'.bpc = SECTOR * vol.bpb.spc
        /\ fs'.root = vol.bpb.root
    <3>1. vol.bpb.spc > 0 /\ vol.bpb.fatsz > 0
      BY <2>3, <2>4 DEF Bpb
    <3>2. FatStart(vol) % WORD = FatStart(vol) /\ DataStart(vol) % WORD = DataStart(vol)
      <4>1. /\ FatStart(vol) \in Nat /\ DataStart(vol) \in Nat
            /\ FatStart(vol) < WORD /\ DataStart(vol) < WORD
        BY <2>4, <3>1, VolumeCounted
      <4> QED
        BY <4>1, WordAssumption, Below
    <3>3. BpbAt(vol, PART_START) = vol.bpb
      BY <2>3 DEF BpbAt
    <3>4. /\ fs'.fat_start = FatStart(vol) % WORD /\ fs'.data_start = DataStart(vol) % WORD
          /\ fs'.bps = vol.bpb.bps /\ fs'.spc = vol.bpb.spc /\ fs'.bpc = vol.bpb.bps * vol.bpb.spc
          /\ fs'.root = vol.bpb.root
      BY <1>2, <2>3, <3>3 DEF MountOk, FatStart, DataStart
    <3> QED
      BY <2>4, <3>2, <3>4
  <2>6. vol.bpb.spc > 0 /\ vol.bpb.fatsz > 0
    BY <2>3, <2>4 DEF Bpb
  <2>7. InTable(vol, 0)
    BY <2>4, <2>6, TableNotEmpty
  <2>8. Mounted'
    BY <2>1, <2>2, <2>5, <2>6, <2>7 DEF Mounted
  <2> QED
    BY <2>1, <2>2, <2>8, SameCopies DEF Progress, NotYet, InPlace
<1>3. CASE KmainSpins \/ UNCHANGED vars
  BY <1>3 DEF KmainSpins, vars, Progress, Mounted, NotYet, InPlace, TilesBuffer, FollowsChain
<1>4. ASSUME NEW r \in Requests, Call(r) PROVE Progress'
  <2>1. /\ pc = "idle" /\ pc' \in {"find", "read", "idle", "corrupt"}
        /\ cluster' = fs.root /\ total' = 0 /\ copied' = <<>> /\ call' = r
        /\ UNCHANGED <<vol, fs>>
        /\ pc' = "idle" => ret' <= 0
    <3>1. int(fs.root) \in Int
      BY IntIs DEF TypeOK, FatStruct
    <3> QED
      BY <1>4, <3>1 DEF Call, Return
  <2>2. r.size \in Nat
    BY RequestsAssumption
  <2>3. IsVolume(vol) /\ fs.root = vol.bpb.root /\ vol.bpb.fatsz # 0
    BY <2>1, VolumesAssumption DEF TypeOK, Progress, Mounted
  <2>4. InTable(vol, fs.root)
    BY <2>3 DEF IsVolume
  <2> QED
    BY <2>1, <2>2, <2>4 DEF Progress, Mounted, NotYet, InPlace, TilesBuffer, FollowsChain
<1>5. ASSUME NEW ok \in BOOLEAN, FindCluster(ok) PROVE Progress'
  <2>1. /\ UNCHANGED <<vol, fs, call, total, copied>>
        /\ pc = "find" /\ pc' \in {"idle", "find", "findnext", "read"}
        /\ cluster' \in {cluster, FirstHit(Target).clus}
    BY <1>5 DEF FindCluster, Return
  <2>2. FirstHit(Target).clus \in Nat /\ InTable(vol, FirstHit(Target).clus)
    <3>1. IsVolume(vol) /\ vol.bpb.fatsz > 0
      BY <2>1, VolumesAssumption DEF TypeOK, Progress, Mounted
    <3> QED
      BY <3>1, EntryIn DEF FirstHit, IsEntry
  <2>3. pc' = "idle" => ret' <= 0
    BY <1>5, <2>2, IntIs DEF FindCluster, Return
  <2>4. copied = <<>>
    BY <2>1 DEF Progress, NotYet
  <2> QED
    BY <2>1, <2>2, <2>3, <2>4, SameCopies DEF Progress, Mounted, NotYet, InPlace
<1>6. CASE FindStops
  <2>1. UNCHANGED <<vol, fs, call, part, cluster, total, copied>> /\ pc = "find" /\ pc' = "idle"
    BY <1>6 DEF FindStops, Return
  <2>2. ret' <= 0
    BY <1>6 DEF FindStops, Return
  <2> QED
    BY <2>1, <2>2, SameCopies DEF Progress, Mounted, NotYet, InPlace
<1>7. ASSUME NEW ok \in BOOLEAN, FindNext(ok) PROVE Progress'
  <2>1. /\ UNCHANGED <<vol, fs, call, total, copied>>
        /\ pc = "findnext" /\ pc' \in {"idle", "find"}
        /\ pc' = "idle" => ret' = 0 /\ cluster' = cluster
        /\ pc' = "find" => cluster' = next_cluster(cluster, ok) /\ Follows(next_cluster(cluster, ok))
    BY <1>7 DEF FindNext, Return
  <2>2. InTable(vol, cluster')
    BY <2>1, NextInTable DEF Progress, Mounted
  <2>3. copied = <<>>
    BY <2>1 DEF Progress, NotYet
  <2> QED
    BY <2>1, <2>2, <2>3, SameCopies DEF Progress, Mounted, NotYet, InPlace
<1>8. ASSUME NEW ok \in BOOLEAN, ReadCluster(ok) PROVE Progress'
  <2>1. CASE ~ok \/ Overruns
    <3>1. /\ UNCHANGED <<vol, fs, call, part, cluster, total, copied>>
          /\ pc = "read" /\ ((pc' = "idle" /\ ret' = -3) \/ pc' = "corrupt")
      BY <1>8, <2>1 DEF ReadCluster, Return
    <3> QED
      BY <3>1, SameCopies DEF Progress, Mounted, NotYet, InPlace
  <2>2. CASE ok /\ ~Overruns
    BY <1>8, <2>2, CopyStep
  <2> QED
    BY <2>1, <2>2
<1>9. ASSUME NEW ok \in BOOLEAN, ReadNext(ok) PROVE Progress'
  <2>1. /\ UNCHANGED <<vol, fs, call, total, copied>>
        /\ pc = "readnext" /\ pc' \in {"idle", "read"}
        /\ pc' = "idle" => ret' = total /\ cluster' = cluster
        /\ pc' = "read" => cluster' = next_cluster(cluster, ok) /\ Follows(next_cluster(cluster, ok))
    <3>1. int(total) = total
      BY TotalIs DEF Progress
    <3> QED
      BY <1>9, <3>1 DEF ReadNext, Return
  <2>2. InTable(vol, cluster')
    BY <2>1, NextInTable DEF Progress, Mounted
  <2>3. pc' = "read" => cluster' = FatSuccessor(vol, cluster)
    BY <2>1, NextInTable DEF Progress
  <2>4. cluster = copied[Len(copied)].clus
    BY <2>1 DEF Progress, InPlace
  <2> QED
    BY <2>1, <2>2, <2>3, <2>4, SameCopies DEF Progress, Mounted, NotYet, InPlace
<1>10. CASE ReadDone
  <2>1. /\ UNCHANGED <<vol, fs, call, part, cluster, total, copied>>
        /\ pc = "read" /\ pc' = "idle" /\ ret' = total
    <3>1. int(total) = total
      BY TotalIs DEF Progress
    <3> QED
      BY <1>10, <3>1 DEF ReadDone, Return
  <2> QED
    BY <2>1, SameCopies DEF Progress, Mounted, NotYet, InPlace
<1> QED
  BY <1>1, <1>2, <1>3, <1>4, <1>5, <1>6, <1>7, <1>8, <1>9, <1>10 DEF Next, Step

\* The invariant of the driver, on every volume and whichever reads fail.
THEOREM Inductive == Spec => []IInv
<1>1. Init => IInv
  BY TypeInit, ProgressInit DEF IInv
<1>2. IInv /\ [Next]_vars => IInv'
  BY TypeStep, ProgressStep, VolumesAssumption, SizesAssumption, RequestsAssumption,
     ReadOutcomesAssumption DEF IInv
<1> QED
  BY <1>1, <1>2, PTL DEF Spec

\* fat32_read_file never copies or reports more than buf_size bytes.
THEOREM BufferSafe == Spec => []WithinBuffer
<1>1. IInv => WithinBuffer
  <2>1. IInv => call.size \in Nat /\ ret \in Int /\ total \in Nat
    BY RequestsAssumption DEF IInv, TypeOK, NoCall
  <2> QED
    BY <2>1 DEF IInv, Progress, NotYet, WithinBuffer
<1> QED
  BY <1>1, Inductive, PTL

\* What it copies fills the buffer without a gap, from the first byte on.
THEOREM Tiles == Spec => []TilesBuffer
<1>1. IInv => TilesBuffer
  BY DEF IInv, Progress
<1> QED
  BY <1>1, Inductive, PTL

\* Every copy comes from the cluster that the allocation table has after
\* the one before it.
THEOREM ChainFollowed == Spec => []FollowsChain
<1>1. IInv => FollowsChain
  BY DEF IInv, Progress
<1> QED
  BY <1>1, Inductive, PTL
----------------------------------------------------------------------------

\* A product and its quotient.
LEMMA Quotient ==
  ASSUME NEW a \in Nat, NEW d \in Int, d > 0, NEW r \in Nat, r < d
  PROVE  (a * d + r) \div d = a /\ (a * d + r) % d = r
<1>1. a * d + r \in Nat
  OBVIOUS
<1>2. PICK q \in Nat, m \in Nat : /\ q = (a * d + r) \div d /\ m = (a * d + r) % d
                                /\ a * d + r = d * q + m /\ m < d
  BY <1>1, DivMod
<1>3. q = a
  <2>1. ASSUME q > a PROVE FALSE
    <3>1. (q - a) * d >= d
      BY <2>1
    <3> QED
      BY <3>1, <1>2
  <2>2. ASSUME q < a PROVE FALSE
    <3>1. (a - q) * d >= d
      BY <2>2
    <3> QED
      BY <3>1, <1>2
  <2> QED
    BY <2>1, <2>2, <1>2
<1> QED
  BY <1>2, <1>3

\* The entry that the driver finds where it looks for entry k of directory
\* cluster c is that entry of the directory.
LEMMA EntryIs ==
  ASSUME NEW v, IsVolume(v), v.bpb.spc > 0, NEW c \in Nat, c >= 2,
         NEW k \in Nat, k * DIRENT < ClusterBytes(v)
  PROVE  EntryAt(v, DataStart(v) + (c - 2) * v.bpb.spc, k * DIRENT) =
           IF c \in DOMAIN v.dirs /\ (k + 1) \in DOMAIN v.dirs[c] THEN v.dirs[c][k + 1] ELSE ZeroEntry
<1> DEFINE s == v.bpb.spc
           off == k * DIRENT
           start == DataStart(v)
           lba == start + (c - 2) * s
           sector == lba - start + off \div SECTOR
<1>1. /\ s \in Nat /\ s > 0 /\ start \in Int /\ SECTOR \in Nat /\ SECTOR > 0
      /\ DIRENT \in Nat /\ DIRENT > 0 /\ off \in Nat /\ off < s * SECTOR
  BY SectorAssumption DEF IsVolume, Bpb, DataStart, FatStart, ClusterBytes
<1>2. PICK a \in Nat, r \in Nat : /\ a = off \div SECTOR /\ r = off % SECTOR
                                /\ off = SECTOR * a + r /\ r < SECTOR
  BY <1>1, DivMod
<1>3. a < s
  <2>1. ASSUME a >= s PROVE FALSE
    <3>1. SECTOR * a >= SECTOR * s
      BY <2>1, <1>1
    <3> QED
      BY <3>1, <1>1, <1>2
  <2> QED
    BY <2>1, <1>1
<1>4. sector = (c - 2) * s + a
  <2> HIDE DEF start, off
  <2>1. (c - 2) * s \in Int
    BY <1>1
  <2> QED
    BY <2>1, <1>1, <1>2
<1>5. sector \div s = c - 2 /\ sector % s = a
  <2>1. c - 2 \in Nat
    OBVIOUS
  <2> HIDE DEF sector, s
  <2> QED
    BY <2>1, <1>1, <1>3, <1>4, Quotient
<1>6. a * SECTOR + r = off
  BY <1>1, <1>2
<1>7. off \div DIRENT = k
  <2>1. (k * DIRENT + 0) \div DIRENT = k
    BY <1>1, Quotient
  <2> QED
    BY <2>1, <1>1
<1>8. 2 + sector \div s = c
  <2> HIDE DEF sector, s
  <2> QED
    BY <1>5
<1>9. 1 + ((sector % s) * SECTOR + (off % SECTOR)) \div DIRENT = k + 1
  <2> HIDE DEF sector, s, off
  <2>1. (sector % s) * SECTOR + (off % SECTOR) = off
    BY <1>2, <1>5, <1>6
  <2> QED
    BY <2>1, <1>7
<1> HIDE DEF off, lba
<1>10. EntryAt(v, lba, off) =
         IF (2 + sector \div s) \in DOMAIN v.dirs /\
            (1 + ((sector % s) * SECTOR + (off % SECTOR)) \div DIRENT) \in DOMAIN v.dirs[2 + sector \div s]
         THEN v.dirs[2 + sector \div s][1 + ((sector % s) * SECTOR + (off % SECTOR)) \div DIRENT]
         ELSE ZeroEntry
  BY DEF EntryAt
<1>11. EntryAt(v, lba, off) =
         IF c \in DOMAIN v.dirs /\ (k + 1) \in DOMAIN v.dirs[c] THEN v.dirs[c][k + 1] ELSE ZeroEntry
  <2> HIDE DEF sector, s, start
  <2> QED
    BY <1>8, <1>9, <1>10, Zenon
<1> QED
  BY <1>11 DEF off, lba

\* The scan of a directory cluster compares exactly the entries in use.
LEMMA HitsAre ==
  ASSUME VolumesAssumption, TypeOK, Mounted, pc \notin {"boot", "hang"}, cluster >= 2, NEW nm
  PROVE  Hits(nm) = {k \in Nat : /\ cluster \in DOMAIN vol.dirs
                                 /\ (k + 1) \in InUse(vol, cluster)
                                 /\ vol.dirs[cluster][k + 1].name = nm}
<1> DEFINE ent(k) == EntryAt(vol, cluster_to_lba(cluster), k * DIRENT)
           here(k) == cluster \in DOMAIN vol.dirs /\ (k + 1) \in DOMAIN vol.dirs[cluster]
           within(k) == k * DIRENT < ClusterBytes(vol)
<1>1. /\ IsVolume(vol) /\ vol.bpb.spc > 0 /\ cluster \in Nat /\ fs.bpc = ClusterBytes(vol)
      /\ fs.bpc \in Nat /\ fs.bpc > 0 /\ DIRENT \in Nat /\ DIRENT > 0
      /\ cluster_to_lba(cluster) = DataStart(vol) + (cluster - 2) * vol.bpb.spc
  <2>1. SECTOR \in Nat /\ SECTOR > 0 /\ DIRENT \in Nat /\ DIRENT > 0
    BY SectorAssumption
  <2>2. vol.bpb.spc \in Nat /\ vol.bpb.spc > 0 /\ fs.bpc = SECTOR * vol.bpb.spc
    BY VolumesAssumption DEF TypeOK, Mounted, IsVolume, Bpb
  <2>3. \A x, y \in Nat : x > 0 /\ y > 0 => x * y \in Nat /\ x * y > 0 /\ x * y = y * x
    OBVIOUS
  <2>4. fs.bpc \in Nat /\ fs.bpc > 0 /\ fs.bpc = ClusterBytes(vol)
    BY <2>1, <2>2, <2>3 DEF ClusterBytes
  <2> QED
    BY <2>1, <2>2, <2>4, LbaIs, VolumesAssumption DEF TypeOK
<1>2. ASSUME NEW k \in Nat, within(k)
      PROVE  ent(k) = IF here(k) THEN vol.dirs[cluster][k + 1] ELSE ZeroEntry
  BY <1>1, <1>2, EntryIs
<1>3. \A k \in Nat : k \in 0 .. (fs.bpc - 1) \div DIRENT <=> within(k)
  <2> TAKE k \in Nat
  <2>1. fs.bpc - 1 \in Nat
    BY <1>1
  <2>2. PICK q \in Nat, r \in Nat : /\ q = (fs.bpc - 1) \div DIRENT
                                  /\ fs.bpc - 1 = DIRENT * q + r /\ r < DIRENT
    <3> DEFINE x == fs.bpc - 1
    <3>1. x \in Nat /\ DIRENT \in Int /\ DIRENT > 0
      BY <1>1, <2>1
    <3> HIDE DEF x
    <3>2. x \div DIRENT \in Nat /\ x % DIRENT \in Nat /\ x % DIRENT < DIRENT
          /\ x = DIRENT * (x \div DIRENT) + (x % DIRENT)
      BY <3>1, DivMod
    <3> QED
      BY <3>2 DEF x
  <2>3. ASSUME k <= q PROVE k * DIRENT < fs.bpc
    <3>1. k * DIRENT <= q * DIRENT
      BY <1>1, <2>3
    <3> QED
      BY <1>1, <2>2, <3>1
  <2>4. ASSUME k > q PROVE ~(k * DIRENT < fs.bpc)
    <3>1. k * DIRENT >= (q + 1) * DIRENT
      BY <1>1, <2>4
    <3> QED
      BY <1>1, <2>2, <3>1
  <2>5. k <= q <=> k * DIRENT < fs.bpc
    BY <2>2, <2>3, <2>4
  <2> QED
    BY <1>1, <2>2, <2>5
<1>4. \A k, j \in Nat : within(k) /\ j <= k => within(j)
  <2> TAKE k, j \in Nat
  <2>1. ASSUME j <= k PROVE j * DIRENT <= k * DIRENT
    BY <1>1, <2>1
  <2> QED
    BY <1>1, <2>1
<1>5. \A k \in Nat : within(k) => IsEntry(ent(k))
  BY <1>1, EntryIn
<1>6. \A k \in Nat : k \in Scanned <=>
        /\ within(k) /\ \A j \in 0 .. k : ent(j).kind # "end"
        /\ ent(k).kind \notin {"deleted", "lfn"}
  BY <1>3 DEF Scanned
<1>7. \A k \in Nat : within(k) => (ent(k).kind # "end" <=> here(k) /\ vol.dirs[cluster][k + 1].kind # "end")
  BY <1>2 DEF ZeroEntry
<1>8. ASSUME NEW k \in Nat
      PROVE  k \in Scanned <=> cluster \in DOMAIN vol.dirs /\ (k + 1) \in InUse(vol, cluster)
  <2>1. ASSUME k \in Scanned PROVE cluster \in DOMAIN vol.dirs /\ (k + 1) \in InUse(vol, cluster)
    <3>1. within(k) /\ (\A j \in 0 .. k : ent(j).kind # "end") /\ ent(k).kind \notin {"deleted", "lfn"}
      BY <1>6, <2>1
    <3>2. \A j \in 1 .. k + 1 : j \in DOMAIN vol.dirs[cluster] /\ vol.dirs[cluster][j].kind # "end"
      <4> TAKE j \in 1 .. k + 1
      <4>1. j - 1 \in Nat /\ j - 1 <= k /\ (j - 1) \in 0 .. k /\ (j - 1) + 1 = j
        OBVIOUS
      <4>2. within(j - 1) /\ ent(j - 1).kind # "end"
        BY <1>4, <3>1, <4>1
      <4> QED
        BY <1>7, <4>1, <4>2
    <3>3. here(k) /\ ent(k) = vol.dirs[cluster][k + 1]
      <4>1. k \in 0 .. k
        OBVIOUS
      <4>2. ent(k).kind # "end"
        BY <3>1, <4>1
      <4>3. here(k)
        BY <3>1, <4>2, <1>7
      <4> QED
        BY <1>2, <3>1, <4>3
    <3>4. vol.dirs[cluster][k + 1].kind \in {"file", "dir"}
      <4>1. IsEntry(ent(k)) /\ k \in 0 .. k
        BY <1>5, <3>1
      <4> QED
        BY <3>1, <3>3, <4>1 DEF IsEntry, EntryKind
    <3>5. k + 1 \in Nat \ {0} /\ ((k + 1) - 1) * DIRENT < ClusterBytes(vol)
      <4>1. (k + 1) - 1 = k
        OBVIOUS
      <4> QED
        BY <3>1, <4>1
    <3> QED
      BY <3>2, <3>3, <3>4, <3>5 DEF InUse
  <2>2. ASSUME cluster \in DOMAIN vol.dirs, (k + 1) \in InUse(vol, cluster) PROVE k \in Scanned
    <3>1. /\ (k + 1) \in DOMAIN vol.dirs[cluster] /\ ((k + 1) - 1) * DIRENT < ClusterBytes(vol)
          /\ vol.dirs[cluster][k + 1].kind \in {"file", "dir"}
          /\ \A j \in 1 .. k + 1 : j \in DOMAIN vol.dirs[cluster] /\ vol.dirs[cluster][j].kind # "end"
      BY <2>2 DEF InUse
    <3>2. within(k)
      <4>1. (k + 1) - 1 = k
        OBVIOUS
      <4> QED
        BY <3>1, <4>1
    <3>3. \A j \in 0 .. k : ent(j).kind # "end"
      <4> TAKE j \in 0 .. k
      <4>1. j \in Nat /\ j <= k /\ (j + 1) \in 1 .. k + 1
        OBVIOUS
      <4>2. within(j)
        BY <1>4, <3>2, <4>1
      <4> QED
        BY <1>7, <2>2, <3>1, <4>1, <4>2
    <3>4. ent(k) = vol.dirs[cluster][k + 1]
      BY <1>2, <2>2, <3>1, <3>2
    <3> HIDE DEF ent, within
    <3> QED
      BY <1>6, <3>1, <3>2, <3>3, <3>4
  <2> QED
    BY <2>1, <2>2
<1>9. ASSUME NEW k \in Scanned PROVE k \in Nat /\ ent(k) = vol.dirs[cluster][k + 1]
  <2>1. k \in Nat
    BY <1>9 DEF Scanned
  <2>2. within(k) /\ cluster \in DOMAIN vol.dirs /\ (k + 1) \in InUse(vol, cluster)
    BY <1>6, <1>8, <1>9, <2>1
  <2> QED
    BY <1>2, <2>1, <2>2 DEF InUse
<1>10. ASSUME NEW k
       PROVE  k \in Hits(nm) <=> /\ k \in Nat /\ cluster \in DOMAIN vol.dirs
                                 /\ (k + 1) \in InUse(vol, cluster)
                                 /\ vol.dirs[cluster][k + 1].name = nm
  <2>1. k \in Hits(nm) <=> k \in Scanned /\ ent(k).name = nm
    BY DEF Hits
  <2> HIDE DEF ent
  <2> QED
    BY <1>8, <1>9, <2>1
<1> QED
  BY <1>10

\* The entry that fat32_find_file takes is one in use with the name it
\* looks for.
LEMMA FirstHitIs ==
  ASSUME VolumesAssumption, TypeOK, Mounted, pc \notin {"boot", "hang"}, cluster >= 2, NEW nm,
         Hits(nm) # {}
  PROVE  /\ cluster \in DOMAIN vol.dirs
         /\ \E k \in InUse(vol, cluster) :
              vol.dirs[cluster][k].name = nm /\ FirstHit(nm) = vol.dirs[cluster][k]
<1> DEFINE T == Hits(nm)
           First(k) == \A j \in T : k <= j
           chosen == CHOOSE k \in T : First(k)
<1>1. T = {k \in Nat : /\ cluster \in DOMAIN vol.dirs /\ (k + 1) \in InUse(vol, cluster)
                       /\ vol.dirs[cluster][k + 1].name = nm}
  BY HitsAre
<1>2. \E k \in T : First(k)
  <2>1. T \subseteq Nat /\ T # {}
    BY <1>1
  <2> HIDE DEF T
  <2> QED
    BY <2>1, Least
<1>3. chosen \in T
  <2> HIDE DEF First, T
  <2> QED
    BY <1>2
<1>4. FirstHit(nm) = EntryAt(vol, cluster_to_lba(cluster), chosen * DIRENT)
  BY DEF FirstHit
<1> HIDE DEF chosen, First
<1>5. /\ chosen \in Nat /\ cluster \in DOMAIN vol.dirs /\ (chosen + 1) \in InUse(vol, cluster)
      /\ vol.dirs[cluster][chosen + 1].name = nm
  BY <1>1, <1>3
<1>6. FirstHit(nm) = vol.dirs[cluster][chosen + 1]
  <2>1. IsVolume(vol) /\ vol.bpb.spc > 0 /\ cluster \in Nat
        /\ cluster_to_lba(cluster) = DataStart(vol) + (cluster - 2) * vol.bpb.spc
    BY LbaIs, VolumesAssumption DEF TypeOK, Mounted
  <2>2. chosen * DIRENT < ClusterBytes(vol) /\ (chosen + 1) \in DOMAIN vol.dirs[cluster]
    <3>1. (chosen + 1) - 1 = chosen
      BY <1>5
    <3> QED
      BY <1>5, <3>1 DEF InUse
  <2>3. EntryAt(vol, DataStart(vol) + (cluster - 2) * vol.bpb.spc, chosen * DIRENT)
          = vol.dirs[cluster][chosen + 1]
    BY <1>5, <2>1, <2>2, EntryIs
  <2> QED
    BY <1>4, <2>1, <2>3
<1> QED
  BY <1>5, <1>6

\* Without a failure fat32_next_cluster returns the cluster's successor, or
\* 0 behind the last cluster of a chain.
LEMMA NextExact ==
  ASSUME VolumesAssumption, SizesAssumption, TypeOK, Mounted, pc \notin {"boot", "hang"},
         vol.bpb.nfats > 0
  PROVE  next_cluster(cluster, TRUE) =
           IF FatSuccessor(vol, cluster) >= EOC THEN 0 ELSE FatSuccessor(vol, cluster)
<1> DEFINE q == FatWords
           n == vol.bpb.fatsz
           c == cluster
           lba == fs.fat_start + (4 * c) \div fs.bps
           off == (4 * c) % fs.bps
<1>1. q \in Int /\ q > 0 /\ SECTOR = 4 * q /\ n \in Nat /\ c \in Nat /\ c < n * q
  BY SectorAssumption, VolumesAssumption DEF TypeOK, Mounted, IsVolume, Bpb, FatWords, InTable
<1>3. /\ (4 * c) \div (4 * q) \in 0 .. n - 1
      /\ (((4 * c) \div (4 * q)) % n) * q + (((4 * c) % (4 * q)) \div 4) = c
  BY <1>1, WordIndex
<1>2. vol.bpb.nfats \in Nat /\ FatStart(vol) \in Nat
  BY VolumesAssumption DEF TypeOK, IsVolume, Bpb, FatStart
<1>4. lba = FatStart(vol) + ((4 * c) \div (4 * q)) /\ off = (4 * c) % (4 * q)
  <2>1. fs.bps = 4 * q /\ fs.fat_start = FatStart(vol)
    BY <1>1 DEF Mounted
  <2> QED
    BY <2>1, Zenon
<1>5. lba - FatStart(vol) = (4 * c) \div (4 * q)
  BY <1>2, <1>3, <1>4
<1>6. FatStart(vol) <= lba /\ lba < DataStart(vol)
  <2>1. vol.bpb.nfats * n >= n
    BY <1>1, <1>2
  <2>2. DataStart(vol) = FatStart(vol) + vol.bpb.nfats * n
    BY DEF DataStart
  <2> DEFINE w == (4 * c) \div (4 * q)
             m == vol.bpb.nfats * n
  <2>3. w \in 0 .. n - 1 /\ m \in Int /\ m >= n
    BY <1>1, <1>2, <1>3, <2>1
  <2>4. lba = FatStart(vol) + w /\ DataStart(vol) = FatStart(vol) + m
    BY <1>4, <2>2
  <2> HIDE DEF w, m, lba
  <2> QED
    BY <1>1, <1>2, <2>3, <2>4
<1>7. FatWordAt(vol, lba, off) = IF c \in DOMAIN vol.fat THEN vol.fat[c] ELSE 0
  BY <1>3, <1>4, <1>5, <1>6 DEF FatWordAt
<1>8. 0 % FAT_MASK = 0
  BY DEF FAT_MASK
<1>9. InTable(vol, c)
  BY DEF Mounted
<1>10. FatWordAt(vol, lba, off) % FAT_MASK = FatSuccessor(vol, c)
  BY <1>7, <1>8, <1>9 DEF FatSuccessor
<1>11. next_cluster(c, TRUE) = LET w == FatWordAt(vol, lba, off) % FAT_MASK
                               IN  IF w >= EOC THEN 0 ELSE w
  BY WordPlace DEF next_cluster
<1> QED
  BY <1>10, <1>11

\* The names fat32_find_file looks for are those the path is meant to have,
\* and its arrays hold a path that is not too long.
LEMMA NamesMeant ==
  ASSUME RequestsAssumption, MeansAssumption, NEW r \in Requests
  PROVE  /\ ShortNames[r.path] = Means[r.path]
         /\ Len(split_path(r.path).parts) = Len(Means[r.path])
         /\ Len(split_path(r.path).buffer) <= Len(r.path) + 1
<1> DEFINE s == split_path(r.path)
<1>1. r.path \in Seq(Nat \ {NUL}) /\ Means[r.path] \in Seq(Seq(Nat)) /\ NamedBy(r.path, Means[r.path])
  BY RequestsAssumption, MeansAssumption
<1>2. ShortNames[r.path] = [i \in DOMAIN s.parts |-> pad_short_name(StringAt(s.buffer, s.parts[i]))]
  BY DEF ShortNames
<1> HIDE DEF s
<1>3. /\ Len(s.parts) = Len(Means[r.path]) /\ Len(s.buffer) <= Len(r.path) + 1
      /\ [i \in DOMAIN s.parts |-> pad_short_name(StringAt(s.buffer, s.parts[i]))] = Means[r.path]
  BY <1>1, NamesRead DEF s
<1> QED
  BY <1>2, <1>3 DEF s
----------------------------------------------------------------------------

\* The beginnings of a sequence.
LEMMA Beginnings ==
  ASSUME NEW S, NEW s \in Seq(S), NEW i \in 0 .. Len(s)
  PROVE  /\ SubSeq(s, 1, i) \in Seq(S) /\ Len(SubSeq(s, 1, i)) = i
         /\ \A n \in 1 .. i : SubSeq(s, 1, i)[n] = s[n]
         /\ i < Len(s) => SubSeq(s, 1, i + 1) = Append(SubSeq(s, 1, i), s[i + 1])
         /\ \A n \in 0 .. i : SubSeq(SubSeq(s, 1, i), 1, n) = SubSeq(s, 1, n)
         /\ SubSeq(s, 1, 0) = <<>> /\ SubSeq(s, 1, Len(s)) = s
  OBVIOUS

\* What the call asks for: the path, its beginnings, and a chain of the tree.
Goal == Means[call.path]
Above(n) == SubSeq(Goal, 1, n)
Chain(p) == vol.tree[p].chain

\* The volume has been mounted when a request is served.
Begun ==
  /\ pc \notin {"boot", "hang"} => Mountable(vol)
  /\ pc \in {"boot", "hang"} => call = NoCall
  /\ pc \notin {"boot", "hang", "idle"} => call \in Requests

\* The search stands at a cluster of the directory that the components
\* before part name, and no cluster it has passed names the component.
Searching ==
  pc \in {"find", "findnext"} =>
    /\ part \in 1 .. Len(Goal) /\ Above(part - 1) \in DOMAIN vol.tree
    /\ vol.tree[Above(part - 1)].dir
    /\ \/ pc = "find" /\ cluster = 0 /\ Chain(Above(part - 1)) = <<>>
       \/ \E i \in DOMAIN Chain(Above(part - 1)) :
            /\ cluster = Chain(Above(part - 1))[i]
            /\ \A j \in 1 .. (IF pc = "find" THEN i - 1 ELSE i) :
                  j \notin Naming(vol, Above(part - 1), Goal[part])

\* The read stands at the cluster of the file that comes after those copied.
Copying ==
  pc \in {"read", "readnext"} =>
    /\ Goal \in DOMAIN vol.tree
    /\ LET n == IF pc = "read" THEN Len(copied) + 1 ELSE Len(copied)
       IN  n \in DOMAIN Chain(Goal) /\ cluster = Chain(Goal)[n]
    /\ total = Smaller(Len(copied) * ClusterBytes(vol), call.size)

\* Past the check of the cluster size, a cluster fits its buffer, unless
\* there was nothing to search.
Roomy ==
  pc \in {"find", "findnext", "read", "readnext"} /\ Goal # <<>> /\ fs.bpc > CLUSBUF =>
    pc = "find" /\ part = 1 /\ cluster = fs.root

\* The invariant of the buffers, on every volume, and that of what the
\* driver finds and reads, on a consistent one.
Fitting == Begun /\ Roomy /\ BuffersFit
Exact == Searching /\ Copying /\ DeliversPrefix /\ ReadExact

\* What is assumed of the constants, and the state before a step.
Constants ==
  /\ VolumesAssumption /\ SizesAssumption /\ RequestsAssumption /\ MeansAssumption
  /\ ReadOutcomesAssumption
Given == Constants /\ vol \in Consistent /\ IInv /\ Fitting /\ Exact

\* While a request is served the volume holds its tree.
LEMMA TreeHeld ==
  ASSUME Given, pc \notin {"boot", "hang"}
  PROVE  Holds(vol, Wanted)
BY DEF Given, Fitting, Begun, Consistent

\* The call's path is a sequence of short names, all of them wanted.
LEMMA PathTyped ==
  ASSUME Given, call \in Requests
  PROVE  /\ call.size \in Nat /\ Goal \in Seq(Seq(Nat)) /\ Names = Goal
         /\ \A i \in 1 .. Len(Goal) : Goal[i] \in Wanted
<1>1. call.size \in Nat /\ Goal \in Seq(Seq(Nat))
  BY DEF Given, Constants, RequestsAssumption, Goal
<1>2. Names = Goal
  BY NamesMeant DEF Given, Constants, Names, Goal
<1>3. \A i \in 1 .. Len(Goal) : Goal[i] \in Wanted
  <2>1. \A r \in Requests : \A i \in DOMAIN Means[r.path] : Means[r.path][i] \in Wanted
    <3> TAKE r \in Requests
    <3> TAKE i \in DOMAIN Means[r.path]
    <3> DEFINE T(q) == {Means[q.path][n] : n \in DOMAIN Means[q.path]}
    <3>1. Means[r.path][i] \in T(r)
      OBVIOUS
    <3>2. T(r) \in {T(q) : q \in Requests}
      OBVIOUS
    <3>3. Wanted = UNION {T(q) : q \in Requests}
      BY DEF Wanted
    <3> HIDE DEF T
    <3> QED
      BY <3>1, <3>2, <3>3
  <2>2. DOMAIN Means[call.path] = 1 .. Len(Means[call.path])
    BY <1>1 DEF Goal
  <2> QED
    BY <2>1, <2>2 DEF Goal
<1> QED
  BY <1>1, <1>2, <1>3

\* The clusters of a chain are clusters, and each is followed by the next.
LEMMA ChainIs ==
  ASSUME Given, pc \notin {"boot", "hang"}, NEW p \in DOMAIN vol.tree
  PROVE  /\ Chain(p) \in Seq(Nat)
         /\ \A i \in DOMAIN Chain(p) :
              /\ InChain(Chain(p)[i]) /\ Chain(p)[i] \in Nat /\ Chain(p)[i] >= 2
              /\ i < Len(Chain(p)) => FatSuccessor(vol, Chain(p)[i]) = Chain(p)[i + 1]
              /\ i = Len(Chain(p)) => FatSuccessor(vol, Chain(p)[i]) >= EOC
<1>1. IsChain(vol, Chain(p))
  BY TreeHeld DEF Holds, Chain
<1>2. \A i \in DOMAIN Chain(p) : Chain(p)[i] \in Nat
  BY <1>1, ElementOfSeq DEF IsChain
<1> QED
  BY <1>1, <1>2 DEF IsChain, InChain

\* An entry with the next name, in a cluster of the directory reached,
\* describes what the path names there.
LEMMA EntryDescribes ==
  ASSUME Given, pc \notin {"boot", "hang"}, call \in Requests, NEW i \in 1 .. Len(Goal),
         Above(i - 1) \in DOMAIN vol.tree, vol.tree[Above(i - 1)].dir,
         NEW j \in DOMAIN Chain(Above(i - 1)), Chain(Above(i - 1))[j] \in DOMAIN vol.dirs,
         NEW k \in InUse(vol, Chain(Above(i - 1))[j]),
         vol.dirs[Chain(Above(i - 1))[j]][k].name = Goal[i]
  PROVE  Describes(vol, vol.dirs[Chain(Above(i - 1))[j]][k], Above(i))
<1>1. Goal \in Seq(Seq(Nat)) /\ Goal[i] \in Wanted
  BY PathTyped
<1>2. Above(i) = Append(Above(i - 1), Goal[i])
  <2>1. i - 1 \in 0 .. Len(Goal) /\ i - 1 < Len(Goal) /\ (i - 1) + 1 = i
    BY <1>1
  <2> QED
    BY <1>1, <2>1, Beginnings DEF Above
<1>3. Describes(vol, vol.dirs[Chain(Above(i - 1))[j]][k], Append(Above(i - 1), Goal[i]))
  <2> DEFINE p == Above(i - 1)
             e == vol.dirs[Chain(p)[j]][k]
  <2>1. \A q \in DOMAIN vol.tree : vol.tree[q].dir =>
          \A n \in DOMAIN Chain(q) : Chain(q)[n] \in DOMAIN vol.dirs =>
            \A m \in InUse(vol, Chain(q)[n]) :
              vol.dirs[Chain(q)[n]][m].name \in Wanted =>
                Describes(vol, vol.dirs[Chain(q)[n]][m], Append(q, vol.dirs[Chain(q)[n]][m].name))
    BY TreeHeld, Zenon DEF Holds, Chain
  <2>2. e.name = Goal[i] /\ e.name \in Wanted /\ p \in DOMAIN vol.tree /\ vol.tree[p].dir
    BY <1>1
  <2>3. Describes(vol, e, Append(p, e.name))
    BY <2>1, <2>2, Zenon
  <2> QED
    BY <2>2, <2>3
<1> QED
  BY <1>2, <1>3

\* A path whose next name no cluster of the directory reached has is not
\* on the volume, and does not lead through a file.
LEMMA NotThere ==
  ASSUME Given, pc \notin {"boot", "hang"}, call \in Requests, NEW i \in 1 .. Len(Goal),
         Above(i - 1) \in DOMAIN vol.tree, vol.tree[Above(i - 1)].dir,
         Naming(vol, Above(i - 1), Goal[i]) = {}
  PROVE  /\ Goal \notin DOMAIN vol.tree
         /\ ~ \E n \in 1 .. Len(Goal) - 1 : Above(n) \in DOMAIN vol.tree /\ ~vol.tree[Above(n)].dir
<1>1. Goal \in Seq(Seq(Nat)) /\ Len(Goal) \in Nat
  BY PathTyped
<1>2. \A p \in DOMAIN vol.tree : \A n \in 0 .. Len(p) - 1 :
        /\ SubSeq(p, 1, n) \in DOMAIN vol.tree /\ vol.tree[SubSeq(p, 1, n)].dir
        /\ Naming(vol, SubSeq(p, 1, n), p[n + 1]) # {}
  BY TreeHeld DEF Holds
<1>3. ASSUME NEW n \in i .. Len(Goal), Above(n) \in DOMAIN vol.tree PROVE FALSE
  <2>1. n \in 0 .. Len(Goal) /\ i - 1 \in 0 .. n /\ i \in 1 .. n /\ i - 1 \in 0 .. n - 1 /\ (i - 1) + 1 = i
    BY <1>1
  <2>2. Len(Above(n)) = n /\ Above(n)[i] = Goal[i] /\ SubSeq(Above(n), 1, i - 1) = Above(i - 1)
    BY <1>1, <2>1, Beginnings DEF Above
  <2>3. Naming(vol, SubSeq(Above(n), 1, i - 1), Above(n)[(i - 1) + 1]) # {}
    BY <1>2, <1>3, <2>1, <2>2
  <2> QED
    BY <2>1, <2>2, <2>3
<1>4. Goal \notin DOMAIN vol.tree
  <2>1. Above(Len(Goal)) = Goal /\ Len(Goal) \in i .. Len(Goal)
    BY <1>1, Beginnings DEF Above
  <2> QED
    BY <1>3, <2>1
<1>5. ASSUME NEW n \in 1 .. Len(Goal) - 1, Above(n) \in DOMAIN vol.tree
      PROVE  vol.tree[Above(n)].dir
  <2>1. n < i
    BY <1>1, <1>3, <1>5
  <2>2. CASE n = i - 1
    BY <2>2
  <2>3. CASE n < i - 1
    <3>1. i - 1 \in 0 .. Len(Goal) /\ n \in 0 .. i - 1 /\ n \in 0 .. (i - 1) - 1
      BY <1>1, <2>3
    <3>2. Len(Above(i - 1)) = i - 1 /\ SubSeq(Above(i - 1), 1, n) = Above(n)
      BY <1>1, <3>1, Beginnings DEF Above
    <3> QED
      BY <1>2, <3>1, <3>2
  <2> QED
    BY <1>1, <2>1, <2>2, <2>3
<1> QED
  BY <1>4, <1>5

\* A path through a file is not on the volume.
LEMMA ThroughFile ==
  ASSUME Given, pc \notin {"boot", "hang"}, call \in Requests, NEW i \in 1 .. Len(Goal) - 1,
         Above(i) \in DOMAIN vol.tree, ~vol.tree[Above(i)].dir
  PROVE  Goal \notin DOMAIN vol.tree
<1>1. Goal \in Seq(Seq(Nat)) /\ Len(Goal) \in Nat /\ i \in 0 .. Len(Goal) - 1
  BY PathTyped
<1>2. \A p \in DOMAIN vol.tree : \A n \in 0 .. Len(p) - 1 : vol.tree[SubSeq(p, 1, n)].dir
  BY TreeHeld DEF Holds
<1> QED
  BY <1>1, <1>2 DEF Above

\* The numbers of the mounted volume.
LEMMA Geometry ==
  ASSUME Given, pc \notin {"boot", "hang"}
  PROVE  /\ fs.bpc = ClusterBytes(vol) /\ fs.bpc \in Nat /\ fs.bpc > 0 /\ fs.root = vol.bpb.root
         /\ cluster \in Nat /\ total \in Nat /\ Len(copied) \in Nat /\ CLUSBUF \in Nat
         /\ cluster >= 2 => cluster_to_lba(cluster) = DataStart(vol) + (cluster - 2) * vol.bpb.spc
         /\ VolumesAssumption /\ SizesAssumption /\ TypeOK /\ Mounted
<1>1. VolumesAssumption /\ SizesAssumption /\ TypeOK /\ Mounted
  BY DEF Given, Constants, IInv, Progress
<1>2. SECTOR \in Nat /\ SECTOR > 0
  BY SectorAssumption
<1>3. vol.bpb.spc \in Nat /\ vol.bpb.spc > 0 /\ fs.bpc = SECTOR * vol.bpb.spc
  BY <1>1 DEF VolumesAssumption, TypeOK, Mounted, IsVolume, Bpb
<1>4. \A x, y \in Nat : x > 0 /\ y > 0 => x * y \in Nat /\ x * y > 0 /\ x * y = y * x
  OBVIOUS
<1>5. fs.bpc = ClusterBytes(vol) /\ fs.bpc \in Nat /\ fs.bpc > 0
  BY <1>2, <1>3, <1>4 DEF ClusterBytes
<1> QED
  BY <1>1, <1>5, LbaIs DEF TypeOK, Mounted, SizesAssumption

\* A cluster that has a word in the table is itself as an int.
LEMMA ClusterInt ==
  ASSUME Given, pc \notin {"boot", "hang"}
  PROVE  /\ IsVolume(vol) /\ vol.bpb.fatsz > 0
         /\ \A c \in Nat : InTable(vol, c) => int(c) = c
<1>1. IsVolume(vol) /\ vol.bpb.fatsz > 0 /\ vol.bpb.spc > 0
  BY Geometry DEF VolumesAssumption, TypeOK, Mounted
<1>2. \A c \in Nat : InTable(vol, c) => 4 * c < WORD
  BY <1>1, VolumeCounted
<1>3. \A c, w \in Nat : 4 * c < w => 2 * c < w
  OBVIOUS
<1> QED
  BY <1>1, <1>2, <1>3, IntIs, WordAssumption

\* What a call has to return.
LEMMA OutcomeIs ==
  Outcome(vol, call) =
    IF Goal # <<>> /\ ClusterBytes(vol) > CLUSBUF THEN -4
    ELSE IF Goal \in DOMAIN vol.tree
         THEN Smaller(call.size, Len(Chain(Goal)) * ClusterBytes(vol))
    ELSE IF \E n \in 1 .. Len(Goal) - 1 : Above(n) \in DOMAIN vol.tree /\ ~vol.tree[Above(n)].dir
         THEN -2 ELSE 0
BY DEF Outcome, Goal, Above, Chain

\* A call that returns after a failure, or returns what it has to.
LEMMA Returns ==
  ASSUME Given, pc \notin {"boot", "hang", "idle"}, pc' = "idle", UNCHANGED <<vol, fs, call, copied>>,
         ioerr' \/ (ret' = Outcome(vol, call) /\ (ret' > 0 => copied = Delivery(vol, call)))
  PROVE  Exact'
<1>1. Searching' /\ Copying'
  BY DEF Searching, Copying
<1>2. DeliversPrefix'
  BY DEF Given, Exact, DeliversPrefix
<1>3. ReadExact'
  BY DEF ReadExact
<1> QED
  BY <1>1, <1>2, <1>3 DEF Exact

\* A call that goes on without copying.
LEMMA GoesOn ==
  ASSUME Given, pc \notin {"boot", "hang", "idle"}, pc' \in {"find", "findnext", "read"},
         UNCHANGED <<vol, fs, call, copied>>, Searching', Copying'
  PROVE  Exact'
<1>1. ReadExact'
  BY DEF ReadExact
<1>2. DeliversPrefix'
  BY DEF Given, Exact, DeliversPrefix
<1> QED
  BY <1>1, <1>2 DEF Exact

\* The state of a search that stands at a cluster of a directory.
LEMMA SearchAt ==
  ASSUME Given, pc \in {"find", "findnext"}, ~(pc = "find" /\ cluster = 0)
  PROVE  /\ call \in Requests /\ part \in 1 .. Len(Goal) /\ copied = <<>> /\ total = 0
         /\ Above(part - 1) \in DOMAIN vol.tree /\ vol.tree[Above(part - 1)].dir
         /\ InChain(cluster) /\ cluster >= 2 /\ Goal # <<>>
         /\ \E i \in DOMAIN Chain(Above(part - 1)) :
              /\ cluster = Chain(Above(part - 1))[i]
              /\ \A j \in 1 .. (IF pc = "find" THEN i - 1 ELSE i) :
                   j \notin Naming(vol, Above(part - 1), Goal[part])
<1>1. call \in Requests /\ copied = <<>> /\ total = 0
  BY DEF Given, IInv, Progress, NotYet, Fitting, Begun
<1>2. part \in 1 .. Len(Goal) /\ Above(part - 1) \in DOMAIN vol.tree /\ vol.tree[Above(part - 1)].dir
  BY DEF Given, Exact, Searching
<1>3. PICK i \in DOMAIN Chain(Above(part - 1)) :
              /\ cluster = Chain(Above(part - 1))[i]
              /\ \A j \in 1 .. (IF pc = "find" THEN i - 1 ELSE i) :
                   j \notin Naming(vol, Above(part - 1), Goal[part])
  BY DEF Given, Exact, Searching
<1>4. InChain(cluster) /\ cluster >= 2
  BY <1>2, <1>3, ChainIs
<1>5. Goal # <<>>
  <2>1. Goal \in Seq(Seq(Nat))
    BY <1>1, PathTyped
  <2> QED
    BY <1>2, <2>1
<1> QED
  BY <1>1, <1>2, <1>3, <1>4, <1>5

\* The step that scans a cluster of a directory.
LEMMA FindClusterExact ==
  ASSUME Given, NEW ok \in BOOLEAN, FindCluster(ok)
  PROVE  Exact'
<1> DEFINE D == Above(part - 1)
           hit == FirstHit(Target)
<1>1. /\ pc = "find" /\ InChain(cluster) /\ BufferHolds /\ UNCHANGED <<vol, fs, call, total, copied>>
      /\ ioerr' = (ioerr \/ ~ok)
  BY DEF FindCluster, Attempt
<1>2. /\ fs.bpc = ClusterBytes(vol) /\ fs.bpc \in Nat /\ CLUSBUF \in Nat /\ cluster \in Nat
      /\ VolumesAssumption /\ TypeOK /\ Mounted
  BY <1>1, Geometry
<1>3. cluster >= 2 /\ fs.bpc <= CLUSBUF /\ cluster # 0
  BY <1>1, <1>2 DEF InChain, BufferHolds
<1>4. /\ call \in Requests /\ part \in 1 .. Len(Goal) /\ copied = <<>> /\ total = 0
      /\ D \in DOMAIN vol.tree /\ vol.tree[D].dir /\ Goal # <<>>
  BY <1>1, <1>3, SearchAt
<1>5. PICK i \in DOMAIN Chain(D) :
        cluster = Chain(D)[i] /\ \A j \in 1 .. i - 1 : j \notin Naming(vol, D, Goal[part])
  BY <1>1, <1>3, SearchAt
<1>6. call.size \in Nat /\ Goal \in Seq(Seq(Nat)) /\ Names = Goal /\ Target = Goal[part]
  BY <1>4, PathTyped DEF Target
<1>7. Chain(D) \in Seq(Nat) /\ i \in Nat
  BY <1>1, <1>4, <1>5, ChainIs
<1>8. CASE ~ok
  <2>1. pc' = "idle" /\ ioerr'
    BY <1>1, <1>8 DEF FindCluster, Return
  <2> QED
    BY <1>1, <2>1, Returns
<1>9. CASE ok /\ Hits(Target) = {}
  <2>1. pc' = "findnext" /\ UNCHANGED <<part, cluster>>
    BY <1>9 DEF FindCluster
  <2>2. i \notin Naming(vol, D, Goal[part])
    <3>1. SUFFICES ASSUME cluster \in DOMAIN vol.dirs,
                          NEW k \in InUse(vol, cluster), vol.dirs[cluster][k].name = Target
                   PROVE  FALSE
      BY <1>5, <1>6 DEF Naming, Chain
    <3>2. k \in Nat \ {0} /\ k - 1 \in Nat /\ (k - 1) + 1 = k
      BY DEF InUse
    <3>3. k - 1 \in Hits(Target)
      BY <1>1, <1>2, <1>3, <3>1, <3>2, HitsAre
    <3> QED
      BY <1>9, <3>3
  <2>3. \A j \in 1 .. i : j \notin Naming(vol, D, Goal[part])
    BY <1>5, <1>7, <2>2
  <2>4. Searching'
    <3>1. Goal' = Goal /\ Above(part - 1)' = D /\ Chain(D)' = Chain(D)
      BY <1>1, <2>1 DEF Goal, Above, Chain
    <3> QED
      BY <1>1, <1>4, <1>5, <2>1, <2>3, <3>1 DEF Searching, Goal, Above, Chain
  <2>5. Copying'
    BY <2>1 DEF Copying
  <2> QED
    BY <1>1, <2>1, <2>4, <2>5, GoesOn
<1>10. CASE ok /\ Hits(Target) # {}
  <2>1. /\ cluster' = hit.clus
        /\ \/ ~(part = Len(Names)) /\ hit.kind # "dir" /\ Return(-2) /\ UNCHANGED part
           \/ ~(part = Len(Names)) /\ hit.kind = "dir" /\ part' = part + 1 /\ UNCHANGED <<pc, ret>>
           \/ part = Len(Names) /\ hit.clus <= 0 /\ Return(hit.clus) /\ UNCHANGED part
           \/ part = Len(Names) /\ hit.clus > 0 /\ pc' = "read" /\ UNCHANGED <<part, ret>>
    <3>1. IsVolume(vol) /\ vol.bpb.fatsz > 0 /\ \A c \in Nat : InTable(vol, c) => int(c) = c
      BY <1>1, ClusterInt
    <3>2. hit.clus \in Nat /\ InTable(vol, hit.clus)
      BY <3>1, EntryIn DEF FirstHit, IsEntry
    <3>3. int(hit.clus) = hit.clus
      BY <3>1, <3>2
    <3> HIDE DEF hit
    <3> QED
      BY <1>10, <3>3 DEF FindCluster, hit
  <2>2. PICK k \in InUse(vol, cluster) :
          cluster \in DOMAIN vol.dirs /\ vol.dirs[cluster][k].name = Target /\ hit = vol.dirs[cluster][k]
    BY <1>1, <1>2, <1>3, <1>10, FirstHitIs
  <2>3. Describes(vol, hit, Above(part))
    BY <1>1, <1>4, <1>5, <1>6, <2>2, EntryDescribes
  <2>4. /\ Above(part) \in DOMAIN vol.tree /\ vol.tree[Above(part)].dir = (hit.kind = "dir")
        /\ hit.clus = IF Chain(Above(part)) = <<>> THEN 0 ELSE Chain(Above(part))[1]
    BY <2>3 DEF Describes, Chain
  <2>5. /\ Chain(Above(part)) \in Seq(Nat)
        /\ Chain(Above(part)) # <<>> => 1 \in DOMAIN Chain(Above(part)) /\ hit.clus >= 2
    <3>1. Chain(Above(part)) \in Seq(Nat)
      BY <1>1, <2>4, ChainIs
    <3>2. Chain(Above(part)) # <<>> => 1 \in DOMAIN Chain(Above(part))
      BY <3>1
    <3> QED
      BY <1>1, <2>4, <3>1, <3>2, ChainIs
  <2>6. ioerr' = ioerr /\ UNCHANGED <<vol, fs, call, copied>>
    BY <1>1, <1>10 DEF FindCluster, Attempt, IInv, TypeOK, Given
  <2>7. CASE ~(part = Len(Names)) /\ hit.kind # "dir" /\ Return(-2)
    <3>1. part \in 1 .. Len(Goal) - 1 /\ ~vol.tree[Above(part)].dir
      <4>1. part # Len(Goal) /\ Len(Goal) \in Nat
        BY <1>6, <2>7
      <4>2. vol.tree[Above(part)].dir = FALSE
        BY <2>4, <2>7
      <4> QED
        BY <1>4, <4>1, <4>2
    <3>2. Goal \notin DOMAIN vol.tree
      BY <1>1, <1>4, <2>4, <3>1, ThroughFile
    <3>3. Outcome(vol, call) = -2
      BY <1>2, <1>3, <2>4, <3>1, <3>2, OutcomeIs
    <3>4. ret' = -2 /\ pc' = "idle" /\ ~(-2 > 0)
      BY <2>7 DEF Return
    <3> QED
      BY <1>1, <2>6, <3>3, <3>4, Returns
  <2>8. CASE ~(part = Len(Names)) /\ hit.kind = "dir" /\ part' = part + 1 /\ UNCHANGED <<pc, ret>>
    <3>1. part + 1 \in 1 .. Len(Goal) /\ vol.tree[Above(part)].dir /\ (part + 1) - 1 = part
      <4>1. part # Len(Goal) /\ Len(Goal) \in Nat
        BY <1>6, <2>8
      <4>2. vol.tree[Above(part)].dir = TRUE
        BY <2>4, <2>8
      <4> QED
        BY <1>4, <4>1, <4>2
    <3>2. Goal' = Goal /\ part' - 1 = part
      BY <2>6, <2>8, <3>1 DEF Goal
    <3>3. Searching'
      <4>1. CASE Chain(Above(part)) = <<>>
        BY <1>1, <2>1, <2>4, <2>6, <2>8, <3>1, <3>2, <4>1 DEF Searching, Goal, Above, Chain
      <4>2. CASE Chain(Above(part)) # <<>>
        <5>1. 1 \in DOMAIN Chain(Above(part)) /\ cluster' = Chain(Above(part))[1] /\ pc' = "find"
          BY <1>1, <2>1, <2>4, <2>5, <2>8, <4>2
        <5>2. \A j \in 1 .. 1 - 1 : FALSE
          OBVIOUS
        <5> QED
          BY <1>1, <2>4, <2>6, <2>8, <3>1, <3>2, <5>1, <5>2 DEF Searching, Goal, Above, Chain
      <4> QED
        BY <4>1, <4>2
    <3>4. Copying' /\ pc' = "find"
      BY <1>1, <2>8 DEF Copying
    <3> QED
      BY <1>1, <2>6, <3>3, <3>4, GoesOn
  <2>9. CASE part = Len(Names) /\ hit.clus <= 0 /\ Return(hit.clus)
    <3>1. Above(part) = Goal
      <4>1. part = Len(Goal) /\ Len(Goal) \in 0 .. Len(Goal)
        BY <1>4, <1>6, <2>9
      <4> QED
        BY <1>6, <4>1, Beginnings DEF Above
    <3>2. Chain(Goal) = <<>> /\ hit.clus = 0
      <4>1. Chain(Above(part)) = <<>>
        <5>1. hit.clus >= 2 => ~(hit.clus <= 0)
          BY <1>1, <2>2, <1>2, EntryIn DEF FirstHit, IsEntry, VolumesAssumption, TypeOK
        <5> QED
          BY <2>5, <2>9, <5>1
      <4> QED
        BY <2>4, <3>1, <4>1
    <3>3. Outcome(vol, call) = 0
      <4>1. Len(Chain(Goal)) * ClusterBytes(vol) = 0
        <5>1. Len(Chain(Goal)) = 0
          BY <3>2
        <5> QED
          BY <1>2, <5>1
      <4>2. Smaller(call.size, 0) = 0
        BY <1>6 DEF Smaller
      <4>3. Goal \in DOMAIN vol.tree /\ ~(ClusterBytes(vol) > CLUSBUF)
        BY <1>2, <1>3, <2>4, <3>1
      <4> QED
        BY <4>1, <4>2, <4>3, OutcomeIs
    <3>4. ret' = 0 /\ pc' = "idle" /\ ~(0 > 0)
      BY <2>9, <3>2 DEF Return
    <3> QED
      BY <1>1, <2>6, <3>3, <3>4, Returns
  <2>10. CASE part = Len(Names) /\ hit.clus > 0 /\ pc' = "read"
    <3>1. Above(part) = Goal
      <4>1. part = Len(Goal) /\ Len(Goal) \in 0 .. Len(Goal)
        BY <1>4, <1>6, <2>10
      <4> QED
        BY <1>6, <4>1, Beginnings DEF Above
    <3>2. Chain(Goal) # <<>> /\ 1 \in DOMAIN Chain(Goal) /\ cluster' = Chain(Goal)[1]
          /\ Goal \in DOMAIN vol.tree
      BY <2>1, <2>4, <2>5, <2>10, <3>1
    <3>3. Goal' = Goal /\ Chain(Goal)' = Chain(Goal)
      BY <2>6 DEF Goal, Chain
    <3>4. Len(copied') + 1 = 1 /\ total' = Smaller(Len(copied') * ClusterBytes(vol), call.size)
      <4>1. Len(copied') = 0 /\ total' = 0
        BY <1>1, <1>4
      <4>2. Len(copied') * ClusterBytes(vol) = 0
        BY <1>2, <4>1
      <4>3. Smaller(0, call.size) = 0
        BY <1>6 DEF Smaller
      <4> QED
        BY <4>1, <4>2, <4>3
    <3>5. Copying'
      BY <2>6, <2>10, <3>2, <3>3, <3>4 DEF Copying, Goal, Chain
    <3>6. Searching'
      BY <2>10 DEF Searching
    <3> QED
      BY <1>1, <2>6, <2>10, <3>5, <3>6, GoesOn
  <2> QED
    BY <2>1, <2>7, <2>8, <2>9, <2>10
<1> QED
  BY <1>8, <1>9, <1>10

\* A search that ends because no cluster of the directory names the
\* component, within the buffer, has to return 0.
LEMMA NothingFound ==
  ASSUME Given, pc \notin {"boot", "hang"}, call \in Requests, part \in 1 .. Len(Goal),
         Above(part - 1) \in DOMAIN vol.tree, vol.tree[Above(part - 1)].dir,
         Naming(vol, Above(part - 1), Goal[part]) = {}, ~(fs.bpc > CLUSBUF)
  PROVE  Outcome(vol, call) = 0
<1>1. Goal \notin DOMAIN vol.tree
      /\ ~ \E n \in 1 .. Len(Goal) - 1 : Above(n) \in DOMAIN vol.tree /\ ~vol.tree[Above(n)].dir
  BY NotThere
<1>2. fs.bpc = ClusterBytes(vol)
  BY Geometry
<1> QED
  BY <1>1, <1>2, OutcomeIs

\* The step that ends a search without a read.
LEMMA FindStopsExact ==
  ASSUME Given, FindStops
  PROVE  Exact'
<1>1. pc = "find" /\ UNCHANGED <<vol, fs, call, part, cluster, total, copied, ioerr>>
  BY DEF FindStops
<1>2. /\ fs.bpc = ClusterBytes(vol) /\ fs.bpc \in Nat /\ CLUSBUF \in Nat /\ cluster \in Nat
      /\ fs.root = vol.bpb.root
  BY <1>1, Geometry
<1>3. call \in Requests /\ part \in 1 .. Len(Goal)
      /\ Above(part - 1) \in DOMAIN vol.tree /\ vol.tree[Above(part - 1)].dir
  BY <1>1 DEF Given, Fitting, Begun, Exact, Searching
<1>4. Goal \in Seq(Seq(Nat)) /\ Goal # <<>>
  <2>1. Goal \in Seq(Seq(Nat))
    BY <1>3, PathTyped
  <2> QED
    BY <1>3, <2>1
<1>5. CASE InChain(cluster) /\ ~BufferHolds
  <2>1. ret' = -4 /\ pc' = "idle"
    BY <1>5 DEF FindStops, Return
  <2>2. Outcome(vol, call) = -4
    BY <1>2, <1>4, <1>5, OutcomeIs DEF BufferHolds
  <2> QED
    BY <1>1, <2>1, <2>2, Returns
<1>6. CASE ~InChain(cluster)
  <2>1. ret' = 0 /\ pc' = "idle"
    BY <1>6 DEF FindStops, Return
  <2>2. cluster = 0
    <3>1. SUFFICES ASSUME cluster # 0 PROVE FALSE
      OBVIOUS
    <3>2. InChain(cluster)
      BY <1>1, <3>1, SearchAt
    <3> QED
      BY <1>6, <3>2
  <2>3. Chain(Above(part - 1)) = <<>>
    <3>1. SUFFICES ASSUME Chain(Above(part - 1)) # <<>> PROVE FALSE
      OBVIOUS
    <3>2. PICK i \in DOMAIN Chain(Above(part - 1)) : cluster = Chain(Above(part - 1))[i]
      BY <1>1, <3>1 DEF Given, Exact, Searching
    <3>3. InChain(cluster)
      BY <1>1, <1>3, <3>2, ChainIs
    <3> QED
      BY <1>6, <3>3
  <2>4. Naming(vol, Above(part - 1), Goal[part]) = {}
    <3>1. DOMAIN Chain(Above(part - 1)) = {}
      BY <2>3
    <3> QED
      BY <3>1 DEF Naming, Chain
  <2>5. ~(fs.bpc > CLUSBUF)
    <3>1. SUFFICES ASSUME fs.bpc > CLUSBUF PROVE FALSE
      OBVIOUS
    <3>2. cluster = fs.root
      BY <1>1, <1>4, <3>1 DEF Given, Fitting, Roomy
    <3>3. /\ <<>> \in DOMAIN vol.tree /\ Chain(<<>>) # <<>> /\ Chain(<<>>)[1] = vol.bpb.root
          /\ Chain(<<>>) \in Seq(Nat)
      BY <1>1, TreeHeld, ChainIs DEF Holds, Chain
    <3>4. 1 \in DOMAIN Chain(<<>>)
      BY <3>3
    <3>5. InChain(cluster)
      BY <1>1, <1>2, <3>2, <3>3, <3>4, ChainIs
    <3> QED
      BY <1>6, <3>5
  <2>6. Outcome(vol, call) = 0
    BY <1>1, <1>3, <2>4, <2>5, NothingFound
  <2>7. ~(0 > 0)
    OBVIOUS
  <2> QED
    BY <1>1, <2>1, <2>6, <2>7, Returns
<1> QED
  BY <1>5, <1>6 DEF FindStops

\* Where fat32_next_cluster goes from a cluster of a chain.
LEMMA NextInChain ==
  ASSUME Given, pc \notin {"boot", "hang"}, NEW p \in DOMAIN vol.tree,
         NEW i \in DOMAIN Chain(p), cluster = Chain(p)[i]
  PROVE  /\ i < Len(Chain(p)) =>
              /\ i + 1 \in DOMAIN Chain(p)
              /\ next_cluster(cluster, TRUE) = Chain(p)[i + 1] /\ Follows(next_cluster(cluster, TRUE))
         /\ i = Len(Chain(p)) => ~Follows(next_cluster(cluster, TRUE))
         /\ i \in 1 .. Len(Chain(p)) /\ DOMAIN Chain(p) = 1 .. Len(Chain(p))
<1>1. /\ VolumesAssumption /\ SizesAssumption /\ TypeOK /\ Mounted
  BY Geometry
<1>2. vol.bpb.nfats > 0
  BY TreeHeld DEF Holds
<1>3. next_cluster(cluster, TRUE) =
        IF FatSuccessor(vol, cluster) >= EOC THEN 0 ELSE FatSuccessor(vol, cluster)
  BY <1>1, <1>2, NextExact
<1>4. /\ Chain(p) \in Seq(Nat)
      /\ i < Len(Chain(p)) => FatSuccessor(vol, cluster) = Chain(p)[i + 1]
      /\ i = Len(Chain(p)) => FatSuccessor(vol, cluster) >= EOC
  BY ChainIs
<1>5. i \in 1 .. Len(Chain(p)) /\ DOMAIN Chain(p) = 1 .. Len(Chain(p))
  BY <1>4
<1>6. ASSUME i < Len(Chain(p))
      PROVE  /\ i + 1 \in DOMAIN Chain(p)
             /\ next_cluster(cluster, TRUE) = Chain(p)[i + 1] /\ Follows(next_cluster(cluster, TRUE))
  <2>1. i + 1 \in DOMAIN Chain(p)
    BY <1>4, <1>5, <1>6
  <2>2. Chain(p)[i + 1] >= 2 /\ ~(Chain(p)[i + 1] >= EOC) /\ Chain(p)[i + 1] < EOC
    BY <2>1, ChainIs DEF InChain, EOC
  <2>3. next_cluster(cluster, TRUE) = Chain(p)[i + 1]
    BY <1>3, <1>4, <1>6, <2>2, Zenon
  <2>4. Follows(Chain(p)[i + 1])
    BY <2>2 DEF Follows
  <2> QED
    BY <2>1, <2>3, <2>4, Zenon
<1>7. ASSUME i = Len(Chain(p)) PROVE ~Follows(next_cluster(cluster, TRUE))
  <2>1. next_cluster(cluster, TRUE) = 0
    BY <1>3, <1>4, <1>7, Zenon
  <2> QED
    BY <2>1, Zenon DEF Follows
<1> QED
  BY <1>5, <1>6, <1>7, Zenon

\* A failed read of the table ends a chain.
LEMMA NextFailed == \A c : ~Follows(next_cluster(c, FALSE))
BY DEF next_cluster, Follows, NEXT_FAIL, EOC

\* The step to a directory's next cluster.
LEMMA FindNextExact ==
  ASSUME Given, NEW ok \in BOOLEAN, FindNext(ok)
  PROVE  Exact'
<1> DEFINE D == Above(part - 1)
           next == next_cluster(cluster, ok)
<1>1. /\ pc = "findnext" /\ UNCHANGED <<vol, fs, call, part, total, copied>>
      /\ ioerr' = (ioerr \/ ~ok)
      /\ \/ Follows(next) /\ cluster' = next /\ pc' = "find"
         \/ ~Follows(next) /\ Return(0) /\ UNCHANGED cluster
  BY DEF FindNext, Attempt
<1>2. /\ call \in Requests /\ part \in 1 .. Len(Goal) /\ Goal # <<>>
      /\ D \in DOMAIN vol.tree /\ vol.tree[D].dir
  BY <1>1, SearchAt
<1>3. PICK i \in DOMAIN Chain(D) :
        cluster = Chain(D)[i] /\ \A j \in 1 .. i : j \notin Naming(vol, D, Goal[part])
  BY <1>1, SearchAt
<1>4. CASE ~ok
  <2>1. ~Follows(next)
    BY <1>4, NextFailed
  <2>2. pc' = "idle" /\ ioerr'
    BY <1>1, <1>4, <2>1 DEF Return
  <2> QED
    BY <1>1, <2>2, Returns
<1>5. CASE ok
  <2>1. ok = TRUE
    BY <1>5
  <2>2. /\ i < Len(Chain(D)) => i + 1 \in DOMAIN Chain(D) /\ next = Chain(D)[i + 1] /\ Follows(next)
        /\ i = Len(Chain(D)) => ~Follows(next)
        /\ i \in 1 .. Len(Chain(D)) /\ DOMAIN Chain(D) = 1 .. Len(Chain(D))
    BY <1>1, <1>2, <1>3, <2>1, NextInChain
  <2>3. ~(fs.bpc > CLUSBUF)
    BY <1>1, <1>2 DEF Given, Fitting, Roomy
  <2>4. Len(Chain(D)) \in Nat
    <3>1. Chain(D) \in Seq(Nat)
      BY <1>1, <1>2, ChainIs
    <3> QED
      BY <3>1
  <2>5. CASE i < Len(Chain(D))
    <3>1. pc' = "find" /\ cluster' = Chain(D)[i + 1] /\ i + 1 \in DOMAIN Chain(D) /\ part' = part
      BY <1>1, <2>2, <2>5
    <3>2. \A j \in 1 .. (i + 1) - 1 : j \notin Naming(vol, D, Goal[part])
      <4>1. (i + 1) - 1 = i
        BY <2>2
      <4> QED
        BY <1>3, <4>1
    <3>3. Goal' = Goal
      BY <1>1 DEF Goal
    <3>4. Searching'
      BY <1>1, <1>2, <3>1, <3>2, <3>3 DEF Searching, Goal, Above, Chain
    <3>5. Copying'
      BY <3>1 DEF Copying
    <3> QED
      BY <1>1, <3>1, <3>4, <3>5, GoesOn
  <2>6. CASE i = Len(Chain(D))
    <3>1. pc' = "idle" /\ ret' = 0 /\ ~(0 > 0)
      BY <1>1, <2>2, <2>6 DEF Return
    <3>2. Naming(vol, D, Goal[part]) = {}
      <4>1. Naming(vol, D, Goal[part]) \subseteq 1 .. i
        BY <2>2, <2>6 DEF Naming, Chain
      <4> QED
        BY <1>3, <4>1
    <3>3. Outcome(vol, call) = 0
      BY <1>1, <1>2, <2>3, <3>2, NothingFound
    <3> QED
      BY <1>1, <3>1, <3>3, Returns
  <2> QED
    BY <2>2, <2>4, <2>5, <2>6
<1> QED
  BY <1>4, <1>5

\* How many clusters hold a number of bytes.
LEMMA Ceiling ==
  ASSUME NEW size \in Nat, NEW cb \in Nat, cb > 0, NEW n \in Nat
  PROVE  /\ (size + cb - 1) \div cb \in Nat
         /\ n + 1 <= (size + cb - 1) \div cb <=> n * cb < size
<1> DEFINE x == size + cb - 1
<1>1. x \in Nat
  OBVIOUS
<1>2. PICK q \in Nat, r \in Nat : q = x \div cb /\ x = cb * q + r /\ r < cb
  <2> HIDE DEF x
  <2>1. /\ x \div cb \in Nat /\ x % cb \in Nat
        /\ x % cb < cb /\ x = cb * (x \div cb) + (x % cb)
    BY <1>1, DivMod
  <2> QED
    BY <2>1
<1>3. ASSUME n + 1 <= q PROVE n * cb < size
  <2>1. (n + 1) * cb <= q * cb
    BY <1>3
  <2>2. (n + 1) * cb = n * cb + cb /\ q * cb = cb * q
    BY <1>2
  <2> QED
    BY <1>2, <2>1, <2>2
<1>4. ASSUME ~(n + 1 <= q) PROVE ~(n * cb < size)
  <2>1. q * cb <= n * cb
    BY <1>2, <1>4
  <2>2. q * cb = cb * q
    BY <1>2
  <2> QED
    BY <1>2, <2>1, <2>2
<1> QED
  BY <1>2, <1>3, <1>4

\* What a call has to deliver of a file the volume has.
LEMMA DeliveryIs ==
  ASSUME Given, pc \notin {"boot", "hang"}, call \in Requests, Goal \in DOMAIN vol.tree
  PROVE  /\ Delivery(vol, call) \in Seq(Chunk)
         /\ \A k \in Nat : k + 1 \in DOMAIN Delivery(vol, call) <=>
              k + 1 <= Len(Chain(Goal)) /\ k * ClusterBytes(vol) < call.size
         /\ \A k \in DOMAIN Delivery(vol, call) :
              Delivery(vol, call)[k] =
                [at |-> (k - 1) * ClusterBytes(vol),
                 n |-> Smaller(ClusterBytes(vol), call.size - (k - 1) * ClusterBytes(vol)),
                 clus |-> Chain(Goal)[k],
                 lba |-> DataStart(vol) + (Chain(Goal)[k] - 2) * vol.bpb.spc]
<1> DEFINE cb == ClusterBytes(vol)
           size == call.size
           top == Smaller(Len(Chain(Goal)), (size + cb - 1) \div cb)
           rec(k) == [at |-> (k - 1) * cb, n |-> Smaller(cb, size - (k - 1) * cb),
                      clus |-> Chain(Goal)[k],
                      lba |-> DataStart(vol) + (Chain(Goal)[k] - 2) * vol.bpb.spc]
<1>1. Delivery(vol, call) = [k \in 1 .. top |-> rec(k)]
  BY DEF Delivery, Goal, Chain
<1>2. cb \in Nat /\ cb > 0 /\ size \in Nat /\ Chain(Goal) \in Seq(Nat) /\ Len(Chain(Goal)) \in Nat
  BY Geometry, PathTyped, ChainIs
<1>3. (size + cb - 1) \div cb \in Nat
  BY <1>2, Ceiling
<1>4. \A k \in Nat : k + 1 <= (size + cb - 1) \div cb <=> k * cb < size
  BY <1>2, Ceiling
<1>5. top \in Nat
  BY <1>2, <1>3 DEF Smaller
<1>6. \A k \in Nat : k + 1 \in 1 .. top <=> k + 1 <= Len(Chain(Goal)) /\ k * cb < size
  <2> DEFINE lim == (size + cb - 1) \div cb
  <2>1. top = Smaller(Len(Chain(Goal)), lim) /\ lim \in Nat
    BY <1>3
  <2>2. \A k \in Nat : k + 1 <= lim <=> k * cb < size
    BY <1>4
  <2> HIDE DEF lim, top
  <2>3. \A k \in Nat : k + 1 \in 1 .. top <=> k + 1 <= Len(Chain(Goal)) /\ k + 1 <= lim
    BY <1>2, <2>1 DEF Smaller
  <2> QED
    BY <2>2, <2>3
<1>7. ASSUME NEW k \in 1 .. top PROVE rec(k) \in Chunk
  <2> HIDE DEF top
  <2>1. k - 1 \in Nat /\ (k - 1) + 1 = k
    BY <1>5
  <2>2. k <= Len(Chain(Goal)) /\ (k - 1) * cb < size
    BY <1>6, <1>7, <2>1
  <2>3. (k - 1) * cb \in Nat
    BY <1>2, <2>1
  <2>4. Smaller(cb, size - (k - 1) * cb) \in Nat
    BY <1>2, <2>2, <2>3 DEF Smaller
  <2>5. Chain(Goal)[k] \in Nat
    BY <1>2, <1>5, <2>2
  <2>6. DataStart(vol) + (Chain(Goal)[k] - 2) * vol.bpb.spc \in Int
    <3>1. DataStart(vol) \in Int /\ vol.bpb.spc \in Int
      BY VolumesAssumption DEF Given, IInv, TypeOK, IsVolume, Bpb, DataStart, FatStart
    <3> QED
      BY <2>5, <3>1
  <2> QED
    BY <2>3, <2>4, <2>5, <2>6 DEF Chunk
<1>8. [k \in 1 .. top |-> rec(k)] \in Seq(Chunk)
  <2> HIDE DEF top, rec
  <2>1. [k \in 1 .. top |-> rec(k)] \in [1 .. top -> Chunk]
    BY <1>7
  <2> QED
    BY <1>5, <2>1, IsASeq
<1> HIDE DEF top, rec
<1>9. \A k \in DOMAIN Delivery(vol, call) : Delivery(vol, call)[k] = rec(k)
  BY <1>1
<1>10. DOMAIN Delivery(vol, call) = 1 .. top
  BY <1>1
<1> QED
  BY <1>1, <1>6, <1>8, <1>9, <1>10 DEF rec

\* The state of a read.
LEMMA ReadAt ==
  ASSUME Given, pc \in {"read", "readnext"}
  PROVE  /\ call \in Requests /\ call.size \in Nat /\ Goal \in DOMAIN vol.tree
         /\ ~(Goal # <<>> /\ ClusterBytes(vol) > CLUSBUF)
         /\ copied \in Seq(Chunk) /\ Len(copied) \in Nat /\ Len(Chain(Goal)) \in Nat
         /\ ClusterBytes(vol) \in Nat /\ ClusterBytes(vol) > 0
         /\ Len(copied) * ClusterBytes(vol) \in Nat
         /\ total = Smaller(Len(copied) * ClusterBytes(vol), call.size)
         /\ \A k \in 1 .. Len(copied) :
              k \in DOMAIN Delivery(vol, call) /\ copied[k] = Delivery(vol, call)[k]
         /\ Chain(Goal) \in Seq(Nat) /\ InChain(cluster)
<1>1. call \in Requests /\ Goal \in DOMAIN vol.tree
      /\ total = Smaller(Len(copied) * ClusterBytes(vol), call.size)
  BY DEF Given, Fitting, Begun, Exact, Copying
<1>2. PICK n \in DOMAIN Chain(Goal) : cluster = Chain(Goal)[n]
  BY DEF Given, Exact, Copying
<1>3. call.size \in Nat /\ ClusterBytes(vol) \in Nat /\ ClusterBytes(vol) > 0 /\ fs.bpc = ClusterBytes(vol)
  BY <1>1, PathTyped, Geometry
<1>4. copied \in Seq(Chunk) /\ Len(copied) \in Nat
  BY DEF Given, IInv, TypeOK
<1>5. Chain(Goal) \in Seq(Nat) /\ InChain(cluster)
  BY <1>1, <1>2, ChainIs
<1>6. Len(Chain(Goal)) \in Nat
  BY <1>5
<1>7. \A x, y \in Nat : x * y \in Nat
  OBVIOUS
<1>8. Len(copied) * ClusterBytes(vol) \in Nat
  BY <1>3, <1>4, <1>7
<1>9. ~(Goal # <<>> /\ ClusterBytes(vol) > CLUSBUF)
  BY <1>3 DEF Given, Fitting, Roomy
<1>10. \A k \in 1 .. Len(copied) :
              k \in DOMAIN Delivery(vol, call) /\ copied[k] = Delivery(vol, call)[k]
  BY DEF Given, Exact, DeliversPrefix
<1> QED
  BY <1>1, <1>3, <1>4, <1>5, <1>6, <1>8, <1>9, <1>10

\* When as much has been copied as has to be delivered, all of it has.
LEMMA Delivered ==
  ASSUME Given, pc \in {"read", "readnext"}, ~(Len(copied) + 1 \in DOMAIN Delivery(vol, call))
  PROVE  copied = Delivery(vol, call)
<1> DEFINE d == Delivery(vol, call)
           len == Len(copied)
<1>1. copied \in Seq(Chunk) /\ len \in Nat /\ call \in Requests /\ Goal \in DOMAIN vol.tree
      /\ \A k \in 1 .. len : k \in DOMAIN d /\ copied[k] = d[k]
  BY ReadAt
<1>2. d \in Seq(Chunk)
  BY <1>1, DeliveryIs
<1>3. Len(d) \in Nat /\ DOMAIN d = 1 .. Len(d)
  BY <1>2
<1>4. len <= Len(d)
  <2>1. CASE len = 0
    BY <1>3, <2>1
  <2>2. CASE len > 0
    <3>1. len \in 1 .. len
      BY <1>1, <2>2
    <3>2. len \in 1 .. Len(d)
      BY <1>1, <1>3, <3>1, Zenon
    <3> QED
      BY <3>2
  <2> QED
    BY <1>1, <2>1, <2>2
<1>5. ~(len + 1 \in 1 .. Len(d))
  BY <1>3
<1>6. len = Len(d)
  <2> DEFINE m == Len(d)
  <2>1. len \in Nat /\ m \in Nat /\ len <= m /\ ~(len + 1 \in 1 .. m)
    BY <1>1, <1>3, <1>4, <1>5, Zenon
  <2> HIDE DEF len, m
  <2>2. len = m
    BY <2>1
  <2> QED
    BY <2>2 DEF m
<1> HIDE DEF d, len
<1>7. \A k \in 1 .. Len(d) : copied[k] = d[k]
  BY <1>1, <1>6
<1> QED
  BY <1>1, <1>2, <1>6, <1>7 DEF d, len

\* The step that copies a cluster.
LEMMA ReadClusterExact ==
  ASSUME Given, NEW ok \in BOOLEAN, ReadCluster(ok)
  PROVE  Exact'
<1> DEFINE cb == ClusterBytes(vol)
           len == Len(copied)
           size == call.size
           d == Delivery(vol, call)
<1>1. /\ pc = "read" /\ UNCHANGED <<vol, fs, call, part, cluster>> /\ total < size
      /\ ioerr' = (ioerr \/ ~ok)
  BY DEF ReadCluster, Attempt
<1>2. /\ call \in Requests /\ size \in Nat /\ Goal \in DOMAIN vol.tree
      /\ ~(Goal # <<>> /\ cb > CLUSBUF) /\ copied \in Seq(Chunk) /\ len \in Nat
      /\ Len(Chain(Goal)) \in Nat /\ cb \in Nat /\ cb > 0 /\ len * cb \in Nat
      /\ total = Smaller(len * cb, size)
      /\ \A k \in 1 .. len : k \in DOMAIN d /\ copied[k] = d[k]
  BY <1>1, ReadAt
<1>3. len + 1 \in DOMAIN Chain(Goal) /\ cluster = Chain(Goal)[len + 1]
  BY <1>1 DEF Given, Exact, Copying
<1>4. Chain(Goal) \in Seq(Nat) /\ len + 1 <= Len(Chain(Goal))
  <2>1. Chain(Goal) \in Seq(Nat)
    BY <1>1, ReadAt
  <2> QED
    BY <1>2, <1>3, <2>1
<1>5. fs.bpc = cb /\ CLUSBUF \in Nat
      /\ cluster_to_lba(cluster) = DataStart(vol) + (cluster - 2) * vol.bpb.spc
  <2>1. cluster \in Nat /\ InChain(cluster)
    BY <1>1, Geometry, ReadAt
  <2> QED
    BY <1>1, <2>1, Geometry DEF InChain
<1>6. Goal' = Goal /\ Chain(Goal)' = Chain(Goal)
  BY <1>1 DEF Goal, Chain
<1>8. CASE ~ok /\ pc' # "corrupt"
  <2>1. pc' = "idle" /\ ioerr' /\ UNCHANGED copied
    BY <1>1, <1>8 DEF ReadCluster, Return
  <2> QED
    BY <1>1, <2>1, Returns
<1>9. CASE Overruns /\ pc' = "corrupt"
  <2>1. pc' = "corrupt" /\ UNCHANGED copied
    BY <1>9 DEF ReadCluster, Return
  <2>2. Searching' /\ Copying' /\ ReadExact'
    BY <2>1 DEF Searching, Copying, ReadExact
  <2>3. DeliversPrefix'
    BY <1>1, <2>1 DEF Given, Exact, DeliversPrefix
  <2> QED
    BY <2>2, <2>3 DEF Exact
<1>10. CASE ok /\ ~Overruns
  <2> DEFINE e == [at |-> Dest, n |-> to_copy, clus |-> cluster, lba |-> cluster_to_lba(cluster)]
  <2>0. /\ to_copy = IF total + fs.bpc > size THEN size - total ELSE fs.bpc
        /\ (total + to_copy) % WORD = total + to_copy
    BY <1>1, <1>10, CopyIs DEF Given, Constants, IInv
  <2>1. pc' = "readnext" /\ copied' = Append(copied, e) /\ total' = total + to_copy
    BY <1>10, <2>0 DEF ReadCluster
  <2>2. total = len * cb /\ len * cb < size
    BY <1>1, <1>2 DEF Smaller
  <2>3. len + 1 \in DOMAIN d
    BY <1>1, <1>2, <1>4, <2>2, DeliveryIs
  <2>4. (len + 1) - 1 = len /\ len + 1 \in Nat
    BY <1>2
  <2>5. e = d[len + 1]
    <3>1. d[len + 1] = [at |-> ((len + 1) - 1) * cb, n |-> Smaller(cb, size - ((len + 1) - 1) * cb),
                        clus |-> Chain(Goal)[len + 1],
                        lba |-> DataStart(vol) + (Chain(Goal)[len + 1] - 2) * vol.bpb.spc]
      BY <1>1, <1>2, <2>3, DeliveryIs
    <3>2. ((len + 1) - 1) * cb = total
      BY <2>2, <2>4
    <3>3. d[len + 1] = [at |-> total, n |-> Smaller(cb, size - total), clus |-> cluster,
                        lba |-> cluster_to_lba(cluster)]
      BY <1>3, <1>5, <3>1, <3>2
    <3>4. to_copy = Smaller(cb, size - total) /\ Dest = total
      <4>1. total \in Nat
        BY <1>2, <2>2
      <4> QED
        BY <1>2, <1>5, <2>0, <4>1 DEF Smaller, Dest
    <3> QED
      BY <3>3, <3>4
  <2>6. Len(copied') = len + 1 /\ copied'[len + 1] = e /\ \A k \in 1 .. len : copied'[k] = copied[k]
    <3> HIDE DEF e
    <3>1. e \in Chunk
      BY <1>1, <1>2, <2>3, <2>5, DeliveryIs, ElementOfSeq
    <3> QED
      BY <1>2, <2>1, <3>1, AppendProperties
  <2>7. total' = Smaller((len + 1) * cb, size)
    <3>1. (len + 1) * cb = total + cb
      BY <1>2, <2>2
    <3>2. total \in Nat
      BY <1>2, <2>2
    <3>3. size \in Nat /\ cb \in Nat /\ total' = total + to_copy
          /\ to_copy = IF total + cb > size THEN size - total ELSE cb
      BY <1>1, <1>2, <1>5, <2>0, <2>1
    <3> HIDE DEF e, d
    <3>4. total' = Smaller(total + cb, size)
      BY <3>2, <3>3 DEF Smaller
    <3> QED
      BY <3>1, <3>4
  <2>8. DeliversPrefix'
    <3>1. \A k \in 1 .. len + 1 : k \in DOMAIN d /\ copied'[k] = d[k]
      <4>1. \A k \in 1 .. len + 1 : k \in 1 .. len \/ k = len + 1
        BY <1>2
      <4> HIDE DEF e, d
      <4> QED
        BY <1>2, <2>3, <2>5, <2>6, <4>1
    <3>2. Delivery(vol, call)' = d
      BY <1>1
    <3> QED
      BY <2>6, <3>1, <3>2 DEF DeliversPrefix
  <2>9. Copying'
    BY <1>1, <1>2, <1>3, <1>6, <2>1, <2>6, <2>7 DEF Copying, Goal, Chain
  <2>10. Searching' /\ ReadExact'
    BY <2>1 DEF Searching, ReadExact
  <2> QED
    BY <2>8, <2>9, <2>10 DEF Exact
<1>11. \/ ~ok /\ pc' # "corrupt"
       \/ Overruns /\ pc' = "corrupt"
       \/ ok /\ ~Overruns
  BY DEF ReadCluster, Return
<1> QED
  BY <1>8, <1>9, <1>10, <1>11

\* The step to a file's next cluster.
LEMMA ReadNextExact ==
  ASSUME Given, NEW ok \in BOOLEAN, ReadNext(ok)
  PROVE  Exact'
<1> DEFINE cb == ClusterBytes(vol)
           len == Len(copied)
           size == call.size
           next == next_cluster(cluster, ok)
<1>1. /\ pc = "readnext" /\ UNCHANGED <<vol, fs, call, part, total, copied>>
      /\ ioerr' = (ioerr \/ ~ok)
      /\ \/ Follows(next) /\ cluster' = next /\ pc' = "read"
         \/ ~Follows(next) /\ Return(total)
  <2>1. int(total) = total
    BY TotalIs DEF Given, Constants, IInv, Progress
  <2> QED
    BY <2>1 DEF ReadNext, Attempt
<1>2. /\ call \in Requests /\ size \in Nat /\ Goal \in DOMAIN vol.tree
      /\ ~(Goal # <<>> /\ cb > CLUSBUF) /\ len \in Nat /\ copied \in Seq(Chunk)
      /\ Len(Chain(Goal)) \in Nat /\ cb \in Nat /\ cb > 0 /\ len * cb \in Nat
      /\ total = Smaller(len * cb, size)
  BY <1>1, ReadAt
<1>3. len \in DOMAIN Chain(Goal) /\ cluster = Chain(Goal)[len]
  BY <1>1 DEF Given, Exact, Copying
<1>4. Goal' = Goal /\ Chain(Goal)' = Chain(Goal) /\ fs.bpc = cb
  BY <1>1, Geometry DEF Goal, Chain
<1>5. CASE ~ok
  <2>1. ~Follows(next)
    BY <1>5, NextFailed
  <2>2. pc' = "idle" /\ ioerr'
    BY <1>1, <1>5, <2>1 DEF Return
  <2> QED
    BY <1>1, <2>2, Returns
<1>6. CASE ok
  <2>1. ok = TRUE
    BY <1>6
  <2>2. /\ len < Len(Chain(Goal)) =>
             len + 1 \in DOMAIN Chain(Goal) /\ next = Chain(Goal)[len + 1] /\ Follows(next)
        /\ len = Len(Chain(Goal)) => ~Follows(next)
        /\ len \in 1 .. Len(Chain(Goal))
    BY <1>1, <1>2, <1>3, <2>1, NextInChain
  <2>3. CASE len < Len(Chain(Goal))
    <3>1. pc' = "read" /\ cluster' = Chain(Goal)[len + 1] /\ len + 1 \in DOMAIN Chain(Goal)
      BY <1>1, <2>2, <2>3
    <3>2. Copying'
      BY <1>1, <1>2, <1>4, <3>1 DEF Copying, Goal, Chain
    <3>3. Searching'
      BY <3>1 DEF Searching
    <3> QED
      BY <1>1, <3>1, <3>2, <3>3, GoesOn
  <2>4. CASE len = Len(Chain(Goal))
    <3>1. pc' = "idle" /\ ret' = total
      BY <1>1, <2>2, <2>4 DEF Return
    <3>2. Outcome(vol, call) = total
      <4>1. Outcome(vol, call) = Smaller(size, Len(Chain(Goal)) * cb)
        BY <1>2, OutcomeIs
      <4>2. Smaller(size, len * cb) = Smaller(len * cb, size)
        BY <1>2 DEF Smaller
      <4> QED
        BY <1>2, <2>4, <4>1, <4>2
    <3>3. copied = Delivery(vol, call)
      <4>1. len + 1 \notin DOMAIN Delivery(vol, call)
        <5>1. len + 1 \in DOMAIN Delivery(vol, call) => len + 1 <= Len(Chain(Goal))
          BY <1>1, <1>2, DeliveryIs
        <5> QED
          BY <1>2, <2>4, <5>1
      <4> QED
        BY <1>1, <4>1, Delivered
    <3> QED
      BY <1>1, <3>1, <3>2, <3>3, Returns
  <2> QED
    BY <1>2, <2>2, <2>3, <2>4
<1> QED
  BY <1>5, <1>6

\* The end of a read that has filled the caller's buffer.
LEMMA ReadDoneExact ==
  ASSUME Given, ReadDone
  PROVE  Exact'
<1> DEFINE cb == ClusterBytes(vol)
           len == Len(copied)
           size == call.size
<1>1. /\ pc = "read" /\ UNCHANGED <<vol, fs, call, part, cluster, total, copied, ioerr>>
      /\ ~(InChain(cluster) /\ total < size) /\ pc' = "idle" /\ ret' = total
  <2>1. int(total) = total
    BY TotalIs DEF Given, Constants, IInv, Progress
  <2> QED
    BY <2>1 DEF ReadDone, Return
<1>2. /\ call \in Requests /\ size \in Nat /\ Goal \in DOMAIN vol.tree
      /\ ~(Goal # <<>> /\ cb > CLUSBUF) /\ len \in Nat
      /\ Len(Chain(Goal)) \in Nat /\ cb \in Nat /\ cb > 0 /\ len * cb \in Nat
      /\ total = Smaller(len * cb, size) /\ InChain(cluster) /\ Chain(Goal) \in Seq(Nat)
  BY <1>1, ReadAt
<1>3. len + 1 \in DOMAIN Chain(Goal)
  BY <1>1 DEF Given, Exact, Copying
<1>4. total = size /\ ~(len * cb < size)
  BY <1>1, <1>2 DEF Smaller
<1>5. Outcome(vol, call) = size
  <2>1. Outcome(vol, call) = Smaller(size, Len(Chain(Goal)) * cb)
    BY <1>2, OutcomeIs
  <2>2. len <= Len(Chain(Goal))
    BY <1>2, <1>3
  <2>3. \A x, y, z \in Nat : x <= y => x * z <= y * z /\ y * z \in Nat
    OBVIOUS
  <2>4. len * cb <= Len(Chain(Goal)) * cb /\ Len(Chain(Goal)) * cb \in Nat
    BY <1>2, <2>2, <2>3
  <2>5. size <= Len(Chain(Goal)) * cb
    BY <1>2, <1>4, <2>4
  <2> QED
    BY <1>2, <2>1, <2>5 DEF Smaller
<1>6. copied = Delivery(vol, call)
  <2>1. len + 1 \notin DOMAIN Delivery(vol, call)
    BY <1>1, <1>2, <1>4, DeliveryIs
  <2> QED
    BY <1>1, <2>1, Delivered
<1> QED
  BY <1>1, <1>4, <1>5, <1>6, Returns

\* The step that begins a call.
LEMMA CallExact ==
  ASSUME Given, NEW r \in Requests, Call(r)
  PROVE  Exact'
<1>1. /\ pc = "idle" /\ call' = r /\ part' = 1 /\ cluster' = fs.root /\ total' = 0 /\ copied' = <<>>
      /\ UNCHANGED <<vol, fs>>
      /\ IF ~FindHolds(r.path) THEN pc' = "corrupt" /\ UNCHANGED ret
         ELSE IF ShortNames[r.path] # <<>> THEN pc' = "find" /\ UNCHANGED ret
         ELSE IF int(fs.root) > 0 THEN pc' = "read" /\ UNCHANGED ret
         ELSE Return(int(fs.root))
  BY DEF Call
<1>2. ShortNames[r.path] = Means[r.path]
  BY NamesMeant DEF Given, Constants
<1>3. r.size \in Nat /\ Means[r.path] \in Seq(Seq(Nat)) /\ Goal' = Means[r.path]
  BY <1>1 DEF Given, Constants, RequestsAssumption, Goal
<1>4. /\ <<>> \in DOMAIN vol.tree /\ vol.tree[<<>>].dir /\ Chain(<<>>) # <<>>
      /\ Chain(<<>>)[1] = vol.bpb.root /\ Chain(<<>>) \in Seq(Nat)
  BY <1>1, TreeHeld, ChainIs DEF Holds, Chain
<1>5. 1 \in DOMAIN Chain(<<>>) /\ vol.bpb.root >= 2 /\ fs.root = vol.bpb.root /\ fs.root \in Nat
      /\ fs.root = Chain(<<>>)[1]
  <2>1. 1 \in DOMAIN Chain(<<>>)
    BY <1>4
  <2>2. vol.bpb.root >= 2 /\ vol.bpb.root \in Nat
    BY <1>1, <1>4, <2>1, ChainIs
  <2> QED
    BY <1>1, <1>4, <2>1, <2>2, Geometry
<1>6. DeliversPrefix'
  BY <1>1 DEF DeliversPrefix
<1>7. CASE ~FindHolds(r.path)
  <2>1. pc' = "corrupt"
    BY <1>1, <1>7
  <2>2. Searching' /\ Copying' /\ ReadExact'
    BY <2>1 DEF Searching, Copying, ReadExact
  <2> QED
    BY <1>6, <2>2 DEF Exact
<1>8. CASE FindHolds(r.path) /\ Means[r.path] # <<>>
  <2>1. pc' = "find"
    BY <1>1, <1>2, <1>8
  <2>2. Searching'
    <3>1. 1 \in 1 .. Len(Means[r.path]) /\ 1 - 1 = 0 /\ SubSeq(Means[r.path], 1, 0) = <<>>
      <4>1. Len(Means[r.path]) \in Nat /\ Len(Means[r.path]) # 0
        BY <1>3, <1>8
      <4> QED
        BY <1>3, <4>1, Beginnings
    <3>2. \A j \in 1 .. 1 - 1 : FALSE
      OBVIOUS
    <3> DEFINE dir == SubSeq(Means[call'.path], 1, part' - 1)
    <3>3. dir = <<>>
      BY <1>1, <3>1
    <3>4. part' \in 1 .. Len(Goal') /\ dir \in DOMAIN vol'.tree /\ vol'.tree[dir].dir
      BY <1>1, <1>3, <1>4, <3>1, <3>3
    <3>5. /\ 1 \in DOMAIN vol'.tree[dir].chain /\ cluster' = vol'.tree[dir].chain[1]
      BY <1>1, <1>5, <3>3 DEF Chain
    <3> HIDE DEF dir
    <3>6. \E i \in DOMAIN vol'.tree[dir].chain :
            /\ cluster' = vol'.tree[dir].chain[i]
            /\ \A j \in 1 .. i - 1 : j \notin Naming(vol', dir, Goal'[part'])
      BY <3>2, <3>5
    <3> QED
      BY <2>1, <3>4, <3>6 DEF Searching, Above, Chain, Goal, dir
  <2>3. Copying' /\ ReadExact'
    BY <2>1 DEF Copying, ReadExact
  <2> QED
    BY <1>6, <2>2, <2>3 DEF Exact
<1>9. CASE FindHolds(r.path) /\ Means[r.path] = <<>>
  <2>0. int(fs.root) = fs.root
    <3>1. IsVolume(vol) /\ vol.bpb.fatsz > 0
      BY <1>1, ClusterInt
    <3>2. InTable(vol, fs.root)
      BY <1>5, <3>1 DEF IsVolume
    <3> QED
      BY <1>1, <1>5, <3>2, ClusterInt
  <2>1. pc' = "read"
    BY <1>1, <1>2, <1>5, <1>9, <2>0
  <2>2. Copying'
    <3>1. Len(copied') = 0 /\ Len(copied') + 1 = 1 /\ Goal' = <<>>
      BY <1>1, <1>3, <1>9
    <3>2. Smaller(0 * ClusterBytes(vol), r.size) = 0
      <4>1. ClusterBytes(vol) \in Nat
        BY <1>1, Geometry
      <4>2. 0 * ClusterBytes(vol) = 0
        BY <4>1
      <4> QED
        BY <1>3, <4>2 DEF Smaller
    <3>3. total' = Smaller(Len(copied') * ClusterBytes(vol'), call'.size)
      BY <1>1, <3>1, <3>2
    <3>4. Means[call'.path] = <<>>
      BY <1>1, <1>9
    <3>5. /\ <<>> \in DOMAIN vol'.tree /\ 1 \in DOMAIN vol'.tree[<<>>].chain
          /\ cluster' = vol'.tree[<<>>].chain[1]
      BY <1>1, <1>4, <1>5 DEF Chain
    <3> QED
      BY <2>1, <3>1, <3>3, <3>4, <3>5 DEF Copying, Goal, Chain
  <2>3. Searching' /\ ReadExact'
    BY <2>1 DEF Searching, ReadExact
  <2> QED
    BY <1>6, <2>2, <2>3 DEF Exact
<1> QED
  BY <1>7, <1>8, <1>9

\* Before fat32_init there is nothing to compare.
LEMMA ExactInit == Init => Fitting /\ Exact
BY DEF Init, Fitting, Exact, Begun, Searching, Copying, Roomy, DeliversPrefix, ReadExact, BuffersFit

\* Every step keeps the search and the read on the path's chain.
LEMMA ExactStep ==
  ASSUME Given, [Next]_vars
  PROVE  Exact'
<1>1. CASE MountFails
  <2>1. pc = "boot" /\ pc' = "hang" /\ UNCHANGED <<vol, call, copied>>
    BY <1>1 DEF MountFails
  <2>2. DeliversPrefix'
    BY <2>1 DEF Given, Exact, DeliversPrefix
  <2> QED
    BY <2>1, <2>2 DEF Exact, Searching, Copying, ReadExact
<1>2. CASE MountOk
  <2>1. pc = "boot" /\ pc' = "idle" /\ UNCHANGED <<vol, call, copied>>
    BY <1>2 DEF MountOk
  <2>2. call = NoCall
    BY <2>1 DEF Given, Fitting, Begun
  <2>3. DeliversPrefix'
    BY <2>1 DEF Given, Exact, DeliversPrefix
  <2> QED
    BY <2>1, <2>2, <2>3 DEF Exact, Searching, Copying, ReadExact
<1>3. CASE KmainSpins \/ UNCHANGED vars
  <2>1. UNCHANGED vars
    BY <1>3 DEF KmainSpins
  <2> QED
    BY <2>1 DEF Given, vars, Exact, Searching, Copying, DeliversPrefix, ReadExact, Goal, Above, Chain
<1>4. ASSUME NEW r \in Requests, Call(r) PROVE Exact'
  BY <1>4, CallExact
<1>5. ASSUME NEW ok \in BOOLEAN, FindCluster(ok) PROVE Exact'
  BY <1>5, FindClusterExact
<1>6. CASE FindStops
  BY <1>6, FindStopsExact
<1>7. ASSUME NEW ok \in BOOLEAN, FindNext(ok) PROVE Exact'
  BY <1>7, FindNextExact
<1>8. ASSUME NEW ok \in BOOLEAN, ReadCluster(ok) PROVE Exact'
  BY <1>8, ReadClusterExact
<1>9. ASSUME NEW ok \in BOOLEAN, ReadNext(ok) PROVE Exact'
  BY <1>9, ReadNextExact
<1>10. CASE ReadDone
  BY <1>10, ReadDoneExact
<1> QED
  BY <1>1, <1>2, <1>3, <1>4, <1>5, <1>6, <1>7, <1>8, <1>9, <1>10 DEF Next, Step

\* The path and the cluster size, where a call begins: too long a path is
\* noticed by what it is meant to name, and only a path with names is
\* searched for.
LEMMA CallFits ==
  ASSUME Constants, IInv, Fitting, NEW r \in Requests, Call(r)
  PROVE  Fitting'
<1>1. /\ pc = "idle" /\ call' = r /\ part' = 1 /\ cluster' = fs.root /\ UNCHANGED <<vol, fs>>
      /\ IF ~FindHolds(r.path) THEN pc' = "corrupt" /\ UNCHANGED ret
         ELSE IF ShortNames[r.path] # <<>> THEN pc' = "find" /\ UNCHANGED ret
         ELSE IF int(fs.root) > 0 THEN pc' = "read" /\ UNCHANGED ret
         ELSE Return(int(fs.root))
  BY DEF Call
<1>2. /\ ShortNames[r.path] = Means[r.path]
      /\ Len(split_path(r.path).parts) = Len(Means[r.path])
      /\ Len(split_path(r.path).buffer) <= Len(r.path) + 1
  BY NamesMeant DEF Constants
<1>3. Means[r.path] \in Seq(Seq(Nat)) /\ r.path \in Seq(Nat \ {NUL})
  BY DEF Constants, RequestsAssumption
<1>4. pc' \in {"corrupt", "find", "read", "idle"}
  BY <1>1 DEF Return
<1>5. Begun'
  <2>1. Mountable(vol)
    BY <1>1 DEF Fitting, Begun
  <2> QED
    BY <1>1, <1>4, <2>1 DEF Begun
<1>6. CASE ~FindHolds(r.path)
  <2>1. pc' = "corrupt"
    BY <1>1, <1>6
  <2> DEFINE s == split_path(r.path)
             m == Len(Means[r.path])
             b == Len(s.buffer)
             l == Len(r.path)
  <2>2. Len(s.parts) = m /\ b <= l + 1
    BY <1>2
  <2>3. ~(m <= PARTS /\ b <= NAMEBUF)
    BY <1>6, <2>2 DEF FindHolds
  <2>4. m \in Nat /\ l \in Nat /\ PARTS \in Nat /\ NAMEBUF \in Nat
    BY <1>3 DEF Constants, SizesAssumption
  <2>5. b \in Nat
    <3>1. s.buffer \in Seq(Nat)
      BY <1>3, SplitReads
    <3> QED
      BY <3>1
  <2>6. l >= NAMEBUF \/ m \notin 1 .. PARTS
    <3> HIDE DEF s, m, b, l
    <3> QED
      BY <2>2, <2>3, <2>4, <2>5
  <2>7. BuffersFit'
    BY <1>1, <2>6 DEF BuffersFit
  <2>8. Roomy'
    BY <2>1 DEF Roomy
  <2> QED
    BY <1>5, <2>7, <2>8 DEF Fitting
<1>7. CASE FindHolds(r.path)
  <2>1. pc' # "corrupt"
    BY <1>1, <1>7 DEF Return
  <2>2. pc' = "read" => Means[call'.path] = <<>>
    BY <1>1, <1>2, <1>7
  <2>3. Roomy'
    BY <1>1, <1>4, <2>2 DEF Roomy, Goal
  <2>4. BuffersFit'
    BY <2>1 DEF BuffersFit
  <2> QED
    BY <1>5, <2>3, <2>4 DEF Fitting
<1> QED
  BY <1>6, <1>7

\* Every step keeps the buffers whole, whatever the volume holds.
LEMMA FittingStep ==
  ASSUME Constants, IInv, Fitting, [Next]_vars
  PROVE  Fitting'
<1>1. fs.bpc \in Nat /\ CLUSBUF \in Nat /\ PARTS \in Nat
  BY DEF Constants, SizesAssumption, IInv, TypeOK, FatStruct
<1>2. CASE MountFails \/ MountOk
  <2>1. /\ pc = "boot" /\ pc' \in {"hang", "idle"} /\ UNCHANGED <<vol, call>>
        /\ pc' = "idle" => Mountable(vol)
    <3>1. CASE MountFails
      BY <3>1 DEF MountFails
    <3>2. CASE MountOk
      <4>1. pc = "boot" /\ pc' = "idle" /\ UNCHANGED <<vol, call>>
        BY <3>2 DEF MountOk
      <4>2. Mountable(vol)
        BY <3>2, Zenon DEF MountOk, Mountable
      <4> QED
        BY <4>1, <4>2
    <3> QED
      BY <1>2, <3>1, <3>2
  <2>2. call = NoCall /\ call' = NoCall
    BY <2>1 DEF Fitting, Begun
  <2>3. pc' = "idle" => Mountable(vol')
    BY <2>1, Zenon
  <2>4. Begun'
    BY <2>1, <2>2, <2>3 DEF Begun
  <2>5. Roomy' /\ BuffersFit'
    BY <2>1 DEF Roomy, BuffersFit
  <2> QED
    BY <2>4, <2>5 DEF Fitting
<1>3. CASE KmainSpins \/ UNCHANGED vars
  BY <1>3 DEF KmainSpins, vars, Fitting, Begun, Roomy, BuffersFit, Goal
<1>4. ASSUME NEW r \in Requests, Call(r) PROVE Fitting'
  BY <1>4, CallFits
<1>5. ASSUME NEW ok \in BOOLEAN, FindCluster(ok) PROVE Fitting'
  <2>1. /\ pc = "find" /\ pc' \in {"idle", "find", "findnext", "read"} /\ ~(fs.bpc > CLUSBUF)
        /\ UNCHANGED <<vol, fs, call>>
    BY <1>1, <1>5 DEF FindCluster, Return, BufferHolds
  <2> QED
    BY <2>1 DEF Fitting, Begun, Roomy, BuffersFit
<1>6. CASE FindStops \/ ReadDone
  <2>1. pc' = "idle" /\ UNCHANGED <<vol, fs, call>> /\ pc \in {"find", "read"}
    BY <1>6 DEF FindStops, ReadDone, Return
  <2> QED
    BY <2>1 DEF Fitting, Begun, Roomy, BuffersFit
<1>7. ASSUME NEW ok \in BOOLEAN, FindNext(ok) \/ ReadNext(ok) PROVE Fitting'
  <2>1. /\ pc \in {"findnext", "readnext"} /\ pc' \in {"idle", "find", "read"}
        /\ UNCHANGED <<vol, fs, call>>
    BY <1>7 DEF FindNext, ReadNext, Return
  <2> QED
    BY <2>1 DEF Fitting, Begun, Roomy, BuffersFit, Goal
<1>8. ASSUME NEW ok \in BOOLEAN, ReadCluster(ok) PROVE Fitting'
  <2>1. /\ pc = "read" /\ pc' \in {"idle", "corrupt", "readnext"} /\ UNCHANGED <<vol, fs, call>>
        /\ pc' = "corrupt" => fs.bpc > CLUSBUF
    BY <1>8 DEF ReadCluster, Return, Overruns
  <2>2. pc' = "corrupt" => Len(Means[call'.path]) = 0
    <3>1. pc' = "corrupt" => Means[call'.path] = <<>>
      BY <2>1 DEF Fitting, Roomy, Goal
    <3> QED
      BY <3>1
  <2>3. BuffersFit'
    <3>1. 0 \notin 1 .. PARTS
      BY <1>1
    <3> QED
      BY <2>2, <3>1 DEF BuffersFit
  <2>4. Begun' /\ Roomy'
    BY <2>1 DEF Fitting, Begun, Roomy, Goal
  <2> QED
    BY <2>3, <2>4 DEF Fitting
<1> QED
  BY <1>2, <1>3, <1>4, <1>5, <1>6, <1>7, <1>8 DEF Next, Step

\* The second invariant of the driver: its buffers are whole on every
\* volume, and on a consistent one it is always where the path leads,
\* whichever reads fail.
EInv == IInv /\ Fitting /\ (vol \in Consistent => Exact)

\* The invariant holds at first and is kept by every step.
LEMMA EInvHolds == (Init => EInv) /\ (EInv /\ [Next]_vars => EInv')
<1>1. Init => EInv
  BY TypeInit, ProgressInit, ExactInit DEF IInv, EInv
<1>2. ASSUME EInv, [Next]_vars PROVE EInv'
  <2>1. Constants
    BY VolumesAssumption, SizesAssumption, RequestsAssumption, MeansAssumption,
       ReadOutcomesAssumption DEF Constants
  <2>2. IInv'
    BY <1>2, <2>1, TypeStep, ProgressStep DEF IInv, EInv, Constants
  <2>3. Fitting'
    BY <1>2, <2>1, FittingStep DEF EInv
  <2>4. UNCHANGED vol
    BY <1>2 DEF Next, Step, MountFails, MountOk, FindStops, ReadDone, FindCluster, FindNext,
                ReadCluster, ReadNext, KmainSpins, Call, vars
  <2>5. ASSUME vol' \in Consistent PROVE Exact'
    <3>1. vol \in Consistent
      BY <2>4, <2>5
    <3> QED
      BY <1>2, <2>1, <3>1, ExactStep DEF EInv, Given
  <2> QED
    BY <2>2, <2>3, <2>5 DEF EInv
<1> QED
  BY <1>1, <1>2

\* What fat32_read_file has copied is at every moment a beginning of what
\* the volume holds under the path, also when disk reads fail.
THEOREM PrefixDelivered == Spec => []DeliversPrefix
<1>1. EInv => DeliversPrefix
  BY DEF EInv, Exact, DeliversPrefix
<1> QED
  BY <1>1, EInvHolds, PTL DEF Spec

\* What a call returns is what the volume holds, unless a disk read failed.
THEOREM ReadsExactly == Spec => []ReadExact
<1>1. EInv => ReadExact
  BY DEF EInv, Exact, ReadExact
<1> QED
  BY <1>1, EInvHolds, PTL DEF Spec

\* The arrays of fat32_find_file and fat32_read_file overflow only for a
\* path that is too long, has too many names, or none.
THEOREM BuffersHold == Spec => []BuffersFit
<1>1. EInv => BuffersFit
  BY DEF EInv, Fitting
<1> QED
  BY <1>1, EInvHolds, PTL DEF Spec
============================================================================
