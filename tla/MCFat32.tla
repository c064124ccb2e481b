------------------------------ MODULE MCFat32 ------------------------------
(***************************************************************************)
(* Small volumes, requests and screens for Boot and Fat32.  A sector has    *)
(* 16 bytes: four FAT words or four directory entries, so a table of 12    *)
(* words spans three sectors and a directory of two clusters spans two     *)
(* reads.                                                                  *)
(***************************************************************************)
EXTENDS Boot, TLC

\* Characters; a short name has two and one.
Ascii == "/" :> 47 @@ "." :> 46 @@ " " :> 32 @@ "b" :> 98 @@ "e" :> 101 @@ "h" :> 104 @@
         "i" :> 105 @@ "k" :> 107 @@ "n" :> 110 @@ "s" :> 115 @@ "t" :> 116 @@
         "B" :> 66 @@ "E" :> 69 @@ "H" :> 72 @@ "I" :> 73 @@ "K" :> 75 @@ "N" :> 78 @@
         "S" :> 83 @@ "T" :> 84
Chars(s) == [n \in DOMAIN s |-> Ascii[s[n]]]

HI_T == Chars(<<"H", "I", "T">>)
S == Chars(<<"S", " ", " ">>)
B == Chars(<<"B", " ", " ">>)
K_E == Chars(<<"K", " ", "E">>)
EMPTY == Chars(<<"E", " ", " ">>)
NONE == Chars(<<"N", " ", " ">>)

\* Paths and what they name: with and without slashes at either end, in
\* lower and upper case, as long as the arrays hold and longer.
MCMeans ==
  Chars(<<"/", "h", "i", ".", "t">>) :> <<HI_T>> @@
  Chars(<<"H", "I", ".", "T">>) :> <<HI_T>> @@
  Chars(<<"s", "/">>) :> <<S>> @@
  Chars(<<"s", "/", "b", "/", "k", ".", "e">>) :> <<S, B, K_E>> @@
  Chars(<<"/", "s", "/", "/", "b", "/", "k", ".", "e">>) :> <<S, B, K_E>> @@
  Chars(<<"h", "i", ".", "t", "/", "b", ".", "e">>) :> <<HI_T, Chars(<<"B", " ", "E">>)>> @@
  Chars(<<"e">>) :> <<EMPTY>> @@
  Chars(<<"e", "/", "n">>) :> <<EMPTY, NONE>> @@
  Chars(<<"/", "s", "/", "n">>) :> <<S, NONE>> @@
  Chars(<<"s", "/", "b", "/", "k", "/", "n">>) :> <<S, B, Chars(<<"K", " ", " ">>), NONE>> @@
  Chars(<<"h", "i", "/", "h", "i", "/", "h", ".", "t">>) :>
    <<Chars(<<"H", "I", " ">>), Chars(<<"H", "I", " ">>), Chars(<<"H", " ", "T">>)>> @@
  Chars(<<"/">>) :> <<>> @@
  <<>> :> <<>>

E(k, n, c) == [kind |-> k, name |-> n, clus |-> c]

\* What every directory but the root begins with.
Dots(self, parent) ==
  <<E("dir", Chars(<<".", " ", " ">>), self), E("dir", Chars(<<".", ".", " ">>), parent)>>

\* Reserved high bits of a FAT word, which the driver has to mask.
High == 3 * FAT_MASK
LastMark == EOC + 7

Tree(root, hello, sys, bin) ==
  <<>>      :> [dir |-> TRUE,  chain |-> root] @@
  <<HI_T>>  :> [dir |-> FALSE, chain |-> hello] @@
  <<S>>     :> [dir |-> TRUE,  chain |-> sys] @@
  <<S, B>>  :> [dir |-> TRUE,  chain |-> bin] @@
  <<EMPTY>> :> [dir |-> FALSE, chain |-> <<>>]

\* One sector per cluster; the root directory has two clusters, the file
\* k.elf three that are neither contiguous nor ascending.
Scattered ==
  [start |-> 8,
   bpb   |-> [bps |-> 16, spc |-> 1, rsvd |-> 1, nfats |-> 2, fatsz |-> 3, root |-> 2],
   fat   |-> [n \in 0 .. 11 |-> CASE n = 2 -> 5 + High [] n = 5 -> LastMark
                [] n = 3 -> 8 [] n = 8 -> EOC [] n = 4 -> LastMark + High [] n = 6 -> LastMark
                [] n = 10 -> 11 [] n = 11 -> 9 + High [] n = 9 -> EOC
                [] n = 7 -> LastMark [] OTHER -> 0],
   dirs  |-> 2 :> <<E("deleted", HI_T, 7), E("lfn", HI_T, 0),
                    E("file", EMPTY, 0), E("dir", S, 4)>> @@
             5 :> <<E("file", HI_T, 3), ZeroEntry, ZeroEntry, ZeroEntry>> @@
             4 :> Dots(4, 0) \o <<E("dir", B, 6), ZeroEntry>> @@
             6 :> Dots(6, 4) \o <<E("lfn", K_E, 0), E("file", K_E, 10)>>,
   tree  |-> Tree(<<2, 5>>, <<3, 8>>, <<4>>, <<6>>) @@
             <<S, B, K_E>> :> [dir |-> FALSE, chain |-> <<10, 11, 9>>]]

\* Two sectors per cluster, one FAT, and the wanted root entries only in
\* the second sector of the second cluster.
Paired ==
  [start |-> 8,
   bpb   |-> [bps |-> 16, spc |-> 2, rsvd |-> 2, nfats |-> 1, fatsz |-> 2, root |-> 3],
   fat   |-> [n \in 0 .. 7 |-> CASE n = 3 -> 2 [] n = 2 -> LastMark [] n = 4 -> 6
                [] n = 6 -> LastMark [] n = 5 -> EOC [] n = 7 -> EOC [] OTHER -> 0],
   dirs  |-> 3 :> [i \in 1 .. 8 |-> E("deleted", S, 7)] @@
             2 :> [i \in 1 .. 8 |-> CASE i = 5 -> E("dir", S, 5)
                     [] i = 6 -> E("file", HI_T, 4) [] i = 7 -> E("file", EMPTY, 0)
                     [] i = 8 -> ZeroEntry [] OTHER -> E("lfn", S, 0)] @@
             5 :> Dots(5, 0) \o <<E("dir", B, 7)>> \o [i \in 1 .. 5 |-> ZeroEntry] @@
             7 :> Dots(7, 5) \o [i \in 1 .. 6 |-> ZeroEntry],
   tree  |-> Tree(<<3, 2>>, <<4, 6>>, <<5>>, <<7>>)]

\* A table that is damaged: the chain of k.elf comes back to its beginning.
Looped == [Scattered EXCEPT !.fat[11] = 10]

\* Clusters larger than the driver's buffers, and volumes that are not
\* mounted: an unformatted disk and a partition elsewhere.
Wide == [Paired EXCEPT !.bpb.spc = 4, !.bpb.root = 3]
Unformatted == [Scattered EXCEPT !.bpb = ZeroBpb]
Elsewhere == [Scattered EXCEPT !.start = 9]

MCVolumes == {Scattered, Paired, Looped, Wide, Unformatted, Elsewhere}
ASSUME DamageAssumption == Consistent = MCVolumes \ {Looped}

MCSizes == {0, 1, 16, 20, 80}
MCRequests == [path : DOMAIN MCMeans, size : MCSizes]
MCKmainRead == [path |-> Chars(<<"/", "h", "i", ".", "t">>), size |-> 20]

\* The file of Scattered takes three full lines, over two clusters; the one
\* of Paired is short.
Zeros(n) == [k \in 1 .. n |-> NUL]
Lines == Chars(<<"h", "i", "t", "h", "i">>) \o <<NL>> \o Chars(<<"t", "t", "h", "i", "t">>)
         \o <<NL>> \o Chars(<<"i", "h", "t", "i", "h">>)
MCContents ==
  3 :> SubSeq(Lines, 1, 16) @@ 8 :> SubSeq(Lines, 17, 17) \o Zeros(15) @@
  4 :> Chars(<<"t">>) \o <<NL>> \o Chars(<<"h", "i">>) \o Zeros(28) @@ 6 :> Zeros(32)

\* Glyphs of two by two pixels.
MCFont == 104 :> <<2, 3>> @@ 105 :> <<1, 1>> @@ 116 :> <<3, 1>>
MCShape == 104 :> {<<0, 0>>, <<0, 1>>, <<1, 1>>} @@ 105 :> {<<1, 0>>, <<1, 1>>} @@
           116 :> {<<0, 0>>, <<1, 0>>, <<1, 1>>}
MCHello == Chars(<<"h", "i">>)

\* A screen that holds all texts, with padding behind its rows; one on
\* which the longer file goes over the edges; and none.
MCDisplays == {[width |-> 12, height |-> 9, pitch |-> 56],
               [width |-> 6, height |-> 7, pitch |-> 24], NoScreen}

\* Borders of no pixel, two, the whole box, and more than the box.
Box(x, y, w, h, border) == [x |-> x, y |-> y, width |-> w, height |-> h, border |-> border]
MCBoxes == {Box(1, 1, 5, 6, 2), Box(0, 0, 6, 7, 1), Box(2, 3, 3, 3, 3), Box(1, 2, 2, 2, 0),
            Box(0, 0, 1, 4, 3)}
============================================================================
