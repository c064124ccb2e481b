------------------------------ MODULE MCSerial ------------------------------
(***************************************************************************)
(* Calls for Serial: the formats of the kernel with their literal text cut *)
(* short, and formats that meet the end of a small buffer.                 *)
(***************************************************************************)
EXTENDS Serial

MCCharacter ==
  {"0", "1", "2", "3", "4", "5", "6", "7", "8", "9", "a", "b", "c", "d", "e", "f", "g", "h",
   "i", "k", "n", "p", "q", "s", "x", "y", "z", "H", "S", "(", ",", ")", "!", "-", "%"}

Printf(fmt, args) == [fmt |-> fmt, args |-> args, to |-> "port"]
Sprintf(fmt, args) == [fmt |-> fmt, args |-> args, to |-> "memory"]

\* print_char, a call of ksprintf, and texts up to and beyond the end of a
\* buffer of eleven bytes.
MCBoot ==
  {Printf(<<"%", "c">>, <<"H">>),
   Sprintf(<<"n", "%", "d">>, <<-70>>),
   Printf(<<"%", "q", "%", "d", "%", "%">>, <<0>>),
   Printf(<<"%", "s", "!">>, <<[n \in 1 .. 30 |-> "z"]>>),
   Printf(<<"a", "b", "c", "d", "e", "f", "g", "h", "i", "%", "d", "!">>, <<-123456789>>),
   Printf(<<"a", "b", "%", "x", "%", "c">>, <<255, "k">>)}
\* "System call invoked!\n"
MCSyscall == <<Printf(<<"S", "y", "s">>, <<>>)>>
\* "Mouse packet: b0=0x%x ...", then "Mouse moved to: (%d, %d)\n"; a byte
\* that does not complete a packet prints nothing.
MCMouse ==
  {<<>>, <<Printf(<<"p", "%", "x">>, <<200>>),
           Printf(<<"(", "%", "d", ",", "%", "d", ")">>, <<405, -10>>)>>}
============================================================================
