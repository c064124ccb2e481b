--------------------------- MODULE KeyboardProofs ---------------------------
(***************************************************************************)
(* Theorems about Keyboard, for all keys, any number of codes and buffers  *)
(* of every size: types, the line stays within its buffer and is what the  *)
(* screen shows, and the shift state follows the shift keys.               *)
(***************************************************************************)
EXTENDS Keyboard, SequenceTheorems, TLAPS

Codes == 0 .. 255

\* The keys and what they have sent.
Sending ==
  /\ down \subseteq Keys /\ held \in {0} \union down
  /\ codes \in Seq(Codes) /\ sent \in 0 .. MaxCodes

Flags == shift_active \in BOOLEAN /\ caps_lock \in BOOLEAN

\* The line: what is in the buffer under the index, and nothing beyond the
\* buffer.
Reading ==
  /\ pc \in {"idle", "reading", "done"} /\ max_size \in Nat \ {0} /\ i \in 0 .. max_size - 1
  /\ buffer \in [DOMAIN buffer -> -1 .. 127] /\ screen \in [DOMAIN screen -> -1 .. 127]
  /\ pc = "idle" => i = 0
  /\ pc # "idle" => DOMAIN buffer = 0 .. max_size /\ DOMAIN screen = 0 .. max_size
  /\ \A n \in DOMAIN buffer : buffer[n] # Undef => n < max_size
  /\ \A n \in 0 .. i - 1 : buffer[n] >= SPACE /\ screen[n] = buffer[n]
  /\ pc = "done" => buffer[i] = NUL
----------------------------------------------------------------------------
(***************************************************************************)
(* The tables.                                                             *)
(***************************************************************************)
\* Every entry of the two tables is an ASCII code.
LEMMA Tables ==
  /\ Len(NormalTable) = 58 /\ \A k \in 1 .. 58 : NormalTable[k] \in 0 .. 127
  /\ Len(ShiftTable) = 58 /\ \A k \in 1 .. 58 : ShiftTable[k] \in 0 .. 127
<1>1. Len(NormalTable) = 58 /\ NormalTable \in Seq(0 .. 127)
  BY DEF NormalTable
<1>2. Len(ShiftTable) = 58 /\ ShiftTable \in Seq(0 .. 127)
  BY DEF ShiftTable
<1>3. ASSUME NEW t \in Seq(0 .. 127), NEW k \in 1 .. Len(t)
      PROVE  t[k] \in 0 .. 127
  BY ElementOfSeq
<1> QED BY <1>1, <1>2, <1>3

\* The key tables hold ASCII codes, also behind their ends.
LEMMA DecodedAscii == \A code \in 0 .. 127 : Decoded(code) \in 0 .. 127
BY Tables DEF Decoded, scancode_normal, scancode_shift, At

----------------------------------------------------------------------------
(***************************************************************************)
(* The line.                                                               *)
(***************************************************************************)

\* What get_key takes, and what it leaves.
LEMMA HeadAndTail ==
  ASSUME codes \in Seq(Codes), codes # <<>>
  PROVE  /\ Head(codes) \in Codes /\ Tail(codes) \in Seq(Codes)
         /\ Len(codes) \in Nat \ {0} /\ Len(Tail(codes)) = Len(codes) - 1
         /\ \A k \in 1 .. Len(Tail(codes)) : Tail(codes)[k] = codes[k + 1]
         /\ Head(codes) = codes[1]
<1>1. Len(codes) \in Nat \ {0}
  BY EmptySeq
<1>2. Head(codes) = codes[1]
  BY <1>1
<1> QED BY <1>1, <1>2, HeadTailProperties

\* A character of the line: the end key, a correction, one that fits, or one
\* that does not.
LEMMA CharacterReads ==
  ASSUME Sending, Reading, NEW code \in Codes, pc = "reading", Character(code)
  PROVE  Reading'
<1> DEFINE c == Decoded(code)
<1>1. c \in 0 .. 127
  <2>1. code \in 0 .. 127
    BY DEF Character, IsCharacter, Codes
  <2> QED BY <2>1, DecodedAscii
<1>2. /\ max_size \in Nat \ {0} /\ i \in 0 .. max_size - 1
      /\ buffer \in [0 .. max_size -> -1 .. 127] /\ screen \in [0 .. max_size -> -1 .. 127]
      /\ \A n \in 0 .. max_size : buffer[n] # Undef => n < max_size
      /\ \A n \in 0 .. i - 1 : buffer[n] >= SPACE /\ screen[n] = buffer[n]
  BY DEF Reading
<1>3. DOMAIN buffer = 0 .. max_size /\ DOMAIN screen = 0 .. max_size
  BY DEF Reading
<1>4. CASE Finish(c)
  <2>1. buffer' = [buffer EXCEPT ![i] = NUL] /\ screen' = [screen EXCEPT ![i] = 10]
        /\ pc' = "done" /\ max_size' = max_size /\ i' = i
    BY <1>4 DEF Finish
  <2>2. i \in 0 .. max_size /\ \A n \in 0 .. i - 1 : n # i /\ n \in 0 .. max_size
    BY <1>2
  <2> HIDE DEF c
  <2>3. /\ buffer' \in [0 .. max_size -> -1 .. 127] /\ screen' \in [0 .. max_size -> -1 .. 127]
        /\ buffer'[i] = NUL
        /\ \A n \in 0 .. i - 1 : buffer'[n] = buffer[n] /\ screen'[n] = screen[n]
        /\ \A n \in 0 .. max_size : n # i => buffer'[n] = buffer[n]
    BY <1>2, <2>1, <2>2 DEF NUL
  <2>4. \A n \in 0 .. max_size : buffer'[n] # Undef => n < max_size
    BY <1>2, <2>3
  <2>5. \A n \in 0 .. i - 1 : buffer'[n] >= SPACE /\ screen'[n] = buffer'[n]
    BY <1>2, <2>3
  <2>6. DOMAIN buffer' = 0 .. max_size /\ DOMAIN screen' = 0 .. max_size
    BY <2>3
  <2> QED BY <1>2, <2>1, <2>3, <2>4, <2>5, <2>6 DEF Reading
<1>5. CASE Erase(c)
  <2> HIDE DEF c
  <2>1. UNCHANGED <<pc, max_size, buffer>>
    BY <1>5 DEF Erase
  <2>2. CASE i > 0
    <3>1. i' = i - 1 /\ screen' = [screen EXCEPT ![i - 1] = BS]
      BY <1>5, <2>2 DEF Erase, CanErase
    <3>2. /\ screen' \in [0 .. max_size -> -1 .. 127]
          /\ \A n \in 0 .. max_size : n # i - 1 => screen'[n] = screen[n]
      BY <1>2, <3>1, <2>2 DEF BS
    <3>3. \A n \in 0 .. i' - 1 : buffer[n] >= SPACE /\ screen'[n] = buffer[n]
      BY <1>2, <2>2, <3>1, <3>2
    <3>4. i' \in 0 .. max_size - 1 /\ DOMAIN screen' = 0 .. max_size
      BY <1>2, <2>2, <3>1, <3>2
    <3> QED BY <1>2, <1>3, <2>1, <3>2, <3>3, <3>4 DEF Reading
  <2>3. CASE ~(i > 0)
    BY <1>5, <2>1, <2>3 DEF Erase, CanErase, Reading
  <2> QED BY <2>2, <2>3
<1>6. CASE Store(c)
  <2>1. /\ c >= SPACE /\ i < max_size - 1 /\ i' = i + 1 /\ UNCHANGED <<pc, max_size>>
        /\ buffer' = [buffer EXCEPT ![i] = c] /\ screen' = [screen EXCEPT ![i] = c]
    BY <1>6 DEF Store, Fits
  <2> HIDE DEF c
  <2>2. /\ buffer' \in [0 .. max_size -> -1 .. 127] /\ screen' \in [0 .. max_size -> -1 .. 127]
        /\ buffer'[i] = c /\ screen'[i] = c
        /\ \A n \in 0 .. max_size : n # i => buffer'[n] = buffer[n] /\ screen'[n] = screen[n]
    BY <1>1, <1>2, <2>1
  <2>3. \A n \in 0 .. max_size : buffer'[n] # Undef => n < max_size
    BY <1>2, <2>1, <2>2
  <2>4. \A n \in 0 .. i' - 1 : buffer'[n] >= SPACE /\ screen'[n] = buffer'[n]
    BY <1>2, <2>1, <2>2
  <2>5. i' \in 0 .. max_size - 1
    BY <1>2, <2>1
  <2>6. DOMAIN buffer' = 0 .. max_size /\ DOMAIN screen' = 0 .. max_size
    BY <2>2
  <2> QED BY <1>2, <2>1, <2>2, <2>3, <2>4, <2>5, <2>6 DEF Reading
<1>7. CASE Skip(c)
  BY <1>7 DEF Skip, Reading, line
<1> QED BY <1>4, <1>5, <1>6, <1>7 DEF Character

\* The invariant of keys and line.
LEMMA Steps ==
  ASSUME Sending, Reading, [Next]_vars
  PROVE  Sending' /\ Reading'
<1>1. CASE GetKey
  <2>1. /\ pc = "reading" /\ codes # <<>> /\ codes' = Tail(codes) /\ UNCHANGED <<down, held, sent>>
    BY <1>1 DEF GetKey
  <2>2. Head(codes) \in Codes /\ Tail(codes) \in Seq(Codes)
    BY <2>1, HeadAndTail DEF Sending
  <2>3. Sending'
    BY <2>1, <2>2 DEF Sending
  <2>4. PICK code \in Codes :
          ShiftKey(code) \/ CapsKey(code) \/ Ignored(code) \/ Character(code)
    BY <1>1, <2>2 DEF GetKey
  <2>5. CASE ShiftKey(code) \/ CapsKey(code) \/ Ignored(code)
    <3>1. UNCHANGED line
      BY <2>1, <2>5 DEF ShiftKey, CapsKey, Ignored
    <3> QED
      BY <2>3, <3>1 DEF Reading, line
  <2>6. CASE Character(code)
    BY <2>1, <2>3, <2>6, CharacterReads
  <2> QED BY <2>4, <2>5, <2>6
<1>2. ASSUME NEW code \in Codes, Send(code) PROVE codes' \in Seq(Codes) /\ sent' \in 0 .. MaxCodes
  BY <1>2, CodesAssumption, AppendProperties DEF Send, Sending
<1>3. CASE Repeat
  <2>1. held \in Codes
    BY <1>3, KeysAssumption DEF Repeat, Sending, Codes
  <2> QED BY <1>2, <1>3, <2>1 DEF Repeat, Sending, Reading, line
<1>4. CASE \E k \in Keys : Press(k) \/ Release(k)
  <2>1. PICK k \in Keys : Press(k) \/ Release(k)
    BY <1>4
  <2>2. k \in Codes /\ k + 128 \in Codes
    BY KeysAssumption DEF Codes
  <2>3. Sending'
    BY <1>2, <2>1, <2>2 DEF Press, Release, Sending
  <2> QED BY <2>1, <2>3 DEF Press, Release, Reading, line
<1>5. CASE \E s \in Sizes : ScanString(s)
  <2>1. PICK s \in Sizes : ScanString(s)
    BY <1>5
  <2>2. s \in Nat \ {0}
    BY SizesAssumption
  <2>3. Reading'
    BY <2>1, <2>2 DEF ScanString, Reading, Undef
  <2> QED BY <2>1, <2>3 DEF ScanString, Sending, keyboard
<1>6. CASE UNCHANGED vars
  BY <1>6 DEF vars, keyboard, line, Sending, Reading
<1> QED BY <1>1, <1>3, <1>4, <1>5, <1>6 DEF Next

\* The invariant holds before the first call.
LEMMA Start == Init => Sending /\ Reading
<1> SUFFICES ASSUME Init PROVE Sending /\ Reading
  OBVIOUS
<1>1. <<>> \in Seq(Codes)
  BY EmptySeq
<1>2. Sending
  BY <1>1, CodesAssumption DEF Init, Sending
<1>3. Reading
  BY DEF Init, Reading
<1> QED BY <1>2, <1>3

\* The invariant the theorems about the line rest on.
THEOREM Inductive == Spec => [](Sending /\ Reading)
<1>1. Sending /\ Reading /\ [Next]_vars => (Sending /\ Reading)'
  BY Steps
<1> QED BY Start, <1>1, PTL DEF Spec

\* The two flags of get_key stay truth values.
LEMMA FlagsKept == Spec => []Flags
<1>1. Init => Flags
  BY DEF Init, Flags
<1>2. Flags /\ [Next]_vars => Flags'
  <2> SUFFICES ASSUME Flags, [Next]_vars PROVE Flags'
    OBVIOUS
  <2>1. CASE GetKey
    <3>1. PICK code : ShiftKey(code) \/ CapsKey(code) \/ Ignored(code) \/ Character(code)
      BY <2>1 DEF GetKey
    <3>2. CASE ShiftKey(code)
      BY <3>2 DEF ShiftKey, Flags
    <3>3. CASE CapsKey(code)
      BY <3>3 DEF CapsKey, Flags
    <3>4. CASE Ignored(code) \/ Character(code)
      BY <3>4 DEF Ignored, Character, Flags
    <3> QED BY <3>1, <3>2, <3>3, <3>4
  <2>2. CASE UNCHANGED <<shift_active, caps_lock>>
    BY <2>2 DEF Flags
  <2> QED BY <2>1, <2>2 DEF Next, Repeat, ScanString, Press, Release, vars
<1> QED BY <1>1, <1>2, PTL DEF Spec

\* The variables of keyboard.c keep their types, and every character of the
\* line is an ASCII code, for every buffer size and number of codes.
THEOREM TypeCorrect == Spec => []TypeOK
<1>1. Sending /\ Reading /\ Flags => TypeOK
  <2> SUFFICES ASSUME Sending, Reading, Flags PROVE TypeOK
    OBVIOUS
  <2>1. max_size \in Nat /\ i \in 0 .. max_size
    BY DEF Reading
  <2>2. /\ \A n \in DOMAIN buffer : buffer[n] \in -1 .. 127
        /\ \A n \in DOMAIN screen : screen[n] \in -1 .. 127
    BY DEF Reading
  <2>3. pc \in {"idle", "reading", "done"}
    BY DEF Reading
  <2> QED BY <2>1, <2>2, <2>3 DEF Sending, Flags, TypeOK, Codes
<1> QED BY <1>1, Inductive, FlagsKept, PTL

\* scan_string never writes outside the max_size bytes of its buffer and
\* leaves a terminated line of printable characters there.
THEOREM LineStaysInside == Spec => []LineFits
<1>1. Reading => LineFits
  BY DEF Reading, LineFits
<1> QED BY <1>1, Inductive, PTL

\* What the screen shows of the line is the line, whatever was corrected.
THEOREM LineShown == Spec => []LineIsShown
<1>1. Reading => LineIsShown
  BY DEF Reading, LineIsShown
<1> QED BY <1>1, Inductive, PTL

----------------------------------------------------------------------------
(***************************************************************************)
(* The shift state.                                                        *)
(***************************************************************************)
IsShift(code) == code \in SHIFTS \union SHIFT_BREAKS

\* Once the codes that wait have been read, shift will be on, or off.
Will(on) ==
  \/ (\A k \in 1 .. Len(codes) : ~IsShift(codes[k])) /\ shift_active = on
  \/ \E k \in 1 .. Len(codes) :
       /\ IsShift(codes[k]) /\ (codes[k] < 128) = on
       /\ \A m \in k + 1 .. Len(codes) : ~IsShift(codes[m])

Shifts == SHIFTS \intersect Keys
WillFollow ==
  /\ down \intersect SHIFTS = {} => Will(FALSE)
  /\ Shifts # {} /\ Shifts \subseteq down => Will(TRUE)

\* A code is read: what the rest of the codes will make of shift is the same.
LEMMA WillRead ==
  ASSUME Sending, GetKey, NEW on \in BOOLEAN, Will(on)
  PROVE  Will(on)'
<1>1. /\ codes \in Seq(Codes) /\ codes # <<>> /\ codes' = Tail(codes)
      /\ ShiftKey(Head(codes)) \/ CapsKey(Head(codes)) \/ Ignored(Head(codes))
           \/ Character(Head(codes))
  BY DEF GetKey, Sending
<1>2. /\ Len(codes) \in Nat \ {0} /\ Len(codes') = Len(codes) - 1
      /\ \A k \in 1 .. Len(codes') : codes'[k] = codes[k + 1]
      /\ Head(codes) = codes[1]
  BY <1>1, HeadAndTail
<1>3. IsShift(codes[1]) => shift_active' = (codes[1] < 128)
  BY <1>1, <1>2 DEF ShiftKey, CapsKey, Ignored, Character, IsCharacter, IsShift, CAPS, SHIFTS,
                    SHIFT_BREAKS
<1>4. ~IsShift(codes[1]) => shift_active' = shift_active
  BY <1>1, <1>2 DEF ShiftKey, CapsKey, Ignored, Character, IsShift
<1>5. CASE \A k \in 1 .. Len(codes) : ~IsShift(codes[k])
  <2>1. shift_active = on
    BY <1>5 DEF Will
  <2>2. \A k \in 1 .. Len(codes') : ~IsShift(codes'[k])
    BY <1>2, <1>5
  <2>3. 1 \in 1 .. Len(codes)
    BY <1>2
  <2> QED BY <2>1, <2>2, <2>3, <1>4, <1>5 DEF Will
<1>6. CASE \E k \in 1 .. Len(codes) : IsShift(codes[k])
  <2>1. PICK k \in 1 .. Len(codes) :
          /\ IsShift(codes[k]) /\ (codes[k] < 128) = on
          /\ \A m \in k + 1 .. Len(codes) : ~IsShift(codes[m])
    BY <1>6 DEF Will
  <2>2. CASE k = 1
    <3>1. \A j \in 1 .. Len(codes') : ~IsShift(codes'[j])
      BY <1>2, <2>1, <2>2
    <3> QED BY <3>1, <2>1, <2>2, <1>3 DEF Will
  <2>3. CASE k # 1
    <3>1. k - 1 \in 1 .. Len(codes') /\ codes'[k - 1] = codes[k]
      BY <1>2, <2>3
    <3>2. \A m \in k .. Len(codes') : ~IsShift(codes'[m])
      <4> TAKE m \in k .. Len(codes')
      <4>1. m \in 1 .. Len(codes') /\ m + 1 \in k + 1 .. Len(codes)
        BY <1>2
      <4> QED BY <4>1, <1>2, <2>1
    <3>3. (k - 1) + 1 = k
      BY <1>2
    <3> QED BY <3>1, <3>2, <3>3, <2>1 DEF Will
  <2> QED BY <2>2, <2>3
<1> QED BY <1>5, <1>6

\* A code is sent: a shift code decides, another one changes nothing.
LEMMA WillSend ==
  ASSUME Sending, NEW code \in Codes, Send(code), UNCHANGED shift_active, NEW on \in BOOLEAN
  PROVE  /\ IsShift(code) /\ (code < 128) = on => Will(on)'
         /\ ~IsShift(code) /\ Will(on) => Will(on)'
<1>1. /\ Len(codes) \in Nat /\ Len(codes') = Len(codes) + 1 /\ codes'[Len(codes) + 1] = code
      /\ \A k \in 1 .. Len(codes) : codes'[k] = codes[k]
  BY AppendProperties, LenProperties DEF Send, Sending
<1>2. ASSUME IsShift(code), (code < 128) = on PROVE Will(on)'
  <2>1. Len(codes) + 1 \in 1 .. Len(codes') /\ Len(codes) + 2 .. Len(codes') = {}
    BY <1>1
  <2>2. \A m \in (Len(codes) + 1) + 1 .. Len(codes') : ~IsShift(codes'[m])
    BY <1>1
  <2> QED BY <1>1, <1>2, <2>1, <2>2 DEF Will
<1>3. ASSUME ~IsShift(code), Will(on) PROVE Will(on)'
  <2>1. CASE (\A k \in 1 .. Len(codes) : ~IsShift(codes[k])) /\ shift_active = on
    <3>1. \A k \in 1 .. Len(codes') : k \in 1 .. Len(codes) \/ k = Len(codes) + 1
      BY <1>1
    <3> QED BY <1>1, <1>3, <2>1, <3>1 DEF Will
  <2>2. CASE \E k \in 1 .. Len(codes) :
               /\ IsShift(codes[k]) /\ (codes[k] < 128) = on
               /\ \A m \in k + 1 .. Len(codes) : ~IsShift(codes[m])
    <3>1. PICK k \in 1 .. Len(codes) :
            /\ IsShift(codes[k]) /\ (codes[k] < 128) = on
            /\ \A m \in k + 1 .. Len(codes) : ~IsShift(codes[m])
      BY <2>2
    <3>2. k \in 1 .. Len(codes') /\ codes'[k] = codes[k]
      BY <1>1
    <3>3. \A m \in k + 1 .. Len(codes') :
            (m \in k + 1 .. Len(codes) /\ codes'[m] = codes[m]) \/ m = Len(codes) + 1
      BY <1>1
    <3>4. \A m \in k + 1 .. Len(codes') : ~IsShift(codes'[m])
      BY <1>1, <1>3, <3>1, <3>3
    <3> QED BY <3>1, <3>2, <3>4 DEF Will
  <2> QED BY <1>3, <2>1, <2>2 DEF Will
<1> QED BY <1>2, <1>3

\* Every code sent or read keeps what the waiting codes will make of shift.
LEMMA WillFollowStep ==
  ASSUME Sending, Flags, WillFollow, [Next]_vars
  PROVE  WillFollow'
<1>1. CASE GetKey
  <2>1. down' = down
    BY <1>1 DEF GetKey
  <2> QED BY <1>1, <2>1, WillRead DEF WillFollow
<1>2. CASE UNCHANGED <<down, codes, shift_active>>
  BY <1>2 DEF WillFollow, Will
<1>3. \A k \in Keys : k \in 1 .. 88 /\ k \in Codes /\ k + 128 \in Codes
  BY KeysAssumption DEF Codes
<1>4. \A k \in Keys :
        /\ IsShift(k) <=> k \in SHIFTS
        /\ IsShift(k + 128) <=> k \in SHIFTS
        /\ (k < 128) = TRUE
        /\ (k + 128 < 128) = FALSE
  BY <1>3 DEF IsShift, SHIFTS, SHIFT_BREAKS
<1>5. CASE \E k \in Keys : Press(k)
  <2>1. PICK k \in Keys : Press(k)
    BY <1>5
  <2>2. Send(k) /\ down' = down \union {k} /\ shift_active' = shift_active
    BY <2>1 DEF Press
  <2>3. CASE k \in SHIFTS
    <3>1. Will(TRUE)'
      BY <1>3, <1>4, <2>2, <2>3, WillSend
    <3> QED BY <3>1, <2>2, <2>3 DEF WillFollow
  <2>4. CASE k \notin SHIFTS
    <3>1. \A on \in BOOLEAN : Will(on) => Will(on)'
      BY <1>3, <1>4, <2>2, <2>4, WillSend
    <3> QED BY <3>1, <2>2, <2>4 DEF WillFollow, Shifts
  <2> QED BY <2>3, <2>4
<1>6. CASE \E k \in Keys : Release(k)
  <2>1. PICK k \in Keys : Release(k)
    BY <1>6
  <2>2. k \in down /\ Send(k + 128) /\ down' = down \ {k} /\ shift_active' = shift_active
    BY <2>1 DEF Release
  <2>3. CASE k \in SHIFTS
    <3>1. Will(FALSE)'
      BY <1>3, <1>4, <2>2, <2>3, WillSend
    <3> QED BY <3>1, <2>2, <2>3 DEF WillFollow, Shifts
  <2>4. CASE k \notin SHIFTS
    <3>1. \A on \in BOOLEAN : Will(on) => Will(on)'
      BY <1>3, <1>4, <2>2, <2>4, WillSend
    <3> QED BY <3>1, <2>2, <2>4 DEF WillFollow, Shifts
  <2> QED BY <2>3, <2>4
<1>7. CASE Repeat
  <2>1. held \in down /\ held \in Keys /\ Send(held) /\ down' = down
        /\ shift_active' = shift_active
    BY <1>7 DEF Repeat, Sending
  <2>2. CASE held \in SHIFTS
    <3>1. Will(TRUE)'
      BY <1>3, <1>4, <2>1, <2>2, WillSend
    <3> QED BY <3>1, <2>1, <2>2 DEF WillFollow
  <2>3. CASE held \notin SHIFTS
    <3>1. \A on \in BOOLEAN : Will(on) => Will(on)'
      BY <1>3, <1>4, <2>1, <2>3, WillSend
    <3> QED BY <3>1, <2>1 DEF WillFollow, Shifts
  <2> QED BY <2>2, <2>3
<1> QED
  BY <1>1, <1>2, <1>5, <1>6, <1>7 DEF Next, ScanString, keyboard, vars

\* However shift keys are pressed, repeated and released between other keys,
\* and however late their codes are read: with none held shift will be off,
\* with all of them on.
THEOREM ShiftKeysFollowed == Spec => []ShiftFollows
<1>1. Init => WillFollow
  <2> SUFFICES ASSUME Init PROVE WillFollow
    OBVIOUS
  <2>1. down = {} /\ shift_active = FALSE /\ codes = <<>> /\ Len(codes) = 0
    BY EmptySeq DEF Init
  <2> QED BY <2>1 DEF WillFollow, Will, Shifts
<1>2. (Sending /\ Reading) /\ Flags /\ WillFollow /\ [Next]_vars => WillFollow'
  BY WillFollowStep
<1>3. WillFollow => ShiftFollows
  <2> SUFFICES ASSUME WillFollow, codes = <<>>
               PROVE  /\ down \intersect SHIFTS = {} => ~shift_active
                      /\ SHIFTS \intersect Keys # {} /\ SHIFTS \intersect Keys \subseteq down
                           => shift_active
    BY DEF ShiftFollows
  <2>1. Len(codes) = 0
    BY EmptySeq
  <2>2. \A on \in BOOLEAN : Will(on) => shift_active = on
    BY <2>1 DEF Will
  <2> QED BY <2>2 DEF WillFollow, Shifts
<1> QED BY <1>1, <1>2, <1>3, Inductive, FlagsKept, PTL DEF Spec
=============================================================================
