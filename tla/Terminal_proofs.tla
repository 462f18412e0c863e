--------------------------- MODULE Terminal_proofs ---------------------------
(***************************************************************************)
(* Proofs about Terminal.tla: the index of the line buffer stays in the    *)
(* array and its padding byte, and a read delivers the line typed on its   *)
(* own terminal.  Both are about the ordinary use of the terminals; the    *)
(* invariant of the first does without the program's half of it.           *)
(***************************************************************************)
EXTENDS Terminal, FiniteSetTheorems, TLAPS

-----------------------------------------------------------------------------
(***************************************************************************)
(* The inductive invariants.                                               *)
(***************************************************************************)

\* Only after Enter does the index pass the last character key_press stores.
Room ==
  /\ keyBufferIndex \in 0 .. KeyLimit + 1
  /\ keyBufferIndex = KeyLimit + 1 => entered[curr_terminal]

\* Buffer b with index n holds the line ty, without or with its Enter.  The character that
\* Backspace took away last stays behind the line until Enter or a key overwrites it.
Holds(b, n, ty, done) ==
  /\ n = IF done THEN Len(ty) + 1 ELSE Len(ty)
  /\ Len(ty) \in 0 .. KeyLimit /\ Len(ty) <= WRAP
  /\ \A i \in 0 .. Len(ty) - 1 : b[i] = ty[i + 1]
  /\ b[Len(ty)] \in IF done THEN {"newLine"} ELSE Keys \cup {"nul"}
  /\ \A i \in Len(ty) + 1 .. maxInputLength - 1 : b[i] = "nul"

\* A terminal that is not visible has no line; the buffer saved for it holds at most a
\* character that was taken away.
Idle(t) ==
  /\ typed[t] = <<>> /\ ~ entered[t]
  /\ keyBuf[t][0] \in Keys \cup {"nul"}
  /\ \A i \in 1 .. maxInputLength - 1 : keyBuf[t][i] = "nul"

\* What the process of terminal t knows of the Enter, or takes for one.
Reader(t) ==
  /\ entered[t] => Reading(t)
  /\ proc[t] # "run" /\ enterFlag[t] => entered[t] \/ filled[t]
  /\ proc[t] \in {"char", "seen"} /\ t = curr_terminal => entered[t] \/ filled[t]
  /\ proc[t] = "copy" => t = curr_terminal /\ (entered[t] \/ filled[t])

LineInv ==
  /\ Holds(keyBuffer, keyBufferIndex, typed[curr_terminal], entered[curr_terminal])
  /\ \A t \in Terms \ {curr_terminal} : Idle(t)
  /\ \A t \in Terms : Reader(t)
-----------------------------------------------------------------------------
(***************************************************************************)
(* The index and the types.                                                *)
(***************************************************************************)

\* The user waits after Enter, turns to another terminal between lines only, and types no
\* line longer than WRAP.
Patient == {"ahead", "switch", "long"} \cap Env = {}

\* The limits in numbers.
LEMMA Limits ==
  /\ keyBufferSize \in Nat /\ KeyLimit \in Nat \ {0}
  /\ maxInputLength = KeyLimit + 1 /\ keyBufferSize = KeyLimit + 2
  /\ 0 \in Line /\ 0 \in 0 .. maxInputLength /\ KeyLimit \in Line
  /\ Line \subseteq 0 .. maxInputLength
BY TerminalAssumption DEF KeyLimit, maxInputLength, Line

\* A patient user's key does not follow an Enter.
LEMMA NoEnterYet ==
  ASSUME TypeOK, Room, Patient, MayType
  PROVE  ~ entered[curr_terminal] /\ keyBufferIndex \in 0 .. KeyLimit
<1>1. ~ entered[curr_terminal]
  BY DEF Patient, MayType
<1> QED
  BY <1>1, Limits DEF Room

\* The initial state has the types, and room.
LEMMA TypesInit == Init => TypeOK /\ Room
<1> SUFFICES ASSUME Init PROVE TypeOK /\ Room
  OBVIOUS
<1>1. 0 \in Terms
  BY TerminalAssumption DEF Terms
<1>2. TypeOK
  BY <1>1, Limits DEF Init, TypeOK, Bytes, Steps
<1>3. Room
  BY Limits DEF Init, Room
<1> QED
  BY <1>2, <1>3

\* Every step of a patient user, and of any program, keeps the types and the room.
LEMMA TypesStep ==
  ASSUME TypeOK, Room, Patient, [Next]_vars
  PROVE  TypeOK' /\ Room'
<1> USE Limits
<1> USE DEF screenVars
<1>1. CASE key_press
  <2>1. PICK k \in Keys :
          LET wraps == keyBufferIndex # 0 /\ keyBufferIndex % WRAP = 0
              at    == IF wraps THEN keyBufferIndex + 1 ELSE keyBufferIndex
              broken == IF wraps THEN [keyBuffer EXCEPT ![keyBufferIndex] = "newLine"]
                        ELSE keyBuffer
          IN  /\ MayType
              /\ "long" \in Env \/ ~ wraps
              /\ IF keyBufferIndex < KeyLimit
                   THEN /\ keyBufferIndex' = at + 1
                        /\ keyBuffer' = Padded([broken EXCEPT ![at] = k], at + 1)
                        /\ typed' = [typed EXCEPT ![curr_terminal] = Append(@, k)]
                   ELSE /\ keyBuffer' = Padded(keyBuffer, keyBufferIndex)
                        /\ UNCHANGED <<keyBufferIndex, typed>>
              /\ UNCHANGED <<enterFlag, entered, filled, proc, curr_process, screenVars>>
    BY <1>1, Zenon DEF key_press
  <2>2. "long" \notin Env
    BY DEF Patient
  <2>3. keyBufferIndex \in 0 .. KeyLimit /\ ~ entered[curr_terminal]
    BY <2>1, NoEnterYet
  <2>4. k \in Bytes /\ "newLine" \in Bytes
    BY DEF Bytes
  <2>5. CASE keyBufferIndex < KeyLimit
    <3>1. /\ keyBufferIndex' = keyBufferIndex + 1
          /\ keyBuffer' = Padded([keyBuffer EXCEPT ![keyBufferIndex] = k], keyBufferIndex + 1)
          /\ typed' = [typed EXCEPT ![curr_terminal] = Append(@, k)]
      BY <2>1, <2>2, <2>5
    <3>2. keyBuffer' = [keyBuffer EXCEPT ![keyBufferIndex] = k]
      BY <2>3, <2>5, <3>1 DEF Padded
    <3>3. typed' \in [Terms -> Seq(Keys)]
      BY <3>1 DEF TypeOK
    <3>4. keyBuffer' \in [0 .. maxInputLength -> Bytes] /\ keyBufferIndex' \in 0 .. KeyLimit
      <4>1. keyBuffer' \in [0 .. maxInputLength -> Bytes]
        BY <2>4, <3>2 DEF TypeOK
      <4>2. keyBufferIndex' \in 0 .. KeyLimit
        BY <2>3, <2>5, <3>1
      <4> QED
        BY <4>1, <4>2
    <3>5. UNCHANGED <<enterFlag, entered, filled, proc, curr_process, screenVars>>
      BY <2>1
    <3>6. TypeOK'
      BY <3>3, <3>4, <3>5 DEF TypeOK
    <3>7. Room'
      BY <3>4, <3>5 DEF Room
    <3> QED
      BY <3>6, <3>7
  <2>6. CASE ~ keyBufferIndex < KeyLimit
    BY <2>1, <2>3, <2>6 DEF TypeOK, Room, Padded
  <2> QED
    BY <2>5, <2>6
<1>2. CASE ClearLine
  BY <1>2 DEF ClearLine, TypeOK, Room, Bytes
<1>3. CASE Backspace
  <2>1. keyBufferIndex \in 0 .. KeyLimit
    BY <1>3, NoEnterYet DEF Backspace
  <2> DEFINE broken == keyBuffer[keyBufferIndex] = "newLine"
             at == IF broken THEN keyBufferIndex - 1 ELSE keyBufferIndex
             buf == IF broken THEN [keyBuffer EXCEPT ![keyBufferIndex] = "nul"] ELSE keyBuffer
  <2>2. /\ at > 0 /\ keyBufferIndex' = at - 1
        /\ keyBuffer' = Unprinted([buf EXCEPT ![at] = "nul"], at - 1)
        /\ typed' = [typed EXCEPT ![curr_terminal] = IF @ = <<>> THEN @ ELSE Front(@)]
        /\ UNCHANGED <<enterFlag, entered, filled, proc, curr_process, screenVars>>
    BY <1>3 DEF Backspace
  <2>3. at \in 1 .. KeyLimit /\ buf \in [0 .. maxInputLength -> Bytes]
    BY <2>1, <2>2 DEF TypeOK, Bytes
  <2> HIDE DEF broken, at, buf
  <2>4. keyBuffer' \in [0 .. maxInputLength -> Bytes] /\ keyBufferIndex' \in 0 .. KeyLimit
    BY <2>2, <2>3 DEF Unprinted, Bytes
  <2>5. typed' \in [Terms -> Seq(Keys)]
    <3>1. typed[curr_terminal] \in Seq(Keys)
      BY DEF TypeOK
    <3>2. typed[curr_terminal] # <<>> => Front(typed[curr_terminal]) \in Seq(Keys)
      BY <3>1 DEF Front
    <3> QED
      BY <2>2, <3>1, <3>2 DEF TypeOK
  <2>6. TypeOK'
    <3>1. UNCHANGED <<enterFlag, entered, filled, proc, curr_process, screenVars>>
      BY <2>2
    <3> QED
      BY <2>4, <2>5, <3>1 DEF TypeOK
  <2>7. Room'
    BY <2>2, <2>4 DEF Room
  <2> QED
    BY <2>6, <2>7
<1>4. CASE Enter
  <2>1. keyBufferIndex \in 0 .. KeyLimit
    BY <1>4, NoEnterYet DEF Enter
  <2>2. keyBuffer' \in [0 .. maxInputLength -> Bytes]
    BY <1>4, <2>1 DEF Enter, Unprinted, Padded, TypeOK, Bytes
  <2>3. EnterTerminal \in Terms
    BY DEF TypeOK, EnterTerminal
  <2>4. enterFlag' \in [Terms -> BOOLEAN] /\ entered' \in [Terms -> BOOLEAN]
    BY <1>4, <2>3 DEF Enter, TypeOK
  <2>5. keyBufferIndex' = keyBufferIndex + 1 /\ UNCHANGED <<typed, filled, proc, curr_process, screenVars>>
    BY <1>4 DEF Enter
  <2>6. TypeOK'
    BY <2>1, <2>2, <2>4, <2>5 DEF TypeOK
  <2>7. entered'[curr_terminal]
    BY <1>4 DEF Enter, TypeOK
  <2>8. Room'
    BY <2>1, <2>5, <2>7 DEF Room
  <2> QED
    BY <2>6, <2>8
<1>5. CASE terminal_switch
  <2>1. keyBufferIndex = 0
    BY <1>5 DEF terminal_switch, Patient
  <2>2. PICK idx \in Terms \ {curr_terminal} :
          /\ keyBuf' = [keyBuf EXCEPT ![curr_terminal] = [i \in Line |-> keyBuffer[i]]]
          /\ keyBuffer' = [i \in 0 .. maxInputLength |->
                             IF i \in Line THEN keyBuf[idx][i] ELSE keyBuffer[i]]
          /\ visible' = [visible EXCEPT ![curr_terminal] = FALSE, ![idx] = TRUE]
          /\ curr_terminal' = idx
    BY <1>5 DEF terminal_switch
  <2>3. keyBuf[idx] \in [Line -> Bytes] /\ keyBuffer \in [0 .. maxInputLength -> Bytes]
    BY DEF TypeOK
  <2>4. keyBuffer' \in [0 .. maxInputLength -> Bytes]
    BY <2>2, <2>3
  <2>5. [i \in Line |-> keyBuffer[i]] \in [Line -> Bytes]
    BY <2>3
  <2>6. keyBuf' \in [Terms -> [Line -> Bytes]]
    BY <2>2, <2>5 DEF TypeOK
  <2>7. visible' = [t \in Terms |-> t = curr_terminal']
    BY <2>2 DEF TypeOK
  <2>8. UNCHANGED <<keyBufferIndex, enterFlag, entered, typed, filled, proc, curr_process>>
    BY <1>5 DEF terminal_switch
  <2>9. TypeOK'
    BY <2>2, <2>4, <2>6, <2>7, <2>8 DEF TypeOK
  <2>10. Room'
    BY <2>1, <2>8 DEF Room
  <2> QED
    BY <2>9, <2>10
<1>6. CASE Tick
  <2>1. (curr_process + 1) % NUM_TERM \in Terms
    BY TerminalAssumption DEF TypeOK, Terms
  <2> QED
    BY <1>6, <2>1 DEF Tick, TypeOK, Room
<1>7. CASE terminal_write
  <2>1. PICK row \in BOOLEAN :
          /\ enterFlag' = [enterFlag EXCEPT ![curr_process] = row /\ visible[curr_process]]
          /\ filled' = [filled EXCEPT ![curr_process] = row /\ visible[curr_process]]
    BY <1>7 DEF terminal_write
  <2>2. (row /\ visible[curr_process]) \in BOOLEAN
    BY DEF TypeOK
  <2>3. enterFlag' \in [Terms -> BOOLEAN] /\ filled' \in [Terms -> BOOLEAN]
    BY <2>1, <2>2 DEF TypeOK
  <2>4. proc' \in [Terms -> Steps]
    BY <1>7 DEF terminal_write, TypeOK, Steps
  <2>5. UNCHANGED <<keyBuffer, keyBufferIndex, entered, typed, curr_process, screenVars>>
    BY <1>7 DEF terminal_write
  <2> QED
    BY <2>3, <2>4, <2>5 DEF TypeOK, Room
<1>8. CASE ReadBegin
  BY <1>8 DEF ReadBegin, Step, TypeOK, Room, Steps
<1>9. CASE \E t \in Terms : terminal_read(t)
  <2>1. ReadSpin \/ ReadCopy
    BY <1>9 DEF terminal_read
  <2>2. CASE ReadSpin
    <3>1. proc' \in [Terms -> Steps]
      BY <2>2 DEF ReadSpin, Step, TypeOK, Steps
    <3> QED
      BY <2>2, <3>1 DEF ReadSpin, TypeOK, Room
  <2>3. CASE ReadCopy
    <3>1. keyBuffer' \in [0 .. maxInputLength -> Bytes]
      BY <2>3 DEF ReadCopy, TypeOK, Bytes
    <3> QED
      BY <2>3, <3>1 DEF ReadCopy, Step, TypeOK, Room, Steps
  <2> QED
    BY <2>1, <2>2, <2>3
<1>10. CASE UNCHANGED vars
  BY <1>10 DEF vars, TypeOK, Room
<1> QED
  BY <1>1, <1>2, <1>3, <1>4, <1>5, <1>6, <1>7, <1>8, <1>9, <1>10 DEF Next

\* As long as the user is patient, whatever the programs do, keyboard_inter_handler never
\* stores behind the padding byte of keyBuffer, and the visible flags are right.
THEOREM TypeCorrect ==
  ASSUME Patient
  PROVE  Spec => []TypeOK
<1>1. Init => TypeOK /\ Room
  BY TypesInit
<1>2. TypeOK /\ Room /\ [Next]_vars => TypeOK' /\ Room'
  BY TypesStep
<1> QED
  BY <1>1, <1>2, PTL DEF Spec

-----------------------------------------------------------------------------
(***************************************************************************)
(* What the keys do to a line.                                             *)
(***************************************************************************)

\* The index of a line that is not finished is not a column where it breaks, or the next
\* key would be refused: there is room for one more character.
LEMMA BelowWrap ==
  ASSUME NEW n \in Nat, n <= WRAP, ~ (n # 0 /\ n % WRAP = 0)
  PROVE  n < WRAP
<1>1. WRAP \in Nat /\ WRAP > 0
  BY TerminalAssumption
<1>2. WRAP % WRAP = 0
  BY <1>1
<1> QED
  BY <1>1, <1>2

\* key_press on a line that is not full appends its character.
LEMMA KeyHolds ==
  ASSUME NEW b \in [0 .. maxInputLength -> Bytes], NEW ty \in Seq(Keys), NEW k \in Keys,
         NEW n, Holds(b, n, ty, FALSE), n < KeyLimit, n < WRAP
  PROVE  Holds([b EXCEPT ![n] = k], n + 1, Append(ty, k), FALSE)
<1> USE Limits
<1> DEFINE c == [b EXCEPT ![n] = k]
           tz == Append(ty, k)
<1>1. n = Len(ty) /\ n \in Nat /\ WRAP \in Nat
  BY TerminalAssumption DEF Holds
<1>2. Len(tz) = n + 1 /\ tz[n + 1] = k /\ \A i \in 1 .. n : tz[i] = ty[i]
  BY <1>1
<1>3. c[n] = k /\ \A i \in 0 .. maxInputLength : i # n => c[i] = b[i]
  BY <1>1
<1> HIDE DEF c, tz
<1>4. \A i \in 0 .. Len(tz) - 1 : c[i] = tz[i + 1]
  BY <1>1, <1>2, <1>3 DEF Holds
<1>5. \A i \in n + 1 .. maxInputLength - 1 : c[i] = "nul"
  BY <1>1, <1>3 DEF Holds
<1>6. c[Len(tz)] \in Keys \cup {"nul"}
  BY <1>1, <1>2, <1>5
<1>7. Holds(c, n + 1, tz, FALSE)
  BY <1>1, <1>2, <1>4, <1>5, <1>6 DEF Holds
<1> QED
  BY <1>7 DEF c, tz

\* Backspace takes the last character away.
LEMMA BackHolds ==
  ASSUME NEW b \in [0 .. maxInputLength -> Bytes], NEW ty \in Seq(Keys),
         NEW n, Holds(b, n, ty, FALSE), n > 0
  PROVE  Holds([b EXCEPT ![n] = "nul"], n - 1, Front(ty), FALSE)
<1> USE Limits
<1> DEFINE c == [b EXCEPT ![n] = "nul"]
           tz == Front(ty)
<1>1. n = Len(ty) /\ n \in 1 .. KeyLimit /\ WRAP \in Nat
  BY TerminalAssumption DEF Holds
<1>2. Len(tz) = n - 1 /\ \A i \in 1 .. n - 1 : tz[i] = ty[i]
  BY <1>1 DEF Front
<1>3. c[n] = "nul" /\ \A i \in 0 .. maxInputLength : i # n => c[i] = b[i]
  BY <1>1
<1>4. ty[n] \in Keys
  BY <1>1
<1> HIDE DEF c, tz
<1>5. \A i \in 0 .. Len(tz) - 1 : c[i] = tz[i + 1]
  BY <1>1, <1>2, <1>3, SMTT(30) DEF Holds
<1>6. \A i \in n .. maxInputLength - 1 : c[i] = "nul"
  BY <1>1, <1>3 DEF Holds
<1>7. c[Len(tz)] \in Keys \cup {"nul"}
  <2>1. c[n - 1] = b[n - 1] /\ b[n - 1] = ty[n]
    BY <1>1, <1>3 DEF Holds
  <2> QED
    BY <1>2, <1>4, <2>1
<1>8. Holds(c, n - 1, tz, FALSE)
  BY <1>1, <1>2, <1>5, <1>6, <1>7 DEF Holds
<1> QED
  BY <1>8 DEF c, tz

\* Enter finishes the line; what key_press then does to the padding byte is not part of it.
LEMMA EnterHolds ==
  ASSUME NEW b \in [0 .. maxInputLength -> Bytes], NEW ty \in Seq(Keys),
         NEW n, Holds(b, n, ty, FALSE)
  PROVE  Holds(Unprinted([b EXCEPT ![n] = "newLine"], n + 1), n + 1, ty, TRUE)
<1> USE Limits
<1> DEFINE c == Unprinted([b EXCEPT ![n] = "newLine"], n + 1)
<1>1. n = Len(ty) /\ n \in 0 .. KeyLimit /\ WRAP \in Nat
  BY TerminalAssumption DEF Holds
<1>2. c[n] = "newLine" /\ \A i \in 0 .. maxInputLength - 1 : i # n => c[i] = b[i]
  BY <1>1 DEF Unprinted, Padded
<1> HIDE DEF c
<1>3. \A i \in 0 .. Len(ty) - 1 : c[i] = ty[i + 1]
  BY <1>1, <1>2 DEF Holds
<1>4. \A i \in Len(ty) + 1 .. maxInputLength - 1 : c[i] = "nul"
  BY <1>1, <1>2 DEF Holds
<1>5. Holds(c, n + 1, ty, TRUE)
  BY <1>1, <1>2, <1>3, <1>4 DEF Holds
<1> QED
  BY <1>5 DEF c

\* A buffer whose entries are empty, but for the first perhaps, holds the empty line.
LEMMA EmptyHolds ==
  ASSUME NEW b, b[0] \in Keys \cup {"nul"}, \A i \in 1 .. maxInputLength - 1 : b[i] = "nul"
  PROVE  Holds(b, 0, <<>>, FALSE)
BY Limits, TerminalAssumption DEF Holds

\* Conversely, a line that is not finished and has no characters leaves such a buffer.
LEMMA EmptyHeld ==
  ASSUME NEW b, NEW ty \in Seq(Keys), NEW done \in BOOLEAN, Holds(b, 0, ty, done)
  PROVE  /\ ~ done /\ ty = <<>> /\ b[0] \in Keys \cup {"nul"}
         /\ \A i \in 1 .. maxInputLength - 1 : b[i] = "nul"
<1>1. Len(ty) = 0 /\ ~ done
  BY DEF Holds
<1>2. ty = <<>>
  BY <1>1
<1> QED
  BY <1>1, <1>2 DEF Holds

\* The characters of the line are among what ReadCopy copies.
LEMMA LineCopied ==
  ASSUME NEW ty \in Seq(Keys), NEW n, NEW done, Holds(keyBuffer, n, ty, done)
  PROVE  \A i \in 0 .. Len(ty) - 1 : i \in Copied /\ keyBuffer[i] = ty[i + 1]
<1> USE Limits
<1> SUFFICES ASSUME NEW i \in 0 .. Len(ty) - 1
             PROVE  i \in Copied /\ keyBuffer[i] = ty[i + 1]
  OBVIOUS
<1>1. Len(ty) \in 0 .. KeyLimit /\ keyBuffer[i] = ty[i + 1]
  BY DEF Holds
<1>2. i \in Line
  BY <1>1 DEF Line
<1>3. i + 1 \in 1 .. Len(ty)
  BY <1>1
<1>4. keyBuffer[i] \in Keys
  BY <1>1, <1>3
<1> QED
  BY <1>1, <1>2, <1>4, TerminalAssumption DEF Copied

\* Of a finished line nothing else is copied.
LEMMA LineFound ==
  ASSUME NEW ty \in Seq(Keys), NEW n, Holds(keyBuffer, n, ty, TRUE)
  PROVE  Copied = 0 .. Len(ty) - 1 /\ Cardinality(Copied) = Len(ty)
<1> USE Limits
<1>1. Len(ty) \in 0 .. KeyLimit
  BY DEF Holds
<1>2. Copied = 0 .. Len(ty) - 1
  <2>1. \A i \in 0 .. Len(ty) - 1 : i \in Copied
    BY LineCopied
  <2>2. keyBuffer[Len(ty)] = "newLine"
        /\ \A i \in Len(ty) + 1 .. maxInputLength - 1 : keyBuffer[i] = "nul"
    BY DEF Holds
  <2>3. \A i \in Line : i >= Len(ty) => keyBuffer[i] \in {"nul", "newLine"}
    BY <1>1, <2>2 DEF Line
  <2> QED
    BY <1>1, <2>1, <2>3 DEF Copied, Line
<1>3. Cardinality(0 .. Len(ty) - 1) =
        IF 0 > Len(ty) - 1 THEN 0 ELSE Len(ty) - 1 - 0 + 1
  <2>1. Len(ty) - 1 \in Int /\ 0 \in Int
    BY <1>1
  <2> QED
    BY <2>1, FS_Interval, Zenon
<1> QED
  BY <1>1, <1>2, <1>3

-----------------------------------------------------------------------------
(***************************************************************************)
(* Lines and readers.                                                      *)
(***************************************************************************)

\* Nobody has typed or read.
LEMMA LineInit == Init => LineInv
<1> SUFFICES ASSUME Init PROVE LineInv
  OBVIOUS
<1> USE Limits
<1>1. 0 \in Terms
  BY TerminalAssumption DEF Terms
<1>2. Holds(keyBuffer, 0, <<>>, FALSE)
  <2>1. keyBuffer[0] = "nul" /\ \A i \in 1 .. maxInputLength - 1 : keyBuffer[i] = "nul"
    BY DEF Init
  <2> QED
    BY <2>1, EmptyHolds
<1>3. Holds(keyBuffer, keyBufferIndex, typed[curr_terminal], entered[curr_terminal])
  BY <1>1, <1>2 DEF Init
<1>4. \A t \in Terms \ {curr_terminal} : Idle(t)
  BY DEF Init, Idle, Line
<1>5. \A t \in Terms : Reader(t)
  BY DEF Init, Reader, Reading
<1> QED
  BY <1>3, <1>4, <1>5 DEF LineInv

\* A step that changes the visible terminal's line only, and not what readers know.
LEMMA LineEdited ==
  ASSUME TypeOK, LineInv, NEW ty,
         Holds(keyBuffer', keyBufferIndex', ty, FALSE), ~ entered[curr_terminal],
         typed' = [typed EXCEPT ![curr_terminal] = ty],
         UNCHANGED <<enterFlag, entered, filled, proc, keyBuf, curr_terminal>>
  PROVE  LineInv'
<1>1. typed'[curr_terminal] = ty /\ entered[curr_terminal] = FALSE
  BY DEF TypeOK
<1>2. Holds(keyBuffer, keyBufferIndex, typed[curr_terminal], entered[curr_terminal])'
  BY <1>1
<1>3. \A t \in Terms \ {curr_terminal} : Idle(t)'
  BY DEF TypeOK, LineInv, Idle
<1>4. \A t \in Terms : Reader(t)'
  BY DEF LineInv, Reader, Reading
<1> QED
  BY <1>2, <1>3, <1>4 DEF LineInv

\* In the ordinary use of the terminals every step keeps the invariant.
LEMMA LineStep ==
  ASSUME TypeOK, Room, LineInv, Env = {}, [Next]_vars
  PROVE  LineInv'
<1> USE Limits
<1> USE DEF screenVars
<1> DEFINE c == curr_terminal
           n == keyBufferIndex
           ty == typed[c]
<1>a. Patient
  BY DEF Patient
<1>b. c \in Terms /\ ty \in Seq(Keys) /\ entered[c] \in BOOLEAN
      /\ keyBuffer \in [0 .. maxInputLength -> Bytes] /\ n \in Nat
  BY DEF TypeOK
<1>c. Holds(keyBuffer, n, ty, entered[c])
  BY DEF LineInv
<1>d. MayType => ~ entered[c] /\ Holds(keyBuffer, n, ty, FALSE)
  BY <1>a, <1>b, <1>c, NoEnterYet
<1> HIDE DEF c, n, ty
<1>1. CASE key_press
  <2> DEFINE wraps == n # 0 /\ n % WRAP = 0
  <2>1. PICK k \in Keys :
          LET at    == IF wraps THEN n + 1 ELSE n
              broken == IF wraps THEN [keyBuffer EXCEPT ![n] = "newLine"] ELSE keyBuffer
          IN  /\ MayType
              /\ "long" \in Env \/ ~ wraps
              /\ IF n < KeyLimit
                   THEN /\ keyBufferIndex' = at + 1
                        /\ keyBuffer' = Padded([broken EXCEPT ![at] = k], at + 1)
                        /\ typed' = [typed EXCEPT ![c] = Append(@, k)]
                   ELSE /\ keyBuffer' = Padded(keyBuffer, n)
                        /\ UNCHANGED <<keyBufferIndex, typed>>
              /\ UNCHANGED <<enterFlag, entered, filled, proc, curr_process, screenVars>>
    BY <1>1, Zenon DEF key_press, n, c
  <2>2. /\ Holds(keyBuffer, n, ty, FALSE) /\ ~ entered[c] /\ ~ wraps
        /\ UNCHANGED <<enterFlag, entered, filled, proc, keyBuf, curr_terminal>>
    BY <2>1, <1>d
  <2>3. n = Len(ty) /\ n \in 0 .. KeyLimit /\ n <= WRAP
    BY <1>b, <2>2 DEF Holds
  <2>4. CASE n < KeyLimit
    <3>1. /\ keyBufferIndex' = n + 1
          /\ keyBuffer' = Padded([keyBuffer EXCEPT ![n] = k], n + 1)
          /\ typed' = [typed EXCEPT ![c] = Append(@, k)]
      BY <2>1, <2>2, <2>4
    <3>2. keyBuffer' = [keyBuffer EXCEPT ![n] = k]
      BY <2>3, <2>4, <3>1 DEF Padded
    <3>3. typed' = [typed EXCEPT ![c] = Append(ty, k)]
      BY <3>1 DEF ty
    <3>4. n < WRAP
      BY <1>b, <2>2, <2>3, BelowWrap
    <3>5. Holds([keyBuffer EXCEPT ![n] = k], n + 1, Append(ty, k), FALSE)
      BY <1>b, <2>2, <2>4, <3>4, KeyHolds, Zenon
    <3>6. Holds(keyBuffer', keyBufferIndex', Append(ty, k), FALSE)
      BY <3>1, <3>2, <3>5
    <3> QED
      BY <2>2, <3>3, <3>6, LineEdited, Zenon DEF c
  <2>5. CASE ~ n < KeyLimit
    <3>1. keyBuffer' = keyBuffer /\ keyBufferIndex' = keyBufferIndex /\ typed' = typed
      BY <2>1, <2>3, <2>5 DEF Padded
    <3>2. UNCHANGED <<enterFlag, entered, filled, proc, keyBuf, curr_terminal>>
      BY <2>2
    <3> QED
      BY <3>1, <3>2 DEF LineInv, Idle, Reader, Reading
  <2> QED
    BY <2>4, <2>5
<1>2. CASE ClearLine
  <2>1. /\ ~ entered[c] /\ typed' = [typed EXCEPT ![c] = <<>>] /\ keyBufferIndex' = 0
        /\ UNCHANGED <<enterFlag, entered, filled, proc, keyBuf, curr_terminal>>
        /\ keyBuffer' = [i \in 0 .. maxInputLength |-> "nul"]
    BY <1>2, <1>d DEF ClearLine, c
  <2>2. keyBuffer'[0] = "nul" /\ \A i \in 1 .. maxInputLength - 1 : keyBuffer'[i] = "nul"
    BY <2>1
  <2>3. Holds(keyBuffer', keyBufferIndex', <<>>, FALSE)
    BY <2>1, <2>2, EmptyHolds
  <2> QED
    BY <2>1, <2>3, LineEdited, Zenon DEF c
<1>3. CASE Backspace
  <2>1. MayType /\ n > 0 /\ UNCHANGED <<enterFlag, entered, filled, proc, keyBuf, curr_terminal>>
    BY <1>3 DEF Backspace, n
  <2>2. Holds(keyBuffer, n, ty, FALSE) /\ ~ entered[c]
    BY <2>1, <1>d
  <2>3. n = Len(ty) /\ n \in 1 .. KeyLimit /\ keyBuffer[n] \in Keys \cup {"nul"}
    BY <1>b, <2>1, <2>2 DEF Holds
  <2>4. keyBuffer[n] # "newLine"
    BY <2>3, TerminalAssumption
  <2>5. /\ keyBufferIndex' = n - 1
        /\ keyBuffer' = Unprinted([keyBuffer EXCEPT ![n] = "nul"], n - 1)
        /\ typed' = [typed EXCEPT ![c] = IF @ = <<>> THEN @ ELSE Front(@)]
    BY <1>3, <2>4 DEF Backspace, n, c
  <2>6. keyBuffer' = [keyBuffer EXCEPT ![n] = "nul"]
    BY <2>3, <2>5 DEF Unprinted
  <2>7. typed' = [typed EXCEPT ![c] = Front(ty)]
    <3>1. ty # <<>>
      BY <2>3
    <3> QED
      BY <2>5, <3>1 DEF ty
  <2>8. Holds([keyBuffer EXCEPT ![n] = "nul"], n - 1, Front(ty), FALSE)
    BY <1>b, <2>1, <2>2, BackHolds, Zenon
  <2>9. Holds(keyBuffer', keyBufferIndex', Front(ty), FALSE)
    BY <2>5, <2>6, <2>8
  <2> QED
    BY <2>1, <2>2, <2>7, <2>9, LineEdited, Zenon DEF c
<1>4. CASE Enter
  <2>1. /\ MayType /\ keyBufferIndex' = n + 1
        /\ enterFlag' = [enterFlag EXCEPT ![c] = TRUE]
        /\ entered' = [entered EXCEPT ![c] = TRUE]
        /\ keyBuffer' = Unprinted([keyBuffer EXCEPT ![n] = "newLine"], n + 1)
        /\ UNCHANGED <<typed, filled, proc, keyBuf, curr_terminal>>
    BY <1>4 DEF Enter, EnterTerminal, n, c
  <2>2. Reading(c) /\ Holds(keyBuffer, n, ty, FALSE)
    BY <1>4, <2>1, <1>d DEF Enter, c
  <2>3. Holds(keyBuffer', keyBufferIndex', ty, TRUE)
    <3>1. Holds(Unprinted([keyBuffer EXCEPT ![n] = "newLine"], n + 1), n + 1, ty, TRUE)
      BY <1>b, <2>2, EnterHolds, Zenon
    <3> QED
      BY <2>1, <3>1
  <2>4. /\ entered'[c] = TRUE /\ typed'[c] = ty /\ c = curr_terminal'
        /\ \A t \in Terms : t # c => entered'[t] = entered[t] /\ enterFlag'[t] = enterFlag[t]
    BY <1>b, <2>1 DEF TypeOK, ty, c
  <2>5. Holds(keyBuffer, keyBufferIndex, typed[curr_terminal], entered[curr_terminal])'
    BY <2>3, <2>4
  <2>6. \A t \in Terms \ {curr_terminal'} : Idle(t)'
    BY <2>1, <2>4 DEF LineInv, Idle, c
  <2>7. \A t \in Terms : Reader(t)'
    BY <2>1, <2>2, <2>4 DEF LineInv, Reader, Reading, c
  <2> QED
    BY <2>5, <2>6, <2>7 DEF LineInv
<1>5. CASE terminal_switch
  <2>1. n = 0 /\ \A t \in Terms : proc[t] \notin {"char", "seen", "copy"}
    BY <1>5 DEF terminal_switch, n
  <2>2. PICK idx \in Terms \ {c} :
          /\ keyBuf' = [keyBuf EXCEPT ![c] = [i \in Line |-> keyBuffer[i]]]
          /\ keyBuffer' = [i \in 0 .. maxInputLength |->
                             IF i \in Line THEN keyBuf[idx][i] ELSE keyBuffer[i]]
          /\ curr_terminal' = idx
    BY <1>5 DEF terminal_switch, c
  <2>3. UNCHANGED <<keyBufferIndex, enterFlag, entered, typed, filled, proc, curr_process>>
    BY <1>5 DEF terminal_switch
  <2>4. /\ ~ entered[c] /\ ty = <<>> /\ keyBuffer[0] \in Keys \cup {"nul"}
        /\ \A i \in 1 .. maxInputLength - 1 : keyBuffer[i] = "nul"
    BY <1>b, <1>c, <2>1, EmptyHeld
  <2>5. Idle(idx)
    BY <2>2 DEF LineInv, c
  <2>6. /\ keyBuffer'[0] \in Keys \cup {"nul"}
        /\ \A i \in 1 .. maxInputLength - 1 : keyBuffer'[i] = "nul"
    BY <2>2, <2>5 DEF Idle, Line
  <2>7. Holds(keyBuffer', 0, <<>>, FALSE)
    BY <2>6, EmptyHolds
  <2>8. typed'[idx] = <<>> /\ entered'[idx] = FALSE /\ keyBufferIndex' = 0
    BY <2>1, <2>2, <2>3, <2>5 DEF Idle, TypeOK, n
  <2>9. Holds(keyBuffer, keyBufferIndex, typed[curr_terminal], entered[curr_terminal])'
    BY <2>2, <2>7, <2>8
  <2>10. ASSUME NEW t \in Terms \ {idx} PROVE Idle(t)'
    <3>1. CASE t = c
      <4>1. keyBuf'[t] = [i \in Line |-> keyBuffer[i]]
        BY <1>b, <2>2, <3>1 DEF TypeOK
      <4> QED
        BY <2>3, <2>4, <3>1, <4>1 DEF Idle, Line, ty
    <3>2. CASE t # c
      <4>1. keyBuf'[t] = keyBuf[t] /\ Idle(t)
        BY <2>2, <3>2 DEF TypeOK, LineInv, c
      <4> QED
        BY <2>3, <4>1 DEF Idle
    <3> QED
      BY <3>1, <3>2
  <2>11. \A t \in Terms : Reader(t)'
    <3> SUFFICES ASSUME NEW t \in Terms PROVE Reader(t)'
      OBVIOUS
    <3>1. Reader(t) /\ proc[t] \notin {"char", "seen", "copy"}
      BY <2>1 DEF LineInv
    <3> QED
      BY <2>3, <3>1 DEF Reader, Reading
  <2> QED
    BY <2>2, <2>9, <2>10, <2>11 DEF LineInv
<1>6. CASE Tick
  BY <1>6 DEF Tick, LineInv, Idle, Reader, Reading
<1>7. CASE terminal_write
  <2>1. /\ ~ Reading(curr_process)
        /\ proc' = [proc EXCEPT ![curr_process] = "wrote"]
        /\ UNCHANGED <<keyBuffer, keyBufferIndex, entered, typed, keyBuf, curr_terminal>>
    BY <1>7 DEF terminal_write
  <2>2. PICK row \in BOOLEAN :
          /\ enterFlag' = [enterFlag EXCEPT ![curr_process] = row /\ visible[curr_process]]
          /\ filled' = [filled EXCEPT ![curr_process] = row /\ visible[curr_process]]
    BY <1>7 DEF terminal_write
  <2>3. \A t \in Terms : Reader(t)'
    <3> SUFFICES ASSUME NEW t \in Terms PROVE Reader(t)'
      OBVIOUS
    <3>1. CASE t = curr_process
      <4>1. enterFlag'[t] = filled'[t] /\ proc'[t] = "wrote"
        BY <2>1, <2>2, <3>1 DEF TypeOK
      <4>2. ~ entered[t]
        BY <2>1, <3>1 DEF LineInv, Reader
      <4> QED
        BY <2>1, <4>1, <4>2 DEF Reader, Reading
    <3>2. CASE t # curr_process
      <4>1. enterFlag'[t] = enterFlag[t] /\ filled'[t] = filled[t] /\ proc'[t] = proc[t]
        BY <2>1, <2>2, <3>2 DEF TypeOK
      <4> QED
        BY <2>1, <4>1 DEF LineInv, Reader, Reading
    <3> QED
      BY <3>1, <3>2
  <2> QED
    BY <2>1, <2>3 DEF LineInv, Idle
<1>8. CASE ReadBegin
  <2>1. /\ proc[curr_process] = "wrote" /\ proc' = [proc EXCEPT ![curr_process] = "flag"]
        /\ UNCHANGED <<keyBuffer, keyBufferIndex, enterFlag, entered, typed, filled, keyBuf,
                       curr_terminal>>
    BY <1>8 DEF ReadBegin, Step
  <2>2. \A t \in Terms : Reader(t)'
    BY <2>1 DEF LineInv, Reader, Reading, TypeOK
  <2> QED
    BY <2>1, <2>2 DEF LineInv, Idle
<1>9. CASE \E t \in Terms : terminal_read(t)
  <2>1. ReadSpin \/ ReadCopy
    BY <1>9 DEF terminal_read
  <2> DEFINE p == curr_process
  <2>a. p \in Terms /\ Reader(p) /\ visible[p] = (p = c)
    BY DEF TypeOK, LineInv, c
  <2> HIDE DEF p
  <2>2. CASE ReadSpin
    <3>1. \/ enterFlag[c] /\ proc[p] = "flag" /\ proc' = [proc EXCEPT ![p] = "char"]
          \/ proc[p] = "char" /\ proc' = [proc EXCEPT ![p] = "seen"]
          \/ proc[p] \in {"char", "seen"} /\ proc' = [proc EXCEPT ![p] = "flag"]
          \/ proc[p] = "seen" /\ visible[p] /\ proc' = [proc EXCEPT ![p] = "copy"]
      BY <2>2 DEF ReadSpin, Step, ReaderVisible, p, c
    <3>2. UNCHANGED <<keyBuffer, keyBufferIndex, enterFlag, entered, typed, filled, keyBuf,
                      curr_terminal>>
      BY <2>2 DEF ReadSpin
    <3>3. \A t \in Terms : t # p => Reader(t)'
      BY <3>1, <3>2 DEF LineInv, Reader, Reading, TypeOK
    <3>4. \A t \in Terms : t = p => Reader(t)'
      <4>1. proc[p] \in {"flag", "char", "seen"} /\ proc'[p] \in {"flag", "char", "seen", "copy"}
        BY <2>a, <3>1 DEF TypeOK
      <4>2. proc'[p] \in {"char", "seen", "copy"} /\ p = c => entered[p] \/ filled[p]
        BY <2>a, <3>1 DEF TypeOK, Reader, c
      <4>3. proc'[p] = "copy" => p = c
        BY <2>a, <3>1 DEF TypeOK
      <4> QED
        BY <2>a, <3>2, <4>1, <4>2, <4>3 DEF Reader, Reading, c
    <3>5. \A t \in Terms : Reader(t)'
      BY <3>3, <3>4
    <3>6. \A t \in Terms \ {curr_terminal'} : Idle(t)'
      BY <3>2 DEF LineInv, Idle
    <3> QED
      BY <3>2, <3>5, <3>6 DEF LineInv
  <2>3. CASE ReadCopy
    <3>1. /\ proc[p] = "copy" /\ proc' = [proc EXCEPT ![p] = "run"]
          /\ keyBuffer' = [i \in 0 .. maxInputLength |-> IF i \in Line THEN "nul" ELSE keyBuffer[i]]
          /\ keyBufferIndex' = 0
          /\ typed' = [typed EXCEPT ![p] = <<>>]
          /\ entered' = [entered EXCEPT ![p] = FALSE]
          /\ UNCHANGED <<enterFlag, filled, keyBuf, curr_terminal>>
      BY <2>3 DEF ReadCopy, Step, p
    <3>2. p = c
      BY <2>a, <3>1 DEF Reader, c
    <3>3. keyBuffer'[0] = "nul" /\ \A i \in 1 .. maxInputLength - 1 : keyBuffer'[i] = "nul"
      BY <3>1 DEF Line
    <3>4. Holds(keyBuffer', 0, <<>>, FALSE)
      BY <3>3, EmptyHolds
    <3>5. typed'[c] = <<>> /\ entered'[c] = FALSE /\ proc'[c] = "run" /\ c = curr_terminal'
          /\ \A t \in Terms : t # c => /\ entered'[t] = entered[t] /\ typed'[t] = typed[t]
                                      /\ proc'[t] = proc[t]
      BY <1>b, <3>1, <3>2 DEF TypeOK, c
    <3>6. Holds(keyBuffer, keyBufferIndex, typed[curr_terminal], entered[curr_terminal])'
      BY <3>1, <3>4, <3>5
    <3>7. \A t \in Terms \ {curr_terminal'} : Idle(t)'
      BY <3>1, <3>5 DEF LineInv, Idle, c
    <3>8. \A t \in Terms : Reader(t)'
      BY <3>1, <3>5 DEF LineInv, Reader, Reading, c
    <3> QED
      BY <3>6, <3>7, <3>8 DEF LineInv
  <2> QED
    BY <2>1, <2>2, <2>3
<1>10. CASE UNCHANGED vars
  BY <1>10 DEF vars, LineInv, Idle, Reader, Reading
<1> QED
  BY <1>1, <1>2, <1>3, <1>4, <1>5, <1>6, <1>7, <1>8, <1>9, <1>10 DEF Next

\* When users and programs use the terminals as they ordinarily do, a terminal_read delivers
\* the line of its own terminal, whatever happens on the other terminals, however the reads
\* and the keys interleave, and however many bytes are asked for; with Enter it is complete,
\* and it comes without Enter only after a write that filled a row.
THEOREM LinesDelivered ==
  ASSUME Env = {}
  PROVE  Spec => []ReadDelivers
<1>1. Init => TypeOK /\ Room /\ LineInv
  BY TypesInit, LineInit
<1>2. TypeOK /\ Room /\ LineInv /\ [Next]_vars => TypeOK' /\ Room' /\ LineInv'
  BY TypesStep, LineStep DEF Patient
<1>3. TypeOK /\ LineInv => ReadDelivers
  <2> SUFFICES ASSUME TypeOK, LineInv, proc[curr_process] = "copy"
               PROVE  ReadDelivers
    BY DEF ReadDelivers
  <2> DEFINE line == typed[curr_process]
  <2>1. curr_process = curr_terminal /\ (entered[curr_process] \/ filled[curr_process])
    BY DEF TypeOK, LineInv, Reader
  <2>2. Holds(keyBuffer, keyBufferIndex, line, entered[curr_process])
    BY <2>1 DEF LineInv
  <2>3. line \in Seq(Keys) /\ entered[curr_process] \in BOOLEAN
    BY DEF TypeOK
  <2>4. \A i \in 0 .. Len(line) - 1 : i \in Copied /\ keyBuffer[i] = line[i + 1]
    BY <2>2, <2>3, LineCopied, Zenon
  <2>5. entered[curr_process] =>
          Copied = 0 .. Len(line) - 1 /\ Cardinality(Copied) = Len(line)
    <3> SUFFICES ASSUME entered[curr_process]
                 PROVE  Copied = 0 .. Len(line) - 1 /\ Cardinality(Copied) = Len(line)
      OBVIOUS
    <3>1. Holds(keyBuffer, keyBufferIndex, line, TRUE)
      BY <2>2, <2>3
    <3> QED
      BY <2>3, <3>1, LineFound, Zenon
  <2>6. \A k \in DOMAIN line : k - 1 \in Copied /\ keyBuffer[k - 1] = line[k]
    <3> SUFFICES ASSUME NEW k \in DOMAIN line
                 PROVE  k - 1 \in Copied /\ keyBuffer[k - 1] = line[k]
      OBVIOUS
    <3>1. k - 1 \in 0 .. Len(line) - 1 /\ (k - 1) + 1 = k
      BY <2>3
    <3> QED
      BY <2>4, <3>1
  <2> HIDE DEF line
  <2>7. ASSUME NEW r \in ReadResults
        PROVE  /\ \A k \in DOMAIN line : k - 1 \in DOMAIN r.buf /\ r.buf[k - 1] = line[k]
               /\ entered[curr_process] =>
                    /\ DOMAIN r.buf = 0 .. Len(line) - 1
                    /\ \E e \in Behind : r.count = int8_t(Len(line) + e)
    <3>1. PICK e \in Behind :
            r = [buf |-> [i \in Copied |-> keyBuffer[i]],
                 count |-> int8_t(Cardinality(Copied) + e)]
      BY DEF ReadResults
    <3>2. /\ r.buf = [i \in Copied |-> keyBuffer[i]]
          /\ r.count = int8_t(Cardinality(Copied) + e)
      BY <3>1
    <3>3. DOMAIN r.buf = Copied /\ \A i \in Copied : r.buf[i] = keyBuffer[i]
      BY <3>2
    <3>4. entered[curr_process] => r.count = int8_t(Len(line) + e)
      BY <2>5, <3>2
    <3> QED
      BY <2>5, <2>6, <3>3, <3>4
  <2> QED
    BY <2>1, <2>7 DEF ReadDelivers, line
<1> QED
  BY <1>1, <1>2, <1>3, PTL DEF Spec
=============================================================================
