---------------------------- MODULE Printf_proofs ----------------------------
(***************************************************************************)
(* For every call, every width of a word and every pace of the serial port,*)
(* the port sends what printf put on the screen, whatever printf does with *)
(* its format and arguments.                                               *)
(***************************************************************************)
EXTENDS Printf, SequenceTheorems, TLAPS

(* Keeping the first MaxOutput letters of two texts (the model's bound on  *)
(* what is remembered of the output of putchar.c:8-17).                    *)
LEMMA KeptType ==
    ASSUME NEW S, NEW s \in Seq(S), NEW t \in Seq(S)
    PROVE  Kept(s, t) \in Seq(S) /\ Len(Kept(s, t)) =< MaxOutput
<1>1. s \o t \in Seq(S) /\ Len(s \o t) \in Nat
  OBVIOUS
<1>2. CASE Len(s \o t) > MaxOutput
  <2>1. SubSeq(s \o t, 1, MaxOutput) \in Seq(S) /\ Len(SubSeq(s \o t, 1, MaxOutput)) = MaxOutput
    BY <1>1, <1>2, WidthsAssumption
  <2> QED
    BY <1>2, <2>1, WidthsAssumption DEF Kept
<1>3. CASE ~(Len(s \o t) > MaxOutput)
  BY <1>1, <1>3, WidthsAssumption DEF Kept
<1> QED
  BY <1>2, <1>3

(* What was kept stays as it is when nothing is added.                     *)
LEMMA KeptAgain ==
    ASSUME NEW S, NEW s \in Seq(S), Len(s) =< MaxOutput
    PROVE  Kept(s, <<>>) = s
<1>1. s \o <<>> = s
  OBVIOUS
<1> QED
  BY <1>1, WidthsAssumption DEF Kept

(* What left the port, what it holds and the letter putchar waits with are *)
(* texts over some set of letters.                                         *)
Texts(S) ==
    /\ line \in Seq(S) /\ Len(line) =< MaxOutput
    /\ hold \in Seq(S)
    /\ waiting => todo # <<>> /\ Head(todo) \in S

IInv == /\ waiting \in BOOLEAN
        /\ \E S : Texts(S)
        /\ SerialEchoes

(* printf begins with nothing printed.                                     *)
LEMMA EchoInit == Init => IInv
<1> SUFFICES ASSUME Init PROVE IInv
  OBVIOUS
<1>1. line = <<>> /\ hold = <<>> /\ screen = <<>> /\ waiting = FALSE
  BY DEF Init
<1>2. <<>> \in Seq({}) /\ Len(<<>>) = 0
  OBVIOUS
<1>3. Texts({})
  BY <1>1, <1>2, WidthsAssumption DEF Texts
<1>4. Kept(<<>>, <<>>) = <<>>
  <2>1. Len(<<>>) =< MaxOutput
    BY <1>2, WidthsAssumption
  <2> QED
    BY <1>2, <2>1, KeptAgain, Zenon
<1>5. SerialEchoes
  BY <1>1, <1>4 DEF SerialEchoes
<1> QED
  BY <1>1, <1>3, <1>5 DEF IInv

(* terminal_write in putchar.                                              *)
LEMMA EchoTerminal == IInv /\ TerminalWrite => IInv'
<1> SUFFICES ASSUME IInv, TerminalWrite PROVE IInv'
  OBVIOUS
<1>1. PICK S : Texts(S)
  BY DEF IInv
<1>2. /\ todo # <<>> /\ ~waiting /\ waiting' = TRUE
      /\ screen' = Kept(screen, <<Head(todo)>>)
      /\ todo' = todo /\ hold' = hold /\ line' = line
  BY DEF TerminalWrite
<1> DEFINE R == S \cup {Head(todo)}
<1>3. line \in Seq(R) /\ hold \in Seq(R) /\ Len(line) =< MaxOutput
  BY <1>1 DEF Texts
<1>4. Texts(R)'
  BY <1>2, <1>3 DEF Texts
<1>5. screen = Kept(line, hold)
  <2>1. Kept(line, hold) \in Seq(R) /\ Len(Kept(line, hold)) =< MaxOutput
    BY <1>3, KeptType
  <2>2. Kept(Kept(line, hold), <<>>) = Kept(line, hold)
    BY <2>1, KeptAgain
  <2> QED
    BY <1>2, <2>2 DEF IInv, SerialEchoes
<1>6. SerialEchoes'
  BY <1>2, <1>5 DEF SerialEchoes, Kept
<1> QED
  BY <1>2, <1>4, <1>6 DEF IInv

(* serial_write, once the transmitter is empty.                            *)
LEMMA EchoSerial == IInv /\ SerialWrite => IInv'
<1> SUFFICES ASSUME IInv, SerialWrite PROVE IInv'
  OBVIOUS
<1>1. PICK S : Texts(S)
  BY DEF IInv
<1>2. /\ waiting /\ hold = <<>> /\ hold' = <<Head(todo)>> /\ waiting' = FALSE
      /\ screen' = screen /\ line' = line
  BY DEF SerialWrite
<1>3. line \in Seq(S) /\ Len(line) =< MaxOutput /\ Head(todo) \in S
  BY <1>1, <1>2 DEF Texts
<1>4. <<Head(todo)>> \in Seq(S)
  BY <1>3
<1>5. Texts(S)'
  BY <1>2, <1>3, <1>4 DEF Texts
<1>6. screen = Kept(line, <<Head(todo)>>)
  <2>1. Kept(line, <<>>) = line
    BY <1>3, KeptAgain
  <2> QED
    BY <1>2, <2>1 DEF IInv, SerialEchoes
<1>7. Kept(Kept(line, <<Head(todo)>>), <<>>) = Kept(line, <<Head(todo)>>)
  <2>1. /\ Kept(line, <<Head(todo)>>) \in Seq(S)
        /\ Len(Kept(line, <<Head(todo)>>)) =< MaxOutput
    BY <1>3, <1>4, KeptType
  <2> QED
    BY <2>1, KeptAgain
<1>8. SerialEchoes'
  BY <1>2, <1>6, <1>7 DEF SerialEchoes, Kept
<1> QED
  BY <1>2, <1>5, <1>8 DEF IInv

(* The port sends its byte.                                                *)
LEMMA EchoTransmit == IInv /\ Transmit => IInv'
<1> SUFFICES ASSUME IInv, Transmit PROVE IInv'
  OBVIOUS
<1>1. PICK S : Texts(S)
  BY DEF IInv
<1>2. /\ line' = Kept(line, hold) /\ hold' = <<>>
      /\ screen' = screen /\ todo' = todo /\ waiting' = waiting
  BY DEF Transmit
<1>3. line' \in Seq(S) /\ Len(line') =< MaxOutput
  BY <1>1, <1>2, KeptType DEF Texts
<1>4. Texts(S)'
  BY <1>1, <1>2, <1>3 DEF Texts
<1>5. Kept(line', <<>>) = line'
  BY <1>3, KeptAgain
<1>6. SerialEchoes'
  BY <1>2, <1>5 DEF IInv, SerialEchoes, Kept
<1> QED
  BY <1>2, <1>4, <1>6 DEF IInv

(* printf itself goes on only when everything is printed.                  *)
LEMMA EchoProgram ==
    ASSUME IInv, todo = <<>>, UNCHANGED <<screen, waiting, hold, line>>
    PROVE  IInv'
<1>1. waiting = FALSE
  BY DEF IInv, Texts
<1>2. PICK S : Texts(S)
  BY DEF IInv
<1>3. Texts(S)'
  BY <1>1, <1>2 DEF Texts
<1>4. SerialEchoes'
  BY <1>1 DEF IInv, SerialEchoes, Kept
<1> QED
  BY <1>1, <1>3, <1>4 DEF IInv

(* Every step of printf and of the port preserves the invariant.           *)
LEMMA EchoNext == IInv /\ [Next]_vars => IInv'
<1> SUFFICES ASSUME IInv, [Next]_vars PROVE IInv'
  OBVIOUS
<1>1. CASE TerminalWrite
  BY <1>1, EchoTerminal
<1>2. CASE SerialWrite
  BY <1>2, EchoSerial
<1>3. CASE Transmit
  BY <1>3, EchoTransmit
<1>4. CASE UNCHANGED vars
  BY <1>4 DEF vars, output, IInv, Texts, SerialEchoes, Kept
<1>5. CASE Text \/ Parse \/ Return \/ ConvertText \/ ConvertCount
  <2>1. todo = <<>> /\ UNCHANGED output
    BY <1>5 DEF Text, Parse, Return, ConvertText, ConvertCount, At
  <2> QED
    BY <2>1, EchoProgram DEF output
<1>6. CASE ConvertSigned \/ ConvertUnsigned \/ ConvertPowers
  <2>1. todo = <<>> /\ UNCHANGED output
    BY <1>6 DEF ConvertSigned, ConvertUnsigned, ConvertPowers, BeginNumber, At
  <2> QED
    BY <2>1, EchoProgram DEF output
<1>7. CASE DecimalRound \/ PowerRound \/ TopDigit \/ Pad \/ DigitRound \/ AlignLeft
  <2>1. todo = <<>> /\ UNCHANGED output
    BY <1>7 DEF DecimalRound, PowerRound, TopDigit, Pad, DigitRound, AlignLeft, InNumber, At
  <2> QED
    BY <2>1, EchoProgram DEF output
<1> QED
  BY <1>1, <1>2, <1>3, <1>4, <1>5, <1>6, <1>7 DEF Next, Program

(* putchar writes to the terminal and to the serial port (putchar.c:8-17): *)
(* the port has sent what is on the screen but for the byte it holds and   *)
(* the letter that waits for it.                                           *)
THEOREM SerialKeepsUp == Spec => []SerialEchoes
<1>1. IInv => SerialEchoes
  BY DEF IInv
<1> QED
  BY <1>1, EchoInit, EchoNext, PTL DEF Spec
=============================================================================
