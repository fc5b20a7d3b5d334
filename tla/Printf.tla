-------------------------------- MODULE Printf --------------------------------
(***************************************************************************)
(* printf (libc/stdio/printf.c), putchar and the serial port behind it.    *)
(* One action is one round of a loop of printf or one call below putchar.  *)
(* A call is a sequence of items, what its author means; printf sees only  *)
(* the format they are written as and the arguments.                       *)
(*                                                                         *)
(* Numbers are words of WordBits bits (64 in the code); int has IntBits    *)
(* (32).  Characters are strings of one letter.                            *)
(***************************************************************************)
EXTENDS Integers, Sequences, SequencesExt

CONSTANTS
    WordBits, IntBits,
    Calls,            \* what callers may ask for: sequences of items
    MaxOutput         \* bound: how much of the output is kept and counted

ASSUME WidthsAssumption ==
    /\ WordBits \in Nat /\ IntBits \in Nat
    /\ 1 < IntBits /\ WordBits = 2 * IntBits
    /\ MaxOutput \in Nat

Size(bits) == 2 ^ bits
Word(n) == n % Size(WordBits)
Signed(n, bits) == IF n < Size(bits - 1) THEN n ELSE n - Size(bits)
Counted(n) == IF n < MaxOutput THEN n + 1 ELSE n

Lower == <<"0", "1", "2", "3", "4", "5", "6", "7", "8", "9",
           "a", "b", "c", "d", "e", "f">>
Upper == SubSeq(Lower, 1, 10) \o <<"A", "B", "C", "D", "E", "F">>
Decimals == ToSet(SubSeq(Lower, 1, 10))
Nul == "NUL"                                 \* what ends a C string
Junk == "junk"                               \* some other byte
FlagChars == {"-", "+", " ", "0", "'", "#"}

\* enum FormatType: the letters of each type
Int10 == {"d", "i"}
UInt10 == {"u"}
Powers == {"x", "X", "o", "b"}               \* Int16, Int8 and Int2
Float == {"f", "F", "e", "E", "g", "G", "a", "A"}
Base(type) == CASE type \in {"x", "X"} -> 16 [] type = "o" -> 8
                [] type = "b" -> 2 [] OTHER -> 10

\* enum Length: those for which an int is fetched
IntLengths == {<<>>, <<"h">>, <<"h", "h">>, <<"L">>}

(* The highest power at which the loops over a word stop.  1 << 63 is an   *)
(* int: the processor's shift, sign-extended, or 0 if the compiler         *)
(* evaluates it.                                                           *)
Limit(type, binaryLimit) ==
    CASE type \in {"x", "X"} -> 16 ^ ((WordBits - 1) \div 4)
      [] type = "o" -> 8 ^ ((WordBits - 1) \div 3)
      [] type = "b" -> binaryLimit
BinaryLimits == {Word(Signed(Size((WordBits - 1) % IntBits), IntBits)), 0}

(* chars_lower[n], chars_upper[n] and '0' + n *)
Glyph(type, n) ==
    CASE n < Base(type) -> (IF type = "X" THEN Upper ELSE Lower)[n + 1]
      [] n = Base(type) /\ type \in Powers -> Nul
      [] OTHER -> Junk

-----------------------------------------------------------------------------
(***************************************************************************)
(* What a call means.  An item is a letter of text or a directive:         *)
(*    [type |-> "text", arg |-> letter], or                                *)
(*    [type, flags, width, star, precision, length, arg].                  *)
(***************************************************************************)
\* The digits of n to the base b, without leading zeros.
Digits(n, b) ==
    LET k == CHOOSE i \in 1..WordBits : n < b ^ i /\ (i = 1 \/ n >= b ^ (i - 1))
    IN  [i \in 1..k |-> (n \div b ^ (k - i)) % b]
Numeral(n, b) == [i \in DOMAIN Digits(n, b) |-> Lower[Digits(n, b)[i] + 1]]

Written(item) ==
    IF item.type = "text"
    THEN IF item.arg = "%" THEN <<"\\", "%">> ELSE <<item.arg>>
    ELSE <<"%">> \o SetToSeq(item.flags)
                 \o (IF item.star THEN <<"*">>
                     ELSE IF item.width = 0 THEN <<>> ELSE Numeral(item.width, 10))
                 \o item.precision \o item.length \o <<item.type>>

TakesArgument(item) == item.type \in Int10 \cup UInt10 \cup Powers \cup {"s", "c"}
Arguments(item) ==
    IF item.type = "text" THEN <<>>
    ELSE (IF item.star THEN <<item.width>> ELSE <<>>)
            \o (IF TakesArgument(item) THEN <<item.arg>> ELSE <<>>)

FormatOf(items) == FlattenSeq([i \in DOMAIN items |-> Written(items[i])])
ArgsOf(items) == FlattenSeq([i \in DOMAIN items |-> Arguments(items[i])])

-----------------------------------------------------------------------------
VARIABLES
    call,             \* the items; printf does not see them
    binaryLimit,      \* the value the build gives 1 << 63
    format, args,     \* the format, and the arguments not yet fetched
    pc, index,        \* where printf is, and the index into format
    cv,               \* the conversion: its type, length, width and flags
    num, val, exp,
    todo,             \* letters the current step has still to print
    count, stored,    \* num_chars_written, and what %n stored of it
    screen,           \* what terminal_write was given
    waiting,          \* putchar is in serial_write
    hold, line        \* the transmitter's register, and what left it

input == <<call, binaryLimit, format>>
numbers == <<num, val, exp>>
output == <<count, screen, waiting, hold, line>>
vars == <<input, args, pc, index, cv, numbers, todo, stored, output>>

NoConversion == [type |-> Nul, length |-> <<>>, width |-> 0, flags |-> {}]

Init ==
    /\ call \in Calls
    /\ binaryLimit \in BinaryLimits
    /\ format = FormatOf(call) /\ args = ArgsOf(call)
    /\ pc = "scan" /\ index = 1
    /\ cv = NoConversion
    /\ num = 0 /\ val = 1 /\ exp = 0
    /\ todo = <<>> /\ count = 0 /\ stored = -1
    /\ screen = <<>> /\ waiting = FALSE /\ hold = <<>> /\ line = <<>>

-----------------------------------------------------------------------------
(* putchar: terminal_write, then serial_write, which waits until the       *)
(* transmitter is empty; printf counts the letter when putchar returns.    *)
Kept(text, letters) ==
    LET all == text \o letters
    IN  IF Len(all) > MaxOutput THEN SubSeq(all, 1, MaxOutput) ELSE all

TerminalWrite ==
    /\ todo # <<>> /\ ~waiting
    /\ screen' = Kept(screen, <<Head(todo)>>)
    /\ waiting' = TRUE
    /\ UNCHANGED <<input, args, pc, index, cv, numbers, todo, stored, count, hold, line>>

\* Mutant: the byte is written whether or not the last one has left.
SerialWriteAtOnce ==
    /\ waiting
    /\ hold' = <<Head(todo)>>
    /\ waiting' = FALSE
    /\ todo' = Tail(todo)
    /\ count' = Counted(count)
    /\ UNCHANGED <<input, args, pc, index, cv, numbers, stored, screen, line>>

(* serial_write once is_transmit_empty is true *)
SerialWrite ==
    /\ waiting
    /\ hold = <<>>
    /\ hold' = <<Head(todo)>>
    /\ waiting' = FALSE
    /\ todo' = Tail(todo)
    /\ count' = Counted(count)
    /\ UNCHANGED <<input, args, pc, index, cv, numbers, stored, screen, line>>

(* The serial port sends the byte it holds. *)
Transmit ==
    /\ hold # <<>>
    /\ line' = Kept(line, hold)
    /\ hold' = <<>>
    /\ UNCHANGED <<input, args, pc, index, cv, numbers, todo, stored, count, screen, waiting>>

\* printf itself goes on at p once all letters are printed.
At(p) == pc = p /\ todo = <<>>

-----------------------------------------------------------------------------
Letter(i) == IF i <= Len(format) THEN format[i] ELSE Nul
Past(S, i) ==     \* the first index from i on whose letter is not in S
    CHOOSE j \in i .. Len(format) + 1 :
        Letter(j) \notin S /\ \A k \in i .. j - 1 : Letter(k) \in S

\* Mutant: the second letter of hh and ll is left for the type.
PastLengthOnce(i) == IF Letter(i) \in {"h", "l", "L", "z", "j", "t"} THEN i + 1 ELSE i

PastLength(i) ==
    CASE Letter(i) \in {"h", "l"} -> IF Letter(i + 1) = Letter(i) THEN i + 2 ELSE i + 1
      [] Letter(i) \in {"L", "z", "j", "t"} -> i + 1
      [] OTHER -> i

Number(digits) ==
    FoldLeft(LAMBDA n, c : Word(n * 10 + (CHOOSE d \in 0..9 : Lower[d + 1] = c)), 0, digits)

(* Ordinary letters, and \% *)
Text ==
    /\ At("scan") /\ index <= Len(format)
    /\ \/ /\ Letter(index) = "\\" /\ Letter(index + 1) = "%"
          /\ todo' = <<"%">> /\ index' = index + 2
       \/ /\ Letter(index) # "%"
          /\ ~(Letter(index) = "\\" /\ Letter(index + 1) = "%")
          /\ todo' = <<Letter(index)>> /\ index' = index + 1
    /\ UNCHANGED <<input, args, pc, cv, numbers, stored, output>>

(* %, flags, width, precision (which is not used), length, type *)
Parse ==
    /\ At("scan") /\ Letter(index) = "%"
    /\ LET w == Past(FlagChars, index + 1)
           starred == Letter(w) = "*"
           p == IF starred THEN w + 1 ELSE Past(Decimals, w)
           l == IF Letter(p) = "." THEN Past(Decimals, p + 1) ELSE p
           t == PastLength(l)
       IN  /\ cv' = [type |-> Letter(t), length |-> SubSeq(format, l, t - 1),
                     width |-> IF starred THEN Head(args) % Size(IntBits)
                               ELSE Number(SubSeq(format, w, p - 1)),
                     flags |-> {format[i] : i \in index + 1 .. w - 1}]
           /\ args' = IF starred THEN Tail(args) ELSE args
           /\ index' = t + 1
    /\ pc' = "convert"
    /\ UNCHANGED <<input, numbers, todo, stored, output>>

Return ==
    /\ At("scan") /\ index > Len(format)
    /\ pc' = "done"
    /\ UNCHANGED <<input, args, index, cv, numbers, todo, stored, output>>

(* The end of a directive *)
NextDirective ==
    /\ pc' = "scan"
    /\ cv' = NoConversion
    /\ num' = 0 /\ val' = 1 /\ exp' = 0

(* %c, %s, %%; floating point and unknown types print nothing *)
ConvertText ==
    /\ At("convert") /\ cv.type \notin Int10 \cup UInt10 \cup Powers \cup {"n"}
    /\ CASE cv.type = "c" -> todo' = <<Head(args)>> /\ args' = Tail(args)
         [] cv.type = "s" -> todo' = Head(args) /\ args' = Tail(args)
         [] cv.type = "%" -> todo' = <<"%">> /\ UNCHANGED args
         [] OTHER -> UNCHANGED <<todo, args>>
    /\ NextDirective
    /\ UNCHANGED <<input, index, stored, output>>

(* %n *)
ConvertCount ==
    /\ At("convert") /\ cv.type = "n"
    /\ stored' = count
    /\ NextDirective
    /\ UNCHANGED <<input, args, index, todo, output>>

FetchedSigned ==
    IF cv.length \in IntLengths THEN Signed(Head(args) % Size(IntBits), IntBits)
    ELSE Signed(Head(args), WordBits)

\* Mutant: a sign is taken off a width of 0.
BeginNumberBelow(n, prefix, less) ==
    /\ num' = n /\ val' = 1 /\ exp' = 0
    /\ todo' = prefix
    /\ cv' = [cv EXCEPT !.width = @ - less]
    /\ args' = Tail(args)
    /\ pc' = "size"
    /\ UNCHANGED <<input, index, stored, output>>

BeginNumber(n, prefix, less) ==
    /\ num' = n /\ val' = 1 /\ exp' = 0
    /\ todo' = prefix
    /\ cv' = [cv EXCEPT !.width = IF @ < less THEN 0 ELSE @ - less]
    /\ args' = Tail(args)
    /\ pc' = "size"
    /\ UNCHANGED <<input, index, stored, output>>

(* %d and %i.  hh and h negate in int, which is undefined for the smallest.*)
ConvertSigned ==
    /\ At("convert") /\ cv.type \in Int10
    /\ LET n == FetchedSigned
           sign == CASE n < 0 -> <<"-">> [] "+" \in cv.flags -> <<"+">>
                     [] " " \in cv.flags -> <<" ">> [] OTHER -> <<>>
           small == cv.length \in {<<"h">>, <<"h", "h">>} /\ n = -Size(IntBits - 1)
       IN  \E m \in {IF n < 0 THEN -n ELSE n} \cup (IF small THEN {Word(n)} ELSE {}) :
              BeginNumber(m, sign, Len(sign))

(* %u *)
ConvertUnsigned ==
    /\ At("convert") /\ cv.type \in UInt10
    /\ BeginNumber(IF cv.length \in IntLengths THEN Head(args) % Size(IntBits) ELSE Head(args),
                   <<>>, 0)

(* %x, %X, %o and %b: int arguments are sign-extended *)
ConvertPowers ==
    /\ At("convert") /\ cv.type \in Powers
    /\ LET prefix == CASE "#" \notin cv.flags -> <<>>
                       [] cv.type = "o" -> <<"0">>
                       [] OTHER -> <<"0", cv.type>>
       IN  BeginNumber(Word(FetchedSigned), prefix,
                       IF cv.type = "b" /\ prefix # <<>> THEN 1 ELSE Len(prefix))

-----------------------------------------------------------------------------
\* The rest of a number conversion.  It leaves these alone in every round.
InNumber == UNCHANGED <<input, args, index, cv, stored, output>>

(* The first loop finds the number of digits: exp of them, val = base ^ exp. *)
DecimalRound ==
    /\ At("size") /\ cv.type \in Int10 \cup UInt10
    /\ exp' = Counted(exp)
    /\ val' = Word(val * 10)
    /\ pc' = IF val' > num THEN "pad" ELSE "size"
    /\ UNCHANGED <<num, todo>> /\ InNumber

PowerRound ==
    /\ At("size") /\ cv.type \in Powers
    /\ IF val < Limit(cv.type, binaryLimit)
       THEN /\ exp' = Counted(exp)
            /\ val' = Word(val * Base(cv.type))
            /\ pc' = IF val' > num THEN "top" ELSE "size"
       ELSE pc' = "top" /\ UNCHANGED <<exp, val>>
    /\ UNCHANGED <<num, todo>> /\ InNumber

(* The digit above the highest power the loop reaches is printed before    *)
(* the padding.                                                            *)
TopDigit ==
    /\ At("top")
    /\ IF val < num
       THEN /\ exp' = Counted(exp)
            /\ todo' = <<Glyph(cv.type, num \div val)>>
            /\ num' = num % val
       ELSE UNCHANGED <<exp, num, todo>>
    /\ pc' = "pad"
    /\ UNCHANGED val /\ InNumber

(* The padding on the left; exp counts it too.  The test for separators in *)
(* it is never true, because first is never cleared.                       *)
Pad ==
    /\ At("pad")
    /\ IF "-" \notin cv.flags /\ Signed(Word(cv.width - exp), WordBits) > 0
       THEN /\ todo' = <<IF "0" \in cv.flags THEN "0" ELSE " ">>
            /\ exp' = Counted(exp)
            /\ UNCHANGED pc
       ELSE IF cv.type \in {"o", "b"} /\ num = 0
            THEN todo' = <<"0">> /\ pc' = "tail" /\ UNCHANGED exp
            ELSE pc' = "digits" /\ UNCHANGED <<todo, exp>>
    /\ UNCHANGED <<num, val>> /\ InNumber

(* One digit; decimal ones are followed by a separator when exp, the number*)
(* of digits left, is a multiple of three.                                 *)
DigitRound ==
    /\ At("digits")
    /\ IF val > 1
       THEN LET v == val \div Base(cv.type)
                left == exp - 1
                separated == cv.type \in Int10 \cup UInt10 /\ "'" \in cv.flags
                                /\ left % 3 = 0 /\ left # 0
            IN  /\ val' = v
                /\ num' = num % v
                /\ todo' = <<Glyph(cv.type, num \div v)>> \o (IF separated THEN <<",">> ELSE <<>>)
                /\ exp' = IF cv.type \in Powers THEN exp ELSE left
                /\ UNCHANGED pc
       ELSE pc' = "tail" /\ UNCHANGED <<num, val, exp, todo>>
    /\ InNumber

\* Mutant: exp is counted down for octal and binary numbers as well.
AlignLeftEnding ==
    /\ At("tail")
    /\ IF "-" \in cv.flags /\ exp > 0
       THEN /\ todo' = <<" ">>
            /\ exp' = exp - 1
            /\ UNCHANGED <<pc, cv, num, val>>
       ELSE NextDirective /\ UNCHANGED todo
    /\ UNCHANGED <<input, args, index, stored, output>>

\* Mutant: exp is not counted down for hexadecimal numbers either.
AlignLeftEndless ==
    /\ At("tail")
    /\ IF "-" \in cv.flags /\ exp > 0
       THEN todo' = <<" ">> /\ UNCHANGED <<pc, cv, num, val, exp>>
       ELSE NextDirective /\ UNCHANGED todo
    /\ UNCHANGED <<input, args, index, stored, output>>

(* The blanks after a left-aligned number: only hexadecimal numbers count  *)
(* them down.                                                              *)
AlignLeft ==
    /\ At("tail")
    /\ IF "-" \in cv.flags /\ exp > 0
       THEN /\ todo' = <<" ">>
            /\ exp' = IF cv.type \in {"x", "X"} THEN exp - 1 ELSE exp
            /\ UNCHANGED <<pc, cv, num, val>>
       ELSE NextDirective /\ UNCHANGED todo
    /\ UNCHANGED <<input, args, index, stored, output>>

Program ==
    \/ Text \/ Parse \/ Return
    \/ ConvertText \/ ConvertCount
    \/ ConvertSigned \/ ConvertUnsigned \/ ConvertPowers
    \/ DecimalRound \/ PowerRound \/ TopDigit \/ Pad \/ DigitRound \/ AlignLeft
    \/ TerminalWrite \/ SerialWrite

Next == Program \/ Transmit

(* One thread runs printf to its end, and the serial port sends what it    *)
(* holds.                                                                  *)
Spec == Init /\ [][Next]_vars /\ WF_vars(Program) /\ WF_vars(Transmit)

-----------------------------------------------------------------------------
(***************************************************************************)
(* What the author of a call means.                                        *)
(***************************************************************************)
IsNumber(item) == item.type \in Int10 \cup UInt10 \cup Powers

Value(item) ==
    LET bits == IF item.length \in IntLengths THEN IntBits ELSE WordBits
        n == item.arg % Size(bits)
    IN  IF item.type \in Int10 THEN Signed(n, bits) ELSE n
Magnitude(item) == IF Value(item) < 0 THEN -Value(item) ELSE Value(item)

Separated(letters) ==
    FlattenSeq([i \in DOMAIN letters |->
        IF (Len(letters) - i) % 3 = 0 /\ i # Len(letters) THEN <<letters[i], ",">>
                                                          ELSE <<letters[i]>>])

Prefix(item) ==
    (CASE item.type \notin Int10 -> <<>> [] Value(item) < 0 -> <<"-">>
       [] "+" \in item.flags -> <<"+">> [] " " \in item.flags -> <<" ">> [] OTHER -> <<>>)
    \o (CASE item.type \notin Powers \/ "#" \notin item.flags -> <<>>
          [] item.type = "o" -> <<"0">> [] OTHER -> <<"0", item.type>>)

Body(item) ==
    LET digits == Digits(Magnitude(item), Base(item.type))
        letters == [i \in DOMAIN digits |->
                       (IF item.type = "X" THEN Upper ELSE Lower)[digits[i] + 1]]
    IN  IF item.type \in Int10 \cup UInt10 /\ "'" \in item.flags THEN Separated(letters)
        ELSE letters

\* Sign or prefix, then the padding, whichever letter it is made of, then digits.
Meant(item) ==
    CASE item.type \in {"text", "c"} -> <<item.arg>>
      [] item.type = "s" -> item.arg
      [] item.type = "%" -> <<"%">>
      [] IsNumber(item) ->
            LET rest == Prefix(item) \o Body(item)
            IN  Prefix(item)
                \o [i \in 1 .. item.width - Len(rest) |-> IF "0" \in item.flags THEN "0" ELSE " "]
                \o Body(item)
      [] OTHER -> <<>>

Top(base) ==     \* the largest power of base in a word
    base ^ (CHOOSE k \in 1..WordBits : base ^ k < Size(WordBits) /\ base ^ (k + 1) >= Size(WordBits))

(* The directives that are printed as meant.  The others: left alignment;  *)
(* a precision; numbers for which the powers overflow, and the one that is *)
(* the highest power; padding after a leading digit, after 0b and between  *)
(* separators; negative ints in hexadecimal, octal or binary.              *)
AsMeant(item) ==
    LET n == Magnitude(item)
        fits == item.width =< Len(Prefix(item) \o Body(item))
    IN  IF ~IsNumber(item) THEN item.type \notin Float
        ELSE /\ "-" \notin item.flags
             /\ item.precision = <<>>
             /\ item.type \in Int10 \cup UInt10 =>
                  n < Top(10) /\ ("'" \in item.flags => item.width =< Len(Digits(n, 10)))
             /\ item.type \in Powers /\ item.length \in IntLengths => n < Size(IntBits - 1)
             /\ item.type \in {"x", "X", "o"} /\ n >= Top(Base(item.type)) =>
                  n % Top(Base(item.type)) # 0 /\ fits
             /\ item.type = "b" =>
                  /\ IF binaryLimit = 0 THEN n = 0 /\ item.width = 0 ELSE n < Top(2)
                  /\ "#" \in item.flags => item.width < Len(Prefix(item) \o Body(item))

(* Directives in which a loop never ends: powers of ten that never exceed  *)
(* the number modulo the word; a power of two that must exceed the highest *)
(* bit; the blanks after octal and binary numbers.  A number may also be   *)
(* exceeded by a power of ten that wrapped: val then has fewer digits than *)
(* exp counts, and the blanks after a decimal never end either.  As a word *)
(* is less than twice the largest power of ten, no such power begins with  *)
(* another digit than 1, and val ends at 1, not at 0.                      *)
PowerOfTen[k \in 0..WordBits] == IF k = 0 THEN 1 ELSE Word(10 * PowerOfTen[k - 1])

Endless(item) ==
    LET n == IF item.length \in IntLengths THEN Word(Signed(item.arg % Size(IntBits), IntBits))
             ELSE item.arg
    IN  \/ /\ item.type \in Int10 \cup UInt10
           /\ \/ \A k \in 1..WordBits : PowerOfTen[k] =< Magnitude(item)
              \/ "-" \in item.flags /\ Magnitude(item) >= Top(10)
        \/ item.type = "o" /\ "-" \in item.flags
        \/ /\ item.type = "b" /\ binaryLimit = 0
           /\ n > 1 /\ "-" \in item.flags
        \/ /\ item.type = "b" /\ binaryLimit # 0
           /\ n >= Top(2) \/ "-" \in item.flags

\* Negating the smallest int is undefined.
Undefined(item) ==
    /\ item.type \in Int10 /\ item.length \in {<<"h">>, <<"h", "h">>}
    /\ Value(item) = -Size(IntBits - 1)

-----------------------------------------------------------------------------
TypeOK ==
    /\ pc \in {"scan", "convert", "size", "top", "pad", "digits", "tail", "done"}
    /\ index \in 1 .. Len(format) + 2
    /\ \A n \in {num, val, cv.width} : n \in 0 .. Size(WordBits) - 1
    /\ exp \in 0..MaxOutput /\ count \in 0..MaxOutput /\ stored \in -1..MaxOutput
    /\ waiting => todo # <<>>
    /\ Len(hold) =< 1

(* The serial port sends what is on the screen, in the same order and with *)
(* nothing lost, however slow it is (putchar.c:11-12, serial.c:22-26).     *)
SerialEchoes ==
    screen = Kept(Kept(line, hold), IF waiting THEN <<Head(todo)>> ELSE <<>>)

(* printf prints each directive as its author means it, at its place and   *)
(* with its own argument (printf.c:44-654).                                *)
PrintedAsMeant ==
    pc = "done" /\ (\A i \in DOMAIN call : AsMeant(call[i])) =>
        screen = FlattenSeq([i \in DOMAIN call |-> Meant(call[i])])

(* A call with an endless directive never returns (printf.c:333-339,       *)
(* 364-368, 431-435, 568-572, 591-597, 625-629), ...                       *)
EndlessStays == pc = "done" => \A i \in DOMAIN call : ~Endless(call[i])

(* ... and every other call does: no other loop is endless.                *)
Returns ==
    (pc = "scan" /\ \A i \in DOMAIN call : ~Endless(call[i]) /\ ~Undefined(call[i]))
        ~> pc = "done"
=============================================================================
