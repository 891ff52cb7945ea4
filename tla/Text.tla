-------------------------------- MODULE Text --------------------------------
(***************************************************************************)
(* Strings and numbers as text: kernel/string.c (library/string.c has the  *)
(* same functions), kernel/printf.c and kernel/is_valid.c.  A character is *)
(* its code, a string the sequence of its characters without the null at   *)
(* its end.  Loops are recursive functions.  Integers have Bits bits: what *)
(* overflows at 32 bits overflows in the same way at 12.  A step is one    *)
(* call on one input; its result is compared with a reference.             *)
(***************************************************************************)
EXTENDS Integers, Sequences, FiniteSets

CONSTANTS
  Bits,        \* the width of an int
  Char,        \* the characters of strings
  Length,      \* bound: the length of strings
  Pair,        \* bound: the length of strings that are compared
  Format,      \* the characters of a format string
  Functions    \* the functions to be called

TextAssumption == Bits \in {12, 16} /\ Char \subseteq 1..255 
                         /\ Length \in Nat /\ Pair \in 0..Length

Word == 2^Bits
MaxInt == (Word \div 2) - 1
MinInt == -(Word \div 2)
Wrapped(n) == LET u == n % Word IN IF u > MaxInt THEN u - Word ELSE u

Strings(n) == UNION {[1..m -> Char] : m \in 0..n}
Zero == 48
\* A char is signed; past its end a string has a null.
Signed(c) == IF c >= 128 THEN c - 256 ELSE c
At(s, i) == IF i <= Len(s) THEN Signed(s[i]) ELSE 0

-----------------------------------------------------------------------------
(* Comparison *)

\* strcmp.  Mutant: the end of the first string is the end.
strcmp_Prefix(a, b) ==
  LET F[i \in 1..(Pair + 1)] == IF At(a, i) = 0 THEN 0
                                ELSE IF At(a, i) < At(b, i) THEN -1
                                ELSE IF At(a, i) > At(b, i) THEN 1 ELSE F[i + 1]
  IN  F[1]
strcmp(a, b) ==
  LET F[i \in 1..(Pair + 1)] == IF At(a, i) < At(b, i) THEN -1
                                ELSE IF At(a, i) > At(b, i) THEN 1
                                ELSE IF At(a, i) = 0 THEN 0 ELSE F[i + 1]
  IN  F[1]
strncmp(a, b, length) ==
  LET F[i \in 1..(Pair + 2)] == IF i > length THEN 0
                                ELSE IF At(a, i) < At(b, i) THEN -1
                                ELSE IF At(a, i) > At(b, i) THEN 1
                                ELSE IF At(a, i) = 0 THEN 0 ELSE F[i + 1]
  IN  F[1]

-----------------------------------------------------------------------------
(* Numbers *)

Digit(d) == Signed((Zero + d) % 256)

\* The second loop of printf_putuint, printf_putint and uint_to_string: the digits of n, the
\* first being that of f.
Digits(n, f) ==
  LET F[g \in 0..Word] == IF g = 0 THEN <<>>
                          ELSE <<Digit((n \div g) % (IF g = f THEN Word ELSE 10))>> \o F[g \div 10]
  IN  F[f]
\* Their first loop.
Factor(n) == LET F[f \in 1..Word] == IF n \div f >= 10 THEN F[f * 10] ELSE f IN F[1]

printf_putuint(u) == Digits(u, Factor(u))
\* The least number is its own negation, and C's division cuts towards zero: its one digit is
\* the low byte of what comes out.
printf_putint(i) ==
  IF i >= 0 THEN Digits(i, Factor(i))
  ELSE IF i = MinInt THEN <<45, Digit(MinInt)>>
  ELSE <<45>> \o Digits(-i, Factor(-i))

puthexdigit(i) == IF i < 10 THEN Zero + i ELSE 97 + i - 10
printf_puthex(i) ==
  [j \in 1..(Bits \div 4) |-> puthexdigit((i \div 16^((Bits \div 4) - j)) % 16)]

\* The first loop of uint_to_string multiplies before it divides; the factor may wrap to 0.
UintFactor(u) ==
  LET F[f \in 0..Word] == LET g == (f * 10) % Word
                          IN  IF g = 0 THEN 0 ELSE IF u \div g > 0 THEN F[g] ELSE f
  IN  F[1]
\* <<-1>> for a division by zero.  Each digit is u / f, u becoming u % f.
uint_to_string(u) ==
  LET F[f \in 0..Word, n \in 0..Word] ==
        IF f = 0 THEN <<>> ELSE <<Digit(n \div f)>> \o F[f \div 10, n % f]
  IN  IF UintFactor(u) = 0 THEN <<-1>> ELSE F[UintFactor(u), u]

\* str2int: no number when a character is no digit, and the number modulo the width.
str2int(s) == IF \A i \in DOMAIN s : s[i] \in Zero..(Zero + 9)
              THEN LET F[i \in 0..Len(s)] ==
                         IF i = 0 THEN 0 ELSE Wrapped((F[i - 1] * 10) + s[i] - Zero)
                   IN  <<F[Len(s)]>>
              ELSE <<>>

\* The reference: s is the decimal form of n, without a zero in front.
Decimal(s, n) ==
  LET V[i \in 0..Len(s)] == IF i = 0 THEN 0 ELSE (V[i - 1] * 10) + s[i] - Zero
  IN  /\ s # <<>> /\ Len(s) <= 9 /\ \A i \in DOMAIN s : s[i] \in Zero..(Zero + 9)
      /\ V[Len(s)] = n /\ (Len(s) > 1 => s[1] # Zero)

-----------------------------------------------------------------------------
(* printf *)

\* What printf puts out for the format: a character as it is, or the n-th argument as a
\* conversion.  Mutant: a second percent sign begins a conversion again.
Conversion == {"d", "u", "x", "s", "c"}
printf_Percent(s) ==
  LET F[i \in 1..(Len(s) + 2), n \in 0..Len(s)] ==
        IF i > Len(s) THEN <<>>
        ELSE IF s[i] # "%" THEN <<<<s[i], 0>>>> \o F[i + 1, n]
        ELSE IF i = Len(s) THEN <<>>
        ELSE IF s[i + 1] = "%" THEN <<<<"%", 0>>>> \o F[i + 1, n]
        ELSE IF s[i + 1] \in Conversion THEN <<<<s[i + 1], n + 1>>>> \o F[i + 2, n + 1]
        ELSE <<<<s[i + 1], 0>>>> \o F[i + 2, n]
  IN  F[1, 0]
printf(s) ==
  LET F[i \in 1..(Len(s) + 2), n \in 0..Len(s)] ==
        IF i > Len(s) THEN <<>>
        ELSE IF s[i] # "%" THEN <<<<s[i], 0>>>> \o F[i + 1, n]
        ELSE IF i = Len(s) THEN <<>>
        ELSE IF s[i + 1] \in Conversion THEN <<<<s[i + 1], n + 1>>>> \o F[i + 2, n + 1]
        ELSE <<<<s[i + 1], 0>>>> \o F[i + 2, n]
  IN  F[1, 0]

\* The reference: a percent sign begins a conversion when an even number of them is right
\* before it, and every other place that no conversion takes is a character of its own.
Before(s, i) == {j \in 1..(i - 1) : \A m \in j..(i - 1) : s[m] = "%"}
Begins(s, i) == s[i] = "%" /\ Cardinality(Before(s, i)) % 2 = 0
Converts(s) == {i \in 1..Len(s) : i > 1 /\ Begins(s, i - 1) /\ s[i] \in Conversion}
Shown(s) == {i \in 1..Len(s) : ~Begins(s, i)}

-----------------------------------------------------------------------------
(* Names *)

\* The test of one character; a tag and a path differ in the characters below a digit.
Allowed(c, least) ==
  ~(c < least \/ (c > 57 /\ c < 65) \/ (c > 90 /\ c < 95) \/ (c > 95 /\ c < 97) \/ c > 122)
is_valid_path(s) == \A i \in DOMAIN s : Allowed(Signed(s[i]), 45)
is_valid_tag(s) == \A i \in DOMAIN s : Allowed(Signed(s[i]), 48)
\* Cut at the first colon; without one the path is read behind the end of the copy ("fault").
is_valid_location(s) ==
  IF \A i \in DOMAIN s : s[i] # 58 THEN (IF is_valid_tag(s) THEN "fault" ELSE FALSE)
  ELSE LET i == CHOOSE k \in DOMAIN s : s[k] = 58 /\ \A j \in 1..(k - 1) : s[j] # 58
       IN  is_valid_tag(SubSeq(s, 1, i - 1)) /\ is_valid_path(SubSeq(s, i + 1, Len(s)))

-----------------------------------------------------------------------------
VARIABLE call      \* the call that was made: [f, arg, out]
vars == <<call>>
None == [f |-> "none", arg |-> <<>>, out |-> <<>>]
Init == call = None
Call(f, arg, out) == call' = [f |-> f, arg |-> arg, out |-> out]
May(f) == call = None /\ f \in Functions

Compare == May("strcmp") /\ \E a, b \in Strings(Pair) :
             Call("strcmp", <<a, b>>, <<strcmp(a, b), [n \in 0..(Pair + 1) |-> strncmp(a, b, n)]>>)
PutUint == May("putuint") /\ \E u \in 0..(Word - 1) : Call("putuint", u, printf_putuint(u))
PutInt == May("putint") /\ \E i \in MinInt..MaxInt : Call("putint", i, printf_putint(i))
PutHex == May("puthex") /\ \E u \in 0..(Word - 1) : Call("puthex", u, printf_puthex(u))
ToString == May("uint_to_string") /\ \E u \in 0..(Word - 1) : Call("uint_to_string", u, uint_to_string(u))
ToInt == May("str2int") /\ \E s \in Strings(Length) : Call("str2int", s, str2int(s))
Printf == May("printf") /\ \E n \in 0..Length : \E s \in [1..n -> Format] : Call("printf", s, printf(s))
Validate == May("is_valid") /\ \E s \in Strings(Length) :
              Call("is_valid", s, <<is_valid_path(s), is_valid_tag(s), is_valid_location(s)>>)
Return == call # None /\ call' = None
Next ==
  \/ Compare \/ PutUint \/ PutInt \/ PutHex \/ ToString \/ ToInt \/ Printf \/ Validate \/ Return
Spec == Init /\ [][Next]_vars

TypeOK == /\ call.f \in Functions \cup {"none"}
          /\ call.f = "strcmp" => call.out[1] \in -1..1
          /\ call.f = "str2int" => Len(call.out) <= 1

Is(f, P(_, _)) == call.f = f => P(call.arg, call.out)

\* strcmp orders strings by their first different character, an end before every other
\* character, and finds only equal strings equal; strncmp is strcmp of the first characters.
CompareRight ==
  Is("strcmp", LAMBDA arg, out :
    LET a == arg[1]
        b == arg[2]
        \* The first place where the two differ.
        d == {i \in 1..(Pair + 1) : At(a, i) # At(b, i) /\ \A j \in 1..(i - 1) : At(a, j) = At(b, j)}
    IN  /\ (out[1] = 0) = (a = b)
        /\ \A i \in d : out[1] = IF At(a, i) < At(b, i) THEN -1 ELSE 1
        /\ \A n \in 0..(Pair + 1) : out[2][n] = IF \E i \in d : i <= n THEN out[1] ELSE 0)

\* What printf writes for a number is its decimal form: for every number without a sign, and
\* for every number with one but the least (printf_putuint, printf_putint); what
\* uint_to_string writes is, below the first power of ten that wraps.
UintLimit == LET k == CHOOSE k \in 1..9 : 10^k >= Word /\ 10^(k - 1) < Word IN 10^k % Word
DecimalRight ==
  /\ Is("putuint", LAMBDA u, out : Decimal(out, u))
  /\ Is("uint_to_string", LAMBDA u, out : u < UintLimit => Decimal(out, u))
  /\ Is("putint", LAMBDA i, out : i >= 0 => Decimal(out, i))
  /\ Is("putint", LAMBDA i, out : i < 0 /\ i # MinInt => Head(out) = 45 /\ Decimal(Tail(out), -i))

\* Two numbers are not written alike in hexadecimal: the text gives the number back.
HexRight ==
  Is("puthex", LAMBDA u, out :
    LET value(c) == IF c < 97 THEN c - Zero ELSE c - 87
        V[i \in 0..Len(out)] == IF i = 0 THEN 0 ELSE (V[i - 1] * 16) + value(out[i])
    IN  V[Len(out)] = u)

\* The text that printf writes for a number is read as that number, and a text with a
\* character that is no digit is refused (str2int).
ParseRight ==
  /\ Is("putint", LAMBDA i, out : i >= 0 => str2int(out) = <<i>>)
  /\ Is("str2int", LAMBDA s, out :
       (out = <<>>) = \E i \in DOMAIN s : s[i] \notin Zero..(Zero + 9))

\* printf takes an argument for each conversion of its format, in their order, and shows
\* everything else as it is: no argument is taken twice or left for a later conversion.
PrintfRight ==
  Is("printf", LAMBDA s, out :
    /\ Len(out) = Cardinality(Shown(s))
    /\ \A i \in Shown(s) :
         LET at == Cardinality({j \in Shown(s) : j <= i})
         IN  out[at] = <<s[i], IF i \in Converts(s) THEN Cardinality({j \in Converts(s) : j <= i}) ELSE 0>>)

\* The paths that system calls accept are those of the table in is_valid.c: the hyphen, the
\* dot, the slash, the digits, the letters and the underscore.  A tag has no hyphen, dot or
\* slash; it may have the underscore that its table does not list.
PathRight ==
  Is("is_valid", LAMBDA s, out :
    LET over(least) == \A i \in DOMAIN s : s[i] \in least..57 \cup 65..90 \cup {95} \cup 97..122
    IN  out[1] = over(45) /\ out[2] = over(48))
=============================================================================
