------------------------------- MODULE Bytes -------------------------------
(***************************************************************************)
(* What the codecs use of Python's bytes and int.  A byte is a number, a   *)
(* text the sequence of its codes, and an index counts from 1: where the   *)
(* code's find() answers -1, Find answers 0.                               *)
(***************************************************************************)
EXTENDS Integers, Sequences, SequencesExt, FiniteSetsExt

CONSTANT FieldValue     \* whatever a field of a message may be given

Octet == 0..255

\* The objects of type bytes.
Octets == Seq(Octet)

SPACE == 32
NUL == 0
EQ == 61
MINUS == 45
SOH == 1

Whitespace == {SPACE} \union 9..13 \union 28..31

\* bytes.find(b, from) of a single byte.
Find(s, b, from) ==
    LET at == {i \in from..Len(s) : s[i] = b} IN IF at = {} THEN 0 ELSE Min(at)

\* The slices s[:i] and s[i:].
Prefix(s, i) == SubSeq(s, 1, IF i < Len(s) THEN i ELSE Len(s))
From(s, i) == SubSeq(s, i + 1, Len(s))

\* A bound of a slice that is negative counts from the end.
Bound(s, i) == IF i >= 0 THEN i ELSE Max({0, Len(s) + i})

Strip(s, blanks) ==
    LET kept == {i \in DOMAIN s : s[i] \notin blanks}
    IN  IF kept = {} THEN <<>> ELSE SubSeq(s, Min(kept), Max(kept))

Spaces(n) == IF n <= 0 THEN <<>> ELSE [i \in 1..n |-> SPACE]
Ljust(s, width) == s \o Spaces(width - Len(s))
Rjust(s, width) == Spaces(width - Len(s)) \o s

Ascii(s) == \A i \in DOMAIN s : s[i] \in 0..127

\* sep.join(parts)
Join(parts, sep) ==
    FlattenSeq([i \in DOMAIN parts |-> IF i = 1 THEN parts[i] ELSE sep \o parts[i]])

\* int() of a text: only decimal digits, and a sign in front of them, are a number.
IsNumber(s) == s # <<>> /\ \A i \in DOMAIN s : s[i] \in 48..57

\* The value of the digits s, where zero is written for 0.
Positional(base, zero, s) ==
    LET value[i \in 0..Len(s)] == IF i = 0 THEN 0 ELSE base * value[i - 1] + (s[i] - zero)
    IN  value[Len(s)]

Number(s) == Positional(10, 48, s)
Total(s) == Positional(1, 0, s)

\* str() of a natural number.
Decimal(n) ==
    LET digits[k \in 0..n] ==
            IF k < 10 THEN <<48 + k>> ELSE Append(digits[k \div 10], 48 + (k % 10))
    IN  digits[n]

Signed(n) == IF n < 0 THEN <<MINUS>> \o Decimal(-n) ELSE Decimal(n)
IsInteger(s) == IsNumber(s) \/ (s # <<>> /\ s[1] = MINUS /\ IsNumber(Tail(s)))
Integer(s) == IF s[1] = MINUS THEN -Number(Tail(s)) ELSE Number(s)

\* The text without leading zeros: str(int(text)), at any length.
Canonical(s) ==
    LET kept == {i \in DOMAIN s : s[i] # 48 \/ i = Len(s)} IN From(s, Min(kept) - 1)

=============================================================================
