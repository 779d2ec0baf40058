----------------------------- MODULE AwkFormat -----------------------------
(***************************************************************************)
(* awk-src/run.c: format(), the text printf makes of its arguments.  A     *)
(* format is letters that stand for themselves and items: flags, a width,  *)
(* a precision and a letter; an asterisk in one is an argument.  A letter  *)
(* of a text is a place in it, of one byte or of several.                  *)
(***************************************************************************)
EXTENDS AwkCells

Percent == 37
Dot == 46
Star == 42

Letters(s) == RunesAt(s, 1)
Cut(s, from, n) == FlattenSeq(SubSeq(Letters(s), from, from + n - 1))
Within(n, lo, hi) == IF n < lo THEN lo ELSE IF n > hi THEN hi ELSE n

Encode(c) ==
    CASE c < 128 -> <<c % 256>>
      [] c > 1114111 -> <<239, 191, 189>>
      [] c \in 128..2047 -> <<192 + (c \div 64), 128 + (c % 64)>>
      [] c \in 2048..65535 -> <<224 + (c \div 4096), 128 + ((c \div 64) % 64), 128 + (c % 64)>>
      [] c \in 65536..1114111 -> <<240 + (c \div 262144), 128 + ((c \div 4096) % 64), 128 + ((c \div 64) % 64), 128 + (c % 64)>>
FlagChars == {Minus, Plus, Space, 48}
SizeChars == {104, 106, 76, 108, 113, 116, 122}
RECURSIVE PastFlags(_, _)
PastFlags(s, i) == IF At(s, i) \in FlagChars THEN PastFlags(s, i + 1) ELSE i
\* An item that is written out, as the C library reads it.
Sized1(s, i, wide) ==
    [flags |-> {s[k] : k \in 1..(i - 1)}, wid |-> wide.c,
     prec |-> IF At(s, wide.at) = Dot THEN Number(s, wide.at + 1, 9, Digit, 10).c ELSE -1]
ItemFrom(s, i) == Sized1(s, i, Number(s, i, 9, Digit, 10))
Item(s) == ItemFrom(s, PastFlags(s, 1))
Repeated(c, n) == IF n < 1 THEN <<>> ELSE [k \in 1..n |-> c]
PaddedBy(left, s, pad) == IF left THEN s \o pad ELSE pad \o s
Padded(item, s, len) == PaddedBy(Minus \in item.flags, s, Repeated(Space, item.wid - len))
\* A number: its sign, at least so many digits, zeros instead of blanks.
SignOf(flags, n) ==
    CASE n < 0 -> <<Minus>>
      [] n >= 0 /\ Plus \in flags -> <<Plus>>
      [] n >= 0 /\ Plus \notin flags /\ Space \in flags -> <<Space>>
      [] OTHER -> <<>>
Whole1(item, s) == Padded(item, s, Len(s))
Spelt(item, sign, digits) ==
    Whole1(item,
           sign \o Repeated(48, (IF item.prec = -1 /\ 48 \in item.flags /\ Minus \notin item.flags THEN item.wid - Len(sign) ELSE item.prec)
                                 - Len(digits))
                \o (IF item.prec = 0 /\ digits = <<48>> THEN <<>> ELSE digits))
RECURSIVE InBase(_, _)
DigitOf(d) == IF d < 10 THEN 48 + d ELSE 87 + d
InBase(n, base) == Append(IF n < base THEN <<>> ELSE InBase(n \div base, base), DigitOf(n % base))
Magnitude(n) == IF n < 0 THEN -n ELSE n
Clipped(s, prec) == IF prec = -1 \/ prec > Len(s) THEN s ELSE SubSeq(s, 1, prec)
HasUtf8(s) == \E i \in DOMAIN s : U8Len(s, i) > 1

\* What an item makes of a cell.  A text with letters of several bytes is
\* padded and cut by letters, another by bytes; 65 as a character is A.
CutTo(item, s, n) == Padded(item, Cut(s, 1, n), n)
InLetters(item, s, n) == CutTo(item, s, IF item.prec = -1 THEN n ELSE Within(item.prec, 0, n))
Text(item, s) ==
    IF HasUtf8(s) THEN InLetters(item, s, Len(Letters(s))) ELSE Whole1(item, Clipped(s, item.prec))
Character(item, s) == Padded(item, s, IF item.prec = 0 /\ Len(s) > 1 THEN 0 ELSE 1)
FirstLetter(item, s) ==
    CASE s # <<>> -> Character(item, Letters(s)[1])
      [] s = <<>> /\ Minus \notin item.flags -> Repeated(Space, item.wid - 1)
      [] OTHER -> <<>>
Decimals == {100, 105}
Bases == 111 :> 8 @@ 120 :> 16
Conversions == Decimals \cup DOMAIN Bases \cup {115, 99}
Fractions == {97, 65, 102, 101, 103, 69, 71}
Printed(item, letter, c) ==
    CASE letter \in Decimals -> Spelt(item, SignOf(item.flags, c.n), Decimal(Magnitude(c.n)))
      [] letter \in DOMAIN Bases -> Spelt(item, <<>>, InBase(c.n, Bases[letter]))
      [] letter = 115 -> Text(item, c.s)
      [] letter = 99 /\ "NUM" \in c.t -> IF c.n = 0 THEN <<0>> ELSE Character(item, Encode(c.n))
      [] OTHER -> FirstLetter(item, c.s)

\* The parts of a format, and how their arguments are taken.
RECURSIVE Parts(_, _), ItemAt(_, _, _)
Alpha(c) == c \in UpperCase \cup LowerCase
Literal(c) == [item |-> FALSE, spec |-> <<c>>, letter |-> 0]
Parts(s, i) ==
    CASE At(s, i) = 0 -> <<>>
      [] At(s, i) = Percent /\ At(s, i + 1) = Percent -> <<Literal(Percent)>> \o Parts(s, i + 2)
      [] At(s, i) = Percent /\ At(s, i + 1) # Percent -> ItemAt(s, i + 1, <<>>)
      [] OTHER -> <<Literal(s[i])>> \o Parts(s, i + 1)
ItemEnd(s, i, spec) == <<[item |-> TRUE, spec |-> spec, letter |-> At(s, i)]>> \o (IF At(s, i) \in {0, Dollar} THEN <<>> ELSE Parts(s, i + 1))
ItemAt(s, i, spec) ==
    CASE At(s, i) \in SizeChars -> ItemAt(s, i + 1, spec)
      [] At(s, i) \notin SizeChars /\ (Alpha(At(s, i)) \/ At(s, i) \in {0, Dollar}) -> ItemEnd(s, i, spec)
      [] OTHER -> ItemAt(s, i + 1, Append(spec, s[i]))
Stars(spec) == SelectSeq(spec, LAMBDA c : c = Star)
ModesOf(part) ==
    CASE ~part.item -> <<>>
      [] part.item /\ part.letter = Dollar -> [k \in DOMAIN Stars(part.spec) |-> "number"]
      [] OTHER -> Append([k \in DOMAIN Stars(part.spec) |-> "number"],
                         CASE part.letter \in Decimals \cup DOMAIN Bases -> "number" [] part.letter = 99 -> "value" [] OTHER -> "text")
Modes(parts) == FlattenSeq([k \in DOMAIN parts |-> ModesOf(parts[k])])
\* What is behind the last item is executed, and not printed.
Formats(args, modes) == [k \in DOMAIN args |-> <<args[k], IF k <= Len(modes) THEN modes[k] ELSE "cell">>]
Starred(spec, cells) ==
    FlattenSeq([k \in DOMAIN spec |-> IF spec[k] = Star THEN Decimal(cells[Len(Stars(SubSeq(spec, 1, k)))].n) ELSE <<spec[k]>>])
RECURSIVE Formatted(_, _, _)
Shown(part, cells) ==
    CASE ~part.item -> part.spec
      [] part.item /\ part.letter \in Conversions -> Printed(Item(Starred(part.spec, cells)), part.letter, Last(cells))
      [] OTHER -> <<Percent>> \o Starred(part.spec, cells) \o <<part.letter>> \o Last(cells).s
FormatPart(parts, cells, n, out) == Formatted(Tail(parts), SubSeq(cells, n + 1, Len(cells)), out \o Shown(parts[1], SubSeq(cells, 1, n)))
Formatted(parts, cells, out) == IF parts = <<>> THEN out ELSE FormatPart(parts, cells, Len(ModesOf(parts[1])), out)
=============================================================================
