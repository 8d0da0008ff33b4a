-------------------------- MODULE Transformations --------------------------
(***************************************************************************)
(* The transformations (t:...) a rule applies to a value before it tests   *)
(* it, as functions on sequences of bytes.  A transformation returns its   *)
(* new value, what it tells its caller (did the value change), and for the *)
(* ones that write over their own input whether the writing ever got ahead *)
(* of the reading.                                                         *)
(***************************************************************************)
EXTENDS Integers, Sequences, FiniteSets, TLC

Byte == 0..255

(* Bytes with a name. *)
Ch == [nul |-> 0, tab |-> 9, newline |-> 10, space |-> 32, bang |-> 33,
       doublequote |-> 34, hash |-> 35, percent |-> 37, amp |-> 38, quote |-> 39,
       paren |-> 40, star |-> 42, plus |-> 43, comma |-> 44, dash |-> 45,
       dot |-> 46, slash |-> 47, semicolon |-> 59, less |-> 60, greater |-> 62,
       backslash |-> 92, caret |-> 94, u |-> 117, x |-> 120]

IsDigit(c)   == c \in 48..57
IsUpper(c)   == c \in 65..90
IsLower(c)   == c \in 97..122
IsAlnum(c)   == IsDigit(c) \/ IsUpper(c) \/ IsLower(c)
IsSpace(c)   == c \in 9..13 \cup {Ch.space}
tolower(c)   == IF IsUpper(c) THEN c + 32 ELSE c
toupper(c)   == IF IsLower(c) THEN c - 32 ELSE c

VALID_HEX(c) == IsDigit(c) \/ c \in 65..70 \/ c \in 97..102
ISODIGIT(c)  == c \in 48..55

(* The value of a hexadecimal digit; any other byte gets a value too.      *)
xsingle2c(c) ==
    (IF c >= 65 THEN (IF (c \div 32) % 2 = 1 THEN c - 32 ELSE c) - 55
                ELSE c - 48) % 256

x2c(high, low) == (16 * xsingle2c(high) + xsingle2c(low)) % 256

HexDigit(n) == IF n < 10 THEN 48 + n ELSE 87 + n
c2x(c) == <<HexDigit(c \div 16), HexDigit(c % 16)>>

-----------------------------------------------------------------------------
(* Two ways to walk over a value.                                          *)

(* What one round of a decoder does: the bytes it eats, the bytes it       *)
(* writes, and whether it notes a change.                                  *)
Puts(n, s) == [eat |-> n, out |-> s, told |-> TRUE]
Copies(in, i, n) == [eat |-> n, out |-> SubSeq(in, i, i + n - 1), told |-> FALSE]

(* The decoders: rounds until the input is eaten.  A round that writes     *)
(* more than it eats would write over what is still to be read.            *)
Rewrite(in, Round(_, _)) ==
    LET rest[i \in 1..Len(in) + 1] ==
          IF i > Len(in) THEN [out |-> << >>, told |-> FALSE, ahead |-> FALSE]
          ELSE LET r == Round(in, i)
                   s == rest[i + r.eat]
               IN  [out   |-> r.out \o s.out,
                    told  |-> r.told \/ s.told,
                    ahead |-> Len(r.out) > r.eat \/ s.ahead]
    IN  rest[1]

(* The filters: one state, carried from byte to byte.                      *)
Carry(in, first, Round(_, _)) ==
    LET after[i \in 0..Len(in)] ==
          IF i = 0 THEN first ELSE Round(after[i - 1], in[i])
    IN  after[Len(in)]

Result(out, told) == [out |-> out, told |-> told, ahead |-> FALSE]

Keep(in, Good(_)) == SelectSeq(in, Good)
EachByte(in, To(_))   == [i \in 1..Len(in) |-> To(in[i])]

-----------------------------------------------------------------------------
(* Percent, backslash and entity decoding.                                 *)

HexAt(in, first, n) ==
    first + n - 1 <= Len(in) /\ \A k \in first..first + n - 1 : VALID_HEX(in[k])

(* Mutant: a percent sign two bytes before the end is not looked at.       *)
MutUrlRound(in, i) ==
    CASE in[i] = Ch.percent /\ i + 3 <= Len(in) /\ HexAt(in, i + 1, 2)
           -> Puts(3, <<x2c(in[i + 1], in[i + 2])>>)
      [] in[i] = Ch.plus -> Puts(1, <<Ch.space>>)
      [] OTHER        -> Copies(in, i, 1)

(* urldecode_nonstrict_inplace: what cannot be decoded, is copied.         *)
UrlRound(in, i) ==
    CASE in[i] = Ch.percent /\ HexAt(in, i + 1, 2)
           -> Puts(3, <<x2c(in[i + 1], in[i + 2])>>)
      [] in[i] = Ch.plus -> Puts(1, <<Ch.space>>)
      [] OTHER        -> Copies(in, i, 1)

urlDecode(in) == Rewrite(in, UrlRound)

(* uri_decode: no plus sign.                                               *)
UriRound(in, i) ==
    IF in[i] = Ch.plus THEN Copies(in, i, 1) ELSE UrlRound(in, i)

uri_decode(in) == Rewrite(in, UriRound).out

(* Four digits stand for the lower byte; full width ASCII is moved down.   *)
LowByte(d1, d2, d3, d4) ==
    LET low == x2c(d3, d4)
    IN  IF low \in 1..94 /\ {d1, d2} \subseteq {70, 102} THEN low + 32 ELSE low

CodeOf(d1, d2, d3, d4) == 256 * x2c(d1, d2) + x2c(d3, d4)

(* The code page of SecUnicodeMapFile, as far as the inputs reach it; a    *)
(* code that is not in it gives -1.                                        *)
m_unicodeMapTable == [code \in {CodeOf(102, 102, 52, 49)} |-> 98]

UniRound(in, i) ==
    LET code == CodeOf(in[i + 2], in[i + 3], in[i + 4], in[i + 5])
        uni  == in[i] = Ch.percent /\ i < Len(in) /\ tolower(in[i + 1]) = Ch.u
    IN  CASE uni /\ HexAt(in, i + 2, 4)
               -> Puts(6, <<IF code \in DOMAIN m_unicodeMapTable
                              THEN m_unicodeMapTable[code]
                              ELSE LowByte(in[i + 2], in[i + 3], in[i + 4], in[i + 5])>>)
          [] uni /\ ~HexAt(in, i + 2, 4) -> Copies(in, i, 2)
          [] OTHER                       -> UrlRound(in, i)

urlDecodeUni(in) == Rewrite(in, UniRound)

(* How many bytes of a kind follow, a limited number at most.              *)
RunOf(in, first, most, Good(_)) ==
    CHOOSE n \in 0..most :
        /\ \A k \in 0..n - 1 : first + k <= Len(in) /\ Good(in[first + k])
        /\ n < most => first + n > Len(in) \/ ~Good(in[first + n])

Octal(in, first, n) ==
    CASE n = 1 -> in[first] - 48
      [] n = 2 -> 8 * (in[first] - 48) + in[first + 1] - 48
      [] n = 3 -> (64 * (in[first] - 48) + 8 * (in[first + 1] - 48)
                     + in[first + 2] - 48) % 256

(* \a \b \f \n \r \t \v *)
ControlEscapes == (97 :> 7) @@ (98 :> 8) @@ (102 :> 12) @@ (110 :> 10)
                    @@ (114 :> 13) @@ (116 :> 9) @@ (118 :> 11)

JsRound(in, i) ==
    LET n == RunOf(in, i + 1, 3, ISODIGIT)
        m == IF n = 3 /\ in[i + 1] > 51 THEN 2 ELSE n
    IN  CASE in[i] # Ch.backslash \/ i = Len(in) -> Copies(in, i, 1)
          [] OTHER ->
             CASE in[i + 1] = Ch.u /\ HexAt(in, i + 2, 4)
                    -> Puts(6, <<LowByte(in[i + 2], in[i + 3], in[i + 4], in[i + 5])>>)
               [] in[i + 1] = Ch.x /\ HexAt(in, i + 2, 2)
                    -> Puts(4, <<x2c(in[i + 2], in[i + 3])>>)
               [] n > 0 -> Puts(1 + m, <<Octal(in, i + 1, m)>>)
               [] in[i + 1] \in DOMAIN ControlEscapes
                    -> Puts(2, <<ControlEscapes[in[i + 1]]>>)
               [] OTHER -> Puts(2, <<in[i + 1]>>)

jsDecode(in) == Rewrite(in, JsRound)

EscapeRound(in, i) ==
    LET n == RunOf(in, i + 1, 3, ISODIGIT)
    IN  CASE in[i] # Ch.backslash \/ i = Len(in) -> Copies(in, i, 1)
          [] OTHER ->
             CASE in[i + 1] \in DOMAIN ControlEscapes
                    -> Puts(2, <<ControlEscapes[in[i + 1]]>>)
               [] tolower(in[i + 1]) = Ch.x /\ HexAt(in, i + 2, 2)
                    -> Puts(4, <<x2c(in[i + 2], in[i + 3])>>)
               [] n > 0 -> Puts(1 + n, <<Octal(in, i + 1, n)>>)
               [] OTHER -> Puts(2, <<in[i + 1]>>)

escapeSeqDecode(in) == Rewrite(in, EscapeRound)

(* One to six hexadecimal digits and one white space after them.  The      *)
(* backslash before any other byte goes without being told.                *)
CssRound(in, i) ==
    LET n     == RunOf(in, i + 1, 6, VALID_HEX)
        last  == i + n
        full  == \/ n = 4
                 \/ n = 5 /\ in[i + 1] = 48
                 \/ n = 6 /\ in[i + 1] = 48 /\ in[i + 2] = 48
        space == IF last < Len(in) /\ IsSpace(in[last + 1]) THEN 1 ELSE 0
        byte  == CASE n = 1 -> xsingle2c(in[last])
                   [] full  -> LowByte(in[last - 3], in[last - 2], in[last - 1], in[last])
                   [] OTHER -> x2c(in[last - 1], in[last])
    IN  CASE in[i] # Ch.backslash -> Copies(in, i, 1)
          [] OTHER ->
             CASE i = Len(in)             -> Puts(1, << >>)
               [] n > 0                   -> Puts(1 + n + space, <<byte>>)
               [] n = 0 /\ i < Len(in) /\ in[i + 1] = Ch.newline -> Puts(2, << >>)
               [] OTHER -> [Puts(2, <<in[i + 1]>>) EXCEPT !.told = FALSE]

cssDecode(in) == Rewrite(in, CssRound)

(* Entities by name: lt and gt, of the 44 in the table.                    *)
named_entities == (<<108, 116>> :> 60) @@ (<<103, 116>> :> 62)

(* LONG_MAX of 64 bits, digit by digit.                                    *)
LongMax == (10 :> <<9, 2, 2, 3, 3, 7, 2, 0, 3, 6, 8, 5, 4, 7, 7, 5, 8, 0, 7>>)
        @@ (16 :> <<7, 15, 15, 15, 15, 15, 15, 15, 15, 15, 15, 15, 15, 15, 15, 15>>)

(* A number of more than a long holds: it has a digit before the places of *)
(* LONG_MAX, or there the first digit that differs is greater.             *)
IsBeyondLong(digits, base) ==
    LET most  == Len(LongMax[base])
        ahead == Len(digits) - most
    IN  \/ \E k \in 1..ahead : digits[k] # 0
        \/ /\ ahead >= 0
           /\ \E k \in 1..most :
                /\ digits[ahead + k] > LongMax[base][k]
                /\ \A j \in 1..(k - 1) : digits[ahead + j] = LongMax[base][j]

(* The low byte of what strtol gives, LONG_MAX of a number beyond it.      *)
NumberAt(in, first, n, base) ==
    LET digits == [k \in 1..n |-> xsingle2c(in[first + k - 1])]
        value[k \in 0..n] == IF k = 0 THEN 0 ELSE (base * value[k - 1] + digits[k]) % 256
    IN  IF IsBeyondLong(digits, base) THEN 255 ELSE value[n]

LookupNamedEntity(name) ==
    {n \in DOMAIN named_entities : EachByte(name, tolower) = n}

EntityRound(in, i) ==
    LET most == Len(in)
        Skips(n) == IF n < Len(in) /\ in[n + 1] = Ch.semicolon THEN n + 1 ELSE n
        Decodes(digits, n, base) ==
            Puts(Skips(digits + n - 1) - i + 1, <<NumberAt(in, digits, n, base)>>)
        hex   == RunOf(in, i + 3, most, VALID_HEX)
        dec   == RunOf(in, i + 2, most, IsDigit)
        text  == RunOf(in, i + 1, most, IsAlnum)
        found == LookupNamedEntity(SubSeq(in, i + 1, i + text))
    IN  CASE in[i] # Ch.amp \/ i = Len(in) -> Copies(in, i, 1)
          [] OTHER ->
             CASE in[i + 1] = Ch.hash ->
                  (CASE i + 2 > Len(in) -> Copies(in, i, 2)
                     [] i + 2 <= Len(in) /\ tolower(in[i + 2]) = Ch.x ->
                          IF hex > 0 THEN Decodes(i + 3, hex, 16) ELSE Copies(in, i, 3)
                     [] OTHER ->
                          IF dec > 0 THEN Decodes(i + 2, dec, 10) ELSE Copies(in, i, 2))
               [] OTHER ->
                  (CASE text > 0 /\ found # {} ->
                          Puts(Skips(i + text) - i + 1,
                               <<named_entities[CHOOSE n \in found : TRUE]>>)
                     [] OTHER -> Copies(in, i, text + 1))

(* Nothing is noted: what counts is whether the value became shorter.      *)
htmlEntityDecode(in) ==
    LET r == Rewrite(in, EntityRound)
    IN  [r EXCEPT !.told = Len(r.out) # Len(in)]

(* 0x and pairs of digits.                                                 *)
SqlHexRound(in, i) ==
    LET pairs == RunOf(in, i + 2, Len(in), VALID_HEX) \div 2
    IN  IF in[i] = 48 /\ i < Len(in) /\ tolower(in[i + 1]) = Ch.x /\ pairs > 0
          THEN Puts(2 + 2 * pairs,
                    [k \in 1..pairs |-> x2c(in[i + 2 * k], in[i + 2 * k + 1])])
          ELSE Copies(in, i, 1)

sqlHexDecode(in) == Rewrite(in, SqlHexRound)

(* Pairs of bytes, digits or not; an odd one at the end is lost.           *)
hexDecode(in) ==
    Result([k \in 1..Len(in) \div 2 |-> x2c(in[2 * k - 1], in[2 * k])], in # << >>)

Join(seqs) == Carry(seqs, << >>, LAMBDA all, s : all \o s)

hexEncode(in) == Result(Join(EachByte(in, c2x)), in # << >>)

UrlPlain(c) == c = 42 \/ IsAlnum(c)

urlEncode(in) ==
    Result(Join(EachByte(in, LAMBDA c : CASE c = Ch.space -> <<Ch.plus>>
                                      [] UrlPlain(c)  -> <<c>>
                                      [] OTHER        -> <<Ch.percent>> \o c2x(c))),
           \E i \in 1..Len(in) : ~UrlPlain(in[i]))

(* A character of two to four bytes as %uXXXX.  What is cut off or badly   *)
(* continued loses its first byte; a surrogate or an overlong form has it  *)
(* written once more.                                                      *)
HexOf(d) ==
    LET digits == IF d >= 16^5 THEN 6 ELSE IF d >= 16^4 THEN 5 ELSE 4
    IN  [k \in 1..digits |-> HexDigit((d \div 16^(digits - k)) % 16)]

Utf8Length(c) == CASE c < 128        -> 1
                   [] c \in 192..223 -> 2
                   [] c \in 224..239 -> 3
                   [] c \in 240..247 -> 4
                   [] OTHER          -> 0

Utf8Round(in, i) ==
    LET c     == in[i]
        n     == Utf8Length(c)
        whole == /\ n <= Len(in)
                 /\ \A k \in 1..n - 1 : i + k <= Len(in) /\ in[i + k] \in 128..191
        bits(k) == in[i + k] % 64
        d     == CASE n = 2 -> 64 * (c % 32) + bits(1)
                   [] n = 3 -> 4096 * (c % 16) + 64 * bits(1) + bits(2)
                   [] n = 4 -> 262144 * (c % 8) + 4096 * bits(1) + 64 * bits(2) + bits(3)
        outside == IF n = 4 /\ c >= 245 THEN <<c>> ELSE << >>
        again(odd) == IF odd THEN <<c>> ELSE << >>
    IN  CASE n = 1 /\ c = Ch.nul /\ i < Len(in) -> [Puts(1, << >>) EXCEPT !.told = FALSE]
          [] n \in {0, 1} /\ (c # Ch.nul \/ i = Len(in)) -> Copies(in, i, 1)
          [] n > 1 /\ ~whole -> [Puts(1, outside) EXCEPT !.told = FALSE]
          [] n > 1 /\ whole  ->
               Puts(n, outside \o <<Ch.percent, Ch.u>> \o HexOf(d)
                         \o again(d \in 55296..57343)
                         \o again(d < (CASE n = 2 -> 128 [] n = 3 -> 2048 [] n = 4 -> 65536)))

utf8toUnicode(in) == Rewrite(in, Utf8Round)

-----------------------------------------------------------------------------
(* Comments, white space, case, parity.                                    *)

Marks(in, i, mark) ==
    i + Len(mark) - 1 <= Len(in) /\ SubSeq(in, i, i + Len(mark) - 1) = mark

CommentOpen  == <<47, 42>>           \* /*
CommentClose == <<42, 47>>           \* */
HtmlOpen     == <<60, 33, 45, 45>>   \* <!--
HtmlClose    == <<45, 45, 62>>       \* -->
SqlComment   == <<45, 45>>           \* --

(* The positions at which a comment read from here may end; what follows   *)
(* the first of them, or 0.                                                *)
AfterComment(in, from, closes) ==
    LET ends == {k \in from..Len(in) : \E m \in closes : Marks(in, k, m)}
        e    == CHOOSE k \in ends : \A l \in ends : k <= l
    IN  IF ends = {} THEN 0
        ELSE e + Len(CHOOSE m \in closes : Marks(in, e, m))

CommentRound(in, i, open, closes, whenClosed) ==
    LET after == AfterComment(in, i + Len(open), closes)
    IN  IF after = 0 THEN Puts(Len(in) - i + 1, <<Ch.space>>)
                     ELSE Puts(after - i, whenClosed)

ReplaceRound(in, i) ==
    IF Marks(in, i, CommentOpen)
      THEN CommentRound(in, i, CommentOpen, {CommentClose}, <<Ch.space>>)
      ELSE Copies(in, i, 1)

replaceComments(in) == Rewrite(in, ReplaceRound)

(* Either end closes either comment; -- and # drop the rest.               *)
RemoveRound(in, i) ==
    LET closes == {CommentClose, HtmlClose}
    IN  CASE Marks(in, i, CommentOpen) -> CommentRound(in, i, CommentOpen, closes, << >>)
          [] Marks(in, i, HtmlOpen)    -> CommentRound(in, i, HtmlOpen, closes, << >>)
          [] Marks(in, i, SqlComment) \/ in[i] = Ch.hash -> Puts(Len(in) - i + 1, << >>)
          [] OTHER -> Copies(in, i, 1)

removeComments(in) == Rewrite(in, RemoveRound)

(* The marks alone; the longer of two that begin here.                     *)
RemoveCharRound(in, i) ==
    LET marks == {m \in {CommentOpen, CommentClose, HtmlOpen, HtmlClose, SqlComment,
                         <<Ch.hash>>} : Marks(in, i, m)}
    IN  IF marks = {} THEN Copies(in, i, 1)
        ELSE Puts(Len(CHOOSE m \in marks : \A o \in marks : Len(o) <= Len(m)), << >>)

removeCommentsChar(in) == Rewrite(in, RemoveCharRound)

ltrim(in) == SubSeq(in, RunOf(in, 1, Len(in), IsSpace) + 1, Len(in))

rtrim(in) ==
    LET n == CHOOSE k \in 0..Len(in) : /\ k > 0 => ~IsSpace(in[k])
                                       /\ \A l \in k + 1..Len(in) : IsSpace(in[l])
    IN  SubSeq(in, 1, n)

trim(in) ==
    LET r == rtrim(in)
        l == ltrim(r)
    IN  Result(l, r # in \/ l # r)

(* Only the length tells: a tab that became a space does not.              *)
compressWhitespace(in) ==
    LET r == Carry(in, [out |-> << >>, white |-> FALSE],
                   LAMBDA s, c : IF ~IsSpace(c)
                                   THEN [out |-> Append(s.out, c), white |-> FALSE]
                                 ELSE IF s.white THEN s
                                 ELSE [out |-> Append(s.out, Ch.space), white |-> TRUE])
    IN  Result(r.out, Len(r.out) # Len(in))

(* Quotes, backslash and caret go; separators become one space, which goes *)
(* before a slash or a parenthesis.                                        *)
CmdByte(s, c) ==
    CASE c \in {Ch.doublequote, Ch.quote, Ch.backslash, Ch.caret} -> s
      [] c \in {Ch.space, Ch.comma, Ch.semicolon, 9, 10, 13} ->
           IF s.space THEN s ELSE [out |-> Append(s.out, Ch.space), space |-> TRUE]
      [] c \in {Ch.slash, Ch.paren} ->
           [out |-> Append(IF s.space THEN SubSeq(s.out, 1, Len(s.out) - 1) ELSE s.out, c),
            space |-> FALSE]
      [] OTHER -> [out |-> Append(s.out, tolower(c)), space |-> FALSE]

cmdLine(in) ==
    LET r == Carry(in, [out |-> << >>, space |-> FALSE], CmdByte)
    IN  Result(r.out, Len(r.out) # Len(in))

(* A byte above 127 is a negative char, and what tolower and toupper give  *)
(* for it differs from it: a change is told where there is none (-1 is     *)
(* EOF, and stays).  op is the function over bytes.                        *)
convert(in, op) ==
    Result(EachByte(in, LAMBDA c : op[c]),
           \E k \in DOMAIN in : op[in[k]] # in[k] \/ in[k] \in 128..254)

(* bad is the set of the bytes that go.                                    *)
remove_if(in, bad) ==
    LET out == Keep(in, LAMBDA c : c \notin bad)
    IN  Result(out, Len(out) # Len(in))

removeNulls(in)      == remove_if(in, {Ch.nul})
removeWhitespace(in) == remove_if(in, {c \in 0..255 : IsSpace(c)} \cup {160, 194})
replaceNulls(in)     ==
    Result(EachByte(in, LAMBDA c : IF c = Ch.nul THEN Ch.space ELSE c),
           \E k \in DOMAIN in : in[k] = Ch.nul)

(* The parity of all eight bits decides the highest one.                   *)
Odd(c) == Cardinality({k \in 0..7 : (c \div 2^k) % 2 = 1}) % 2 = 1
HighBit(c, on) == (c % 128) + (IF on THEN 128 ELSE 0)

parity7bit(in, even) ==
    Result(EachByte(in, LAMBDA c : HighBit(c, Odd(c) = even)), in # << >>)
parityZero7bit(in) == Result(EachByte(in, LAMBDA c : c % 128), in # << >>)

Decimal(n) == IF n < 10 THEN <<48 + n>> ELSE <<48 + (n \div 10), 48 + (n % 10)>>
length(in) == Result(Decimal(Len(in)), TRUE)
=============================================================================
