------------------------------ MODULE Operators ------------------------------
(***************************************************************************)
(* Operators a rule tests a value with, those that are algorithms of their *)
(* own: the validators of encodings and byte ranges, the check digits of   *)
(* card, tax and insurance numbers, and the searches for a word.  A value  *)
(* is a sequence of bytes; TRUE is a match.                                *)
(***************************************************************************)
EXTENDS Transformations

-----------------------------------------------------------------------------
(* @validateUtf8Encoding.  The bytes of a character, by their upper bits.  *)
IsTail(c) == c \in 128..191
TailBits(c) == c % 64

LengthOf(c) ==
    CASE c < 128          -> 1
      [] c \in 192..223   -> 2
      [] c \in 224..239   -> 3
      [] c \in 240..247   -> 4
      [] OTHER            -> 0

(* The character number; a first byte of n bytes keeps 7 - n bits.         *)
CharacterNumber(in, i, n) ==
    CASE n = 2 -> 64 * (in[i] % 32) + TailBits(in[i + 1])
      [] n = 3 -> 4096 * (in[i] % 16) + 64 * TailBits(in[i + 1]) + TailBits(in[i + 2])
      [] n = 4 -> 262144 * (in[i] % 8) + 4096 * TailBits(in[i + 1])
                    + 64 * TailBits(in[i + 2]) + TailBits(in[i + 3])

Shortest(n) == CASE n = 2 -> 128 [] n = 3 -> 2048 [] n = 4 -> 65536

(* The length of a character, or 0 for any of the errors.                  *)
detect_utf8_character(in, i) ==
    LET n == LengthOf(in[i])
        d == CharacterNumber(in, i, n)
    IN  IF n = 1 THEN 1
        ELSE IF \/ n = 0
                \/ in[i] >= 245
                \/ (i + n) - 1 > Len(in)
                \/ \E k \in 1..(n - 1) : ~IsTail(in[i + k])
                \/ d \in 55296..57343
                \/ d < Shortest(n)
          THEN 0
        ELSE n

validateUtf8Encoding(in) ==
    LET bad[i \in 1..(Len(in) + 1)] ==
            IF i > Len(in) THEN FALSE
            ELSE LET n == detect_utf8_character(in, i) IN n = 0 \/ bad[i + n]
    IN  bad[1]

(* UTF-8 by its definition (RFC 3629): a sequence of encoded characters.   *)
Encoded(d) ==
    CASE d < 128     -> <<d>>
      [] d < 2048    -> <<192 + (d \div 64), 128 + (d % 64)>>
      [] d < 65536   -> <<224 + (d \div 4096), 128 + ((d \div 64) % 64), 128 + (d % 64)>>
      [] OTHER       -> <<240 + (d \div 262144), 128 + ((d \div 4096) % 64),
                          128 + ((d \div 64) % 64), 128 + (d % 64)>>
IsCharacter(s, last) ==
    \E n \in {Len(s)} \cap 1..4 :
        LET d == IF n = 1 THEN s[1] ELSE CharacterNumber(s, 1, n)
        IN  d <= last /\ d \notin 55296..57343 /\ Encoded(d) = s
IsUtf8(in, last) ==
    LET good[i \in 1..(Len(in) + 1)] ==
            i > Len(in) \/ \E j \in i..(i + 3) :
                               j <= Len(in) /\ IsCharacter(SubSeq(in, i, j), last) /\ good[j + 1]
    IN  good[1]

-----------------------------------------------------------------------------
HexPair(in, i) == HexAt(in, i + 1, 2)

(* @validateUrlEncoding.  The empty value is valid.                        *)
validate_url_encoding(in) ==
    LET ok[i \in 1..(Len(in) + 3)] ==
            IF i > Len(in) THEN TRUE
            ELSE IF in[i] # Ch.percent THEN ok[i + 1]
            ELSE HexPair(in, i) /\ ok[i + 3]
    IN  ok[1]
validateUrlEncoding(in) == ~validate_url_encoding(in)

(* urldecode_nonstrict_inplace counts what it could not decode.            *)
invalid_count(in) ==
    LET count[i \in 1..(Len(in) + 1)] ==
            IF i > Len(in) THEN 0
            ELSE LET r == UrlRound(in, i)
                 IN  count[i + r.eat] + (IF in[i] = Ch.percent /\ ~r.told THEN 1 ELSE 0)
    IN  count[1]

-----------------------------------------------------------------------------
(* @validateByteRange.  A bit for each byte, in a table of 32.             *)
NoTable == [b \in 0..31 |-> {}]

getRange(table, first, last) ==
    [b \in 0..31 |-> table[b] \cup {k \in 0..7 : (8 * b) + k >= first /\ (8 * b) + k <= last}]

(* init: the ranges, as far as they are understood.                        *)
IsRange(r) == r[1] \in Byte /\ r[2] \in Byte /\ r[1] <= r[2]
RangeTable(ranges) ==
    LET t[i \in 0..Len(ranges)] ==
            IF i = 0 THEN NoTable ELSE getRange(t[i - 1], ranges[i][1], ranges[i][2])
    IN  t[Len(ranges)]
validateByteRange(ranges, in) ==
    LET table == RangeTable(ranges)
    IN  \E i \in DOMAIN in : in[i] % 8 \notin table[in[i] \div 8]

-----------------------------------------------------------------------------
(* The digits of a number, whatever stands between them.                   *)
DigitsOf(in) == LET d == SelectSeq(in, IsDigit) IN [i \in DOMAIN d |-> d[i] - 48]
Weighted(s, w) ==
    LET sum[i \in 0..Len(w)] == IF i = 0 THEN 0 ELSE sum[i - 1] + w[i] * s[i]
    IN  sum[Len(w)]

(* @verifyCC.  Both sums are made, and the one that fits the number of     *)
(* digits is taken.                                                        *)
wtable == <<0, 2, 4, 6, 8, 1, 3, 5, 7, 9>>

LuhnWeight(digit, doubled) == IF doubled THEN wtable[digit + 1] ELSE digit

luhnVerify(in) ==
    LET d   == DigitsOf(in)
        odd == Len(d) % 2
        sum[i \in 0..Len(d)] ==
            IF i = 0 THEN 0 ELSE sum[i - 1] + LuhnWeight(d[i], (i % 2 = 1) = (odd = 0))
    IN  d # << >> /\ sum[Len(d)] % 10 = 0

(* @verifySSN.                                                             *)
verifySSN(in) ==
    LET n == DigitsOf(in)
        area == 100 * n[1] + 10 * n[2] + n[3]
        grp  == 10 * n[4] + n[5]
        serial == 1000 * n[6] + 100 * n[7] + 10 * n[8] + n[9]
    IN  /\ Len(n) = 9
        /\ \E i \in 1..8 : n[i] # n[i + 1] - 1
        /\ \E i \in 1..8 : n[i] # n[i + 1]
        /\ area # 0 /\ grp # 0 /\ serial # 0
        /\ area < 740 /\ area # 666

(* @verifyCPF: the first eleven digits, of which the last two are computed *)
(* from the others.                                                        *)
FirstDigits(in, n) == LET d == DigitsOf(in) IN IF Len(d) > n THEN SubSeq(d, 1, n) ELSE d
Same(d) == \A i, j \in DOMAIN d : d[i] = d[j]
CheckOf(sum) == IF sum % 11 < 2 THEN 0 ELSE 11 - (sum % 11)

CpfDigits(d) ==
    LET first == CheckOf(Weighted(d, <<10, 9, 8, 7, 6, 5, 4, 3, 2>>))
    IN  <<first, CheckOf(Weighted(d, <<11, 10, 9, 8, 7, 6, 5, 4, 3>>) + 2 * first)>>

verifyCPF(in) ==
    LET d == FirstDigits(in, 11)
    IN  /\ Len(d) = 11
        /\ ~Same(d) /\ d # <<0, 1, 2, 3, 4, 5, 6, 7, 8, 9, 0>>
        /\ SubSeq(d, 10, 11) = CpfDigits(d)

(* @verifySVNR.  The first ten of the twelve bad numbers are compared: the *)
(* last two, of eights and of nines, are not reached.                      *)
bad_svnr(d) ==
    \/ d = <<0, 1, 2, 3, 4, 5, 6, 7, 8, 9>>
    \/ d = <<1, 2, 3, 4, 5, 6, 7, 8, 9, 0>>
    \/ Same(d) /\ d[1] < 8
SvnrDigit(d) == LET sum == Weighted(d, <<3, 7, 9, 0, 5, 8, 4, 2, 1, 6>>) % 11
                IN  IF sum = 10 THEN 0 ELSE sum
verifySVNR(in) ==
    LET d == FirstDigits(in, 10)
    IN  Len(d) = 10 /\ ~bad_svnr(d) /\ d[4] = SvnrDigit(d)

-----------------------------------------------------------------------------
IsLetter(c) == IsUpper(c) \/ IsLower(c)
StandsAt(in, word, pos) == pos + Len(word) - 1 <= Len(in) /\ SubSeq(in, pos, pos + Len(word) - 1) = word

(* @containsWord.  Positions count from one here; there is no byte before  *)
(* the first and behind the last.                                          *)
acceptableChar(in, pos) == pos \in DOMAIN in /\ ~IsLetter(in[pos])

NextFrom(pos, word) == pos + 1

containsWord(word, in) ==
    LET found[from \in 1..(Len(in) + Len(word) + 2)] ==
            LET here == {p \in from..Len(in) : StandsAt(in, word, p)}
                pos  == CHOOSE p \in here : \A q \in here : p <= q
            IN  /\ here # {}
                /\ \/ pos = 1 /\ acceptableChar(in, pos + Len(word))
                   \/ (pos + Len(word)) - 1 = Len(in) /\ acceptableChar(in, pos - 1)
                   \/ acceptableChar(in, pos - 1) /\ acceptableChar(in, pos + Len(word))
                   \/ found[NextFrom(pos, word)]
    IN  word = << >> \/ (in # << >> /\ (in = word \/ found[1]))

(* @within, @contains, @beginsWith, @endsWith, @streq, @strmatch.          *)
contains(word, in) == word = << >> \/ \E p \in DOMAIN in : StandsAt(in, word, p)
within(param, in) == in = << >> \/ contains(in, param)
beginsWith(param, in) == Len(param) <= Len(in) /\ SubSeq(in, 1, Len(param)) = param
endsWith(param, in) ==
    Len(param) <= Len(in) /\ SubSeq(in, (Len(in) - Len(param)) + 1, Len(in)) = param
streq(param, in) == param = in
=============================================================================
