----------------------------- MODULE Algorithms -----------------------------
(***************************************************************************)
(* The transformations, the operators and the phrase matcher on every      *)
(* input made of given fragments up to a given length: a step appends a    *)
(* fragment.  For most algorithms a fragment is a sequence of bytes.  For  *)
(* "execute" it is a transformation and where it comes from, for           *)
(* "byteRange" a range, for "pm" a phrase or a letter of the value.        *)
(***************************************************************************)
EXTENDS ExecuteTransformations, Operators, Acmp, Regex

CONSTANTS Algorithm,   \* the algorithms to look at
          Fragments,   \* of each one's inputs
          MaxLength    \* of each one's inputs

VARIABLES alg, input

algorithmsVars == <<alg, input>>

ASSUME AlgorithmsAssumption == \A a \in Algorithm : a \in DOMAIN Fragments /\ MaxLength[a] \in Nat

InitAlgorithms == alg \in Algorithm /\ input = << >>

(* Of @pm the phrases come first: two at most, the shorter one first.      *)
MayFollow(f) ==
    alg = "pm" /\ f[1][1] = "phrase" =>
        \/ input = << >>
        \/ Len(input) = 1 /\ input[1][1] = "phrase" /\ Len(input[1][2]) <= Len(f[1][2])

Grow ==
    /\ \E f \in Fragments[alg] :
           /\ Len(input) + Len(f) <= MaxLength[alg] /\ MayFollow(f)
           /\ input' = input \o f
    /\ UNCHANGED alg

-----------------------------------------------------------------------------
(* These change a value without saying so, in some cases.                  *)
Silent == {"cssDecode", "cmdLine", "compressWhitespace", "utf8toUnicode", "normalisePath",
           "normalisePathWin"}
Others == {"execute", "utf8", "byteRange", "cc", "cpf", "word", "pm", "regex"}

(* A transformation that changed the value says so: with multiMatch a      *)
(* value that is not told is not tested (rule_with_actions.cc:335).  And   *)
(* none that works in place writes over what it has still to read.         *)
TellsChange(r) ==
    /\ r.out # input /\ alg \notin Silent => r.told
    /\ IF alg = "utf8toUnicode" THEN Len(r.out) <= 4 * Len(input) ELSE ~r.ahead
ChangeIsTold == alg \notin Others => TellsChange(transform(alg, input))

(* What one transformation encodes, its counterpart decodes.               *)
RoundTrips ==
    alg = "urlEncode" =>
        /\ urlDecode(urlEncode(input).out).out = input
        /\ hexDecode(hexEncode(input).out).out = input
        /\ base64DecodeExt(base64Encode(input).out).out = input

(* The buffer that the first pass of the decoder asks for holds what the   *)
(* second one writes, whatever the input; and text that is not valid does  *)
(* not cost the groups before it, but for the one that ends in the digit 9 *)
(* (base64.cc:187).                                                        *)
Base64Fits ==
    alg = "base64DecodeExt" =>
        LET e == base64HelperForgiven(input)
            good == SelectSeq(input, LAMBDA c : b64_reverse_t(c) >= 0 /\ c # b64_pad)
        IN  /\ e.fits
            /\ (good # << >> /\ good[Len(good)] # 57 /\ b64_pad \notin {input[k] : k \in DOMAIN input})
                   => Len(e.out) >= 3 * (Len(good) \div 4)

(* A normalised absolute path has no empty segment, no reference to itself *)
(* and none to its parent, ends in a slash only when it did before, and    *)
(* normalising it again changes nothing.                                   *)
SegmentAt(p, k, seg) == StandsAt(p, <<Ch.slash>> \o seg, k)
                        /\ (k + Len(seg) < Len(p) => p[k + Len(seg) + 1] = Ch.slash)
IsNormal(p) ==
    /\ \A k \in DOMAIN p : /\ ~StandsAt(p, <<Ch.slash, Ch.slash>>, k)
                           /\ ~SegmentAt(p, k, <<Ch.dot>>)
                           /\ ~SegmentAt(p, k, <<Ch.dot, Ch.dot>>)
    /\ Len(p) > 1 /\ p[Len(p)] = Ch.slash => input[Len(input)] = Ch.slash
    /\ normalisePath(p).out = p
PathIsNormal ==
    alg = "normalisePath" /\ input # << >> /\ input[1] = Ch.slash =>
        IsNormal(normalisePath(input).out)

(* The operator tests what the transformations after the last t:none make  *)
(* of the value; those of the SecDefaultAction come first, unless the rule *)
(* has a t:none.  With multiMatch that value is among those it tests.      *)
ExecuteValue == <<65, 32, 32, 37, 52, 49>>
Of(where) ==
    LET sub == SelectSeq(input, LAMBDA f : f[1] = where) IN [k \in DOMAIN sub |-> sub[k][2]]
AfterLastNone(list) ==
    LET last == {k \in DOMAIN list : list[k] = "none"}
    IN  IF last = {} THEN list
        ELSE SubSeq(list, (CHOOSE k \in last : \A j \in last : j <= k) + 1, Len(list))
Composed(list, v) == Carry(list, v, LAMBDA x, t : transform(t, x).out)
EndsIn(tested, value) == tested[Len(tested)] = value
TransformationsInOrder ==
    alg = "execute" =>
        LET own   == Of("rule")
            first == IF Nones(own) > 0 THEN << >> ELSE Of("default")
        IN  \A multi \in BOOLEAN :
                EndsIn(executeTransformations(ExecuteValue, Of("default"), own, Of("update"), multi),
                         Composed(first \o AfterLastNone(own) \o AfterLastNone(Of("update")), ExecuteValue))

-----------------------------------------------------------------------------
(* @validateUtf8Encoding matches exactly what is not a sequence of         *)
(* characters in their shortest encoding, surrogates refused, and numbered *)
(* up to U+13FFFF.  The code does not agree with its comment here, which   *)
(* says "restrict characters to UTF-8 range (U+0000 - U+10FFFF)"           *)
(* (validate_utf8_encoding.cc:80): it looks at the first byte alone.       *)
Utf8IsExact == alg = "utf8" => (validateUtf8Encoding(input) <=> ~IsUtf8(input, 1310719))

(* @validateUrlEncoding matches exactly the values in which urlDecode      *)
(* counts something it cannot decode.                                      *)
UrlErrorsAgree == alg = "urlDecode" => (validateUrlEncoding(input) <=> invalid_count(input) > 0)

(* @validateByteRange matches the bytes that are in none of the ranges.    *)
ByteRangeIsExact ==
    alg = "byteRange" =>
        \A b \in Byte : validateByteRange(input, <<b>>)
                          <=> \A k \in DOMAIN input : b \notin input[k][1]..input[k][2]

(* @verifyCC: one digit completes a number, and a number with one digit    *)
(* changed is not taken for a card number.                                 *)
OneDigitIsCaught ==
    alg = "cc" =>
        /\ Cardinality({d \in 48..57 : luhnVerify(Append(input, d))}) = 1
        /\ luhnVerify(input) =>
               \A k \in DOMAIN input : IsDigit(input[k]) =>
                   \A d \in 48..57 : d # input[k] => ~luhnVerify([input EXCEPT ![k] = d])

(* @verifyCPF: the two last digits are the ones the definition of the      *)
(* number gives, the weighted sums modulo 11 and 10.                       *)
CpfIsExact ==
    alg = "cpf" /\ Len(input) = 9 =>
        LET d   == DigitsOf(input)
            one == (Weighted(d, <<1, 2, 3, 4, 5, 6, 7, 8, 9>>) % 11) % 10
            two == ((Weighted(d, <<0, 1, 2, 3, 4, 5, 6, 7, 8>>) + 9 * one) % 11) % 10
        IN  {t \in (0..9) \X (0..9) : verifyCPF(input \o <<t[1] + 48, t[2] + 48>>)}
                = IF Same(d \o <<one, two>>) THEN {} ELSE {<<one, two>>}

(* @containsWord finds the word wherever no letter stands before or behind *)
(* it, occurrences that overlap included.                                  *)
WordsLookedFor == {<<97>>, <<97, 32, 97>>}
WordsAreFound ==
    alg = "word" =>
        \A w \in WordsLookedFor :
            containsWord(w, input) <=>
                \E p \in DOMAIN input :
                    /\ StandsAt(input, w, p)
                    /\ p > 1 => ~IsLetter(input[p - 1])
                    /\ (p + Len(w)) - 1 < Len(input) => ~IsLetter(input[p + Len(w)])

(* The phrases and the value of @pm, and what comes of them.               *)
PmPhrases == {f[2] : f \in {g \in Range(input) : g[1] = "phrase"}}
PmText ==
    LET letters == SelectSeq(input, LAMBDA f : f[1] = "letter")
    IN  [k \in DOMAIN letters |-> letters[k][2]]
PmTrie == Carry(SelectSeq(input, LAMBDA f : f[1] = "phrase"), NoTrie,
                LAMBDA t, f : acmp_add_pattern(t, f[2]))
PmFound == acmp_process_quick(PmTrie, PmText).found
PmHolds(phrases) == \E p \in phrases : Holds(PmText, p)
OfSevenBits(phrase) == \A k \in DOMAIN phrase : phrase[k] < 128

(* @pm matches only a value that holds a phrase, of seven bit characters:  *)
(* those above are stored through a char and read as unsigned (acmp.cc:69  *)
(* and 438), so they are never found.  And it matches a value that holds   *)
(* such a phrase when every node of the trie fails to its longest suffix,  *)
(* which the construction of the links does not always give (acmp.cc:287): *)
(* what happens otherwise is PmFindsPhrases.                               *)
PmIsExact ==
    alg = "pm" =>
        LET phrases == {p \in PmPhrases : OfSevenBits(p)}
        IN  /\ PmFound => PmHolds(phrases)
            /\ FailsAreLongest(PmTrie) /\ PmHolds(phrases) => PmFound

(* "Aho-Corasick Matching" (acmp.cc:15): a value that holds a phrase is    *)
(* matched, whatever the other phrases are.  A test of operator-pm.json    *)
(* (lines 22 and 42) expects it of a phrase inside a longer value.         *)
PmFindsPhrases ==
    alg = "pm" => (PmHolds({p \in PmPhrases : OfSevenBits(p)}) => PmFound)

-----------------------------------------------------------------------------
(* searchGlobal takes an empty match for several, and looks again where it *)
(* was: it ends all the same, and leaves out no match and no group of any  *)
(* pattern, whether or not a line may end in CR LF (regex.cc:316-345).     *)
SpansOf(ms) == UNION {{ms[i][k] : k \in DOMAIN ms[i]} : i \in DOMAIN ms} \ {Unmatched}

GlobalFindsAll ==
    alg = "regex" =>
        \A p \in RegexPatterns, crlf \in BOOLEAN :
            LET captures == searchGlobal(p, input, 0, "limit", crlf).captures
            IN  {captures[i].span : i \in DOMAIN captures} = SpansOf(MatchesFrom(p, input, 0, crlf))

(* searchAll, without groups: every match up to the first empty one, the   *)
(* last one first; it goes on from the end of the last group, not of the   *)
(* match (regex.cc:168-185).                                               *)
FullSpans(ms) ==
    LET empty == {i \in DOMAIN ms : IsEmpty(ms[i])}
        upTo  == IF empty = {} THEN Len(ms) ELSE CHOOSE i \in empty : \A j \in empty : i <= j
    IN  [i \in 1..upTo |-> ms[i][1]]
AllIsAsGlobal ==
    alg = "regex" =>
        \A p \in {p \in RegexPatterns : \A i \in 0..Len(input) :
                      \A k \in DOMAIN Alternatives(p, input, i) : Len(Alternatives(p, input, i)[k]) = 1} :
            Reverse(searchAll(p, input)) = FullSpans(MatchesFrom(p, input, 0, FALSE))

(* @rxGlobal with capture: when PCRE gives up after some matches, there is *)
(* no match, the rules are told why and TX is as before; else TX holds the *)
(* text of every group of every match, unless a group took no part: then   *)
(* the next match begins with a number that is taken (regex.cc:301).  @rx  *)
(* holds the groups of the first match only.                               *)
KeptInTX(done, before, matches) ==
    LET held == {done.tx[g] : g \in DOMAIN before} \ {Unmatched}
    IN  IF done.msc # {} THEN ~done.matched /\ held = {}
        ELSE /\ done.matched <=> matches # << >>
             /\ (\A i \in DOMAIN matches : \A k \in DOMAIN matches[i] : matches[i][k] # Unmatched)
                    => held = SpansOf(matches)
CapturesAreKept ==
    alg = "regex" =>
        \A p \in RegexPatterns, failing \in 0..3, why \in {"limit", "other"} :
            LET before == [g \in 0..(4 * Len(input) + 4) |-> Unmatched]
                found  == MatchesFrom(p, input, 0, FALSE)
            IN  /\ KeptInTX(EvaluateRx(searchGlobal(p, input, failing, why, FALSE), before), before, found)
                /\ KeptInTX(EvaluateRx(searchOneMatch(p, input, failing, why), before), before,
                         IF found = << >> THEN << >> ELSE <<found[1]>>)

(* The transformations: what they promise, and how a rule runs them.       *)
TransformationsAreExact ==
    ChangeIsTold /\ RoundTrips /\ Base64Fits /\ PathIsNormal /\ TransformationsInOrder

=============================================================================
