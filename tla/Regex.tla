------------------------------- MODULE Regex -------------------------------
(***************************************************************************)
(* Utils::Regex and the operators @rx and @rxGlobal: how one match, all    *)
(* matches and their groups are asked of PCRE, and what becomes of them.   *)
(* PCRE itself is external: a pattern is what it may match at a place, the *)
(* best first, without PCRE2_MULTILINE (rx.cc:30).  Text is bytes; offsets *)
(* count from 0 as in the code.                                            *)
(***************************************************************************)
EXTENDS Naturals, SequencesExt

Unmatched == <<1, 0>>    \* PCRE2_UNSET, which is past the end of every text
NoMatch   == << >>

ByteAt(s, i) == IF i < Len(s) THEN s[i + 1] ELSE 256

RunLength(s, i, c) ==
    CHOOSE n \in 0..Len(s) : (\A k \in i..(i + n - 1) : ByteAt(s, k) = c) /\ ByteAt(s, i + n) # c

(* The alternatives of a pattern at offset i: the groups that took part,   *)
(* the whole match first, up to the last one that did.                     *)
RegexPatterns == {"a+", "a*", "|a", "a|(?=b)", "$", "(a)|(b)", "(a)?b", "(a)b"}

Alternatives(p, s, i) ==
    LET n == RunLength(s, i, 97)
        isA == ByteAt(s, i) = 97
        isB == ByteAt(s, i) = 98
        aThenB == isA /\ ByteAt(s, i + 1) = 98
        Whole(k) == <<<<i, i + k>>>>
        A == <<i, i + 1>>
    IN  CASE p = "a+" -> [k \in 1..n |-> Whole(n + 1 - k)]
          [] p = "a*" -> [k \in 1..(n + 1) |-> Whole(n + 1 - k)]
          [] p = "|a" -> <<Whole(0)>> \o (IF isA THEN <<Whole(1)>> ELSE << >>)
          [] p = "a|(?=b)" -> IF isA THEN <<Whole(1)>> ELSE IF isB THEN <<Whole(0)>> ELSE << >>
          [] p = "$" -> IF i = Len(s) THEN <<Whole(0)>> ELSE << >>
          [] p = "(a)|(b)" -> IF isA THEN <<<<A, A>>>> ELSE IF isB THEN <<<<A, Unmatched, A>>>> ELSE << >>
          [] p = "(a)?b" -> IF aThenB THEN <<<<<<i, i + 2>>, A>>>> ELSE IF isB THEN <<Whole(1)>> ELSE << >>
          [] p = "(a)b" -> IF aThenB THEN <<<<<<i, i + 2>>, A>>>> ELSE << >>

IsEmpty(m) == m[1][1] = m[1][2]

(* pcre2_match from an offset; again: NOTEMPTY_ATSTART and ANCHORED.       *)
pcre2_match(p, s, start, again) ==
    LET Allowed(i) == LET alts == Alternatives(p, s, i)
                      IN  {k \in DOMAIN alts : ~(again /\ IsEmpty(alts[k]))}
        places == {i \in start..(IF again THEN start ELSE Len(s)) : Allowed(i) # {}}
    IN  IF places = {} THEN NoMatch
        ELSE LET i == CHOOSE i \in places : \A j \in places : i <= j
             IN  Alternatives(p, s, i)[CHOOSE k \in Allowed(i) : \A j \in Allowed(i) : k <= j]

-----------------------------------------------------------------------------
(* searchAll: the matches and their groups, the last one first.  A group   *)
(* that did not take part, or is empty, ends the search; the next match is *)
(* looked for after the last group.                                        *)
StopsAt(m) ==
    LET ends == {i \in DOMAIN m : m[i] = Unmatched \/ m[i][1] = m[i][2]}
    IN  IF ends = {} THEN Len(m) + 1 ELSE CHOOSE i \in ends : \A j \in ends : i <= j

Kept(m) ==
    LET stop == StopsAt(m)
    IN  IF stop > Len(m) \/ m[stop] = Unmatched THEN SubSeq(m, 1, stop - 1) ELSE SubSeq(m, 1, stop)

RECURSIVE AllFrom(_, _, _)
AllFrom(p, s, offset) ==
    LET m == pcre2_match(p, s, offset, FALSE)
    IN  IF m = NoMatch THEN << >>
        ELSE (IF StopsAt(m) > Len(m) THEN AllFrom(p, s, m[Len(m)][2]) ELSE << >>) \o Reverse(Kept(m))

searchAll(p, s) == AllFrom(p, s, 0)

-----------------------------------------------------------------------------
(* Captures: [group, span].                                                *)
Captures(m, first) ==
    SelectSeq([i \in DOMAIN m |-> [group |-> first + i - 1, span |-> m[i]]],
              LAMBDA c : c.span # Unmatched)

(* The call of PCRE with the number failing, if there is one, gives up: at *)
(* SecPcreMatchLimit, or for another reason.                               *)
searchOneMatch(p, s, failing, why) ==
    IF failing = 1 THEN [error |-> why, captures |-> << >>]
    ELSE [error |-> "none", captures |-> Captures(pcre2_match(p, s, 0, FALSE), 0)]

(* Where searchGlobal looks next.  After an empty match it looks for a     *)
(* match that is not, at the offset it looked from.                        *)
AfterMatch(s, offset, m) ==
    IF ~IsEmpty(m) THEN [offset |-> m[1][2], again |-> FALSE]
    ELSE IF offset = Len(s) THEN [offset |-> offset + 1, again |-> FALSE]
    ELSE [offset |-> offset, again |-> TRUE]

(* No match: the end, or one step, two over a line end.                    *)
AfterNoMatch(s, offset, again, crlf) ==
    IF ~again THEN Len(s) + 1
    ELSE IF crlf /\ ByteAt(s, offset) = 13 /\ ByteAt(s, offset + 1) = 10 THEN offset + 2
    ELSE offset + 1

FirstGroup(captures) == Len(captures)

RECURSIVE GlobalFrom(_, _, _, _, _, _, _, _)
GlobalFrom(p, s, offset, again, captures, failing, why, crlf) ==
    IF offset > Len(s) THEN [error |-> "none", captures |-> captures]
    ELSE IF failing = 1 THEN [error |-> why, captures |-> captures]
    ELSE LET m == pcre2_match(p, s, offset, again)
             left == IF failing = 0 THEN 0 ELSE failing - 1
         IN  IF m = NoMatch
             THEN GlobalFrom(p, s, AfterNoMatch(s, offset, again, crlf), FALSE, captures, left, why, crlf)
             ELSE LET next == AfterMatch(s, offset, m)
                  IN  GlobalFrom(p, s, next.offset, next.again,
                                 captures \o Captures(m, FirstGroup(captures)), left, why, crlf)

searchGlobal(p, s, failing, why, crlf) == GlobalFrom(p, s, 0, FALSE, << >>, failing, why, crlf)

-----------------------------------------------------------------------------
(* Rx::evaluate and RxGlobal::evaluate, of a pattern that compiled and is  *)
(* not empty: with the action capture each group goes to the element of TX *)
(* with its number, over what was there.  msc holds the variables that     *)
(* tell of an error.                                                       *)
StoredIn(tx, captures) ==
    FoldSeq(LAMBDA c, stored : [stored EXCEPT ![c.group] = c.span], tx, captures)

TellsError(error) ==
    CASE error = "none"  -> {}
      [] error = "limit" -> {"MSC_PCRE_ERROR", "MSC_PCRE_LIMITS_EXCEEDED", "TX:MSC_PCRE_LIMITS_EXCEEDED"}
      [] error = "other" -> {"MSC_PCRE_ERROR"}

EvaluateRx(result, tx) ==
    IF result.error # "none" THEN [matched |-> FALSE, msc |-> TellsError(result.error), tx |-> tx]
    ELSE [matched |-> result.captures # << >>, msc |-> {}, tx |-> StoredIn(tx, result.captures)]

-----------------------------------------------------------------------------
(* The matches of a pattern, by its definition: from left to right, where  *)
(* one is empty also the first one at its place that is not.               *)
RECURSIVE MatchesFrom(_, _, _, _)
MatchesFrom(p, s, i, crlf) ==
    IF i > Len(s) THEN << >>
    ELSE LET alts == Alternatives(p, s, i)
             full == SelectSeq(alts, LAMBDA m : ~IsEmpty(m))
             next == IF crlf /\ ByteAt(s, i) = 13 /\ ByteAt(s, i + 1) = 10 THEN i + 2 ELSE i + 1
         IN  IF alts = << >> THEN MatchesFrom(p, s, i + 1, crlf)
             ELSE IF ~IsEmpty(alts[1]) THEN <<alts[1]>> \o MatchesFrom(p, s, alts[1][1][2], crlf)
             ELSE IF full # << >> THEN <<alts[1], full[1]>> \o MatchesFrom(p, s, full[1][1][2], crlf)
             ELSE <<alts[1]>> \o MatchesFrom(p, s, next, crlf)
=============================================================================
