----------------------- MODULE ExecuteTransformations -----------------------
(***************************************************************************)
(* The transformations of a rule, one after the other:                     *)
(* RuleWithActions::executeTransformations, with the ones of the           *)
(* SecDefaultAction of its phase and the ones that                         *)
(* SecRuleUpdateActionById adds.                                           *)
(***************************************************************************)
EXTENDS NormalisePath, Base64

(* The functions by the names the rules use.                               *)
transform(t, in) ==
    CASE t = "urlDecode" -> urlDecode(in)
      [] t = "urlDecodeUni" -> urlDecodeUni(in)
      [] t = "urlEncode" -> urlEncode(in)
      [] t = "jsDecode" -> jsDecode(in)
      [] t = "cssDecode" -> cssDecode(in)
      [] t = "escapeSeqDecode" -> escapeSeqDecode(in)
      [] t = "htmlEntityDecode" -> htmlEntityDecode(in)
      [] t = "sqlHexDecode" -> sqlHexDecode(in)
      [] t = "hexDecode" -> hexDecode(in)
      [] t = "hexEncode" -> hexEncode(in)
      [] t = "utf8toUnicode" -> utf8toUnicode(in)
      [] t = "base64DecodeExt" -> base64DecodeExt(in)
      [] t = "base64Encode" -> base64Encode(in)
      [] t = "normalisePath" -> normalisePath(in)
      [] t = "normalisePathWin" -> normalisePathWin(in)
      [] t = "replaceComments" -> replaceComments(in)
      [] t = "removeComments" -> removeComments(in)
      [] t = "removeCommentsChar" -> removeCommentsChar(in)
      [] t = "trim" -> trim(in)
      [] t = "trimLeft" -> Result(ltrim(in), ltrim(in) # in)
      [] t = "trimRight" -> Result(rtrim(in), rtrim(in) # in)
      [] t = "compressWhitespace" -> compressWhitespace(in)
      [] t = "cmdLine" -> cmdLine(in)
      [] t = "lowercase" -> convert(in, [c \in 0..255 |-> tolower(c)])
      [] t = "uppercase" -> convert(in, [c \in 0..255 |-> toupper(c)])
      [] t = "removeNulls" -> removeNulls(in)
      [] t = "removeWhitespace" -> removeWhitespace(in)
      [] t = "replaceNulls" -> replaceNulls(in)
      [] t = "parityEven7bit" -> parity7bit(in, TRUE)
      [] t = "parityOdd7bit" -> parity7bit(in, FALSE)
      [] t = "parityZero7bit" -> parityZero7bit(in)
      [] t = "length" -> length(in)
      [] t = "none" -> Result(in, FALSE)

(* The values to be tested so far, and how many t:none are still to come.  *)
AfterTransform(s, r, multi) ==
    [s EXCEPT !.value = r.out,
              !.ret = IF r.told /\ multi THEN Append(@, r.out) ELSE @]
executeTransformation(s, t, multi) == AfterTransform(s, transform(t, s.value), multi)

Nones(list) == Cardinality({k \in DOMAIN list : list[k] = "none"})

(* A list with t:none in it starts after the last one.                     *)
Counts(s, t) == [s EXCEPT !.none = IF t = "none" THEN @ - 1 ELSE @]

RunList(s, list, multi) ==
    Carry(list, [s EXCEPT !.none = @ + Nones(list)], LAMBDA st, t :
        Counts(IF st.none = 0 THEN executeTransformation(st, t, multi) ELSE st, t))

WithDefaults(s, defaults, own, multi) ==
    IF Nones(own) > 0 THEN s
    ELSE Carry(defaults, s, LAMBDA st, t : executeTransformation(st, t, multi))

(* defaults: of the SecDefaultAction; own: of the rule; updates: of        *)
(* SecRuleUpdateActionById.  The result: the values the operator tests.    *)
Tested(done, multi) == IF multi THEN done.ret ELSE <<done.value>>

executeTransformations(in, defaults, own, updates, multi) ==
    LET first == [value |-> in, none |-> 0, ret |-> IF multi THEN <<in>> ELSE << >>]
    IN  Tested(Carry(<<own, updates>>, WithDefaults(first, defaults, own, multi),
                     LAMBDA s, list : RunList(s, list, multi)),
               multi)
=============================================================================
