------------------------------ MODULE Scanner ------------------------------
(***************************************************************************)
(* The scanner of the configuration language (seclang-scanner) feeding the *)
(* parser of module Parser, one matched pattern a step.  The characters    *)
(* are abstracted to which pattern of the start condition matches; what a  *)
(* pattern does (its token, the start condition it begins, what it pushes  *)
(* or pops, the text it gives back) is kept.  The start condition, the     *)
(* stack of previous ones and state_variable_from are static: they outlive *)
(* the parse that set them.                                                *)
(***************************************************************************)
EXTENDS Parser, Naturals, Sequences

CONSTANTS MaxParses,    \* bound on the texts parsed, one after the other
          MaxTexts,     \* bound on those and the ones nested by Include and SecRemoteRules
          MaxPrevious   \* bound on YY_PREVIOUS_STATE

ASSUME ScannerAssumption == MaxParses \in Nat /\ MaxTexts \in Nat /\ MaxPrevious \in Nat

VARIABLES yy_start,             \* YY_START
          YY_PREVIOUS_STATE,    \* the stack of BEGINX and BEGIN_PREVIOUS
          state_variable_from,  \* 1: the variables are those of an update of targets
          buffers,              \* what yylex reads, the innermost last
          locs,                 \* driver.loc
          open,                 \* number of included files open
          position,             \* where the parser is
          abort,                \* m_remoteRulesActionOnFailed of the driver is Abort
          parse,                \* of the driver: idle, running, done or failed
          parses,
          stale,                \* history: state_variable_from was 1 at scan_begin
          still                 \* history: patterns matched since one ate text

scannerVars == <<yy_start, YY_PREVIOUS_STATE, state_variable_from, buffers, locs, open,
                 position, abort, parse, parses, stale, still>>

-----------------------------------------------------------------------------
(* Start conditions.                                                       *)

ActionStates    == {"EXPECTING_ACTIONS_ENDS_WITH_DOUBLE_QUOTE", "EXPECTING_ACTIONS_ONLY_ONE"}
EXPECTING_ACTIONS == "EXPECTING_ACTIONS_ENDS_WITH_DOUBLE_QUOTE"
PredicateStates == {"ACTION_PREDICATE_ENDS_WITH_QUOTE",
                    "ACTION_PREDICATE_ENDS_WITH_DOUBLE_QUOTE",
                    "ACTION_PREDICATE_ENDS_WITH_COMMA_OR_DOUBLE_QUOTE"}
VariableStates  == {"EXPECTING_VARIABLE", "EXPECTING_ACTION_PREDICATE_VARIABLE"}
OperatorStates  == {"EXPECTING_OPERATOR_ENDS_WITH_SPACE", "EXPECTING_OPERATOR_ENDS_WITH_QUOTE"}
NoOpStates      == {"NO_OP_INFORMED_ENDS_WITH_SPACE", "NO_OP_INFORMED_ENDS_WITH_QUOTE"}
ParameterStates == {"EXPECTING_PARAMETER_ENDS_WITH_SPACE", "EXPECTING_PARAMETER_ENDS_WITH_QUOTE"}
ToParameterStates ==
    {"TRANSITION_FROM_OP_TO_EXPECTING_PARAMETER_ENDS_WITH_SPACE",
     "TRANSITION_FROM_OP_TO_EXPECTING_PARAMETER_ENDS_WITH_QUOTE"}
SetvarStates    == {"SETVAR_ACTION_NONQUOTED", "SETVAR_ACTION_QUOTED"}
OperationStates == {"SETVAR_ACTION_NONQUOTED_WAITING_OPERATION",
                    "SETVAR_ACTION_QUOTED_WAITING_OPERATION"}
ContentStates   == {"SETVAR_ACTION_NONQUOTED_WAITING_CONTENT",
                    "SETVAR_ACTION_QUOTED_WAITING_CONTENT"}
KeyStates       == {"EXPECTING_VAR_PARAMETER_OR_MACRO_NONQUOTED",
                    "EXPECTING_VAR_PARAMETER_OR_MACRO_QUOTED"}
ToActionStates  == {"TRANSACTION_FROM_OPERATOR_TO_ACTIONS",
                    "TRANSACTION_FROM_OPERATOR_PARAMETERS_TO_ACTIONS"}
ErrorStates     == {"LEXING_ERROR", "LEXING_ERROR_ACTION", "LEXING_ERROR_VARIABLE"}

StartConditions ==
    ActionStates \cup PredicateStates \cup VariableStates \cup OperatorStates \cup NoOpStates
    \cup ParameterStates \cup ToParameterStates \cup SetvarStates \cup OperationStates
    \cup ContentStates \cup KeyStates \cup ToActionStates \cup ErrorStates
    \cup {"INITIAL", "COMMENT", "TRANSACTION_TO_VARIABLE", "EXPECTING_ACTION_PREDICATE",
          "TRANSACTION_FROM_DIRECTIVE_TO_ACTIONS", "EXPECTING_VAR_PARAMETER"}

(* The macros BEGINX_, BEGIN_PARAMETER, BEGIN_NO_OP_INFORMED,              *)
(* BEGIN_ACTION_OPERATION and BEGIN_ACTION_WAITING_CONTENT choose by       *)
(* YY_START.                                                               *)
BEGINX_(s) == CASE s = "SETVAR_ACTION_NONQUOTED" -> "EXPECTING_VAR_PARAMETER_OR_MACRO_NONQUOTED"
                [] s = "SETVAR_ACTION_QUOTED"    -> "EXPECTING_VAR_PARAMETER_OR_MACRO_QUOTED"
                [] OTHER                         -> "EXPECTING_VAR_PARAMETER"
BEGIN_PARAMETER(s) ==
    IF s = "EXPECTING_OPERATOR_ENDS_WITH_SPACE"
      THEN "TRANSITION_FROM_OP_TO_EXPECTING_PARAMETER_ENDS_WITH_SPACE"
      ELSE "TRANSITION_FROM_OP_TO_EXPECTING_PARAMETER_ENDS_WITH_QUOTE"
BEGIN_NO_OP_INFORMED(s) ==
    IF s = "EXPECTING_OPERATOR_ENDS_WITH_SPACE"
      THEN "NO_OP_INFORMED_ENDS_WITH_SPACE" ELSE "NO_OP_INFORMED_ENDS_WITH_QUOTE"
BEGIN_ACTION_OPERATION(s) ==
    IF s = "SETVAR_ACTION_NONQUOTED" THEN "SETVAR_ACTION_NONQUOTED_WAITING_OPERATION"
                                     ELSE "SETVAR_ACTION_QUOTED_WAITING_OPERATION"
BEGIN_ACTION_WAITING_CONTENT(s) ==
    IF s \in {"SETVAR_ACTION_NONQUOTED_WAITING_OPERATION",
              "EXPECTING_VAR_PARAMETER_OR_MACRO_NONQUOTED"}
      THEN "SETVAR_ACTION_NONQUOTED_WAITING_CONTENT"
      ELSE "SETVAR_ACTION_QUOTED_WAITING_CONTENT"

-----------------------------------------------------------------------------
(* Patterns: the start condition they belong to, the token they return ("" *)
(* for none), whether they begin a condition, push the present one first   *)
(* or pop, and whether they give all the text back (yyless(0)).            *)

Patterns(from, tokens, how, go) ==
    [from : from, token : tokens, how : {how}, go : {go}, back : {FALSE}]
Stay(from, tokens)        == Patterns(from, tokens, "stay", "")
Begin(from, tokens, go)   == Patterns(from, tokens, "begin", go)
BEGINX(from, tokens, go)  == Patterns(from, tokens, "push", go)
BEGIN_PREVIOUS(from, tokens) == Patterns(from, tokens, "pop", "")
Back(patterns)            == {[p EXCEPT !.back = TRUE] : p \in patterns}
Each(from, F(_))          == UNION {F(s) : s \in from}
Tokens(rows)              == {row.token : row \in rows}
None                      == {""}

(* Actions.                                                                *)
ActionPatterns1 ==
    Stay(ActionStates, ACTION_NOT_SUPPORTED \cup
        {"ACTION_BLOCK", "ACTION_CAPTURE", "ACTION_CHAIN", "ACTION_DENY",
         "ACTION_DROP", "ACTION_ID", "ACTION_LOG", "ACTION_MULTI_MATCH",
         "ACTION_NO_AUDIT_LOG", "ACTION_NO_LOG", "ACTION_PASS",
         "ACTION_STATUS"})
    \cup Begin(ActionStates, {"ACTION_SETRSC"}, "EXPECTING_ACTION_PREDICATE")

ActionPatterns2 ==
    Stay(ActionStates, CtlAlone \cup ActionsWithValue \cup
        {"ACTION_ACCURACY", "ACTION_ALLOW", "ACTION_AUDIT_LOG", "ACTION_EXEC"})

ActionPatterns3 ==
    Begin(ActionStates, {"ACTION_EXPIRE_VAR", "ACTION_INITCOL", "ACTION_MSG", "ACTION_REDIRECT",
                         "ACTION_SETENV", "ACTION_SETSID", "ACTION_SETUID", "ACTION_TAG"},
          "EXPECTING_ACTION_PREDICATE")
    \cup Begin(ActionStates, {"ACTION_SETVAR"}, "SETVAR_ACTION_QUOTED")
    \cup Begin(ActionStates, {"ACTION_SETVAR"}, "SETVAR_ACTION_NONQUOTED")
    \cup Stay(ActionStates, {"ACTION_MATURITY", "ACTION_PHASE", "ACTION_REV", "ACTION_SEVERITY",
                             "ACTION_SKIP", "ACTION_SKIP_AFTER", "ACTION_VER", "ACTION_XMLNS"})

TransformationPatterns1 ==
    Stay(ActionStates, TransformationsA \cup {"ACTION_TRANSFORMATION_COMPRESS_WHITESPACE",
                                              "ACTION_TRANSFORMATION_NONE"})

TransformationPatterns2 ==
    Stay(ActionStates, TransformationsB \ {"ACTION_TRANSFORMATION_COMPRESS_WHITESPACE",
                                           "ACTION_TRANSFORMATION_NONE"})
    \cup Begin(ActionStates, {"ACTION_LOG_DATA"}, "EXPECTING_ACTION_PREDICATE")

(* The values of ctl, a line continued, a comma, and the end of the list.  *)
ActionValuePatterns ==
    Stay(ActionStates, {On, Off, RelevantOnly, "CONFIG_VALUE_DETC", "CONFIG_VALUE_ONLYARGS", ""})

ActionEndPatterns ==
    Stay({EXPECTING_ACTIONS}, {"COMMA"})
    \cup Begin(ActionStates, None, "INITIAL")
    \cup Back(Begin(ActionStates, None, "LEXING_ERROR_ACTION"))

(* What msg, tag, setenv... carry, and macros in strings.                  *)
PredicatePatterns ==
    Begin({"EXPECTING_ACTION_PREDICATE"}, None, "ACTION_PREDICATE_ENDS_WITH_QUOTE")
    \cup Begin({"EXPECTING_ACTION_PREDICATE"}, None, "ACTION_PREDICATE_ENDS_WITH_DOUBLE_QUOTE")
    \cup Back(Begin({"EXPECTING_ACTION_PREDICATE"}, None,
                    "ACTION_PREDICATE_ENDS_WITH_COMMA_OR_DOUBLE_QUOTE"))
    \cup BEGIN_PREVIOUS({"EXPECTING_ACTION_PREDICATE_VARIABLE"}, None)
    \cup Stay(PredicateStates, {TEXT, ""})
    \cup Begin({"ACTION_PREDICATE_ENDS_WITH_QUOTE", "ACTION_PREDICATE_ENDS_WITH_DOUBLE_QUOTE"},
               None, EXPECTING_ACTIONS)
    \cup Back(Begin({"ACTION_PREDICATE_ENDS_WITH_COMMA_OR_DOUBLE_QUOTE"}, None,
                    EXPECTING_ACTIONS))
    \cup BEGINX(PredicateStates, None, "EXPECTING_ACTION_PREDICATE_VARIABLE")
    \cup Back(Begin(PredicateStates, None, "LEXING_ERROR_VARIABLE"))

SetvarPatterns ==
    Stay(SetvarStates, {"NOT"})
    \cup Each(SetvarStates, LAMBDA s : Back(Begin({s}, None, BEGIN_ACTION_OPERATION(s))))
    \cup Each(OperationStates,
              LAMBDA s : Begin({s}, SETVAR_OPERATION, BEGIN_ACTION_WAITING_CONTENT(s)))
    \cup Back(Begin({"SETVAR_ACTION_NONQUOTED_WAITING_OPERATION"} \cup ContentStates, None,
                    EXPECTING_ACTIONS))
    \cup Begin({"SETVAR_ACTION_QUOTED_WAITING_OPERATION",
                "SETVAR_ACTION_QUOTED_WAITING_CONTENT"}, None, EXPECTING_ACTIONS)
    \cup Back(Begin({"SETVAR_ACTION_QUOTED_WAITING_OPERATION"}, None, "LEXING_ERROR_ACTION"))
    \cup BEGINX(ContentStates, None, "EXPECTING_ACTION_PREDICATE_VARIABLE")
    \cup Stay(ContentStates, {TEXT})

-----------------------------------------------------------------------------
(* Directives.                                                             *)

DirectivePatterns1 ==
    Stay({"INITIAL"}, Tokens(audit_log) \cup
        {"CONFIG_COMPONENT_SIG", "CONFIG_CONTENT_INJECTION", "CONFIG_DIR_AUDIT_TPE",
         "CONFIG_SEC_ARGUMENT_SEPARATOR", "CONFIG_SEC_SERVER_SIG", "CONFIG_SEC_WEB_APP_ID"})

DirectivePatterns2 ==
    Stay({"INITIAL"}, Tokens(expression_limits) \cup Tokens(expression_remove) \cup
        {"CONFIG_DIR_PCRE_MATCH_LIMIT", "CONFIG_DIR_PCRE_MATCH_LIMIT_RECURSION",
         "CONFIG_DIR_REQ_BODY", "CONFIG_DIR_REQ_BODY_LIMIT_ACTION", "CONFIG_DIR_RES_BODY",
         "CONFIG_DIR_RES_BODY_LIMIT_ACTION", "CONFIG_DIR_RULE_ENG", "CONFIG_DIR_SEC_MARKER",
         "CONFIG_DIR_UNICODE_MAP_FILE"})

(* SecRuleUpdate...: the ones of targets set state_variable_from, see Scan. *)
UpdatePatterns ==
    Begin({"INITIAL"}, UpdateTarget, "TRANSACTION_TO_VARIABLE")
    \cup Begin({"INITIAL"}, {"CONFIG_SEC_RULE_UPDATE_ACTION_BY_ID"},
               "TRANSACTION_FROM_OPERATOR_TO_ACTIONS")

UploadPatterns ==
    Stay({"INITIAL"}, Tokens(audit_log_type) \ {"CONFIG_DIR_AUDIT_TPE"})

ValuePatterns ==
    Stay({"INITIAL"}, {On, Off, RelevantOnly, "CONFIG_VALUE_ABORT", "CONFIG_VALUE_DETC",
        "CONFIG_VALUE_HTTPS", "CONFIG_VALUE_ONLYARGS", "CONFIG_VALUE_PARALLEL",
        "CONFIG_VALUE_PROCESS_PARTIAL", "CONFIG_VALUE_REJECT", "CONFIG_VALUE_SERIAL",
        "CONFIG_VALUE_WARN"})

DirectivePatterns3 == Stay({"INITIAL"}, Tokens(expression_types))

DirectivePatterns4 ==
    Stay({"INITIAL"}, Tokens(expression_refused) \cup Tokens(expression_limits_refused)
                      \cup {"CONFIG_CONN_ENGINE"})
    \cup Begin({"INITIAL"}, {"DIRECTIVE_SECRULESCRIPT"}, "TRANSACTION_FROM_DIRECTIVE_TO_ACTIONS")

RulePatterns ==
    Begin({"INITIAL"}, {"DIRECTIVE"}, "TRANSACTION_TO_VARIABLE")
    \cup Begin({"INITIAL"}, {"CONFIG_DIR_SEC_ACTION", "CONFIG_DIR_SEC_DEFAULT_ACTION"},
               "TRANSACTION_FROM_DIRECTIVE_TO_ACTIONS")
    \cup Stay({"INITIAL"}, {"CONFIG_SEC_COLLECTION_TIMEOUT", "CONFIG_SEC_HTTP_BLKEY",
                            "CONFIG_SEC_REMOTE_RULES_FAIL_ACTION"})

(* Blank lines, comments (the one of a SecRule or SecAction continues over *)
(* lines that end in a backslash), and a quotation mark or comma alone.    *)
CommentPatterns ==
    Stay({"INITIAL"}, {"", "QUOTATION_MARK", "COMMA"})
    \cup Begin({"INITIAL"}, None, "COMMENT")

CommentEndPatterns == Stay({"COMMENT"}, None) \cup Begin({"COMMENT"}, None, "INITIAL")

-----------------------------------------------------------------------------
(* Variables.  How a list ends is EndOfVariables.                          *)

ListPatterns ==
    Begin({"TRANSACTION_TO_VARIABLE"}, None, "EXPECTING_VARIABLE")
    \cup Stay({"EXPECTING_VARIABLE"}, {"PIPE", "QUOTATION_MARK", "VAR_EXCLUSION", "VAR_COUNT"})
    \cup Back(Begin(VariableStates, None, "LEXING_ERROR_VARIABLE"))

ToActionsPatterns ==
    Stay({"TRANSACTION_FROM_DIRECTIVE_TO_ACTIONS"}, None)
    \cup Begin({"TRANSACTION_FROM_DIRECTIVE_TO_ACTIONS"}, None, EXPECTING_ACTIONS)

Named(variables) == Stay(VariableStates, variables)
    \cup BEGINX(VariableStates, variables \cap DictVariables, "EXPECTING_VAR_PARAMETER")

VariablePatterns1 ==
    Named(BodyVariables \cup {"VARIABLE_ARGS_GET_NAMES", "VARIABLE_ARGS_NAMES",
        "VARIABLE_ARGS_POST_NAMES", "VARIABLE_MULTIPART_FILENAME",
        "VARIABLE_MULTIPART_FILENAME_CHARSET", "VARIABLE_MULTIPART_FILENAME_LANGUAGE"})
VariablePatterns2 ==
    Named(PartErrorVariables \cup {"VARIABLE_MULTIPART_NAME", "VARIABLE_REQUEST_BASENAME",
        "VARIABLE_REQBODY_PROCESSOR_ERROR_MSG", "VARIABLE_REQUEST_BODY",
        "VARIABLE_REQUEST_BODY_LENGTH", "VARIABLE_REQUEST_FILE_NAME",
        "VARIABLE_REQUEST_HEADERS_NAMES", "VARIABLE_REQUEST_LINE", "VARIABLE_REQUEST_METHOD"})
VariablePatterns3 ==
    Named(ArgumentVariables \cup (ResponseVariables \ {"VARIABLE_STATUS", "VARIABLE_STATUS_LINE"})
        \cup {"VARIABLE_REQUEST_PROTOCOL", "VARIABLE_REQUEST_URI", "VARIABLE_REQUEST_URI_RAW",
              "VARIABLE_RESPONSE_BODY", "VARIABLE_RESPONSE_CONTENT_LENGTH",
              "VARIABLE_RESPONSE_CONTENT_TYPE", "VARIABLE_RESPONSE_HEADERS_NAMES"})
VariablePatterns4 ==
    Named(HeaderVariables \cup (RuleVariables \ {"RUN_TIME_VAR_ENV"})
        \cup {"VARIABLE_MATCHED_VARS", "VARIABLE_MATCHED_VARS_NAMES"})
VariablePatterns5 == Named(RunTimeVariables \cup {"RUN_TIME_VAR_ENV"})

(* A collection alone, or followed by the separator of its key.            *)
CollectionPatterns1 ==
    Stay(VariableStates, CollectionVariables \cup {"VARIABLE_STATUS", "VARIABLE_STATUS_LINE"})
CollectionPatterns2 ==
    Each(VariableStates \cup SetvarStates,
         LAMBDA s : BEGINX({s}, CollectionVariables, BEGINX_(s)))

(* The key of a collection in setvar: text and macros, up to the operation *)
(* or the end of the action.                                               *)
KeyPatterns ==
    Each(KeyStates, LAMBDA s : Begin({s}, SETVAR_OPERATION, BEGIN_ACTION_WAITING_CONTENT(s)))
    \cup BEGIN_PREVIOUS(KeyStates, {"DICT_ELEMENT_REGEXP", TEXT})
    \cup Stay(KeyStates, {TEXT})
    \cup Back(BEGIN_PREVIOUS(KeyStates, None))
    \cup Back(BEGINX(KeyStates, None, "LEXING_ERROR_ACTION"))

(* The element of a variable.                                              *)
ElementPatterns ==
    BEGIN_PREVIOUS({"EXPECTING_VAR_PARAMETER"}, Dict)
    \cup Stay({"EXPECTING_VAR_PARAMETER"}, {"QUOTATION_MARK"})
    \cup Back(BEGINX({"EXPECTING_VAR_PARAMETER"}, None, "LEXING_ERROR_ACTION"))

-----------------------------------------------------------------------------
(* Operators and their parameters.                                         *)

Parameterised(operators) ==
    Each(OperatorStates, LAMBDA s : Begin({s}, operators, BEGIN_PARAMETER(s)))

OperatorPatterns1 ==
    Begin(OperatorStates, OperatorsAlone, "TRANSACTION_FROM_OPERATOR_TO_ACTIONS")
OperatorPatterns2 ==
    Parameterised(OperatorsComparing \cup {"OPERATOR_PM", "OPERATOR_PM_FROM_FILE", "OPERATOR_RBL"})
OperatorPatterns3 ==
    Parameterised(OperatorsValidating \cup
        {"OPERATOR_BEGINS_WITH", "OPERATOR_RX", "OPERATOR_RX_GLOBAL", "OPERATOR_STR_EQ",
         "OPERATOR_STR_MATCH"})
OperatorPatterns4 ==
    Stay(OperatorStates, {"NOT"})
    \cup Each(OperatorStates, LAMBDA s : Back(Begin({s}, None, BEGIN_NO_OP_INFORMED(s))))

ToParameterPatterns ==
    Begin({"TRANSITION_FROM_OP_TO_EXPECTING_PARAMETER_ENDS_WITH_SPACE"}, None,
          "EXPECTING_PARAMETER_ENDS_WITH_SPACE")
    \cup Begin({"TRANSITION_FROM_OP_TO_EXPECTING_PARAMETER_ENDS_WITH_QUOTE"}, None,
               "EXPECTING_PARAMETER_ENDS_WITH_QUOTE")

NoOpPatterns ==
    Begin(NoOpStates, None, "TRANSACTION_FROM_OPERATOR_PARAMETERS_TO_ACTIONS")
    \cup Stay(NoOpStates, {TEXT})
    \cup BEGINX(NoOpStates, None, "EXPECTING_ACTION_PREDICATE_VARIABLE")
    \cup Back(Begin(NoOpStates, None, "LEXING_ERROR"))

ParameterPatterns ==
    Begin(ParameterStates, None, "TRANSACTION_FROM_OPERATOR_PARAMETERS_TO_ACTIONS")
    \cup Stay(ParameterStates, {TEXT})
    \cup BEGINX(ParameterStates \cup KeyStates, None, "EXPECTING_ACTION_PREDICATE_VARIABLE")
    \cup Back(Begin(ParameterStates \cup KeyStates, None, "LEXING_ERROR_VARIABLE"))

(* From an operator to the actions, in quotes or only one.                 *)
OnlyOnePatterns ==
    Begin(ToActionStates, None, "EXPECTING_ACTIONS_ONLY_ONE")
    \cup Begin(ToActionStates, None, EXPECTING_ACTIONS)

(* White space, a line continued, and what no pattern wants.               *)
BlankPatterns ==
    Stay({"INITIAL", "EXPECTING_ACTION_PREDICATE_VARIABLE"} \cup OperatorStates \cup KeyStates
         \cup ParameterStates, None)

InvalidPatterns == Back(Begin({"INITIAL"}, None, "LEXING_ERROR"))

(* The default rule of flex copies a character to the standard output: in  *)
(* the conditions without a pattern for the end of a line, or for others.  *)
Echo == Stay(StartConditions \ ({"INITIAL", "EXPECTING_VARIABLE"} \cup ActionStates
             \cup ErrorStates \cup SetvarStates \cup OperationStates \cup ContentStates), None)

AllPatterns ==
    ActionPatterns1 \cup ActionPatterns2 \cup ActionPatterns3 \cup TransformationPatterns1
    \cup TransformationPatterns2 \cup ActionValuePatterns \cup ActionEndPatterns
    \cup PredicatePatterns \cup SetvarPatterns \cup DirectivePatterns1 \cup DirectivePatterns2
    \cup UpdatePatterns \cup UploadPatterns \cup ValuePatterns \cup DirectivePatterns3
    \cup DirectivePatterns4 \cup RulePatterns \cup CommentPatterns \cup CommentEndPatterns
    \cup ListPatterns \cup ToActionsPatterns \cup VariablePatterns1 \cup VariablePatterns2
    \cup VariablePatterns3 \cup VariablePatterns4 \cup VariablePatterns5
    \cup CollectionPatterns1 \cup CollectionPatterns2 \cup KeyPatterns \cup ElementPatterns
    \cup OperatorPatterns1 \cup OperatorPatterns2 \cup OperatorPatterns3 \cup OperatorPatterns4
    \cup ToParameterPatterns \cup NoOpPatterns \cup ParameterPatterns \cup OnlyOnePatterns
    \cup BlankPatterns \cup InvalidPatterns \cup Echo

(* Of the tokens the parser treats alike, one.                             *)
Takes(t) == {<<row.value, row.fails>> : row \in RowsOf(t)}
Values(t) == {c[2] : c \in {d \in CtlWithValue : d[1] = t}}
Classes == {ActionsAlone \ ACTION_NOT_SUPPORTED, ACTION_NOT_SUPPORTED, ActionsWithString,
            OperatorsAlone, OPERATOR_NOT_SUPPORTED, OperatorsWithString \ OPERATOR_NOT_SUPPORTED,
            UpdateTarget, SETVAR_OPERATION, {"CONFIG_DIR_SEC_ACTION",
            "CONFIG_DIR_SEC_DEFAULT_ACTION", "DIRECTIVE_SECRULESCRIPT"}}
OneOf(t) ==
    CASE t \in Variables        -> CHOOSE u \in Variables : Kind(u) = Kind(t)
      [] t \in Tokens(Rows)     -> CHOOSE u \in Tokens(Rows) : Takes(u) = Takes(t)
      [] t \in ActionsWithValue -> CHOOSE u \in ActionsWithValue : Values(u) = Values(t)
      [] \E c \in Classes : t \in c -> CHOOSE u \in CHOOSE c \in Classes : t \in c : TRUE
      [] OTHER -> t

PatternsOf == [s \in StartConditions |->
                  {[p EXCEPT !.token = OneOf(@)] : p \in {q \in AllPatterns : q.from = s}}]

-----------------------------------------------------------------------------
(* The end of a parse: scan_end frees the buffer on top of the stack alone *)
(* and closes no file; the two statics keep their values.                  *)
EndParse(result) ==
    /\ parse' = result
    /\ yy_start' = "INITIAL"
    /\ buffers' = << >> /\ locs' = << >>
    /\ position' = Line /\ abort' = FALSE /\ still' = 0
    /\ UNCHANGED <<parses, stale>>

InitScanner ==
    /\ yy_start = "INITIAL" /\ YY_PREVIOUS_STATE = << >> /\ state_variable_from = 0
    /\ buffers = << >> /\ locs = << >> /\ open = 0
    /\ position = Line /\ abort = FALSE
    /\ parse = "idle" /\ parses = 0 /\ stale = FALSE /\ still = 0

(* Driver::parse of a new driver, with scan_begin.                         *)
scan_begin ==
    /\ parse # "running" /\ parses < MaxParses
    /\ parse' = "running" /\ parses' = parses + 1
    /\ buffers' = <<"string">> /\ locs' = <<"string">> /\ open' = 0
    /\ stale' = (state_variable_from = 1)
    /\ UNCHANGED <<yy_start, YY_PREVIOUS_STATE, state_variable_from, position, abort, still>>

Stack(p) == CASE p.how = "push" -> <<p.from>> \o YY_PREVIOUS_STATE
              [] p.how = "pop"  -> Tail(YY_PREVIOUS_STATE)
              [] OTHER          -> YY_PREVIOUS_STATE

(* SecRemoteRulesFailAction.                                               *)
OnFailed(token) ==
    IF position.token = "CONFIG_SEC_REMOTE_RULES_FAIL_ACTION" /\ token # ""
      THEN token = "CONFIG_VALUE_ABORT" ELSE abort

(* yylex: the action of a pattern, and the parser's with its token.        *)
Scan ==
    /\ parse = "running"
    /\ \E p \in PatternsOf[yy_start] :
        LET next == IF p.token = "" THEN position ELSE Shift(position, p.token)
        IN  /\ p.how = "push" => Len(YY_PREVIOUS_STATE) < MaxPrevious
            /\ p.how = "pop" => YY_PREVIOUS_STATE # << >>   \* see HostOnTop
            /\ YY_PREVIOUS_STATE' = Stack(p)
            /\ state_variable_from' = IF p.token \in UpdateTarget THEN 1
                                      ELSE state_variable_from
            /\ \/ /\ next # Error
                  /\ yy_start' = CASE p.how = "stay" -> yy_start
                                   [] p.how = "pop"  -> Head(YY_PREVIOUS_STATE)
                                   [] OTHER          -> p.go
                  /\ position' = next
                  /\ abort' = OnFailed(p.token)
                  /\ still' = IF p.back THEN still + 1 ELSE 0
                  /\ UNCHANGED <<buffers, locs, parse, parses, stale>>
               \/ /\ p.token # "" /\ (next = Error \/ MayFail(position, p.token))
                  /\ EndParse("failed")
            /\ UNCHANGED open

(* Mutant: the flag is not reset at the end of a list of targets.          *)
MutEndOfVariables ==
    /\ parse = "running" /\ yy_start = "EXPECTING_VARIABLE"
    /\ yy_start' \in IF state_variable_from = 0 THEN OperatorStates ELSE {"INITIAL"}
    /\ still' = 0
    /\ UNCHANGED <<YY_PREVIOUS_STATE, state_variable_from, buffers, locs, open, position,
                   abort, parse, parses, stale>>

(* White space after the variables: on to the operator, or to a new line   *)
(* after the targets of an update.                                         *)
EndOfVariables ==
    /\ parse = "running" /\ yy_start = "EXPECTING_VARIABLE"
    /\ yy_start' \in IF state_variable_from = 0 THEN OperatorStates ELSE {"INITIAL"}
    /\ state_variable_from' = 0
    /\ still' = 0
    /\ UNCHANGED <<YY_PREVIOUS_STATE, buffers, locs, open, position, abort, parse, parses,
                   stale>>

(* The three conditions that end the parse with the text that follows.     *)
LexingError ==
    /\ parse = "running" /\ yy_start \in ErrorStates
    /\ EndParse("failed")
    /\ UNCHANGED <<YY_PREVIOUS_STATE, state_variable_from, open>>

WithoutLast(seq) == SubSeq(seq, 1, Len(seq) - 1)

(* Mutant: the file is not closed.                                         *)
MutClosed == open

(* The files open once the innermost buffer, if it is a file, is closed.   *)
Closed == IF buffers[Len(buffers)] = "file" THEN open - 1 ELSE open

(* <<EOF>> of the innermost buffer; the start condition stays as it is.    *)
EndOfBuffer ==
    /\ parse = "running" /\ yy_start \notin ErrorStates
    /\ open' = Closed
    /\ IF Len(buffers) > 1
         THEN /\ buffers' = WithoutLast(buffers) /\ locs' = WithoutLast(locs)
              /\ still' = 0
              /\ UNCHANGED <<yy_start, position, abort, parse, parses, stale>>
         ELSE \/ Shift(position, "END") = Accept /\ EndParse("done")
              \/ /\ Shift(position, "END") = Error \/ MayFail(position, "END")
                 /\ EndParse("failed")
    /\ UNCHANGED <<YY_PREVIOUS_STATE, state_variable_from>>

Pushed(seq, kind, n) == seq \o [i \in 1..n |-> kind]

(* Include: the files of a name with wildcards are all opened first; one   *)
(* that cannot be opened, or a name that cannot be found, is an error.     *)
Include ==
    /\ parse = "running" /\ yy_start = "INITIAL"
    /\ \E files \in 0..(MaxTexts - parses - Len(buffers)) : \E opened \in 0..files :
        \/ /\ opened = files
           /\ buffers' = Pushed(buffers, "file", files)
           /\ locs' = Pushed(locs, "file", files)
           /\ open' = open + files
           /\ still' = 0
           /\ UNCHANGED <<yy_start, position, abort, parse, parses, stale>>
        \/ /\ opened < files \/ files = 0
           /\ open' = open + opened
           /\ EndParse("failed")
    /\ UNCHANGED <<YY_PREVIOUS_STATE, state_variable_from>>

(* SecRemoteRules: what was downloaded, or an empty text after a failure   *)
(* that does not abort, is read in the place of the directive.             *)
SecRemoteRules ==
    /\ parse = "running" /\ yy_start = "INITIAL" /\ parses + Len(buffers) < MaxTexts
    /\ \/ /\ buffers' = Append(buffers, "remote") /\ locs' = Append(locs, "remote")
          /\ still' = 0
          /\ UNCHANGED <<yy_start, position, abort, parse, parses, stale>>
       \/ abort /\ EndParse("failed")
    /\ UNCHANGED <<YY_PREVIOUS_STATE, state_variable_from, open>>

NextScanner == scan_begin \/ Scan \/ EndOfVariables \/ LexingError \/ EndOfBuffer \/ Include
               \/ SecRemoteRules

SpecScanner == InitScanner /\ [][NextScanner]_scannerVars

-----------------------------------------------------------------------------
(* The static state_variable_from tells the variables of a SecRule from    *)
(* the targets of an update.  The text after one that failed in the        *)
(* targets of an update, or ended right after them, is not spoken of: it   *)
(* begins with the flag set, and what comes of that is RulesAreReadOn.     *)
TargetsKnown ==
    parse = "running" /\ ~stale /\ yy_start = "EXPECTING_VARIABLE"
        => (state_variable_from = 1 <=> position.of = "target")

Hosts(s) ==
    CASE s = "EXPECTING_VAR_PARAMETER" -> VariableStates
      [] s = "EXPECTING_VAR_PARAMETER_OR_MACRO_NONQUOTED" -> {"SETVAR_ACTION_NONQUOTED"}
      [] s = "EXPECTING_VAR_PARAMETER_OR_MACRO_QUOTED" -> {"SETVAR_ACTION_QUOTED"}
      [] s = "EXPECTING_ACTION_PREDICATE_VARIABLE" ->
             PredicateStates \cup ContentStates \cup KeyStates \cup NoOpStates
             \cup ParameterStates

(* BEGIN_PREVIOUS goes back to the text that held the macro, key or        *)
(* element: never to an entry that setvar or a failed parse left on the    *)
(* static stack, and it never pops an empty one.                           *)
HostOnTop ==
    yy_start \in {"EXPECTING_VAR_PARAMETER", "EXPECTING_ACTION_PREDICATE_VARIABLE"} \cup KeyStates
        => /\ YY_PREVIOUS_STATE # << >>
           /\ Head(YY_PREVIOUS_STATE) \in Hosts(yy_start)

(* The scanner is in the part of a rule the parser is in: in a parameter   *)
(* only inside an operator, in a string or a macro of it only inside the   *)
(* action it belongs to and nowhere else, in an operator never after the   *)
(* targets of an update.                                                   *)
InStep ==
    parse = "running" /\ ~stale =>
        /\ yy_start \in OperatorStates \cup NoOpStates => position.of # "target"
        /\ yy_start \in {"EXPECTING_VARIABLE"} \cup OperatorStates \cup NoOpStates =>
               ~(position.at \in {"string", "strings"} /\ position.of = "acts")
        /\ yy_start \in ToParameterStates \cup ParameterStates =>
               position.at \in {"string", "strings"} /\ position.of \in {"operator", "refused"}
        /\ yy_start \in PredicateStates \cup ContentStates =>
               position.at \in {"string", "strings"} /\ position.of = "acts"

(* No chain of patterns that give their text back is longer than four:     *)
(* the scanner always gets on with the text.                               *)
AlwaysEats == still <= 4

(* driver.loc names the text being read.                                   *)
LocOfBuffer == locs = buffers

(* A parse that succeeds has closed every file it included.                *)
FilesReadAreClosed == parse = "done" => open = 0

(* The scanner is where the parser takes it to be, also after a text that  *)
(* failed, but not after one that left state_variable_from set (~stale in  *)
(* TargetsKnown and InStep; HostOnTop has no exception).                   *)
ScannerFollowsParser == TargetsKnown /\ HostOnTop /\ InStep

(* From the variables of a SecRule the scanner goes on to its operator,    *)
(* never back to the start of a directive.  config-update-target-by-id.json*)
(* has (lines 43 and 44) a SecRule right after the targets of a            *)
(* SecRuleUpdateTargetById, and the rule is to be loaded.                  *)
RulesAreReadOn ==
    [][parse = "running" /\ yy_start = "EXPECTING_VARIABLE"
       /\ position.of = "rule" /\ position.at \in {"vars", "listed"}
       /\ parse' = "running" => yy_start' # "INITIAL"]_scannerVars

(* Texts are read to their end, and left as they were entered.             *)
TextsAreRead == AlwaysEats /\ LocOfBuffer /\ FilesReadAreClosed
=============================================================================
