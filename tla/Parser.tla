------------------------------- MODULE Parser -------------------------------
(***************************************************************************)
(* The grammar of the configuration language (seclang-parser): what each   *)
(* directive does, which tokens start a variable, an operator or an action *)
(* and what may follow them.  Shift is the LALR(1) automaton of the        *)
(* generated parser with its stack folded away: the language nests at most *)
(* one string in one variable, action or operator, so a position, a few    *)
(* flags and the kind of the last variable decide every shift and reduce.  *)
(***************************************************************************)
EXTENDS FiniteSets

-----------------------------------------------------------------------------
(* Directives.  A row is a production of "audit_log" or "expression" that  *)
(* ends with its directive, or with a value token after it: the property   *)
(* of the Driver it sets and to what ("text": what the directive carries), *)
(* and whether it may fail.                                                *)

Row(token, value, property, to, fails) ==
    [token |-> token, value |-> value, property |-> property, to |-> to,
     fails |-> fails]

Text(token, property)   == Row(token, "", property, "text", "never")
Number(token, property) == Row(token, "", property, "text", "maybe")
Value(token, value, property, to) == Row(token, value, property, to, "never")
Adds(token, property)   == Row(token, "", property, "more", "maybe")
Ignored(token, value)   == Row(token, value, "", "", "never")
Refused(token, value)   == Row(token, value, "", "", "always")

On  == "CONFIG_VALUE_ON"
Off == "CONFIG_VALUE_OFF"
RelevantOnly == "CONFIG_VALUE_RELEVANT_ONLY"

Switch(token, property) == {Value(token, On, property, "True"),
                            Value(token, Off, property, "False")}
OffOnly(token) == {Refused(token, On), Ignored(token, Off)}

(* SecAuditLog...                                                          *)
audit_log ==
    {Text("CONFIG_DIR_AUDIT_DIR_MOD", "storageDirMode"),
     Text("CONFIG_DIR_AUDIT_DIR", "storageDir"),
     Value("CONFIG_DIR_AUDIT_ENG", RelevantOnly, "status", "RelevantOnly"),
     Value("CONFIG_DIR_AUDIT_ENG", Off, "status", "Off"),
     Value("CONFIG_DIR_AUDIT_ENG", On, "status", "On"),
     Text("CONFIG_DIR_AUDIT_FLE_MOD", "fileMode"),
     Text("CONFIG_DIR_AUDIT_LOG2", "path2"),
     Text("CONFIG_DIR_AUDIT_LOG_P", "parts"),
     Text("CONFIG_DIR_AUDIT_LOG", "path1"),
     Value("CONFIG_DIR_AUDIT_LOG_FMT", "JSON", "format", "JSON"),
     Value("CONFIG_DIR_AUDIT_LOG_FMT", "NATIVE", "format", "Native"),
     Text("CONFIG_DIR_AUDIT_STS", "relevant"),
     Text("CONFIG_DIR_AUDIT_PREFIX", "prefix")}

(* SecAuditLogType and SecUpload...                                        *)
audit_log_type ==
    {Value("CONFIG_DIR_AUDIT_TPE", "CONFIG_VALUE_SERIAL", "type", "Serial"),
     Value("CONFIG_DIR_AUDIT_TPE", "CONFIG_VALUE_PARALLEL", "type", "Parallel"),
     Value("CONFIG_DIR_AUDIT_TPE", "CONFIG_VALUE_HTTPS", "type", "Https"),
     Refused("CONFIG_UPDLOAD_KEEP_FILES", RelevantOnly),
     Number("CONFIG_UPLOAD_FILE_LIMIT", "uploadFileLimit"),
     Number("CONFIG_UPLOAD_FILE_MODE", "uploadFileMode"),
     Text("CONFIG_UPLOAD_DIR", "uploadDirectory")}
    \cup Switch("CONFIG_UPDLOAD_KEEP_FILES", "uploadKeepFiles")
    \cup Switch("CONFIG_UPDLOAD_SAVE_TMP_FILES", "tmpSaveUploadedFiles")

(* SecMarker, SecRuleEngine, access to the bodies, and what follows up to  *)
(* the signatures.                                                         *)
expression_engine ==
    {Adds("CONFIG_DIR_SEC_MARKER", "markers"),
     Value("CONFIG_DIR_RULE_ENG", Off, "ruleEngine", "Disabled"),
     Value("CONFIG_DIR_RULE_ENG", On, "ruleEngine", "Enabled"),
     Value("CONFIG_DIR_RULE_ENG", "CONFIG_VALUE_DETC", "ruleEngine", "DetectionOnly"),
     Number("CONFIG_SEC_ARGUMENT_SEPARATOR", "argumentSeparator"),
     Adds("CONFIG_COMPONENT_SIG", "components"),
     Text("CONFIG_SEC_WEB_APP_ID", "webAppId"),
     Refused("CONFIG_SEC_SERVER_SIG", "")}
    \cup Switch("CONFIG_DIR_REQ_BODY", "requestBodyAccess")
    \cup Switch("CONFIG_DIR_RES_BODY", "responseBodyAccess")
    \cup OffOnly("CONFIG_CONN_ENGINE")

(* Directives of ModSecurity 2 that are refused, some of them unless they  *)
(* switch something off.                                                   *)
expression_refused ==
    {Refused(token, "") : token \in
        {"CONFIG_SEC_CACHE_TRANSFORMATIONS", "CONFIG_SEC_CHROOT_DIR",
         "CONFIG_SEC_HASH_KEY", "CONFIG_SEC_HASH_PARAM",
         "CONFIG_SEC_HASH_METHOD_RX", "CONFIG_SEC_HASH_METHOD_PM",
         "CONFIG_DIR_GSB_DB", "CONFIG_SEC_GUARDIAN_LOG"}}
    \cup OffOnly("CONFIG_SEC_DISABLE_BACKEND_COMPRESS")
    \cup OffOnly("CONFIG_CONTENT_INJECTION") \cup OffOnly("CONFIG_SEC_HASH_ENGINE")
    \cup OffOnly("CONFIG_SEC_INTERCEPT_ON_ERROR")

expression_limits_refused ==
    {Refused(token, "") : token \in
        {"CONFIG_SEC_CONN_R_STATE_LIMIT", "CONFIG_SEC_CONN_W_STATE_LIMIT",
         "CONFIG_SEC_SENSOR_ID", "CONFIG_SEC_RULE_PERF_TIME",
         "CONFIG_SEC_STREAM_IN_BODY_INSPECTION",
         "CONFIG_SEC_STREAM_OUT_BODY_INSPECTION"}}
    \cup OffOnly("CONFIG_SEC_RULE_INHERITANCE")

(* SecRuleRemoveBy...                                                      *)
expression_remove ==
    {Adds(token, "exceptions") : token \in
        {"CONFIG_SEC_RULE_REMOVE_BY_ID", "CONFIG_SEC_RULE_REMOVE_BY_TAG",
         "CONFIG_SEC_RULE_REMOVE_BY_MSG"}}

(* The debug log, the GeoIP data base and the limits of the bodies.        *)
expression_limits ==
    {Text("CONFIG_DIR_DEBUG_LVL", "debugLevel"),
     Number("CONFIG_DIR_DEBUG_LOG", "debugLog"),
     Row("CONFIG_DIR_GEO_DB", "", "", "", "maybe"),
     Text("CONFIG_DIR_ARGS_LIMIT", "argumentsLimit"),
     Text("CONFIG_DIR_REQ_BODY_JSON_DEPTH_LIMIT", "requestBodyJsonDepthLimit"),
     Number("CONFIG_DIR_REQ_BODY_LIMIT", "requestBodyLimit"),
     Number("CONFIG_DIR_REQ_BODY_NO_FILES_LIMIT", "requestBodyNoFilesLimit"),
     Refused("CONFIG_DIR_REQ_BODY_IN_MEMORY_LIMIT", ""),
     Number("CONFIG_DIR_RES_BODY_LIMIT", "responseBodyLimit")}

expression_limit_actions ==
    {Value("CONFIG_DIR_REQ_BODY_LIMIT_ACTION", "CONFIG_VALUE_PROCESS_PARTIAL",
           "requestBodyLimitAction", "ProcessPartial"),
     Value("CONFIG_DIR_REQ_BODY_LIMIT_ACTION", "CONFIG_VALUE_REJECT",
           "requestBodyLimitAction", "Reject"),
     Value("CONFIG_DIR_RES_BODY_LIMIT_ACTION", "CONFIG_VALUE_PROCESS_PARTIAL",
           "responseBodyLimitAction", "ProcessPartial"),
     Value("CONFIG_DIR_RES_BODY_LIMIT_ACTION", "CONFIG_VALUE_REJECT",
           "responseBodyLimitAction", "Reject"),
     Value("CONFIG_SEC_REMOTE_RULES_FAIL_ACTION", "CONFIG_VALUE_ABORT",
           "remoteRulesActionOnFailed", "Abort"),
     Value("CONFIG_SEC_REMOTE_RULES_FAIL_ACTION", "CONFIG_VALUE_WARN",
           "remoteRulesActionOnFailed", "Warn"),
     Ignored("CONFIG_DIR_PCRE_MATCH_LIMIT_RECURSION", ""),
     Number("CONFIG_DIR_PCRE_MATCH_LIMIT", "pcreMatchLimit")}

(* MIME types, XML and what follows to the end of "expression".            *)
expression_types ==
    {Row("CONGIG_DIR_RESPONSE_BODY_MP", "", "types", "more", "never"),
     Row("CONGIG_DIR_RESPONSE_BODY_MP_CLEAR", "", "types", "clear", "never"),
     Value("CONFIG_XML_PARSE_XML_INTO_ARGS", "CONFIG_VALUE_ONLYARGS",
           "XMLParseXmlIntoArgs", "OnlyArgs"),
     Ignored("CONGIG_DIR_SEC_TMP_DIR", ""), Ignored("CONGIG_DIR_SEC_DATA_DIR", ""),
     Ignored("CONGIG_DIR_SEC_ARG_SEP", ""),
     Row("CONGIG_DIR_SEC_COOKIE_FORMAT", "", "", "", "maybe"),
     Refused("CONFIG_SEC_COOKIEV0_SEPARATOR", ""),
     Ignored("CONGIG_DIR_SEC_STATUS_ENGINE", "")}
    \cup Switch("CONFIG_XML_EXTERNAL_ENTITY", "XMLExternalEntity")
    \cup Switch("CONFIG_XML_PARSE_XML_INTO_ARGS", "XMLParseXmlIntoArgs")

expression_unicode ==
    {Number("CONFIG_DIR_UNICODE_MAP_FILE", "unicodeMap"),
     Ignored("CONFIG_SEC_COLLECTION_TIMEOUT", ""),
     Text("CONFIG_SEC_HTTP_BLKEY", "httpblKey")}

Rows == audit_log \cup audit_log_type \cup expression_engine \cup expression_refused
        \cup expression_limits_refused \cup expression_remove \cup expression_limits
        \cup expression_limit_actions \cup expression_types \cup expression_unicode

RowsOf(token) == {row \in Rows : row.token = token}

-----------------------------------------------------------------------------
(* Variables ("var"): alone, with a dictionary element, or collections,    *)
(* whose key may also be a string with macros.                             *)

ArgumentVariables ==
    {"VARIABLE_ARGS", "VARIABLE_ARGS_POST", "VARIABLE_ARGS_GET",
     "VARIABLE_FILES_SIZES", "VARIABLE_FILES_NAMES",
     "VARIABLE_FILES_TMP_CONTENT"}

PartVariables ==
    {"VARIABLE_MULTIPART_FILENAME", "VARIABLE_MULTIPART_FILENAME_CHARSET",
     "VARIABLE_MULTIPART_FILENAME_LANGUAGE", "VARIABLE_MULTIPART_NAME",
     "VARIABLE_MATCHED_VARS_NAMES", "VARIABLE_MATCHED_VARS"}

HeaderVariables ==
    {"VARIABLE_FILES", "VARIABLE_REQUEST_COOKIES",
     "VARIABLE_REQUEST_HEADERS", "VARIABLE_RESPONSE_HEADERS", "VARIABLE_GEO",
     "VARIABLE_REQUEST_COOKIES_NAMES"}

RuleVariables ==
    {"VARIABLE_MULTIPART_PART_HEADERS", "VARIABLE_RULE", "RUN_TIME_VAR_ENV",
     "RUN_TIME_VAR_XML", "VARIABLE_FILES_TMP_NAMES"}

SharedCollections ==
    {"VARIABLE_RESOURCE", "VARIABLE_IP", "VARIABLE_GLOBAL"}

OwnCollections ==
    {"VARIABLE_USER", "VARIABLE_TX", "VARIABLE_SESSION"}

NameVariables ==
    {"VARIABLE_ARGS_NAMES", "VARIABLE_ARGS_GET_NAMES",
     "VARIABLE_ARGS_POST_NAMES", "VARIABLE_REQUEST_HEADERS_NAMES"}

BodyVariables ==
    {"VARIABLE_ARGS_COMBINED_SIZE", "VARIABLE_AUTH_TYPE",
     "VARIABLE_FILES_COMBINED_SIZE", "VARIABLE_FULL_REQUEST",
     "VARIABLE_FULL_REQUEST_LENGTH", "VARIABLE_INBOUND_DATA_ERROR",
     "VARIABLE_MATCHED_VAR", "VARIABLE_MATCHED_VAR_NAME",
     "VARIABLE_MSC_PCRE_ERROR", "VARIABLE_MSC_PCRE_LIMITS_EXCEEDED",
     "VARIABLE_MULTIPART_BOUNDARY_QUOTED",
     "VARIABLE_MULTIPART_BOUNDARY_WHITESPACE",
     "VARIABLE_MULTIPART_CRLF_LF_LINES", "VARIABLE_MULTIPART_DATA_AFTER",
     "VARIABLE_MULTIPART_DATA_BEFORE",
     "VARIABLE_MULTIPART_DUPLICATE_PART_HEADER",
     "VARIABLE_MULTIPART_FILE_LIMIT_EXCEEDED",
     "VARIABLE_MULTIPART_HEADER_FOLDING"}

PartErrorVariables ==
    {"VARIABLE_MULTIPART_INVALID_HEADER_FOLDING",
     "VARIABLE_MULTIPART_INVALID_PART", "VARIABLE_MULTIPART_INVALID_QUOTING",
     "VARIABLE_MULTIPART_LF_LINE", "VARIABLE_MULTIPART_MISSING_SEMICOLON",
     "VARIABLE_MULTIPART_SEMICOLON_MISSING",
     "VARIABLE_MULTIPART_STRICT_ERROR",
     "VARIABLE_MULTIPART_UNMATCHED_BOUNDARY", "VARIABLE_OUTBOUND_DATA_ERROR",
     "VARIABLE_PATH_INFO", "VARIABLE_QUERY_STRING", "VARIABLE_REMOTE_ADDR",
     "VARIABLE_REMOTE_HOST", "VARIABLE_REMOTE_PORT",
     "VARIABLE_REQBODY_ERROR", "VARIABLE_REQBODY_ERROR_MSG",
     "VARIABLE_REQBODY_PROCESSOR", "VARIABLE_REQBODY_PROCESSOR_ERROR"}

RequestVariables ==
    {"VARIABLE_REQBODY_PROCESSOR_ERROR_MSG", "VARIABLE_REQUEST_BASENAME",
     "VARIABLE_REQUEST_BODY", "VARIABLE_REQUEST_BODY_LENGTH",
     "VARIABLE_REQUEST_FILE_NAME", "VARIABLE_REQUEST_LINE",
     "VARIABLE_REQUEST_METHOD", "VARIABLE_REQUEST_PROTOCOL",
     "VARIABLE_REQUEST_URI", "VARIABLE_REQUEST_URI_RAW",
     "VARIABLE_RESPONSE_BODY", "VARIABLE_RESPONSE_CONTENT_LENGTH"}

ResponseVariables ==
    {"VARIABLE_RESPONSE_PROTOCOL", "VARIABLE_RESPONSE_STATUS",
     "VARIABLE_SERVER_ADDR", "VARIABLE_SERVER_NAME", "VARIABLE_SERVER_PORT",
     "VARIABLE_SESSION_ID", "VARIABLE_UNIQUE_ID",
     "VARIABLE_URL_ENCODED_ERROR", "VARIABLE_USER_ID", "VARIABLE_STATUS",
     "VARIABLE_STATUS_LINE", "VARIABLE_WEB_APP_ID"}

RunTimeVariables ==
    {"RUN_TIME_VAR_DUR", "RUN_TIME_VAR_BLD", "RUN_TIME_VAR_HSV",
     "RUN_TIME_VAR_REMOTE_USER", "RUN_TIME_VAR_TIME",
     "RUN_TIME_VAR_TIME_DAY", "RUN_TIME_VAR_TIME_EPOCH",
     "RUN_TIME_VAR_TIME_HOUR", "RUN_TIME_VAR_TIME_MIN",
     "RUN_TIME_VAR_TIME_MON", "RUN_TIME_VAR_TIME_SEC",
     "RUN_TIME_VAR_TIME_WDAY", "RUN_TIME_VAR_TIME_YEAR"}

DictVariables == ArgumentVariables \cup PartVariables \cup HeaderVariables
                 \cup RuleVariables \cup NameVariables
                 \cup {"VARIABLE_RESPONSE_HEADERS_NAMES"}
CollectionVariables == SharedCollections \cup OwnCollections
Variables == DictVariables \cup CollectionVariables \cup BodyVariables
             \cup PartErrorVariables \cup RequestVariables \cup ResponseVariables
             \cup RunTimeVariables \cup {"VARIABLE_RESPONSE_CONTENT_TYPE"}

Kind(v) == IF v \in DictVariables THEN "dict"
           ELSE IF v \in CollectionVariables THEN "collection" ELSE "simple"

-----------------------------------------------------------------------------
(* Operators ("op_before_init").                                           *)

OperatorsAlone ==
    {"OPERATOR_UNCONDITIONAL_MATCH", "OPERATOR_DETECT_SQLI",
     "OPERATOR_DETECT_XSS", "OPERATOR_VALIDATE_URL_ENCODING",
     "OPERATOR_VALIDATE_UTF8_ENCODING", "OPERATOR_GEOLOOKUP"}

(* The ones that validate, and three that are not supported.               *)
OperatorsValidating ==
    {"OPERATOR_INSPECT_FILE", "OPERATOR_FUZZY_HASH",
     "OPERATOR_VALIDATE_BYTE_RANGE", "OPERATOR_VALIDATE_DTD",
     "OPERATOR_VALIDATE_HASH", "OPERATOR_VALIDATE_SCHEMA",
     "OPERATOR_VERIFY_CC", "OPERATOR_VERIFY_CPF", "OPERATOR_VERIFY_SSN",
     "OPERATOR_VERIFY_SVNR", "OPERATOR_GSB_LOOKUP", "OPERATOR_RSUB"}

OperatorsComparing ==
    {"OPERATOR_WITHIN", "OPERATOR_CONTAINS_WORD", "OPERATOR_CONTAINS",
     "OPERATOR_ENDS_WITH", "OPERATOR_EQ", "OPERATOR_GE", "OPERATOR_GT",
     "OPERATOR_IP_MATCH_FROM_FILE", "OPERATOR_IP_MATCH", "OPERATOR_LE",
     "OPERATOR_LT"}

OperatorsMatching ==
    {"OPERATOR_PM_FROM_FILE", "OPERATOR_PM", "OPERATOR_RBL", "OPERATOR_RX",
     "OPERATOR_RX_GLOBAL", "OPERATOR_STR_EQ", "OPERATOR_STR_MATCH",
     "OPERATOR_BEGINS_WITH"}

OPERATOR_NOT_SUPPORTED == {"OPERATOR_VALIDATE_HASH", "OPERATOR_GSB_LOOKUP",
                           "OPERATOR_RSUB"}

OperatorsWithString == OperatorsValidating \cup OperatorsComparing
                       \cup OperatorsMatching

-----------------------------------------------------------------------------
(* Actions ("act").  Where a value or a string follows, the pairs say so.  *)

ACTION_NOT_SUPPORTED ==
    {"ACTION_APPEND", "ACTION_DEPRECATE_VAR", "ACTION_PAUSE", "ACTION_PREPEND",
     "ACTION_PROXY", "ACTION_SANITISE_ARG", "ACTION_SANITISE_MATCHED",
     "ACTION_SANITISE_MATCHED_BYTES", "ACTION_SANITISE_REQUEST_HEADER",
     "ACTION_SANITISE_RESPONSE_HEADER"}

ActionsA ==
    {"ACTION_ACCURACY", "ACTION_ALLOW", "ACTION_APPEND", "ACTION_AUDIT_LOG",
     "ACTION_BLOCK", "ACTION_CAPTURE", "ACTION_CHAIN"}

CtlWithValue ==
    {<<"ACTION_CTL_AUDIT_ENGINE", On>>,
     <<"ACTION_CTL_AUDIT_ENGINE", Off>>,
     <<"ACTION_CTL_AUDIT_ENGINE", RelevantOnly>>,
     <<"ACTION_CTL_FORCE_REQ_BODY_VAR", On>>,
     <<"ACTION_CTL_FORCE_REQ_BODY_VAR", Off>>,
     <<"ACTION_CTL_PARSE_XML_INTO_ARGS", On>>,
     <<"ACTION_CTL_PARSE_XML_INTO_ARGS", Off>>,
     <<"ACTION_CTL_PARSE_XML_INTO_ARGS", "CONFIG_VALUE_ONLYARGS">>,
     <<"ACTION_CTL_REQUEST_BODY_ACCESS", On>>,
     <<"ACTION_CTL_REQUEST_BODY_ACCESS", Off>>,
     <<"ACTION_CTL_RULE_ENGINE", On>>,
     <<"ACTION_CTL_RULE_ENGINE", Off>>,
     <<"ACTION_CTL_RULE_ENGINE", "CONFIG_VALUE_DETC">>}

CtlAlone ==
    {"ACTION_CTL_AUDIT_LOG_PARTS", "ACTION_CTL_BDY_JSON",
     "ACTION_CTL_BDY_XML", "ACTION_CTL_BDY_URLENCODED",
     "ACTION_CTL_RULE_REMOVE_BY_ID", "ACTION_CTL_RULE_REMOVE_BY_TAG",
     "ACTION_CTL_RULE_REMOVE_TARGET_BY_ID",
     "ACTION_CTL_RULE_REMOVE_TARGET_BY_TAG"}

ActionsD ==
    {"ACTION_DENY", "ACTION_DEPRECATE_VAR", "ACTION_DROP", "ACTION_EXEC",
     "ACTION_ID", "ACTION_LOG", "ACTION_MATURITY", "ACTION_MULTI_MATCH",
     "ACTION_NO_AUDIT_LOG", "ACTION_NO_LOG"}

StringActionsE ==
    {"ACTION_EXPIRE_VAR", "ACTION_INITCOL", "ACTION_LOG_DATA", "ACTION_MSG"}

ActionsN ==
    {"ACTION_PASS", "ACTION_PAUSE", "ACTION_PHASE", "ACTION_PREPEND",
     "ACTION_PROXY", "ACTION_REV", "ACTION_SANITISE_ARG",
     "ACTION_SANITISE_MATCHED", "ACTION_SANITISE_MATCHED_BYTES",
     "ACTION_SANITISE_REQUEST_HEADER", "ACTION_SANITISE_RESPONSE_HEADER"}

StringActionsR ==
    {"ACTION_REDIRECT", "ACTION_SETENV", "ACTION_SETRSC", "ACTION_SETSID",
     "ACTION_SETUID", "ACTION_TAG"}

ActionsS ==
    {"ACTION_SEVERITY", "ACTION_SKIP", "ACTION_SKIP_AFTER", "ACTION_STATUS",
     "ACTION_VER", "ACTION_XMLNS"}

TransformationsA ==
    {"ACTION_TRANSFORMATION_PARITY_ZERO_7_BIT",
     "ACTION_TRANSFORMATION_PARITY_ODD_7_BIT",
     "ACTION_TRANSFORMATION_PARITY_EVEN_7_BIT",
     "ACTION_TRANSFORMATION_SQL_HEX_DECODE",
     "ACTION_TRANSFORMATION_BASE_64_ENCODE",
     "ACTION_TRANSFORMATION_BASE_64_DECODE",
     "ACTION_TRANSFORMATION_BASE_64_DECODE_EXT",
     "ACTION_TRANSFORMATION_CMD_LINE", "ACTION_TRANSFORMATION_SHA1",
     "ACTION_TRANSFORMATION_MD5", "ACTION_TRANSFORMATION_ESCAPE_SEQ_DECODE",
     "ACTION_TRANSFORMATION_HEX_ENCODE", "ACTION_TRANSFORMATION_HEX_DECODE",
     "ACTION_TRANSFORMATION_LOWERCASE", "ACTION_TRANSFORMATION_UPPERCASE",
     "ACTION_TRANSFORMATION_URL_DECODE_UNI",
     "ACTION_TRANSFORMATION_URL_DECODE", "ACTION_TRANSFORMATION_URL_ENCODE"}

TransformationsB ==
    {"ACTION_TRANSFORMATION_NONE",
     "ACTION_TRANSFORMATION_COMPRESS_WHITESPACE",
     "ACTION_TRANSFORMATION_REMOVE_WHITESPACE",
     "ACTION_TRANSFORMATION_REPLACE_NULLS",
     "ACTION_TRANSFORMATION_REMOVE_NULLS",
     "ACTION_TRANSFORMATION_HTML_ENTITY_DECODE",
     "ACTION_TRANSFORMATION_JS_DECODE", "ACTION_TRANSFORMATION_CSS_DECODE",
     "ACTION_TRANSFORMATION_TRIM", "ACTION_TRANSFORMATION_TRIM_LEFT",
     "ACTION_TRANSFORMATION_TRIM_RIGHT",
     "ACTION_TRANSFORMATION_NORMALISE_PATH_WIN",
     "ACTION_TRANSFORMATION_NORMALISE_PATH", "ACTION_TRANSFORMATION_LENGTH",
     "ACTION_TRANSFORMATION_UTF8_TO_UNICODE",
     "ACTION_TRANSFORMATION_REMOVE_COMMENTS_CHAR",
     "ACTION_TRANSFORMATION_REMOVE_COMMENTS",
     "ACTION_TRANSFORMATION_REPLACE_COMMENTS"}

ActionsAlone == ActionsA \cup CtlAlone \cup ActionsD \cup ActionsN \cup ActionsS
                \cup TransformationsA \cup TransformationsB
ActionsWithString == StringActionsE \cup StringActionsR
ActionsWithValue  == {c[1] : c \in CtlWithValue}

-----------------------------------------------------------------------------
(* Positions.  "of": what the list or string at hand is part of; "quoted": *)
(* an opening quotation mark waits for its end; "last": the kind of        *)
(* variable just read, to which an element may belong; "key": a string is  *)
(* being read; "token": a directive or ctl action that waits for a value.  *)

At(at, of, quoted, last, key, token) ==
    [at |-> at, of |-> of, quoted |-> quoted, last |-> last, key |-> key,
     token |-> token]

Line  == At("line", "", FALSE, "", FALSE, "")
Error == At("error", "", FALSE, "", FALSE, "")
Accept == At("accept", "", FALSE, "", FALSE, "")
Place(at, of, quoted) == At(at, of, quoted, "", FALSE, "")

Dict == {"DICT_ELEMENT", "DICT_ELEMENT_REGEXP"}
TEXT == "FREE_TEXT_QUOTE_MACRO_EXPANSION"
UpdateTarget == {"CONFIG_SEC_RULE_UPDATE_TARGET_BY_TAG",
                 "CONFIG_SEC_RULE_UPDATE_TARGET_BY_MSG",
                 "CONFIG_SEC_RULE_UPDATE_TARGET_BY_ID"}
WithActions == {"CONFIG_DIR_SEC_ACTION", "DIRECTIVE_SECRULESCRIPT",
                "CONFIG_DIR_SEC_DEFAULT_ACTION", "CONFIG_SEC_RULE_UPDATE_ACTION_BY_ID"}

(* At the start of a line.                                                 *)
AtLine(t) ==
    IF t = "END" THEN Accept
    ELSE IF t = "DIRECTIVE" THEN Place("var", "rule", FALSE)
    ELSE IF t \in UpdateTarget THEN Place("var", "target", FALSE)
    ELSE IF t \in WithActions THEN Place("act", "acts", FALSE)
    ELSE IF RowsOf(t) = {} \/ \E row \in RowsOf(t) : row.value = "" /\ row.fails = "always"
      THEN Error
    ELSE IF \E row \in RowsOf(t) : row.value = "" THEN Line
    ELSE At("value", "", FALSE, "", FALSE, t)

(* After a directive that takes a value.                                   *)
AtValue(g, t) ==
    IF \E row \in RowsOf(g.token) : row.value = t /\ row.fails # "always"
      THEN Line ELSE Error

(* An element or a piece of string that belongs to the last variable.      *)
Belongs(g, t) ==
    \/ t \in Dict /\ g.last \in {"dict", "collection"}
    \/ t \in Variables \cup {TEXT} /\ (g.key \/ g.last = "collection")

With(g, t) == [g EXCEPT !.last = IF t \in Variables THEN Kind(t) ELSE "",
                        !.key = @ \/ t \notin Dict]

(* run_time_string: its first piece.                                       *)
AtString(g, t) ==
    IF t \in Variables \cup {TEXT} THEN With([g EXCEPT !.at = "strings"], t) ELSE Error

AtOperator(t) ==
    IF t \in OperatorsAlone THEN Place("operated", "rule", FALSE)
    ELSE IF t \in OPERATOR_NOT_SUPPORTED THEN Place("string", "refused", FALSE)
    ELSE IF t \in OperatorsWithString THEN Place("string", "operator", FALSE)
    ELSE AtString(Place("string", "operator", FALSE), t)

(* "act" in a list of actions.                                             *)
AtAction(quoted, t) ==
    IF t \in ActionsAlone \ ACTION_NOT_SUPPORTED THEN Place("acts", "acts", quoted)
    ELSE IF t \in ActionsWithString THEN Place("string", "acts", quoted)
    ELSE IF t \in ActionsWithValue THEN At("ctl", "acts", quoted, "", FALSE, t)
    ELSE IF t = "ACTION_SETVAR" THEN Place("setvar", "acts", quoted)
    ELSE Error

AfterAction(quoted, t) ==
    IF t = "COMMA" THEN Place("act1", "acts", quoted)
    ELSE IF t = "QUOTATION_MARK" /\ quoted THEN Line
    ELSE IF quoted THEN Error ELSE AtLine(t)

AfterOperator(t) ==
    IF t = "QUOTATION_MARK" THEN Place("act1", "acts", TRUE)
    ELSE IF AtAction(FALSE, t) # Error THEN AtAction(FALSE, t) ELSE AtLine(t)

AfterVariables(of, t) ==
    IF of = "target" THEN AtLine(t)
    ELSE IF t = "NOT" THEN Place("op", "rule", FALSE) ELSE AtOperator(t)

(* variables_may_be_quoted: after the start of a list, a quote or a PIPE.  *)
AtVariable(g, t) ==
    IF t = "QUOTATION_MARK" /\ g.at = "var" THEN Place("var1", g.of, TRUE)
    ELSE IF t \in {"VAR_EXCLUSION", "VAR_COUNT"} /\ g.at # "modified"
      THEN Place("modified", g.of, g.quoted)
    ELSE IF t \in Variables THEN At("vars", g.of, g.quoted, Kind(t), FALSE, "")
    ELSE Error

AtVariables(g, t) ==
    IF Belongs(g, t) THEN With(g, t)
    ELSE IF t = "PIPE" THEN Place("var1", g.of, g.quoted)
    ELSE IF t = "QUOTATION_MARK" /\ g.quoted THEN Place("listed", g.of, FALSE)
    ELSE IF g.quoted THEN Error ELSE AfterVariables(g.of, t)

AtStrings(g, t) ==
    IF Belongs(g, t) THEN With(g, t)
    ELSE IF g.of = "refused" THEN Error
    ELSE IF g.of = "operator" THEN AfterOperator(t)
    ELSE AfterAction(g.quoted, t)

(* setvar_action.                                                          *)
SETVAR_OPERATION == {"SETVAR_OPERATION_EQUALS", "SETVAR_OPERATION_EQUALS_PLUS",
                     "SETVAR_OPERATION_EQUALS_MINUS"}

AtSetvar(g, t) ==
    CASE g.at = "setvar" /\ t = "NOT" -> Place("unset", "acts", g.quoted)
      [] g.at \in {"setvar", "unset"} /\ t \in Variables ->
             At(IF g.at = "setvar" THEN "setvars" ELSE "unsets", "acts", g.quoted, Kind(t), FALSE, "")
      [] g.at \in {"setvars", "unsets"} /\ Belongs(g, t) -> With(g, t)
      [] g.at = "setvars" /\ t \in SETVAR_OPERATION ->
             Place("string", "acts", g.quoted)
      [] g.at \in {"setvars", "unsets"} /\ ~Belongs(g, t) /\ t \notin SETVAR_OPERATION ->
             AfterAction(g.quoted, t)
      [] OTHER -> Error

(* seclang_parser::parse: a token is shifted after the reductions it       *)
(* allows, or it is an error.  Nothing recovers from errors.               *)
Shift(g, t) ==
    CASE g.at = "line"     -> AtLine(t)
      [] g.at = "value"    -> AtValue(g, t)
      [] g.at \in {"var", "var1", "modified"} -> AtVariable(g, t)
      [] g.at = "vars"     -> AtVariables(g, t)
      [] g.at = "listed"   -> AfterVariables(g.of, t)
      [] g.at = "op"       -> AtOperator(t)
      [] g.at = "operated" -> AfterOperator(t)
      [] g.at = "string"   -> AtString(g, t)
      [] g.at = "strings"  -> AtStrings(g, t)
      [] g.at = "act" /\ t = "QUOTATION_MARK" -> Place("act1", "acts", TRUE)
      [] g.at = "act1" \/ (g.at = "act" /\ t # "QUOTATION_MARK") -> AtAction(g.quoted, t)
      [] g.at = "ctl"      -> IF <<g.token, t>> \in CtlWithValue
                                THEN Place("acts", "acts", g.quoted) ELSE Error
      [] g.at = "acts"     -> AfterAction(g.quoted, t)
      [] OTHER             -> AtSetvar(g, t)

(* What reductions may refuse: init of an action or of an operator, values *)
(* out of range, ids and paths that do not exist, rules that check_rule or *)
(* addSecRule refuse.                                                      *)
MayFail(g, t) ==
    \/ g.at \in {"acts", "strings", "setvars", "unsets", "operated", "vars", "listed"}
    \/ t \in ActionsAlone
    \/ g.at = "line" /\ \E row \in RowsOf(t) : row.fails = "maybe"
=============================================================================
