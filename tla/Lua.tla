-------------------------------- MODULE Lua --------------------------------
(***************************************************************************)
(* Scripts: SecRuleScript, exec and @inspectFile run one in a state of Lua *)
(* of their own (Lua::run), which calls back m.getvar, m.getvars, m.setvar *)
(* and m.log.  getvar and getvars look variables up by their names, each   *)
(* in a list of its own.  The collections m.setvar writes to are those in  *)
(* memory: elements may expire, and but for TX other threads change them.  *)
(***************************************************************************)
EXTENDS Naturals, Sequences

CONSTANTS LuaNames,       \* the names scripts use
          LuaValues,      \* values set
          LuaTransforms,  \* the lists of transformations asked for
          MaxRuns, MaxCalls, MaxChanges,
          LuaStored       \* what an element of a stored collection may be

VARIABLES blob,           \* m_blob of the script: "none", "compiled"
          luaStates,      \* the states of Lua that are open
          script,         \* "idle", "main"
          rule,           \* what the rule of the script has done and what run returned
          store,          \* the collections, element by element
          changes,        \* history: how often other threads changed the stored ones
          answers,        \* history: what this run was told
          escaped,        \* exceptions that left run
          runs

luaVars == <<blob, luaStates, script, rule, store, changes, answers, escaped, runs>>

Missing == "missing"

(* What a call of a name that is not known tells.                         *)
UnknownName == <<"not found">>

(* The text that is empty: m.setvar may write it.                          *)
NoText == ""

LuaAssumption ==
    /\ Missing \notin LuaValues
    /\ LuaStored \subseteq [val : LuaValues \cup {"v", Missing}, expiry : {"none", "pending", "over"}]
ASSUME LuaAssumption

-----------------------------------------------------------------------------
(* VariableMonkeyResolution.                                               *)

StoredCollections == {"TX", "RESOURCE", "USER", "SESSION", "IP", "GLOBAL"}

SharedSets ==
    {"ARGS", "ARGS_GET", "ARGS_POST", "FILES_SIZES", "FILES_NAMES", "FILES_TMP_CONTENT",
     "MULTIPART_FILENAME", "MULTIPART_NAME", "MATCHED_VARS_NAMES", "MATCHED_VARS", "FILES",
     "REQUEST_COOKIES", "REQUEST_HEADERS", "RESPONSE_HEADERS", "GEO", "REQUEST_COOKIES_NAMES",
     "MULTIPART_PART_HEADERS", "FILES_TMPNAMES"}

(* Compared with the whole text given, element included.                   *)
HeaderNames == {"REQUEST_HEADERS_NAMES", "RESPONSE_HEADERS_NAMES"}
ArgumentNames == {"ARGS_NAMES", "ARGS_GET_NAMES", "ARGS_POST_NAMES"}

Singles ==
    {"RESPONSE_CONTENT_TYPE", "ARGS_COMBINED_SIZE", "AUTH_TYPE", "FILES_COMBINED_SIZE",
     "FULL_REQUEST", "FULL_REQUEST_LENGTH", "INBOUND_DATA_ERROR", "MATCHED_VAR",
     "MATCHED_VAR_NAME", "MSC_PCRE_ERROR", "MSC_PCRE_LIMITS_EXCEEDED",
     "MULTIPART_CRLF_LF_LINES", "MULTIPART_DATA_AFTER", "MULTIPART_FILE_LIMIT_EXCEEDED",
     "MULTIPART_STRICT_ERROR", "MULTIPART_HEADER_FOLDING", "MULTIPART_INVALID_QUOTING",
     "MULTIPART_INVALID_HEADER_FOLDING", "MULTIPART_UNMATCHED_BOUNDARY",
     "OUTBOUND_DATA_ERROR", "PATH_INFO", "QUERY_STRING", "REMOTE_ADDR", "REMOTE_HOST",
     "REMOTE_PORT", "REQBODY_ERROR", "REQBODY_ERROR_MSG", "REQBODY_PROCESSOR_ERROR_MSG",
     "REQBODY_PROCESSOR_ERROR", "REQBODY_PROCESSOR", "REQUEST_BASENAME", "REQUEST_BODY",
     "REQUEST_BODY_LENGTH", "REQUEST_FILENAME", "REQUEST_LINE", "REQUEST_METHOD",
     "REQUEST_PROTOCOL", "REQUEST_URI", "REQUEST_URI_RAW", "RESOURCE", "RESPONSE_BODY",
     "RESPONSE_CONTENT_LENGTH", "RESPONSE_PROTOCOL", "RESPONSE_STATUS", "SERVER_ADDR",
     "SERVER_NAME", "SERVER_PORT", "SESSIONID", "UNIQUE_ID", "URLENCODED_ERROR", "USERID"}

SetsOfGetvars ==
    SharedSets \cup {"MULTIPART_FILENAME_CHARSET", "MULTIPART_FILENAME_LANGUAGE"}

(* stringMatchResolveMulti: "" is no element.                              *)
KnownToGetvars(name, element) ==
    \/ name \in SetsOfGetvars \cup ArgumentNames
    \/ name \in HeaderNames /\ element = ""
    \/ name \in Singles \cup {"MULTIPART_DUPLICATE_PART_HEADER"} /\ element = ""

(* stringMatchResolve: a name alone is not a collection of the request.    *)
KnownToGetvar(name, element) ==
    IF element = "" THEN name \in Singles \cup StoredCollections
    ELSE name \in SharedSets \cup StoredCollections

(* An element of a collection: its value, and the time it is kept until.   *)
(* One that is not there is as one that has neither.                       *)
LuaElement(val, expiry) == [val |-> val, expiry |-> expiry]

Gone == LuaElement(Missing, "none")

(* What stringMatchResolve gives of a variable, or of an element: a text,  *)
(* empty where there is none, or where it has expired.  A stored           *)
(* collection asked for without an element is asked for the element "".    *)
LuaText(x) == IF x.val = Missing \/ x.expiry = "over" THEN NoText ELSE x.val

(* An element that is found expired is taken away.                         *)
Purged(x) == IF x.expiry = "over" THEN Gone ELSE x

(* storeOrUpdateFirst: an element that is there keeps its expiry.          *)
Updated(x, value) == [x EXCEPT !.val = value]

-----------------------------------------------------------------------------
InitLua ==
    /\ blob = "none" /\ luaStates = 0 /\ script = "idle"
    /\ rule = [acted |-> 0, matched |-> 0, last |-> "none"]
    /\ \E val \in {Missing, NoText, "v"}, x \in LuaStored :
        store = [n \in LuaNames |-> [e \in {NoText, "e"} |->
                    IF n \notin StoredCollections THEN LuaElement(val, "none")
                    ELSE IF e = "e" THEN x ELSE Gone]]
    /\ changes = 0 /\ answers = << >> /\ escaped = 0 /\ runs = 0

(* Lua::load: a state to compile in, closed on each way out.               *)
loadScript ==
    /\ blob = "none" /\ blob' \in {"none", "compiled"}
    /\ UNCHANGED <<luaStates, script, rule, store, changes, answers, escaped, runs>>

(* RuleScript::evaluate, when run came back.                               *)
AfterScript(ret) ==
    rule' = [rule EXCEPT !.last = ret, !.matched = IF ret = "match" THEN @ + 1 ELSE @]

(* Mutant: only a script that succeeds has its state closed.               *)
MutEnded(ret, answered) ==
    /\ script' = "idle"
    /\ luaStates' = IF ret = "failed" THEN luaStates ELSE luaStates - 1
    /\ AfterScript(ret)
    /\ answers' = answered

(* The end of Lua::run.                                                    *)
Ended(ret, answered) ==
    /\ script' = "idle"
    /\ luaStates' = luaStates - 1
    /\ AfterScript(ret)
    /\ answers' = answered

(* RuleScript::evaluate runs the actions that do not wait for the match,   *)
(* then the script, until main is called; lua_load and the script around   *)
(* main may fail.                                                          *)
runScript ==
    /\ blob = "compiled" /\ script = "idle" /\ runs < MaxRuns /\ runs' = runs + 1
    /\ \/ /\ script' = "main" /\ luaStates' = luaStates + 1
          /\ rule' = [rule EXCEPT !.acted = @ + 1, !.last = "none"]
       \/ /\ rule' = [rule EXCEPT !.acted = @ + 1, !.last = "failed"]
          /\ UNCHANGED <<script, luaStates>>
    /\ answers' = << >>
    /\ UNCHANGED <<blob, store, changes, escaped>>

(* What a call was told; and how long the element was to be kept then.     *)
Told(call, name, element, value) ==
    [call |-> call, name |-> name, element |-> element, value |-> value,
     expiry |-> store[name][element].expiry, changes |-> changes]

MayCall == script = "main" /\ Len(answers) < MaxCalls

(* An exception of C++ through lua_pcall: a Lua built as C++ catches it    *)
(* and pcall fails, through one built as C it leaves run, and the state of *)
(* Lua stays open.                                                         *)
Throws(answer) ==
    \/ Ended("failed", Append(answers, answer)) /\ UNCHANGED escaped
    \/ /\ script' = "idle" /\ escaped' = escaped + 1
       /\ rule' = [rule EXCEPT !.last = "thrown"]
       /\ answers' = Append(answers, answer)
       /\ UNCHANGED luaStates

(* The transformations that make something of an empty text.               *)
OfNothing == {"length", "md5", "sha1"}

(* applyTransformations: in their order; "none" changes nothing.  The text *)
(* that comes out is the one that went in and what was done to it; an      *)
(* empty one is pushed as nil.                                             *)
Applied(list) == SelectSeq(list, LAMBDA t : t # "none")

applyTransformations(text, list) ==
    IF text = NoText /\ \A i \in DOMAIN list : list[i] \notin OfNothing THEN << >>
    ELSE <<text, Applied(list)>>

Answer(answer) ==
    /\ answers' = Append(answers, answer)
    /\ UNCHANGED <<script, luaStates, rule, escaped>>

getvar(name, element, list) ==
    /\ MayCall
    /\ LET value == applyTransformations(LuaText(store[name][element]), list)
       IN  IF KnownToGetvar(name, element)
           THEN /\ Answer(Told("getvar", name, element, value))
                /\ store' = [store EXCEPT ![name][element] = Purged(@)]
           ELSE Throws(Told("getvar", name, element, UnknownName)) /\ UNCHANGED store
    /\ UNCHANGED <<blob, changes, runs>>

(* m.getvars: the texts as they are, the empty ones too.                   *)
getvars(name, element) ==
    /\ MayCall
    /\ LET val   == store[name][element].val
           value == IF val = Missing THEN << >> ELSE <<val, << >>>>
       IN  IF KnownToGetvars(name, element) THEN Answer(Told("getvars", name, element, value))
           ELSE Throws(Told("getvars", name, element, UnknownName))
    /\ UNCHANGED <<blob, store, changes, runs>>

(* The collections m.setvar writes to.                                     *)
Sets(name) == name \in StoredCollections

(* m.setvar: a call without two arguments, or a name without a dot, does   *)
(* nothing; neither does a name of no stored collection.                   *)
setvar(name, element, value) ==
    /\ MayCall
    /\ store' = IF Sets(name) /\ element # NoText
                THEN [store EXCEPT ![name][element] = Updated(@, value)]
                ELSE store
    /\ Answer(Told("setvar", name, element, <<value, << >>>>))
    /\ UNCHANGED <<blob, changes, runs>>

(* The time an element is kept until passes.                               *)
expires(name) ==
    /\ name \in StoredCollections /\ store[name]["e"].expiry = "pending"
    /\ store' = [store EXCEPT ![name]["e"].expiry = "over"]
    /\ UNCHANGED <<blob, luaStates, script, rule, changes, answers, escaped, runs>>

(* The rules of other transactions, in other threads, set, expire and      *)
(* delete elements of the collections that all share.                      *)
othersChange(name) ==
    /\ name \in StoredCollections \ {"TX"} /\ changes < MaxChanges /\ script = "main"
    /\ \E x \in LuaStored : store' = [store EXCEPT ![name]["e"] = x]
    /\ changes' = changes + 1
    /\ UNCHANGED <<blob, luaStates, script, rule, answers, escaped, runs>>

(* A text that is not empty is a match.                                    *)
Returned(outcome) == outcome = "text"

(* main returns, or fails: lua_pcall comes back, and the state is closed.  *)
mainEnds ==
    /\ script = "main"
    /\ \E outcome \in {"text", "nothing", "error"} :
        Ended(IF Returned(outcome) THEN "match"
              ELSE IF outcome = "error" THEN "failed" ELSE "no match", << >>)
    /\ UNCHANGED <<blob, store, changes, escaped, runs>>

NextLua ==
    \/ loadScript \/ runScript \/ mainEnds
    \/ \E n \in LuaNames : expires(n) \/ othersChange(n)
    \/ \E n \in LuaNames, e \in {NoText, "e"} :
        \/ \E l \in LuaTransforms : getvar(n, e, l)
        \/ getvars(n, e)
        \/ \E v \in LuaValues : setvar(n, e, v)

SpecLua == InitLua /\ [][NextLua]_luaVars

-----------------------------------------------------------------------------
(* Each state of Lua is closed when its script has ended, in every way     *)
(* Lua::run has to end; only an exception that passes through Lua leaves   *)
(* one open, one for each.                                                 *)
StatesAreClosed == luaStates = escaped + (IF script = "idle" THEN 0 ELSE 1)

(* The text a script has of an answer: a nil, or no element, is an empty   *)
(* one.                                                                    *)
TextTold(answer) == IF answer.value = << >> THEN NoText ELSE answer.value[1]

(* What m.getvar finds of a request m.getvars finds too, and in one script *)
(* they tell the same text, before the transformations: each looks the    *)
(* name up in a list of its own.                                           *)
GetvarsKnowsWhatGetvarKnows ==
    \A i, j \in DOMAIN answers :
        /\ answers[i].call = "getvar" /\ answers[j].call = "getvars"
        /\ answers[i].name = answers[j].name /\ answers[i].element = answers[j].element
        /\ answers[i].name \notin StoredCollections
        /\ answers[i].value # UnknownName
        => answers[j].value # UnknownName /\ TextTold(answers[i]) = TextTold(answers[j])

(* What m.setvar put in a stored collection m.getvar gives until it is set *)
(* again, unless another thread changed the collection: all of it when the *)
(* element was to be kept; nothing when m.setvar found it expired, as it   *)
(* keeps its expiry (storeOrUpdateFirst); and when its time was to come,   *)
(* that or nothing.                                                        *)
SetIsRead ==
    \A i, j \in DOMAIN answers :
        /\ i < j /\ answers[i].call = "setvar" /\ answers[j].call = "getvar"
        /\ answers[i].name = answers[j].name /\ answers[i].name \in StoredCollections
        /\ answers[i].element = "e" /\ answers[j].element = "e"
        /\ answers[i].name = "TX" \/ answers[i].changes = answers[j].changes
        /\ \A k \in (i + 1)..(j - 1) :
              ~(answers[k].call = "setvar" /\ answers[k].name = answers[i].name)
        => CASE answers[i].expiry = "none" -> TextTold(answers[j]) = answers[i].value[1]
             [] answers[i].expiry = "over" -> TextTold(answers[j]) = NoText
             [] OTHER -> TextTold(answers[j]) \in {answers[i].value[1], NoText}

(* A script ends with its state closed, and sees what the other functions  *)
(* of the library do.                                                      *)
ScriptsAreContained == StatesAreClosed /\ GetvarsKnowsWhatGetvarKnows /\ SetIsRead
=============================================================================
