---------------------------- MODULE MCComponents ----------------------------
(***************************************************************************)
(* The components that share no state with each other, in one model: part  *)
(* says which of them moves in a behavior.  The others stay where they     *)
(* began, so the states are the sum of the components', not the product.   *)
(***************************************************************************)
EXTENDS MCLoading, AuditLog, Scanner, Properties, IpTree, Multipart, BodyArguments,
        Algorithms, Targets, Lua, AuditRecord

CONSTANT Parts

VARIABLE part

-----------------------------------------------------------------------------
(* Loading: when as much was loaded and merged as the bound allows but     *)
(* for one, that one is a merge: of a location with what it is part of.    *)
LastIsMerge == merges = MaxMerges - 1 => loadingInto' = NoSet

-----------------------------------------------------------------------------
(* AuditLog: what the files of a configuration say.                        *)
SaysNothing ==
    [path1 |-> "", path2 |-> "", dir |-> FALSE, type |-> "NotSet", status |-> "NotSet",
     ctl |-> FALSE, debug |-> ""]

MCFiles ==
    {[SaysNothing EXCEPT !.path1 = "a", !.status = "On", !.type = "Serial"],
     [SaysNothing EXCEPT !.path1 = "a", !.path2 = "b", !.dir = TRUE, !.type = "Parallel", !.status = "On"],
     [SaysNothing EXCEPT !.path1 = "b", !.debug = "a"],
     [SaysNothing EXCEPT !.status = "Off"],
     [SaysNothing EXCEPT !.path1 = "b", !.ctl = TRUE],
     [SaysNothing EXCEPT !.type = "Https", !.status = "RelevantOnly"],
     [SaysNothing EXCEPT !.path2 = "b", !.type = "Parallel"],
     [SaysNothing EXCEPT !.debug = "b"]}

(* A file that names another audit log than the one before it.             *)
MCTwoLogs ==
    {[SaysNothing EXCEPT !.path1 = p, !.status = "On", !.type = "Serial"] : p \in {"a", "b"}}

(* IpTree: all networks of addresses of four bits.                         *)
MCNetworks ==
    {n \in [address : [1..4 -> {0, 1}], netmask : 0..4] :
        ConvertIPNetmask(n.address, n.netmask) = n.address}

-----------------------------------------------------------------------------
(* Multipart: lines a body has, and lines that put something in doubt.     *)
BodyLine(text, params, end) == [text |-> text, params |-> params, end |-> end]

MCLines ==
    {BodyLine(t, << >>, "crlf") : t \in {"boundary", "final", "empty", "text", "header", "dashes", "nul",
                                         "boundaryJunk", "boundarySpaced", "boundaryQuoted"}}
    \cup {BodyLine("disposition", p, "crlf") :
              p \in {<<"name">>, <<"name", "filename">>, <<"nameInQuotes", "filename*">>}}
    \cup {BodyLine("disposition", <<"name", "name">>, "lf"), BodyLine("fold", <<"filename">>, "crlf"),
          BodyLine("boundary", << >>, "lf"), BodyLine("text", << >>, "full")}

MCConfs ==
    {[ct |-> "good", limit |-> 0, keep |-> FALSE, save |-> TRUE],
     [ct |-> "quoted", limit |-> 1, keep |-> TRUE, save |-> FALSE],
     [ct |-> "bad", limit |-> 0, keep |-> FALSE, save |-> FALSE],
     [ct |-> "empty", limit |-> 0, keep |-> FALSE, save |-> FALSE]}

-----------------------------------------------------------------------------
(* Algorithms: the pieces inputs are made of, those each algorithm tells   *)
(* apart, as bytes.                                                        *)
Rewriting ==
    {"cssDecode", "escapeSeqDecode", "htmlEntityDecode", "jsDecode", "urlDecode", "urlDecodeUni",
     "sqlHexDecode", "normalisePath", "normalisePathWin", "utf8toUnicode", "base64DecodeExt"}

Comments == {"replaceComments", "removeComments", "removeCommentsChar"}

Filters ==
    {"trim", "trimLeft", "trimRight", "compressWhitespace", "cmdLine", "lowercase", "uppercase",
     "removeNulls", "removeWhitespace", "replaceNulls", "parityEven7bit", "parityOdd7bit",
     "parityZero7bit", "length", "hexDecode", "urlEncode"}

MCAlgorithm == Rewriting \cup Comments \cup Filters \cup Others

Bytes(S) == {<<b>> : b \in S}
Phrases  == UNION {[1..n -> {97, 98}] : n \in 1..4}
Ranges   == {<<0, 0>>, <<7, 8>>, <<32, 126>>, <<255, 255>>, <<15, 200>>}
Nine     == {<<a, b, 48, c, 48, 49, 48, 48, d>> : a, b, c, d \in {48, 49, 53, 57}}
            \cup {[k \in 1..9 |-> 49]}

MCFragments ==
    [a \in MCAlgorithm |->
        CASE a = "urlDecode" -> Bytes({37, 52, 65, 103, 43})
          [] a = "urlDecodeUni" -> {<<37>>, <<37, 117>>, <<102, 102>>, <<52>>, <<43>>}
          [] a \in {"jsDecode", "escapeSeqDecode"} ->
                {<<92>>, <<117>>, <<120>>, <<102, 70>>, <<52>>, <<55>>, <<110>>}
          [] a = "cssDecode" -> {<<92>>, <<48>>, <<102, 102>>, <<52, 49>>, <<32>>, <<10>>}
          [] a = "htmlEntityDecode" -> {<<38>>, <<35>>, <<120>>, <<52>>, <<59>>, <<108, 116>>, <<71>>}
          [] a = "sqlHexDecode" -> Bytes({48, 120, 65, 103})
          [] a \in {"normalisePath", "normalisePathWin"} -> Bytes({46, 47, 97, 92})
          [] a = "utf8toUnicode" -> Bytes({0, 65, 128, 195, 224, 240, 244, 245})
          [] a = "base64DecodeExt" -> Bytes({65, 57, 61, 45})
          [] a \in Comments -> {<<47>>, <<42>>, <<45>>, <<60, 33, 45>>, <<62>>, <<35>>, <<97>>}
          [] a = "execute" -> {<<<<w, t>>>> : w \in {"default", "rule", "update"},
                                  t \in {"none", "urlDecode", "lowercase", "removeWhitespace"}}
          [] a = "utf8" -> Bytes({65, 128, 143, 144, 159, 160, 191, 193, 194, 224, 237, 240, 244, 245})
          [] a = "byteRange" -> {<<r>> : r \in Ranges}
          [] a = "cc" -> Bytes({45, 48, 49, 52, 53, 57})
          [] a = "cpf" -> Nine
          [] a = "word" -> Bytes({97, 98, 32})
          [] a = "regex" -> Bytes({97, 98, 10, 13})
          [] a = "pm" -> {<<<<"phrase", w>>>> : w \in Phrases \cup {<<200>>}}
                         \cup {<<<<"letter", c>>>> : c \in {97, 66, 200}}
          [] OTHER -> Bytes({0, 97, 65, 32, 47, 40, 160, 255})]

(* One algorithm alone.                                                    *)
MCPm == {"pm"}

MCMaxLength ==
    [a \in MCAlgorithm |->
        CASE a \in {"byteRange", "execute"} \cup (Filters \ {"urlEncode"}) -> 3
          [] a \in {"jsDecode", "escapeSeqDecode", "cssDecode", "htmlEntityDecode", "urlDecode", "cc"}
               \cup Comments \cup {"pm"} -> 5
          [] a \in {"sqlHexDecode", "base64DecodeExt", "normalisePathWin", "urlDecodeUni"} -> 6
          [] a \in {"normalisePath", "word"} -> 7
          [] a = "cpf" -> 9
          [] OTHER -> 4]

-----------------------------------------------------------------------------
(* Targets: a rule, a link chained to it, and another rule with its tag.   *)
MCKeys    == {"a", "A", "b", "id", "msg"}
MCUpper   == [k \in MCKeys |-> IF k = "a" THEN "A" ELSE k]
MCMatched == [p \in {"pa"} |-> {"a", "A", "msg"}]
MCMatchedNames == [p \in {"pa"} |-> {<<"ARGS", "all", "">>}]

Target(mod, col, kind, name) == [mod |-> mod, col |-> col, kind |-> kind, name |-> name]

MCTargets ==
    {Target(m, "ARGS", k[1], k[2]) : m \in {"plain", "not"},
                                      k \in {<<"all", "">>, <<"key", "a">>, <<"regex", "pa">>}}
    \cup {Target("count", "ARGS", "all", ""), Target("plain", "TX", "all", ""),
          Target("plain", "TX", "key", "a"), Target("plain", "TX", "dynamic", "b"),
          Target("not", "TX", "key", "A"), Target("not", "TX", "regex", "pa"),
          Target("plain", "ARGS_NAMES", "all", ""), Target("not", "ARGS_NAMES", "key", "a"),
          Target("plain", "RULE", "regex", "pa")}

MCRuleLists ==
    [r1 |-> {l \in {{u, v} : u \in {w \in MCTargets : w.mod # "not"}, v \in MCTargets} :
                \/ Target("plain", "ARGS", "all", "") \in l
                \/ \A u, v \in l : u.col = v.col},
     r2 |-> {{Target("plain", "TX", "all", ""), Target("plain", "RULE", "all", "")}},
     r3 |-> {{Target("plain", "ARGS", "all", "")}}]

MCUpdates ==
    {{Target("not", "ARGS", "key", "a")}, {Target("not", "ARGS", "regex", "pa")},
     {Target("not", "ARGS", "all", "")}, {Target("plain", "TX", "all", "")},
     {Target("not", "TX", "key", "A")}}

MCCtlTexts == {<<"ARGS", "key", "a">>, <<"ARGS", "all", "">>}

MCRules ==
    [r1 |-> [id |-> 1, tags |-> {"t"}, msg |-> "m", parent |-> NoRule, has |-> {"id", "msg"}],
     r2 |-> [id |-> 0, tags |-> {}, msg |-> "", parent |-> "r1", has |-> {}],
     r3 |-> [id |-> 3, tags |-> {"t"}, msg |-> "", parent |-> NoRule, has |-> {"id"}]]

Element(key, val) == [key |-> key, val |-> val]

MCRequests ==
    {[ARGS |-> {Element("a", "bad"), Element("A", "good"), Element("b", "bad")},
      TX |-> {Element("A", "bad"), Element("b", "good")}]}

-----------------------------------------------------------------------------
(* Lua: a collection of the transaction and one that is shared, and names  *)
(* of other kinds.                                                         *)
MCLuaNames ==
    {"TX", "RESOURCE", "ARGS", "ARGS_NAMES", "QUERY_STRING"}

MCLuaTransforms == {<<"none", "lowercase">>}

(* Not there, kept for a while, or no longer.                              *)
MCLuaStored ==
    {LuaElement(Missing, "none"), LuaElement("v", "pending"), LuaElement("v", "over")}

-----------------------------------------------------------------------------
(* AuditRecord: two threads of one process, and two processes.             *)
MCThreads == {"t1", "t2"}

MCDeployments == {[t \in MCThreads |-> "p1"], [t \in MCThreads |-> IF t = "t1" THEN "p1" ELSE "p2"]}

AuditConf(engine, wanted, relevant, type, dir, paths) ==
    [engine |-> engine, parts |-> wanted, relevant |-> relevant, type |-> type,
     storageDir |-> dir, paths |-> paths]

MCAuditConfs ==
    {AuditConf("On", {Unset}, FALSE, "Serial", FALSE, {1}),
     AuditConf("RelevantOnly", {"A", "B", "E", "H"}, TRUE, "Parallel", TRUE, {1}),
     AuditConf("RelevantOnly", {Unset}, FALSE, "Parallel", TRUE, {}),
     AuditConf("On", {Unset}, FALSE, "Parallel", FALSE, {1, 2}),
     AuditConf("Off", {"A", "E"}, TRUE, "Serial", FALSE, {}),
     AuditConf("On", {Unset}, TRUE, "HTTPS", FALSE, {1})}

Logged(engine, code, noAuditLog) == [engine |-> engine, code |-> code, noAuditLog |-> noAuditLog]

MCLogged ==
    {Logged(Unset, "relevant", {}), Logged(Unset, "other", {TRUE, FALSE}),
     Logged(Unset, "other", {TRUE}), Logged(Unset, "other", {}), Logged("On", "other", {}),
     Logged("Off", "relevant", {FALSE})}

AuditLogParts(add, letters) == [add |-> add, parts |-> letters]

MCModifiers ==
    {<< >>, <<AuditLogParts(FALSE, {"B", "E"}), AuditLogParts(TRUE, {"E"})>>,
     <<AuditLogParts(TRUE, {"E"}), AuditLogParts(FALSE, {"H"})>>}

(* What is logged is asked of one thread that logs whatever there is; how  *)
(* it is written, of both, which log the same.                             *)
OneThreadLogs == \A t \in MCThreads \ {"t1"} : logging'[t] = "idle"

AllLogTheSame ==
    \A t \in MCThreads : saved'[t] \in {NoRecord} \cup
        [parts : {getParts(auditConf)}, transaction : {Logged("On", "other", {})}, modifiers : {<< >>}]

-----------------------------------------------------------------------------
(* Of a part that does not move, one initial state will do.                *)
MCInit ==
    /\ part \in Parts
    /\ InitAudit /\ InitScanner /\ InitProperties /\ InitIpTree /\ InitMultipart
    /\ InitArguments /\ InitAlgorithms /\ InitTargets /\ InitLua /\ InitAuditRecord /\ Init
    /\ part # "multipart"  => conf = CHOOSE c \in Confs : TRUE
    /\ part # "arguments"  => format = CHOOSE f \in Formats : TRUE
    /\ part # "algorithms" => alg = CHOOSE a \in Algorithm : TRUE
    /\ part # "targets"    => request = CHOOSE r \in Requests : TRUE
    /\ part # "lua"        => \A n \in LuaNames : store[n]["e"] = Gone
    /\ part \notin {"record", "writing"} =>
                              /\ auditConf = CHOOSE c \in AuditConfs : TRUE
                              /\ processOf = CHOOSE d \in Deployments : TRUE

(* The parts that are not p; AuditRecord is two of them.                   *)
OthersStay(p) ==
    /\ part = p /\ UNCHANGED part
    /\ p # "loading"    => UNCHANGED vars
    /\ p # "audit"      => UNCHANGED auditVars
    /\ p # "scanner"    => UNCHANGED scannerVars
    /\ p # "properties" => UNCHANGED propertiesVars
    /\ p # "ip"         => UNCHANGED ipVars
    /\ p # "multipart"  => UNCHANGED multipartVars
    /\ p # "arguments"  => UNCHANGED argumentsVars
    /\ p # "algorithms" => UNCHANGED algorithmsVars
    /\ p # "targets"    => UNCHANGED targetsVars
    /\ p # "lua"        => UNCHANGED luaVars
    /\ p \notin {"record", "writing"} => UNCHANGED auditRecordVars

MCNext ==
    \/ OthersStay("loading")    /\ Next /\ LastIsMerge
    \/ OthersStay("audit")      /\ NextAudit
    \/ OthersStay("scanner")    /\ NextScanner
    \/ OthersStay("properties") /\ NextProperties
    \/ OthersStay("ip")         /\ NextIpTree
    \/ OthersStay("multipart")  /\ NextMultipart
    \/ OthersStay("arguments")  /\ NextArguments
    \/ OthersStay("algorithms") /\ Grow
    \/ OthersStay("targets")    /\ NextTargets
    \/ OthersStay("lua")        /\ NextLua
    \/ OthersStay("record")     /\ NextAuditRecord /\ OneThreadLogs
    \/ OthersStay("writing")    /\ NextAuditRecord /\ AllLogTheSame
=============================================================================
