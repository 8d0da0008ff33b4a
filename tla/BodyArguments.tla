---------------------------- MODULE BodyArguments ----------------------------
(***************************************************************************)
(* How a request body becomes arguments: JSON (json.cc), XML with          *)
(* SecParseXmlIntoArgs (xml.cc), and the urlencoded form (extractArguments *)
(* of transaction.cc).  yajl and libxml2 are outside: they call back for   *)
(* what the body holds, in the order of a well formed document, until the  *)
(* document ends, it is broken, or a callback stops them.  A name is the   *)
(* sequence of its pieces.                                                 *)
(***************************************************************************)
EXTENDS Naturals, Sequences

CONSTANTS Keys,        \* keys of JSON objects and names of XML elements
          MaxDepths,   \* settings of SecRequestBodyJsonDepthLimit
          ArgLimits,   \* settings of SecArgumentsLimit
          MaxEvents    \* bound on the callbacks of a body

VARIABLES format,  \* what the body is, its limits, and whether it is broken
          reader,  \* the state of the JSON or XML object
          args,    \* ARGS
          place,   \* history: the open containers, as the document has them
          leaves,  \* history: the names and values ARGS should have
          report   \* REQBODY_ERROR and URLENCODED_ERROR

argumentsVars == <<format, reader, args, place, leaves, report>>

ASSUME ArgumentsAssumption ==
    "" \in Keys /\ MaxDepths \subseteq Nat /\ ArgLimits \subseteq Nat /\ MaxEvents \in Nat

EmptyKey == "empty-key"
Shut(s) == SubSeq(s, 1, Len(s) - 1)
Top(s) == s[Len(s)]

NoReport == [over |-> FALSE, error |-> FALSE, urlencoded |-> FALSE]

(* Transaction::addArgument: over the limit, it is skipped.                *)
TakesArgument == Len(args) < format.argLimit
addArgument(name, value) ==
    args' = IF TakesArgument THEN Append(args, [name |-> name, value |-> value]) ELSE args

(* The reader is stopped, or the document broken: the error is reported.   *)
Report(error) == report' = [report EXCEPT !.over = TRUE, !.error = error]

Goes ==
    /\ ~report.over
    /\ format.events < MaxEvents
    /\ format' = [format EXCEPT !.events = @ + 1]

-----------------------------------------------------------------------------
(* JSON.  The names of the open containers, the counters of the arrays, the *)
(* key that was read last, and the depth.                                  *)
NewJson == [containers |-> << >>, key |-> "", depth |-> 0]

InArray == reader.containers # << >> /\ Top(reader.containers).kind = "array"

getCurrentKey ==
    IF reader.containers = << >> THEN "json"
    ELSE IF reader.key = "" /\ ~InArray THEN EmptyKey
    ELSE reader.key

(* The key is used once, but for the one of the whole document.            *)
KeyAfter == IF reader.containers = << >> THEN reader.key ELSE ""

Piece(c) == IF c.kind = "array" THEN <<c.name, ".array_", c.counter>> ELSE <<c.name, ".">>
JsonPath == [i \in DOMAIN reader.containers |-> Piece(reader.containers[i])]

Counted(cs) ==
    IF cs # << >> /\ Top(cs).kind = "array" THEN [cs EXCEPT ![Len(cs)].counter = @ + 1] ELSE cs

(* Mutant: a container that ends is not counted as an element.             *)
MutAfterContainer(cs) == cs

AfterContainer(cs) == Counted(cs)

(* What yajl sees: a value may stand at the start, in an array, or after a *)
(* key.                                                                    *)
ValueMayFollow ==
    IF place = << >> THEN format.events = 0
    ELSE Top(place).kind = "array" \/ Top(place).keyRead
AfterValue(p) ==
    IF p = << >> THEN p
    ELSE [p EXCEPT ![Len(p)].keyRead = FALSE, ![Len(p)].elements = @ + 1]

(* The name by the document's structure alone.                             *)
Label(i) ==
    IF i = 1 THEN "json"
    ELSE IF place[i - 1].kind = "array" THEN ""
    ELSE IF place[i - 1].key = "" THEN EmptyKey ELSE place[i - 1].key
TrueName ==
    [i \in DOMAIN place |->
        IF place[i].kind = "array" THEN <<Label(i), ".array_", place[i].elements>>
        ELSE <<Label(i), ".">>]
      \o (IF place # << >> /\ Top(place).kind = "array" THEN << >> ELSE <<Label(Len(place) + 1)>>)

yajl_map_key(k) ==
    /\ Goes /\ format.kind = "json"
    /\ place # << >> /\ Top(place).kind = "map" /\ ~Top(place).keyRead
    /\ reader' = [reader EXCEPT !.key = k]
    /\ place' = [place EXCEPT ![Len(place)].key = k, ![Len(place)].keyRead = TRUE]
    /\ UNCHANGED <<args, leaves, report>>

(* Null, booleans, strings and numbers: JSON::addArgument.                 *)
yajl_scalar(v) ==
    /\ Goes /\ format.kind = "json" /\ ValueMayFollow
    /\ addArgument(JsonPath \o (IF InArray THEN << >> ELSE <<getCurrentKey>>), v)
    /\ reader' = IF InArray THEN [reader EXCEPT !.containers = Counted(@)]
                 ELSE [reader EXCEPT !.key = KeyAfter]
    /\ leaves' = Append(leaves, [name |-> TrueName, value |-> v])
    /\ place' = AfterValue(place)
    /\ IF TakesArgument THEN UNCHANGED report ELSE Report(TRUE)

TooDeep(depth) == depth > format.maxDepth

(* yajl_start_map, yajl_start_array.                                       *)
yajl_start(kind) ==
    LET deeper == reader.depth + 1
    IN  /\ Goes /\ format.kind = "json" /\ ValueMayFollow
        /\ reader' = [containers |-> Append(reader.containers, [kind |-> kind, name |-> getCurrentKey,
                                                                counter |-> 0]),
                      key |-> KeyAfter, depth |-> deeper]
        /\ place' = Append(place, [kind |-> kind, key |-> "", keyRead |-> FALSE, elements |-> 0])
        /\ IF TooDeep(deeper) THEN Report(TRUE) ELSE UNCHANGED report
        /\ UNCHANGED <<args, leaves>>

(* yajl_end_map, yajl_end_array.                                           *)
yajl_end ==
    /\ Goes /\ format.kind = "json" /\ place # << >> /\ ~Top(place).keyRead
    /\ reader' = [reader EXCEPT !.containers = AfterContainer(Shut(@)), !.depth = @ - 1]
    /\ place' = AfterValue(Shut(place))
    /\ UNCHANGED <<args, leaves, report>>

-----------------------------------------------------------------------------
(* XML.  With SecParseXmlIntoArgs On the document is first parsed as a     *)
(* whole, and the arguments are read only when it is well formed; with     *)
(* OnlyArgs they are read as far as it goes.                               *)
NewXml == [nodes |-> << >>, currpath |-> <<"xml.">>, currval |-> << >>, isSet |-> FALSE]

ReadsArguments == format.mode = "OnlyArgs" \/ (format.mode = "On" /\ ~format.broken)

onStartElement(name) ==
    LET inner == reader.nodes # << >>
    IN  /\ Goes /\ format.kind = "xml" /\ ReadsArguments /\ name # ""
        /\ inner \/ format.events = 0
        /\ reader' = [nodes |-> Append(IF inner THEN [reader.nodes EXCEPT ![Len(reader.nodes)] = TRUE]
                                       ELSE << >>, FALSE),
                      currpath |-> reader.currpath \o (IF inner THEN <<".", name>> ELSE <<name>>),
                      currval |-> << >>, isSet |-> FALSE]
        /\ place' = Append(IF inner THEN [place EXCEPT ![Len(place)].leaf = FALSE] ELSE place,
                           [name |-> name, text |-> << >>, leaf |-> TRUE])
        /\ UNCHANGED <<args, leaves, report>>

NewValue(content) == IF reader.isSet THEN Append(reader.currval, content) ELSE <<content>>

onCharacters(content) ==
    /\ Goes /\ format.kind = "xml" /\ ReadsArguments /\ reader.nodes # << >>
    /\ reader' = [reader EXCEPT !.currval = NewValue(content), !.isSet = TRUE]
    /\ place' = [place EXCEPT ![Len(place)].text = Append(@, content)]
    /\ UNCHANGED <<args, leaves, report>>

(* Only an element without children is an argument.  At the limit the      *)
(* parser is stopped.                                                      *)
XmlName == <<"xml.">> \o [i \in 1..(2 * Len(place) - 1) |->
                            IF i % 2 = 0 THEN "." ELSE place[(i + 1) \div 2].name]
onEndElement ==
    LET n      == Len(reader.nodes)
        isLeaf == ~Top(reader.nodes)
        last   == Len(reader.currpath) - (IF n > 1 THEN 2 ELSE 1)
    IN  /\ Goes /\ format.kind = "xml" /\ ReadsArguments /\ reader.nodes # << >>
        /\ IF isLeaf THEN addArgument(reader.currpath, reader.currval) ELSE UNCHANGED args
        /\ IF isLeaf /\ ~TakesArgument THEN Report(TRUE) ELSE UNCHANGED report
        /\ reader' = [nodes |-> Shut(reader.nodes), currpath |-> SubSeq(reader.currpath, 1, last),
                      currval |-> << >>, isSet |-> FALSE]
        /\ leaves' = IF Top(place).leaf
                       THEN Append(leaves, [name |-> XmlName, value |-> Top(place).text]) ELSE leaves
        /\ place' = Shut(place)

-----------------------------------------------------------------------------
(* One key=value of a form: what is over the limit is left out, and the    *)
(* reader goes on.  The count of invalid encodings of the key is lost when *)
(* the value is decoded.                                                   *)
extractArguments(k, badKey, badValue) ==
    /\ Goes /\ format.kind = "urlencoded"
    /\ addArgument(<<k>>, << >>)
    /\ leaves' = Append(leaves, [name |-> <<k>>, value |-> << >>])
    /\ report' = [report EXCEPT !.urlencoded = @ \/ badValue]
    /\ UNCHANGED <<reader, place>>

(* complete: the document ends, or it is broken here; the form is never   *)
(* refused.                                                                *)
Complete ==
    /\ ~report.over
    /\ format.kind = "json" /\ ~format.broken => place = << >>
    /\ format.kind = "xml" /\ ReadsArguments /\ ~format.broken => place = << >> /\ format.events > 0
    /\ Report(format.kind # "urlencoded" /\ format.broken)
    /\ UNCHANGED <<format, reader, args, place, leaves>>

Formats ==
    [kind : {"json"}, mode : {"Off"}, broken : BOOLEAN, maxDepth : MaxDepths,
     argLimit : ArgLimits, events : {0}]
      \cup [kind : {"xml"}, mode : {"Off", "On", "OnlyArgs"}, broken : BOOLEAN, maxDepth : {0},
            argLimit : ArgLimits, events : {0}]
      \cup [kind : {"urlencoded"}, mode : {"Off"}, broken : {FALSE}, maxDepth : {0},
            argLimit : ArgLimits, events : {0}]

InitArguments ==
    /\ format \in Formats
    /\ reader = IF format.kind = "xml" THEN NewXml ELSE NewJson
    /\ args = << >> /\ place = << >> /\ leaves = << >>
    /\ report = NoReport

NextArguments ==
    \/ \E k \in Keys : yajl_map_key(k) \/ onStartElement(k)
    \/ \E v \in {"v1", "v2"} : yajl_scalar(v) \/ onCharacters(v)
    \/ \E kind \in {"map", "array"} : yajl_start(kind)
    \/ yajl_end
    \/ onEndElement
    \/ \E k \in Keys, badKey \in BOOLEAN, badValue \in BOOLEAN : extractArguments(k, badKey, badValue)
    \/ Complete

SpecArguments == InitArguments /\ [][NextArguments]_argumentsVars

-----------------------------------------------------------------------------
(* The arguments are the values of the document, in its order, each whole  *)
(* and under the name its place in the document gives it: the counters of  *)
(* the arrays, the key and the path are right however containers nest, as  *)
(* far as the limit on the arguments lets them through.                    *)
ArgumentsAreTheLeaves ==
    /\ Len(args) <= Len(leaves)
    /\ \A i \in DOMAIN args : args[i] = leaves[i]

(* A JSON or XML body of which an argument was left out, or that is deeper *)
(* than allowed, is reported: REQBODY_ERROR is set.                        *)
LimitsAreTold ==
    /\ report.over /\ ~report.error /\ format.kind # "urlencoded" => Len(args) = Len(leaves)
    /\ format.kind = "json" /\ Len(place) > format.maxDepth => report.error

(* The arguments are those of the body, and what is left out of a JSON or  *)
(* XML body is told.                                                       *)
ArgumentsAreWhole == ArgumentsAreTheLeaves /\ LimitsAreTold
=============================================================================
