----------------------------- MODULE Transaction -----------------------------
(***************************************************************************)
(* The Transaction API as a connector (a web server module) drives it:     *)
(* the calls of the phases in their order, the request and the response    *)
(* body fed in chunks, and intervention(), which hands a disruption to the *)
(* server.  A call that evaluates rules runs to completion: while pc is    *)
(* not "idle" only steps of the rule engine happen.                        *)
(***************************************************************************)
EXTENDS RulesSet

CONSTANTS Polling,    \* the rule sets whose connector calls intervention()
                      \* after each call, and goes to processLogging once
                      \* told to stop
          Sending,    \* bound: those under which headers and bodies are sent
          ContentTypes,  \* formats a request header may announce
          ResponseTypes, \* kinds of Content-Type of a response
          ChunkSizes, \* bound: sizes of the chunks of a body
          MaxSent     \* bound: bytes of both bodies together

VARIABLES stage,              \* the phases whose calls lie behind
          pollDue,            \* a call returned and was not checked yet
          m_isInterrupted,
          delivered,          \* history: what intervention() handed out
          body,               \* m_requestBody and m_responseBody
          dataError,          \* INBOUND_DATA_ERROR and OUTBOUND_DATA_ERROR
          reqbodyError,       \* REQBODY_ERROR
          responseType        \* RESPONSE_CONTENT_TYPE

apiVars  == <<stage, pollDue, m_isInterrupted, delivered>>
dataVars == <<body, dataError, reqbodyError, responseType>>
vars     == <<engineVars, apiVars, dataVars>>

ASSUME TransactionAssumption ==
    /\ Polling \subseteq Configs /\ Sending \subseteq Configs
    /\ ContentTypes \subseteq {"MultiPart", "WWWFormUrlEncoded"}
    /\ ResponseTypes \subseteq {"listed", "other"}
    /\ ChunkSizes \subseteq Nat \ {0}
    /\ MaxSent \in Nat

-----------------------------------------------------------------------------
(* A body: how many bytes the peer sent, how many are in the stringstream  *)
(* (tellp) and which positions of the peer's stream they are.              *)
EmptyBody == [sent |-> 0, len |-> 0, kept |-> {}]

write(b, n, k) == [sent |-> b.sent + n, len |-> b.len + k,
                   kept |-> b.kept \cup (b.sent + 1 .. b.sent + k)]

Polls == config \in Polling

(* The connector may call the API for phase p.                             *)
MayCall(p) ==
    /\ pc = "idle"
    /\ stage < p
    /\ Polls => ~pollDue /\ (m_isInterrupted => p = LoggingPhase)

Called(p) == stage' = p /\ pollDue' = TRUE /\ UNCHANGED <<m_isInterrupted, delivered>>

EngineUntouched ==
    UNCHANGED <<config, m_it, bodyCtlVars, m_rulesMessages>>

Returns == UNCHANGED <<loopVars, controlVars>>

processConnection ==
    /\ MayCall(ConnectionPhase)
    /\ evaluate(ConnectionPhase)
    /\ Called(ConnectionPhase)
    /\ EngineUntouched /\ UNCHANGED dataVars

(* processURI stores the parts of the URI and evaluates no rule.           *)
processURI ==
    /\ MayCall(UriPhase)
    /\ Called(UriPhase)
    /\ EngineUntouched /\ Returns /\ UNCHANGED dataVars

(* addRequestHeader with a Content-Type.                                   *)
addRequestHeader(type) ==
    /\ MayCall(RequestHeadersPhase)
    /\ config \in Sending
    /\ m_requestBodyType = "UnknownFormat"
    /\ m_requestBodyType' = type
    /\ UNCHANGED <<config, loopVars, m_it, controlVars, m_requestBodyAccess,
                   m_requestBodyProcessor, m_rulesMessages, apiVars, dataVars>>

processRequestHeaders ==
    /\ MayCall(RequestHeadersPhase)
    /\ IF getRuleEngineState = "Disabled"
         THEN Returns
         ELSE evaluate(RequestHeadersPhase)
    /\ Called(RequestHeadersPhase)
    /\ EngineUntouched /\ UNCHANGED dataVars

-----------------------------------------------------------------------------
(* appendRequestBody and appendResponseBody.                               *)

(* Mutant: what is already buffered is not counted.                        *)
MutOverLimit(s, n) == rs.limit[s] > 0 /\ rs.limit[s] < n

OverLimit(s, n) == rs.limit[s] > 0 /\ rs.limit[s] < n + body[s].len

(* Response data of a type that is not to be inspected is not kept.        *)
TypeInspected(s) ==
    s = "res" /\ rs.mimeTypes = "Listed" => responseType = "listed"

FeedPhase(s) == IF s = "req" THEN RequestBodyPhase ELSE ResponseBodyPhase

Feed(s, n) ==
    /\ MayCall(FeedPhase(s))
    /\ stage = FeedPhase(s) - 1
    /\ config \in Sending
    /\ body["req"].sent + body["res"].sent + n <= MaxSent
    /\ pollDue' = TRUE
    /\ UNCHANGED <<config, loopVars, controlVars, bodyCtlVars, m_rulesMessages,
                   stage, m_isInterrupted, delivered, reqbodyError,
                   responseType>>

AppendWhole(s, n) ==
    /\ Feed(s, n)
    /\ TypeInspected(s) /\ ~OverLimit(s, n)
    /\ body' = [body EXCEPT ![s] = write(@, n, n)]
    /\ UNCHANGED <<m_it, dataError>>

(* ProcessPartial: what fits below the limit is written.                   *)
AppendPartial(s, n) ==
    /\ Feed(s, n)
    /\ TypeInspected(s) /\ OverLimit(s, n)
    /\ rs.limitAction[s] = "ProcessPartial"
    /\ body' = [body EXCEPT ![s] = write(@, n, rs.limit[s] - @.len)]
    /\ dataError' = [dataError EXCEPT ![s] = "1"]
    /\ UNCHANGED m_it

(* Mutant: a rejected body makes no intervention.                          *)
MutAppendRejected(s, n) ==
    /\ Feed(s, n)
    /\ TypeInspected(s) /\ OverLimit(s, n)
    /\ rs.limitAction[s] # "ProcessPartial"
    /\ body' = [body EXCEPT ![s] = write(@, n, 0)]
    /\ dataError' = [dataError EXCEPT ![s] = "1"]
    /\ UNCHANGED m_it

(* Reject, or no action configured: the chunk is dropped; Reject makes the *)
(* intervention itself, when the engine is On.                             *)
AppendRejected(s, n) ==
    /\ Feed(s, n)
    /\ TypeInspected(s) /\ OverLimit(s, n)
    /\ rs.limitAction[s] # "ProcessPartial"
    /\ body' = [body EXCEPT ![s] = write(@, n, 0)]
    /\ dataError' = [dataError EXCEPT ![s] = "1"]
    /\ m_it' = IF rs.limitAction[s] = "Reject"
                    /\ getRuleEngineState = "Enabled"
                 THEN [freeIt(m_it) EXCEPT !.log = "limit", !.status = 403,
                                           !.disruptive = TRUE]
                 ELSE m_it

AppendUninspected(s, n) ==
    /\ Feed(s, n)
    /\ ~TypeInspected(s)
    /\ body' = [body EXCEPT ![s] = write(@, n, 0)]
    /\ UNCHANGED <<m_it, dataError>>

appendBody(s, n) ==
    \/ AppendWhole(s, n) \/ AppendPartial(s, n)
    \/ AppendRejected(s, n) \/ AppendUninspected(s, n)

-----------------------------------------------------------------------------
(* processRequestBody: choose the body processor, parse, and evaluate the  *)
(* rules if the body may be accessed.  `ok' is whether the parser accepts  *)
(* the body, `files' the bytes of a multipart body that are files.         *)

(* Which branch of processRequestBody parses the body.                     *)
BodyParser ==
    IF m_requestBodyProcessor # "UnknownFormat"
      THEN m_requestBodyProcessor ELSE m_requestBodyType

OverNoFilesLimit(n) == rs.noFilesLimit > 0 /\ n > rs.noFilesLimit

(* The limit is checked up front for every body but a multipart one.       *)
NoFilesLimitExceeded ==
    /\ m_requestBodyType = "WWWFormUrlEncoded"
         \/ m_requestBodyProcessor # "UnknownFormat"
    /\ OverNoFilesLimit(body["req"].len)

(* REQBODY_ERROR after the body was parsed.  The urlencoded branch never   *)
(* clears it, and an empty JSON document is no error.                      *)
ParsedError(ok, files) ==
    CASE BodyParser \in {"JSON", "XML"} ->
           IF NoFilesLimitExceeded THEN "1"
           ELSE IF ok \/ (BodyParser = "JSON" /\ body["req"].len = 0)
             THEN "0" ELSE "1"
      [] BodyParser = "MultiPart" ->
           IF ok /\ ~OverNoFilesLimit(body["req"].len - files)
             THEN "0" ELSE "1"
      [] BodyParser = "WWWFormUrlEncoded" ->
           IF NoFilesLimitExceeded THEN "1" ELSE reqbodyError
      [] OTHER -> "0"

(* Mutant: the flag appendRequestBody raised is initialised once more.     *)
MutParsedDataError(ok, files) == IF NoFilesLimitExceeded THEN "1" ELSE "0"

(* INBOUND_DATA_ERROR after it.                                            *)
ParsedDataError(ok, files) ==
    IF \/ NoFilesLimitExceeded
       \/ BodyParser = "MultiPart" /\ ok
            /\ OverNoFilesLimit(body["req"].len - files)
      THEN "1"
    ELSE IF dataError["req"] = "" THEN "0" ELSE dataError["req"]

RequestBodyAccessible ==
    IF rs.access["req"] = "False"
      THEN m_requestBodyAccess = "True"
      ELSE m_requestBodyAccess # "False"

processRequestBody(ok, files) ==
    /\ MayCall(RequestBodyPhase)
    /\ Called(RequestBodyPhase)
    /\ EngineUntouched /\ UNCHANGED <<body, responseType>>
    /\ IF getRuleEngineState = "Disabled"
         THEN Returns /\ UNCHANGED <<dataError, reqbodyError>>
         ELSE /\ reqbodyError' = ParsedError(ok, files)
              /\ dataError' =
                   [dataError EXCEPT !["req"] = ParsedDataError(ok, files)]
              /\ IF RequestBodyAccessible
                   THEN evaluate(RequestBodyPhase)
                   ELSE Returns

-----------------------------------------------------------------------------
(* addResponseHeader with a Content-Type.                                  *)
addResponseHeader(type) ==
    /\ MayCall(ResponseHeadersPhase)
    /\ stage >= RequestHeadersPhase
    /\ config \in Sending
    /\ responseType = "" /\ responseType' = type
    /\ EngineUntouched /\ Returns
    /\ UNCHANGED <<apiVars, body, dataError, reqbodyError>>

processResponseHeaders ==
    /\ MayCall(ResponseHeadersPhase)
    /\ IF getRuleEngineState = "Disabled"
         THEN Returns
         ELSE evaluate(ResponseHeadersPhase)
    /\ Called(ResponseHeadersPhase)
    /\ EngineUntouched /\ UNCHANGED dataVars

processResponseBody ==
    /\ MayCall(ResponseBodyPhase)
    /\ Called(ResponseBodyPhase)
    /\ EngineUntouched /\ UNCHANGED <<body, reqbodyError, responseType>>
    /\ IF \/ getRuleEngineState = "Disabled"
          \/ rs.access["res"] # "True"
          \/ rs.mimeTypes # "NotSet"
               /\ ~(rs.mimeTypes = "Listed" /\ responseType = "listed")
         THEN Returns /\ UNCHANGED dataError
         ELSE /\ dataError' = [dataError EXCEPT !["res"] =
                                 IF @ = "" THEN "0" ELSE @]
              /\ evaluate(ResponseBodyPhase)

processLogging ==
    /\ MayCall(LoggingPhase)
    /\ IF getRuleEngineState = "Disabled"
         THEN Returns
         ELSE evaluate(LoggingPhase)
    /\ Called(LoggingPhase)
    /\ EngineUntouched /\ UNCHANGED dataVars

(* intervention(): hand out the pending disruption and reset it.           *)
intervention ==
    /\ pc = "idle"
    /\ pollDue
    /\ pollDue' = FALSE
    /\ IF m_it.disruptive
         THEN /\ m_isInterrupted' = TRUE
              /\ delivered' = Append(delivered, m_it)
              /\ m_it' = reset(m_it)
         ELSE UNCHANGED <<m_isInterrupted, delivered, m_it>>
    /\ UNCHANGED <<config, loopVars, controlVars, bodyCtlVars, m_rulesMessages,
                   stage, dataVars>>

-----------------------------------------------------------------------------
Init ==
    /\ EngineInit
    /\ stage = NoPhase /\ pollDue = FALSE
    /\ m_isInterrupted = FALSE /\ delivered = << >>
    /\ body = [s \in Sides |-> EmptyBody]
    /\ dataError = [s \in Sides |-> ""]
    /\ reqbodyError = ""
    /\ responseType = ""

ApiCall ==
    \/ processConnection \/ processURI
    \/ \E t \in ContentTypes : addRequestHeader(t)
    \/ processRequestHeaders
    \/ \E s \in Sides, n \in ChunkSizes : appendBody(s, n)
    \/ \E ok \in BOOLEAN, files \in 0 .. body["req"].len :
          processRequestBody(ok, files)
    \/ \E t \in ResponseTypes : addResponseHeader(t)
    \/ processResponseHeaders \/ processResponseBody \/ processLogging
    \/ intervention

RuleStep == EvaluationStep /\ UNCHANGED <<apiVars, dataVars>>

(* The transaction is over: processLogging was called and checked.         *)
Finished == pc = "idle" /\ stage = LoggingPhase /\ ~pollDue

Done == Finished /\ UNCHANGED vars

Next == ApiCall \/ RuleStep \/ Done

Spec == Init /\ [][Next]_vars

(* A call into the library returns: the thread that entered it runs.       *)
FairSpec == Spec /\ WF_vars(RuleStep)
-----------------------------------------------------------------------------
(* Classes of rule sets the properties speak of.                           *)

(* No rule turns the engine on.                                            *)
NotEnabling   == {a \in Action : ~(a.name = "ctl:ruleEngine" /\ a.arg = "Enabled")}
NeverEnabling == {c \in Configs : Loaded[c] \in RuleSetOver(NotEnabling)}

(* No rule changes the engine state.                                       *)
EngineFixing ==
    {c \in Configs :
        Loaded[c] \in RuleSetOver({a \in Action : a.name # "ctl:ruleEngine"})}

(* No pass action: nothing takes a disruption back.                        *)
NeverPassing ==
    {c \in Configs : Loaded[c] \in RuleSetOver({a \in Action : a.name # "pass"})}

(* Every skipAfter a rule can execute, its own, one of the default actions *)
(* of its phase or one of SecRuleUpdateActionById, names a marker that     *)
(* follows the rule, in its phase and in the later ones                    *)
(* (Driver::addSecMarker puts a marker in every phase).                    *)
MarkerIn(r, q, m) ==
    {j \in DOMAIN r.rules[q] :
        r.rules[q][j].kind = "SecMarker" /\ r.rules[q][j].name = m}
MarkerAhead(r, p, k, m) ==
    /\ \E j \in MarkerIn(r, p, m) : j > k
    /\ \A q \in p + 1 .. LoggingPhase : MarkerIn(r, q, m) # {}
SkipsAhead(r, p, k) ==
    {a \in Action : a.name = "skipAfter" => MarkerAhead(r, p, k, a.arg)}
FollowedByMarkers(r, p, k) ==
    /\ r.defaults[p] \in ActionList(SkipsAhead(r, p, k))
    /\ \A l \in DOMAIN r.rules[p][k].chain :
          LET linked == r.rules[p][k].chain[l]
          IN  /\ linked.acts \in ActionList(SkipsAhead(r, p, k))
              /\ r.posUpdate[linked.id] \in Seq(SkipsAhead(r, p, k))
MarkersFollowing ==
    {c \in Configs : \A p \in Phases : \A k \in DOMAIN Loaded[c].rules[p] :
        \/ Loaded[c].rules[p][k].kind = "SecMarker"
        \/ FollowedByMarkers(Loaded[c], p, k)}

-----------------------------------------------------------------------------
(* Properties.                                                             *)

ApiTypeOK ==
    /\ stage \in Phases \cup {NoPhase}
    /\ pollDue \in BOOLEAN
    /\ m_isInterrupted \in BOOLEAN
    /\ delivered \in Seq(Intervention)

DataTypeOK ==
    /\ body \in [Sides -> [sent : Nat, len : Nat, kept : SUBSET Nat]]
    /\ dataError \in [Sides -> {"", "0", "1"}]
    /\ reqbodyError \in {"", "0", "1"}
    /\ responseType \in {"", "listed", "other"}

(* The type invariant of the transaction and of the rule engine.           *)
TypeOK == EngineTypeOK /\ ApiTypeOK /\ DataTypeOK

(* allow, allow:phase and allow:request (rules_set.cc:131-165): once one   *)
(* of them ran, no rule is evaluated in the scope it names: the rest of    *)
(* its phase, the phases of the request, or everything before logging.     *)
InAllowedScope(p) ==
    /\ granted # NoGrant
    /\ \/ p = granted.phase
       \/ granted.type = "RequestAllow" /\ p <= RequestBodyPhase
       \/ granted.type = "FromNowOnAllow" /\ p # LoggingPhase
AllowIsHonoured == pc = "match" => ~InAllowedScope(phase)

(* SecRuleEngine DetectionOnly and Off (rule_with_actions.cc:315, 954):    *)
(* with a rule set that never turns the engine on, no sequence of calls,   *)
(* matches and actions makes the server interrupt a request.               *)
DetectionNeverInterrupts ==
    rs.engine # "Enabled" /\ config \in NeverEnabling =>
        ~m_it.disruptive /\ delivered = << >>

(* What the server is told to answer is never 200 (deny.cc:35,             *)
(* redirect.cc:41, transaction.cc:958), whatever status actions, passes    *)
(* and earlier interventions came before, unless a rule says status:200.   *)
InterventionHasErrorStatus ==
    200 \notin StatusCodes =>
        /\ m_it.disruptive => m_it.status # 200
        /\ \A k \in DOMAIN delivered : delivered[k].status # 200

(* A redirect's url stays in m_it only while the intervention it belongs   *)
(* to is pending (pass.cc:34, transaction.cc:955), so that it cannot end   *)
(* up in the answer of another rule; holds until the first intervention is *)
(* handed out, because intervention() leaves the url behind.               *)
UrlOnlyWhilePending ==
    ~m_isInterrupted => (m_it.url # None => m_it.disruptive)

(* A connector that checks after every call never has another rule         *)
(* evaluated between a disruption and its answer (rules_set.cc:224): the   *)
(* break leaves the phase, and no later phase starts before.               *)
NoRuleAfterInterception == Polls /\ pc = "match" => ~m_it.disruptive

(* Disruptive and other after-match actions run only when every rule of    *)
(* the chain matched, or matched down to one that ctl:ruleRemoveById took  *)
(* out (rule_with_operator.cc:321-349).                                    *)
ActionsOnlyOnFullMatch ==
    pc = "exec" =>
        /\ link \in 1 .. hits
        /\ hits = Len(chain) \/ LinkIsRemoved(hits + 1)

(* A match that the log reports as disruptive (performLogging then leaves  *)
(* it out of the server log) is the one the server is told about: pending  *)
(* or already handed out.                                                  *)
DisruptiveMatchIsDelivered ==
    Polls /\ config \in NeverPassing =>
        \A k \in DOMAIN m_rulesMessages :
            m_rulesMessages[k].disruptive =>
                \/ m_it.disruptive /\ m_it.log = m_rulesMessages[k].rule
                \/ \E d \in DOMAIN delivered :
                      delivered[d].log = m_rulesMessages[k].rule

(* skipAfter (rules_set.cc:151-156): a phase that ends without being       *)
(* intercepted ends outside of a marker if the marker lies ahead, also     *)
(* when the skip began in an earlier phase that was intercepted.           *)
MarkersAreLeft == [][EndPhase /\ config \in MarkersFollowing => ~isInsideAMarker]_vars

(* SecRequestBodyLimit, SecResponseBodyLimit (transaction.cc:936, 1196):   *)
(* a body never outgrows its limit, so that spaceLeft, a size_t, never     *)
(* wraps around, and what is written was read from the chunk.              *)
BodyBounded ==
    \A s \in Sides :
        /\ rs.limit[s] > 0 => body[s].len <= rs.limit[s]
        /\ body[s].kept \subseteq 1 .. body[s].sent

(* What is inspected is a prefix of what was sent: always under            *)
(* ProcessPartial, and under Reject when the engine is On and the          *)
(* connector stops at the intervention.                                    *)
BodyIsPrefix ==
    \A s \in Sides :
        \/ body[s].kept = 1 .. body[s].len
        \/ rs.limitAction[s] = "NotSet"
        \/ /\ rs.limitAction[s] = "Reject"
           /\ Polls /\ rs.engine = "Enabled" => config \notin EngineFixing

(* INBOUND_DATA_ERROR and OUTBOUND_DATA_ERROR (transaction.cc:682, 938):   *)
(* rules can always see that a body they inspect is not the whole body.    *)
TruncationIsFlagged ==
    \A s \in Sides :
        TypeInspected(s) /\ body[s].len # body[s].sent => dataError[s] = "1"

(* Every call that evaluates rules returns (rules_set.cc:147), whatever    *)
(* chains, markers and skips the rule set has.                             *)
EvaluationTerminates == pc # "idle" ~> pc = "idle"

(* modsecurity.conf-recommended:48-51: in DetectionOnly mode the limit     *)
(* action is ProcessPartial, hence what is kept is what fits.              *)
DetectionOnlyProcessesPartially ==
    getRuleEngineState = "DetectionOnly" /\ rs.limit["req"] > 0 =>
        body["req"].kept = 1 .. (IF body["req"].sent < rs.limit["req"]
                                   THEN body["req"].sent ELSE rs.limit["req"])
=============================================================================
