--------------------------- MODULE InspectionProofs ---------------------------
(***************************************************************************)
(* Proofs about what a transaction inspects and reports: the bodies it     *)
(* keeps and the flags it raises for what it does not keep, the matches of *)
(* chains, the disruptions its log reports and the pending url.            *)
(***************************************************************************)
EXTENDS TransactionProofs

-----------------------------------------------------------------------------
(* The steps that change the pending intervention, and those that change a *)
(* body; no other step touches them.                                       *)

LEMMA ItChanges ==
    ASSUME [Next]_vars
    PROVE  \/ UNCHANGED m_it
           \/ ExecDeny \/ ExecRedirect \/ ExecPass \/ ExecStatus
           \/ \E s \in Sides, n \in ChunkSizes : AppendRejected(s, n)
           \/ intervention
BY DEF Next, Done, vars, engineVars, ApiCall, processConnection, processURI,
       addRequestHeader, processRequestHeaders, appendBody, AppendWhole,
       AppendPartial, AppendUninspected, processRequestBody,
       addResponseHeader, processResponseHeaders, processResponseBody,
       processLogging, EngineUntouched, RuleStep, EvaluationStep, LoopStep,
       SkipInsideMarker, EvaluateMarker, SkipNext, SkipAllowedOrRemoved,
       StartRule, AfterRule, EndPhase, ChainStep, OperatorMatches,
       OperatorFails, RemovedRuleReturnsTrue, LinkExecuted, ActionStep,
       SkipDisruptive, ExecAllow, ExecBlock, ExecLog, ExecSkip, ExecSkipAfter,
       ExecCtlRuleEngine, ExecCtlRuleRemoveById, ExecCtlRuleRemoveByTag,
       ExecCtlRequestBodyAccess, ExecCtlRequestBodyProcessor

LEMMA BodyChanges ==
    ASSUME [Next]_vars
    PROVE  \/ UNCHANGED body
           \/ \E s \in Sides, n \in ChunkSizes : appendBody(s, n)
BY DEF Next, Done, vars, dataVars, ApiCall, processConnection, processURI,
       addRequestHeader, processRequestHeaders, processRequestBody,
       addResponseHeader, processResponseHeaders, processResponseBody,
       processLogging, intervention, RuleStep

(* Once a server was told to interrupt, the transaction stays interrupted. *)
LEMMA StaysInterrupted ==
    ASSUME [Next]_vars, m_isInterrupted
    PROVE  m_isInterrupted'
BY ZenonT(60) DEF Next, Done, vars, apiVars, ApiCall, Called, processConnection,
       processURI, addRequestHeader, processRequestHeaders, appendBody,
       AppendWhole, AppendPartial, AppendRejected, AppendUninspected, Feed,
       processRequestBody, addResponseHeader, processResponseHeaders,
       processResponseBody, processLogging, intervention, RuleStep

(* What the actions, the limit of a body and intervention() write into the *)
(* pending intervention.                                                   *)
LEMMA ItFields ==
    ASSUME NEW it \in Intervention
    PROVE  /\ denied(it).disruptive /\ denied(it).url = it.url
           /\ denied(it).log = <<phase, i>>
           /\ \A url : /\ redirected(it, url).disruptive
                       /\ redirected(it, url).log = <<phase, i>>
           /\ reset(freeIt(it)).url = None /\ ~reset(freeIt(it)).disruptive
           /\ ~reset(it).disruptive
           /\ \A st : LET new == [it EXCEPT !.status = st]
                      IN  /\ new.url = it.url /\ new.log = it.log
                          /\ new.disruptive = it.disruptive
           /\ LET new == [freeIt(it) EXCEPT !.log = "limit", !.status = 403,
                                            !.disruptive = TRUE]
              IN  new.disruptive /\ new.url = None
BY DEF denied, redirected, reset, freeIt, Intervention

-----------------------------------------------------------------------------
(* The url of a redirect.                                                  *)

LEMMA UrlNext ==
    ASSUME TransactionInv, UrlOnlyWhilePending, [Next]_vars
    PROVE  UrlOnlyWhilePending'
<1> SUFFICES ASSUME ~m_isInterrupted', m_it'.url # None
             PROVE  m_it'.disruptive
  BY DEF UrlOnlyWhilePending
<1>0. m_it \in Intervention
  BY DEF TransactionInv, TypeInv, TypeOK, EngineTypeOK, ReportTypeOK
<1>1. m_it.url # None => m_it.disruptive
  BY StaysInterrupted DEF UrlOnlyWhilePending
<1>2. CASE UNCHANGED m_it
  BY <1>1, <1>2
<1>3. CASE ExecDeny
  BY <1>0, <1>3, ItFields DEF ExecDeny
<1>4. CASE ExecRedirect
  BY <1>0, <1>4, ItFields DEF ExecRedirect
<1>5. CASE ExecPass
  BY <1>0, <1>5, ItFields DEF ExecPass
<1>6. CASE ExecStatus
  BY <1>0, <1>1, <1>6, ItFields DEF ExecStatus
<1>7. ASSUME NEW s \in Sides, NEW n \in ChunkSizes, AppendRejected(s, n)
      PROVE  m_it'.disruptive
  BY <1>0, <1>1, <1>7, ItFields DEF AppendRejected
<1>8. CASE intervention
  <2>1. CASE m_it.disruptive
    BY <1>8, <2>1 DEF intervention
  <2>2. CASE ~m_it.disruptive
    BY <1>1, <1>8, <2>2 DEF intervention
  <2> QED
    BY <2>1, <2>2
<1> QED
  BY <1>2, <1>3, <1>4, <1>5, <1>6, <1>7, <1>8, ItChanges

(* Until the first intervention is handed out, the url of a redirect is    *)
(* in m_it only together with the disruption it belongs to: pass and the   *)
(* limit of a body free it, no other action leaves it behind.              *)
THEOREM UrlIsPending == Spec => []UrlOnlyWhilePending
<1>1. Init => UrlOnlyWhilePending
  <2> SUFFICES ASSUME Init PROVE m_it.url = None
    BY DEF UrlOnlyWhilePending
  <2> QED
    BY DEF Init, EngineInit, CleanIt
<1>2. TransactionInv /\ UrlOnlyWhilePending /\ [Next]_vars
        => UrlOnlyWhilePending'
  BY UrlNext
<1> QED
  BY <1>1, <1>2, InvAlways, PTL DEF Spec

-----------------------------------------------------------------------------
(* Chains.  While a chain is matched, the links before the current one     *)
(* matched; its actions run from the last link that matched upwards.       *)

Descent == pc = "match" => hits = link - 1

ChainInv == Descent /\ ActionsOnlyOnFullMatch

(* A step that neither matches a link nor ends it stays where it is in the *)
(* chain, or is outside of a match altogether.                             *)
LEMMA ChainPosition ==
    ASSUME TransactionInv, [Next]_vars, ~ChainStep, ~StartRule
    PROVE  /\ pc' = "match" => pc = "match" /\ UNCHANGED <<hits, link>>
           /\ pc' = "exec" =>
                /\ pc = "exec"
                /\ UNCHANGED <<config, phase, i, hits, link>>
                /\ m_ruleRemoveById \subseteq m_ruleRemoveById'
<1>1. CASE ApiCall
  <2>1. pc = "idle" /\ (pc' = "idle" \/ pc' = "loop")
    BY <1>1, CallsInOrder DEF evaluate
  <2> QED
    BY <2>1
<1>2. CASE RuleStep
  <2>1. CASE LoopStep
    <3>1. pc' \in {"loop", "idle"}
      BY <2>1 DEF LoopStep, SkipInsideMarker, EvaluateMarker, SkipNext,
           SkipAllowedOrRemoved, NotInMarker, InLoop, NextRule, AfterRule,
           EndPhase
    <3> QED
      BY <3>1
  <2>2. CASE ActionStep
    <3>1. pc = "exec" /\ UNCHANGED <<config, pc, phase, i, hits, link>>
      BY <2>2 DEF ActionStep, SkipDisruptive, Running, ExecLeaves, ExecDeny,
           ExecRedirect, ExecPass, ExecAllow, ExecBlock, ExecStatus, ExecLog,
           ExecSkip, ExecSkipAfter, ExecCtlRuleEngine, ExecCtlRuleRemoveById,
           ExecCtlRuleRemoveByTag, ExecCtlRequestBodyAccess,
           ExecCtlRequestBodyProcessor
    <3>2. m_ruleRemoveById \subseteq m_ruleRemoveById'
      BY <2>2 DEF ActionStep, controlVars, SkipDisruptive, ExecDeny,
           ExecRedirect, ExecPass, ExecAllow, ExecBlock, ExecStatus, ExecLog,
           ExecSkip, ExecSkipAfter, ExecCtlRuleEngine, ExecCtlRuleRemoveById,
           ExecCtlRuleRemoveByTag, ExecCtlRequestBodyAccess,
           ExecCtlRequestBodyProcessor
    <3> QED
      BY <3>1, <3>2
  <2> QED
    BY <1>2, <2>1, <2>2 DEF RuleStep, EvaluationStep
<1>3. CASE UNCHANGED vars
  BY <1>3 DEF vars, engineVars, loopVars, controlVars
<1> QED
  BY <1>1, <1>2, <1>3 DEF Next, Done

LEMMA ChainNext ==
    ASSUME TransactionInv, ChainInv, [Next]_vars
    PROVE  ChainInv'
<1> USE DEF ChainInv
<1>1. CASE StartRule
  BY <1>1 DEF StartRule, Descent, ActionsOnlyOnFullMatch
<1>2. CASE ~ChainStep /\ ~StartRule
  <2>1. Descent'
    BY <1>2, ChainPosition DEF Descent
  <2>2. ASSUME pc' = "exec"
        PROVE  /\ link' \in 1 .. hits'
               /\ hits' = Len(chain') \/ LinkIsRemoved(hits + 1)'
    <3>1. /\ pc = "exec" /\ UNCHANGED <<config, phase, i, hits, link>>
          /\ m_ruleRemoveById \subseteq m_ruleRemoveById'
      BY <1>2, <2>2, ChainPosition
    <3>2. rule' = rule /\ chain' = chain
      BY <3>1, SameRule
    <3> QED
      BY <3>1, <3>2 DEF ActionsOnlyOnFullMatch, LinkIsRemoved
  <2> QED
    BY <2>1, <2>2 DEF ActionsOnlyOnFullMatch
<1>3. CASE ChainStep
  <2>0. /\ pc \in {"match", "exec"} /\ UNCHANGED <<config, phase, i>>
        /\ m_ruleRemoveById' = m_ruleRemoveById
    BY <1>3 DEF ChainStep, OperatorMatches, OperatorFails,
         RemovedRuleReturnsTrue, LinkExecuted, controlVars
  <2>1. link \in 1 .. Len(chain) /\ Len(chain) \in Nat /\ hits \in Nat
    BY <2>0, Position DEF TransactionInv, TypeInv, TypeOK, EngineTypeOK,
       LoopTypeOK
  <2>2. /\ rule' = rule /\ chain' = chain
        /\ \A l : LinkIsRemoved(l)' <=> LinkIsRemoved(l)
    BY <2>0, SameRule DEF LinkIsRemoved
  <2>3. CASE LeaveRule
    BY <2>3 DEF LeaveRule, Descent, ActionsOnlyOnFullMatch
  <2>4. ASSUME NEW n \in 1 .. MaxValues, OperatorMatches(n), ~LeaveRule
        PROVE  ChainInv'
    <3>1. pc = "match" /\ hits' = link
      BY <2>4 DEF OperatorMatches
    <3>2. CASE link < Len(chain) /\ link' = link + 1 /\ UNCHANGED <<pc, todo>>
      BY <2>1, <3>1, <3>2 DEF Descent, ActionsOnlyOnFullMatch
    <3>3. CASE link = Len(chain) /\ ExecuteLink(link)
      <4>1. pc' = "exec" /\ link' = link
        BY <3>3 DEF ExecuteLink
      <4> QED
        BY <2>1, <2>2, <3>1, <3>3, <4>1 DEF Descent, ActionsOnlyOnFullMatch
    <3> QED
      BY <2>4, <3>2, <3>3 DEF OperatorMatches
  <2>5. CASE OperatorFails
    BY <2>3, <2>5 DEF OperatorFails
  <2>6. CASE RemovedRuleReturnsTrue /\ ~LeaveRule
    <3>1. /\ pc = "match" /\ LinkIsRemoved(link) /\ hits' = hits
          /\ link # 1 /\ ExecuteLink(link - 1)
      BY <2>6 DEF RemovedRuleReturnsTrue
    <3>2. pc' = "exec" /\ link' = link - 1 /\ hits = link - 1
      BY <3>1 DEF ExecuteLink, Descent
    <3>3. link' \in 1 .. hits' /\ hits' + 1 = link
      BY <2>1, <3>1, <3>2
    <3>4. LinkIsRemoved(hits + 1)'
      BY <2>2, <3>1, <3>3 DEF LinkIsRemoved
    <3> QED
      BY <3>2, <3>3, <3>4 DEF Descent, ActionsOnlyOnFullMatch
  <2>7. CASE LinkExecuted /\ ~LeaveRule
    <3>1. pc = "exec" /\ hits' = hits /\ link > 1 /\ ExecuteLink(link - 1)
      BY <2>7 DEF LinkExecuted
    <3>2. pc' = "exec" /\ link' = link - 1
      BY <3>1 DEF ExecuteLink
    <3>3. link' \in 1 .. hits'
      BY <2>1, <3>1, <3>2 DEF ActionsOnlyOnFullMatch
    <3>4. hits' = Len(chain') \/ LinkIsRemoved(hits + 1)'
      BY <2>2, <3>1 DEF ActionsOnlyOnFullMatch, LinkIsRemoved
    <3> QED
      BY <3>2, <3>3, <3>4 DEF Descent, ActionsOnlyOnFullMatch
  <2> QED
    BY <1>3, <2>3, <2>4, <2>5, <2>6, <2>7 DEF ChainStep
<1> QED
  BY <1>1, <1>2, <1>3

(* The actions of a chained rule run only when every link matched, or all  *)
(* links down to one that ctl:ruleRemoveById took out, for chains of any   *)
(* length and exceptions added while the chain is matched.                 *)
THEOREM FullMatchOnly == Spec => []ActionsOnlyOnFullMatch
<1>1. Init => ChainInv
  BY DEF Init, EngineInit, ChainInv, Descent, ActionsOnlyOnFullMatch
<1>2. TransactionInv /\ ChainInv /\ [Next]_vars => ChainInv'
  BY ChainNext
<1>3. ChainInv => ActionsOnlyOnFullMatch
  BY DEF ChainInv
<1> QED
  BY <1>1, <1>2, <1>3, InvAlways, PTL DEF Spec

-----------------------------------------------------------------------------
(* Bodies.  The Content-Type of the response is known before its body is   *)
(* fed, so that whether a body is inspected does not change once it is not *)
(* empty, and a body that is not inspected is never kept.                  *)

BodyAfterHeaders ==
    /\ stage < ResponseHeadersPhase => body["res"] = EmptyBody
    /\ \A s \in Sides :
          ~TypeInspected(s) => body[s].len = 0 /\ body[s].kept = {}

TruncationInv == BodyAfterHeaders /\ TruncationIsFlagged

LEMMA BodyTypes ==
    ASSUME TransactionInv
    PROVE  /\ body \in [Sides -> [sent : Nat, len : Nat, kept : SUBSET Nat]]
           /\ dataError \in [Sides -> {"", "0", "1"}]
           /\ rs.limit \in [Sides -> Nat] /\ stage \in -1 .. 6
           /\ \A s \in Sides : /\ body[s].sent \in Nat /\ body[s].len \in Nat
                              /\ rs.limit[s] \in Nat
<1>1. DataTypeOK /\ ApiTypeOK
  BY DEF TransactionInv, TypeInv, TypeOK
<1>2. rs \in RuleSet
  BY RuleSetFacts DEF TransactionInv
<1>3. rs.limit \in [Sides -> Nat]
  BY <1>2 DEF RuleSet, RuleSetOver
<1>4. stage \in -1 .. 6
  BY <1>1 DEF ApiTypeOK, NoPhase, Phases, ConnectionPhase, LoggingPhase
<1>5. ASSUME NEW s \in Sides
      PROVE  body[s].sent \in Nat /\ body[s].len \in Nat /\ rs.limit[s] \in Nat
  <2>1. body[s] \in [sent : Nat, len : Nat, kept : SUBSET Nat]
    BY <1>1 DEF DataTypeOK
  <2> QED
    BY <1>3, <2>1
<1> QED
  BY <1>1, <1>3, <1>4, <1>5 DEF DataTypeOK

(* The phases whose calls lie behind only grow.                            *)
LEMMA StageGrows ==
    ASSUME TransactionInv, [Next]_vars
    PROVE  stage' >= stage
<1>0. stage \in -1 .. 6
  BY BodyTypes
<1>1. CASE ApiCall
  <2>1. ASSUME NEW p \in Phases, stage < p, stage' = p PROVE stage' >= stage
    BY <1>0, <2>1 DEF Phases, ConnectionPhase, LoggingPhase
  <2> QED
    BY <1>1, <2>1, CallsInOrder
<1>2. CASE RuleStep \/ UNCHANGED vars
  BY <1>0, <1>2 DEF RuleStep, vars, apiVars
<1> QED
  BY <1>1, <1>2 DEF Next, Done

(* A type that was inspected stays so.                                     *)
LEMMA InspectedNext ==
    ASSUME TransactionInv, [Next]_vars, NEW s \in Sides,
           ~(TypeInspected(s)' <=> TypeInspected(s))
    PROVE  /\ s = "res" /\ stage < ResponseHeadersPhase
           /\ UNCHANGED <<body, stage, dataError>>
<1>1. rs' = rs
  BY ConfigFixed DEF rs
<1>2. responseType' # responseType /\ s = "res"
  BY <1>1 DEF TypeInspected
<1>3. PICK t \in ResponseTypes : addResponseHeader(t)
  BY <1>2, ZenonT(60) DEF Next, Done, vars, dataVars, ApiCall, processConnection,
     processURI, addRequestHeader, processRequestHeaders, processRequestBody,
     appendBody, AppendWhole, AppendPartial, AppendRejected,
     AppendUninspected, Feed, processResponseHeaders, processResponseBody,
     processLogging, intervention, RuleStep
<1> QED
  BY <1>2, <1>3 DEF addResponseHeader, MayCall, apiVars

(* What a chunk does to the body it is appended to: k of its n bytes are   *)
(* written, and the other body is left alone.                              *)
Appended(s, n, k) ==
    /\ body' = [body EXCEPT ![s] = write(@, n, k)]
    /\ s = "res" => stage >= ResponseHeadersPhase
    /\ UNCHANGED <<stage, responseType>>
    /\ dataError' = [dataError EXCEPT ![s] = "1"] \/ k = n \/ ~TypeInspected(s)
    /\ dataError' = dataError \/ dataError' = [dataError EXCEPT ![s] = "1"]
    /\ ~TypeInspected(s) => k = 0

LEMMA AppendedByChunk ==
    ASSUME TransactionInv, NEW s \in Sides, NEW n \in ChunkSizes,
           appendBody(s, n)
    PROVE  \E k \in 0 .. n : Appended(s, n, k)
<1>0. n \in Nat /\ body[s].len \in Nat /\ rs.limit[s] \in Nat /\ 0 \in 0 .. n
      /\ n \in 0 .. n
  <2>1. n \in Nat
    BY TransactionAssumption
  <2>2. 0 \in 0 .. n /\ n \in 0 .. n
    BY <2>1
  <2>3. body[s].len \in Nat /\ rs.limit[s] \in Nat
    BY BodyTypes
  <2> QED
    BY <2>1, <2>2, <2>3
<1>1. (s = "res" => stage >= ResponseHeadersPhase)
      /\ UNCHANGED <<stage, responseType>>
  <2>1. stage = FeedPhase(s) - 1 /\ UNCHANGED <<stage, responseType>>
    BY DEF appendBody, AppendWhole, AppendPartial, AppendRejected,
       AppendUninspected, Feed
  <2> QED
    BY <2>1 DEF FeedPhase, ResponseHeadersPhase, ResponseBodyPhase
<1>2. CASE AppendWhole(s, n)
  BY <1>0, <1>1, <1>2 DEF AppendWhole, Appended
<1>3. CASE AppendPartial(s, n)
  <2> PICK k : k = rs.limit[s] - body[s].len
    OBVIOUS
  <2>1. k \in 0 .. n
    BY <1>0, <1>3 DEF AppendPartial, OverLimit, TransactionInv, BodyBounded
  <2>2. body' = [body EXCEPT ![s] = write(@, n, k)]
    BY <1>3, BodyTypes DEF AppendPartial
  <2> QED
    BY <1>1, <1>3, <2>1, <2>2 DEF AppendPartial, Appended
<1>4. CASE AppendRejected(s, n)
  BY <1>0, <1>1, <1>4 DEF AppendRejected, Appended
<1>5. CASE AppendUninspected(s, n)
  BY <1>0, <1>1, <1>5 DEF AppendUninspected, Appended
<1> QED
  BY <1>2, <1>3, <1>4, <1>5 DEF appendBody

LEMMA AfterHeadersNext ==
    ASSUME TransactionInv, BodyAfterHeaders, [Next]_vars
    PROVE  BodyAfterHeaders'
<1>0. rs' = rs /\ stage' >= stage /\ stage \in -1 .. 6
  BY ConfigFixed, StageGrows, BodyTypes DEF rs
<1>1. CASE UNCHANGED body
  <2>1. ASSUME stage' < ResponseHeadersPhase PROVE body'["res"] = EmptyBody
    <3>1. stage < ResponseHeadersPhase
      <4>1. stage' \in -1 .. 6
        <5>1. TransactionInv'
          BY InvNext
        <5> QED
          BY <5>1 DEF TransactionInv, TypeInv, TypeOK, ApiTypeOK, Phases,
             NoPhase, ConnectionPhase, LoggingPhase
      <4> QED
        BY <1>0, <2>1, <4>1 DEF ResponseHeadersPhase
    <3> QED
      BY <1>1, <3>1 DEF BodyAfterHeaders
  <2>2. ASSUME NEW s \in Sides, ~TypeInspected(s)'
        PROVE  body'[s].len = 0 /\ body'[s].kept = {}
    <3>1. CASE ~TypeInspected(s)
      BY <1>1, <3>1 DEF BodyAfterHeaders
    <3>2. CASE TypeInspected(s)
      <4>1. s = "res" /\ stage < ResponseHeadersPhase
        BY <2>2, <3>2, InspectedNext
      <4> QED
        BY <1>1, <4>1 DEF BodyAfterHeaders, EmptyBody
    <3> QED
      BY <3>1, <3>2
  <2> QED
    BY <2>1, <2>2 DEF BodyAfterHeaders
<1>2. ASSUME NEW s \in Sides, NEW n \in ChunkSizes, appendBody(s, n)
      PROVE  BodyAfterHeaders'
  <2> PICK k \in 0 .. n : Appended(s, n, k)
    BY <1>2, AppendedByChunk
  <2>1. /\ body'[s] = write(body[s], n, k)
        /\ \A x \in Sides \ {s} : body'[x] = body[x]
    BY BodyTypes DEF Appended
  <2>2. ASSUME stage' < ResponseHeadersPhase PROVE body'["res"] = EmptyBody
    <3>1. s # "res" /\ stage < ResponseHeadersPhase
      BY <1>0, <2>2 DEF Appended, ResponseHeadersPhase
    <3> QED
      BY <2>1, <3>1 DEF BodyAfterHeaders, Sides
  <2>3. ASSUME NEW x \in Sides, ~TypeInspected(x)'
        PROVE  body'[x].len = 0 /\ body'[x].kept = {}
    <3>1. ~TypeInspected(x)
      BY <1>0, <2>3 DEF Appended, TypeInspected
    <3>2. body[x].len = 0 /\ body[x].kept = {} /\ body[x].sent \in Nat
      BY <3>1, BodyTypes DEF BodyAfterHeaders
    <3>3. CASE x = s
      <4>1. k = 0
        BY <3>1, <3>3 DEF Appended
      <4> QED
        BY <2>1, <3>2, <3>3, <4>1 DEF write
    <3>4. CASE x # s
      BY <2>1, <3>2, <3>4
    <3> QED
      BY <3>3, <3>4
  <2> QED
    BY <2>2, <2>3 DEF BodyAfterHeaders
<1> QED
  BY <1>1, <1>2, BodyChanges

(* Only a chunk of this side, or the call that inspects its body, changes  *)
(* the flag of a side; the call that inspects it leaves "1" alone.         *)
LEMMA FlagStays ==
    ASSUME TransactionInv, [Next]_vars, NEW s \in Sides, dataError[s] = "1"
    PROVE  dataError'[s] = "1"
<1>0. dataError \in [Sides -> {"", "0", "1"}]
  BY BodyTypes
<1>1. CASE UNCHANGED dataError
  BY <1>1
<1>2. ASSUME NEW x \in Sides, NEW n \in ChunkSizes, appendBody(x, n)
      PROVE  dataError'[s] = "1"
  <2> PICK k \in 0 .. n : Appended(x, n, k)
    BY <1>2, AppendedByChunk
  <2> QED
    BY <1>0 DEF Appended
<1>3. ASSUME NEW ok \in BOOLEAN, NEW files \in 0 .. body["req"].len,
             processRequestBody(ok, files)
      PROVE  dataError'[s] = "1"
  <2>1. \/ UNCHANGED dataError
        \/ dataError' = [dataError EXCEPT !["req"] = ParsedDataError(ok, files)]
    BY <1>3 DEF processRequestBody
  <2>2. dataError["req"] = "1" => ParsedDataError(ok, files) = "1"
    BY DEF ParsedDataError
  <2> QED
    BY <1>0, <2>1, <2>2
<1>4. CASE processResponseBody
  BY <1>0, <1>4 DEF processResponseBody
<1> QED
  BY <1>1, <1>2, <1>3, <1>4 DEF Next, Done, vars, dataVars, ApiCall,
     processConnection, processURI, addRequestHeader, processRequestHeaders,
     addResponseHeader, processResponseHeaders, processLogging, intervention,
     RuleStep

LEMMA TruncationNext ==
    ASSUME TransactionInv, TruncationInv, [Next]_vars
    PROVE  TruncationInv'
<1> USE DEF TruncationInv
<1>1. BodyAfterHeaders'
  BY AfterHeadersNext
<1>2. ASSUME NEW s \in Sides, TypeInspected(s)', body'[s].len # body'[s].sent
      PROVE  dataError'[s] = "1"
  <2>1. CASE ~TypeInspected(s)
    <3>1. s = "res" /\ stage < ResponseHeadersPhase /\ body' = body
      BY <1>2, <2>1, InspectedNext
    <3> QED
      BY <1>2, <3>1 DEF BodyAfterHeaders, EmptyBody
  <2>2. CASE TypeInspected(s) /\ body'[s] = body[s]
    <3>1. dataError[s] = "1"
      BY <1>2, <2>2 DEF TruncationIsFlagged
    <3> QED
      BY <3>1, FlagStays
  <2>3. CASE TypeInspected(s) /\ body'[s] # body[s]
    <3>1. PICK x \in Sides, n \in ChunkSizes : appendBody(x, n)
      BY <2>3, BodyChanges
    <3>2. PICK k \in 0 .. n : Appended(x, n, k)
      BY <3>1, AppendedByChunk
    <3>3. x = s /\ body'[s] = write(body[s], n, k)
      BY <2>3, <3>2, BodyTypes DEF Appended
    <3>4. CASE dataError' = [dataError EXCEPT ![s] = "1"]
      BY <3>4, BodyTypes
    <3>5. CASE k = n
      <4>1. n \in Nat
        BY TransactionAssumption
      <4>2. body[s].len # body[s].sent
        <5>1. /\ body'[s].len = body[s].len + n
              /\ body'[s].sent = body[s].sent + n
          BY <3>3, <3>5 DEF write
        <5>2. body[s].len \in Nat /\ body[s].sent \in Nat
          BY BodyTypes
        <5> QED
          BY <1>2, <4>1, <5>1, <5>2
      <4>3. dataError[s] = "1"
        BY <2>3, <4>2 DEF TruncationIsFlagged
      <4> QED
        BY <4>3, FlagStays
    <3> QED
      BY <2>3, <3>2, <3>3, <3>4, <3>5 DEF Appended
  <2> QED
    BY <2>1, <2>2, <2>3
<1> QED
  BY <1>1, <1>2 DEF TruncationIsFlagged

(* A rule can always tell that a body it inspects is not the whole body:   *)
(* INBOUND_DATA_ERROR or OUTBOUND_DATA_ERROR is 1, whatever the limits,    *)
(* the limit actions, the body processors and the sizes of the chunks.     *)
THEOREM TruncationAlwaysFlagged == Spec => []TruncationIsFlagged
<1>1. Init => TruncationInv
  <2> SUFFICES ASSUME Init PROVE TruncationInv
    OBVIOUS
  <2>1. \A s \in Sides : body[s] = EmptyBody
    BY DEF Init
  <2> QED
    BY <2>1 DEF TruncationInv, BodyAfterHeaders, TruncationIsFlagged,
       EmptyBody, Sides
<1>2. TransactionInv /\ TruncationInv /\ [Next]_vars => TruncationInv'
  BY TruncationNext
<1>3. TruncationInv => TruncationIsFlagged
  BY DEF TruncationInv
<1> QED
  BY <1>1, <1>2, <1>3, InvAlways, PTL DEF Spec

-----------------------------------------------------------------------------
(* The prefix of a body.  Under ProcessPartial a gap would need a chunk    *)
(* written after one that was cut; but a cut fills the body up to its      *)
(* limit.  Under Reject it would need a chunk after a rejected one; but    *)
(* the rejection stops a connector that checks.                            *)

FixingActions == {a \in Action : a.name # "ctl:ruleEngine"}

RejectStops ==
    Polls /\ rs.engine = "Enabled" /\ config \in EngineFixing

PrefixIsDue(s) ==
    \/ rs.limitAction[s] = "ProcessPartial"
    \/ rs.limitAction[s] = "Reject" /\ RejectStops

Stopped == m_isInterrupted \/ (pc = "idle" /\ pollDue /\ m_it.disruptive)

NothingMore(s) ==
    IF rs.limitAction[s] = "ProcessPartial"
      THEN rs.limit[s] > 0 /\ body[s].len = rs.limit[s]
      ELSE Stopped

IsPrefix(s) ==
    /\ body[s].kept = 1 .. body[s].len
    /\ TypeInspected(s) /\ body[s].len # body[s].sent => NothingMore(s)

PrefixInv ==
    /\ BodyAfterHeaders
    /\ TodoOver(FixingActions)
    /\ config \in EngineFixing => m_secRuleEngine = "NotSet"
    /\ \A s \in Sides : PrefixIsDue(s) => IsPrefix(s)

LEMMA OverrideFixed ==
    ASSUME TransactionInv, TodoOver(FixingActions), config \in EngineFixing,
           m_secRuleEngine = "NotSet", [Next]_vars
    PROVE  m_secRuleEngine' = "NotSet"
<1>1. CASE UNCHANGED m_secRuleEngine
  BY <1>1
<1>2. CASE ExecCtlRuleEngine
  <2>1. todo \in Seq(FixingActions) /\ todo # << >>
    BY <1>2 DEF TodoOver, rs, EngineFixing, FixingActions, ExecCtlRuleEngine,
       Running
  <2>2. Head(todo) \in FixingActions
    BY <2>1
  <2> QED
    BY <1>2, <2>2 DEF FixingActions, ExecCtlRuleEngine, Running
<1> QED
  BY <1>1, <1>2, ZenonT(60) DEF Next, Done, vars, engineVars, controlVars, ApiCall,
       processConnection, processURI, addRequestHeader, processRequestHeaders,
       appendBody, AppendWhole, AppendPartial, AppendRejected,
       AppendUninspected, Feed, processRequestBody, addResponseHeader,
       processResponseHeaders, processResponseBody, processLogging,
       intervention, Returns, evaluate, RuleStep, EvaluationStep, LoopStep,
       SkipInsideMarker, EvaluateMarker, SkipNext, SkipAllowedOrRemoved,
       StartRule, AfterRule, EndPhase, ChainStep, OperatorMatches,
       OperatorFails, RemovedRuleReturnsTrue, LinkExecuted, ActionStep,
       SkipDisruptive, ExecDeny, ExecRedirect, ExecPass, ExecAllow, ExecBlock,
       ExecStatus, ExecLog, ExecSkip, ExecSkipAfter, ExecCtlRuleRemoveById,
       ExecCtlRuleRemoveByTag, ExecCtlRequestBodyAccess,
       ExecCtlRequestBodyProcessor

(* A rule step happens only inside of an evaluation.                       *)
LEMMA RuleStepRuns ==
    ASSUME RuleStep
    PROVE  pc # "idle"
BY DEF RuleStep, EvaluationStep, LoopStep, SkipInsideMarker, EvaluateMarker,
       SkipNext, SkipAllowedOrRemoved, StartRule, AfterRule, EndPhase, InLoop,
       NotInMarker, ChainStep, OperatorMatches, OperatorFails,
       RemovedRuleReturnsTrue, LinkExecuted, ActionStep, SkipDisruptive,
       Running, ExecDeny, ExecRedirect, ExecPass, ExecAllow, ExecBlock,
       ExecStatus, ExecLog, ExecSkip, ExecSkipAfter, ExecCtlRuleEngine,
       ExecCtlRuleRemoveById, ExecCtlRuleRemoveByTag,
       ExecCtlRequestBodyAccess, ExecCtlRequestBodyProcessor

(* A connector that checks and is stopped feeds nothing more.              *)
LEMMA StoppedNext ==
    ASSUME Polls, Stopped, [Next]_vars
    PROVE  Stopped'
<1>1. CASE m_isInterrupted
  BY <1>1, StaysInterrupted DEF Stopped
<1>2. CASE ~m_isInterrupted
  <2>0. pc = "idle" /\ pollDue /\ m_it.disruptive
    BY <1>2 DEF Stopped
  <2>1. CASE ApiCall
    <3>1. intervention
      BY <2>0, <2>1 DEF Polls, ApiCall, processConnection, processURI,
         addRequestHeader, processRequestHeaders, appendBody, AppendWhole,
         AppendPartial, AppendRejected, AppendUninspected, Feed,
         processRequestBody, addResponseHeader, processResponseHeaders,
         processResponseBody, processLogging, MayCall
    <3> QED
      BY <2>0, <3>1 DEF intervention, Stopped
  <2>2. CASE RuleStep
    BY <2>0, <2>2, RuleStepRuns
  <2>3. CASE UNCHANGED vars
    BY <2>0, <2>3 DEF vars, engineVars, loopVars, apiVars, Stopped
  <2> QED
    BY <2>1, <2>2, <2>3 DEF Next, Done
<1> QED
  BY <1>1, <1>2

LEMMA StoppedFeedsNothing ==
    ASSUME Polls, NEW s \in Sides, NEW n \in ChunkSizes, appendBody(s, n)
    PROVE  ~Stopped /\ pc' = "idle" /\ pollDue'
<1>1. Feed(s, n)
  BY DEF appendBody, AppendWhole, AppendPartial, AppendRejected,
     AppendUninspected
<1>2. FeedPhase(s) # LoggingPhase
  BY DEF FeedPhase, RequestBodyPhase, ResponseBodyPhase, LoggingPhase
<1> QED
  BY <1>1, <1>2 DEF Feed, MayCall, Polls, Stopped, loopVars

(* An interval written at the end of a body without a gap.                 *)
LEMMA WritePrefix ==
    ASSUME NEW b \in [sent : Nat, len : Nat, kept : SUBSET Nat],
           b.kept = 1 .. b.len, NEW n \in Nat, NEW k \in 0 .. n,
           b.sent = b.len \/ k = 0
    PROVE  /\ write(b, n, k).kept = 1 .. write(b, n, k).len
           /\ write(b, n, k).len = b.len + k
           /\ write(b, n, k).sent = b.sent + n
BY DEF write

(* What a chunk of k written bytes must establish for the prefix to go on. *)
LEMMA PrefixAfterWrite ==
    ASSUME TransactionInv, NEW s \in Sides, NEW n \in Nat, NEW k \in 0 .. n,
           body' = [body EXCEPT ![s] = write(@, n, k)],
           body[s].kept = 1 .. body[s].len,
           body[s].sent = body[s].len \/ k = 0,
           \/ ~TypeInspected(s)'
           \/ k = n /\ body[s].sent = body[s].len
           \/ body'[s].len = body[s].len + k => NothingMore(s)'
    PROVE  IsPrefix(s)'
<1>1. body[s] \in [sent : Nat, len : Nat, kept : SUBSET Nat]
  BY BodyTypes
<1>2. body'[s] = write(body[s], n, k)
  BY BodyTypes
<1>3. /\ body'[s].kept = 1 .. body'[s].len
      /\ body'[s].len = body[s].len + k
      /\ body'[s].sent = body[s].sent + n
  <2> PICK b : b = body[s]
    OBVIOUS
  <2>1. /\ b \in [sent : Nat, len : Nat, kept : SUBSET Nat]
        /\ b.kept = 1 .. b.len /\ (b.sent = b.len \/ k = 0)
    BY <1>1
  <2>2. /\ write(b, n, k).kept = 1 .. write(b, n, k).len
        /\ write(b, n, k).len = b.len + k
        /\ write(b, n, k).sent = b.sent + n
    BY ONLY <2>1, n \in Nat, k \in 0 .. n, WritePrefix
  <2> QED
    BY <1>2, <2>2
<1> QED
  BY <1>3 DEF IsPrefix

LEMMA ChunkKeepsPrefix ==
    ASSUME TransactionInv, PrefixInv, [Next]_vars, NEW s \in Sides,
           NEW n \in ChunkSizes, appendBody(s, n), PrefixIsDue(s)
    PROVE  IsPrefix(s)'
<1>1. n \in Nat \ {0} /\ n \in Nat
  BY TransactionAssumption
<1>2. 0 \in 0 .. n /\ n \in 0 .. n
  BY <1>1
<1>3. body[s].len \in Nat /\ body[s].sent \in Nat /\ rs.limit[s] \in Nat
  BY BodyTypes
<1>4. rs' = rs /\ (TypeInspected(s)' <=> TypeInspected(s))
  <2>1. rs' = rs
    BY ConfigFixed DEF rs
  <2>2. UNCHANGED responseType
    BY DEF appendBody, AppendWhole, AppendPartial, AppendRejected,
       AppendUninspected, Feed
  <2> QED
    BY <2>1, <2>2 DEF TypeInspected
<1>5. /\ body[s].kept = 1 .. body[s].len
      /\ TypeInspected(s) /\ body[s].len # body[s].sent => NothingMore(s)
  BY DEF PrefixInv, IsPrefix
<1>6. CASE AppendUninspected(s, n)
  <2>1. body' = [body EXCEPT ![s] = write(@, n, 0)] /\ ~TypeInspected(s)
    BY <1>6 DEF AppendUninspected
  <2> QED
    BY <1>1, <1>2, <1>4, <1>5, <2>1, PrefixAfterWrite
<1>7. CASE rs.limitAction[s] = "ProcessPartial"
  <2>1. TypeInspected(s) /\ body[s].len # body[s].sent
          => rs.limit[s] > 0 /\ body[s].len = rs.limit[s]
    BY <1>5, <1>7 DEF NothingMore
  <2>2. CASE AppendWhole(s, n)
    <3>1. body[s].sent = body[s].len
      BY <1>1, <1>3, <2>1, <2>2 DEF AppendWhole, OverLimit
    <3>2. body' = [body EXCEPT ![s] = write(@, n, n)]
      BY <2>2 DEF AppendWhole
    <3> QED
      BY <1>1, <1>2, <1>5, <3>1, <3>2, PrefixAfterWrite
  <2>3. CASE AppendPartial(s, n)
    <3> PICK k : k = rs.limit[s] - body[s].len
      OBVIOUS
    <3>1. k \in 0 .. n /\ rs.limit[s] > 0 /\ body[s].len + k = rs.limit[s]
      BY <1>1, <1>3, <2>3 DEF AppendPartial, OverLimit, TransactionInv,
         BodyBounded
    <3>2. body' = [body EXCEPT ![s] = write(@, n, k)] /\ TypeInspected(s)
      BY <2>3, BodyTypes DEF AppendPartial
    <3>3. body[s].sent = body[s].len \/ k = 0
      BY <1>3, <2>1, <3>1, <3>2
    <3>4. body'[s].len = body[s].len + k => NothingMore(s)'
      BY <1>4, <1>7, <3>1 DEF NothingMore
    <3> QED
      BY <1>1, <1>5, <3>1, <3>2, <3>3, <3>4, PrefixAfterWrite
  <2>4. ~AppendRejected(s, n)
    BY <1>7 DEF AppendRejected
  <2> QED
    BY <1>6, <2>2, <2>3, <2>4 DEF appendBody
<1>8. CASE rs.limitAction[s] = "Reject" /\ RejectStops
  <2>1. ~Stopped /\ pc' = "idle" /\ pollDue'
    BY <1>8, StoppedFeedsNothing DEF RejectStops
  <2>2. TypeInspected(s) => body[s].sent = body[s].len
    BY <1>5, <1>8, <2>1 DEF NothingMore
  <2>3. CASE AppendWhole(s, n)
    <3>1. body' = [body EXCEPT ![s] = write(@, n, n)] /\ TypeInspected(s)
      BY <2>3 DEF AppendWhole
    <3> QED
      BY <1>1, <1>2, <1>5, <2>2, <3>1, PrefixAfterWrite
  <2>4. CASE AppendRejected(s, n)
    <3>1. body' = [body EXCEPT ![s] = write(@, n, 0)]
      BY <2>4 DEF AppendRejected
    <3>2. getRuleEngineState = "Enabled"
      BY <1>8 DEF RejectStops, PrefixInv, getRuleEngineState
    <3>3. m_it' = [freeIt(m_it) EXCEPT !.log = "limit", !.status = 403,
                                       !.disruptive = TRUE]
      BY <1>8, <2>4, <3>2 DEF AppendRejected
    <3>4. m_it'.disruptive
      <4>1. m_it \in Intervention
        BY DEF TransactionInv, TypeInv, TypeOK, EngineTypeOK, ReportTypeOK
      <4> QED
        BY <3>3, <4>1, ItFields
    <3>5. NothingMore(s)'
      BY <1>4, <1>8, <2>1, <3>4 DEF NothingMore, Stopped
    <3> QED
      BY <1>1, <1>2, <1>5, <3>1, <3>5, PrefixAfterWrite
  <2>5. ~AppendPartial(s, n)
    BY <1>8 DEF AppendPartial
  <2> QED
    BY <1>6, <2>3, <2>4, <2>5 DEF appendBody
<1> QED
  BY <1>7, <1>8 DEF PrefixIsDue

LEMMA PrefixNext ==
    ASSUME TransactionInv, PrefixInv, [Next]_vars
    PROVE  PrefixInv'
<1>1. BodyAfterHeaders'
  BY AfterHeadersNext DEF PrefixInv
<1>2. TodoOver(FixingActions)'
  <2>1. Block \in FixingActions
    BY BlockIsAction DEF Block, FixingActions
  <2> QED
    BY <2>1, TodoOverNext DEF PrefixInv
<1>3. config' = config /\ rs' = rs
  BY ConfigFixed DEF rs
<1>4. config \in EngineFixing => m_secRuleEngine' = "NotSet"
  BY OverrideFixed DEF PrefixInv
<1>5. ASSUME NEW s \in Sides, PrefixIsDue(s)' PROVE IsPrefix(s)'
  <2>1. PrefixIsDue(s)
    BY <1>3, <1>5 DEF PrefixIsDue, RejectStops, Polls, EngineFixing
  <2>2. IsPrefix(s)
    BY <2>1 DEF PrefixInv
  <2>3. CASE body'[s] = body[s]
    <3>1. ASSUME TypeInspected(s)', body'[s].len # body'[s].sent
          PROVE  NothingMore(s)'
      <4>1. TypeInspected(s)
        <5>1. s = "res" /\ stage < ResponseHeadersPhase
                => body[s] = EmptyBody
          BY DEF PrefixInv, BodyAfterHeaders
        <5> QED
          BY <2>3, <3>1, <5>1, InspectedNext DEF EmptyBody
      <4>2. NothingMore(s)
        BY <2>2, <2>3, <3>1, <4>1 DEF IsPrefix
      <4>3. CASE rs.limitAction[s] = "ProcessPartial"
        BY <1>3, <2>3, <4>2, <4>3 DEF NothingMore
      <4>4. CASE rs.limitAction[s] # "ProcessPartial"
        BY <1>3, <2>1, <4>2, <4>4, StoppedNext
           DEF NothingMore, PrefixIsDue, RejectStops
      <4> QED
        BY <4>3, <4>4
    <3> QED
      BY <2>2, <2>3, <3>1 DEF IsPrefix
  <2>4. CASE body'[s] # body[s]
    <3>1. PICK x \in Sides, n \in ChunkSizes : appendBody(x, n)
      BY <2>4, BodyChanges
    <3>2. PICK k \in 0 .. n : Appended(x, n, k)
      BY <3>1, AppendedByChunk
    <3>3. x = s
      BY <2>4, <3>2, BodyTypes DEF Appended
    <3> QED
      BY <2>1, <3>1, <3>3, ChunkKeepsPrefix
  <2> QED
    BY <2>3, <2>4
<1> QED
  BY <1>1, <1>2, <1>3, <1>4, <1>5 DEF PrefixInv, EngineFixing

(* What the rules inspect is a prefix of what the peer sent, never a body  *)
(* with a hole: under ProcessPartial for every connector, under Reject for *)
(* one that checks for interventions, with the engine On for good.         *)
THEOREM PrefixInspected == Spec => []BodyIsPrefix
<1>1. Init => PrefixInv
  <2> SUFFICES ASSUME Init PROVE PrefixInv
    OBVIOUS
  <2>1. /\ \A s \in Sides : body[s].len = 0 /\ body[s].sent = 0
                            /\ body[s].kept = {}
        /\ body["res"] = EmptyBody
    BY DEF Init, EmptyBody, Sides
  <2>2. todo = << >> /\ m_secRuleEngine = "NotSet"
    BY DEF Init, EngineInit
  <2>3. TodoOver(FixingActions)
    BY <2>2 DEF TodoOver
  <2>4. \A s \in Sides : IsPrefix(s)
    <3>1. 1 .. 0 = {}
      OBVIOUS
    <3>2. \A s \in Sides : body[s].kept = 1 .. body[s].len
      BY <2>1, <3>1, Zenon
    <3> QED
      BY <2>1, <3>2 DEF IsPrefix
  <2> QED
    BY <2>1, <2>2, <2>3, <2>4 DEF PrefixInv, BodyAfterHeaders
<1>2. TransactionInv /\ PrefixInv /\ [Next]_vars => PrefixInv'
  BY PrefixNext
<1>3. TransactionInv /\ PrefixInv => BodyIsPrefix
  <2> SUFFICES ASSUME TransactionInv, PrefixInv, NEW s \in Sides,
                      body[s].kept # 1 .. body[s].len
               PROVE  \/ rs.limitAction[s] = "NotSet"
                      \/ rs.limitAction[s] = "Reject" /\ ~RejectStops
    BY DEF BodyIsPrefix, RejectStops
  <2>1. rs.limitAction[s] \in {"NotSet", "ProcessPartial", "Reject"}
    BY RuleSetFacts DEF TransactionInv, RuleSet, RuleSetOver
  <2>2. ~PrefixIsDue(s)
    BY DEF PrefixInv, IsPrefix
  <2> QED
    BY <2>1, <2>2 DEF PrefixIsDue
<1> QED
  BY <1>1, <1>2, <1>3, InvAlways, PTL DEF Spec

-----------------------------------------------------------------------------
(* Reported disruptions.  Without pass nothing takes a disruption back, so *)
(* that in a rule that made one it is still pending when the rule is       *)
(* logged, and carries the position of that rule.                          *)

LastingActions == {a \in Action : a.name # "pass"}

DisruptionOfThisRule ==
    /\ pc \in {"exec", "after"} /\ m_it.disruptive => m_it.log = <<phase, i>>
    /\ pc \in {"match", "exec"} /\ ruleMessage.disruptive => m_it.disruptive

IsDelivered(m) ==
    m.disruptive =>
        \/ m_it.disruptive /\ m_it.log = m.rule
        \/ \E d \in DOMAIN delivered : delivered[d].log = m.rule

ReportsAreDelivered ==
    \A k \in DOMAIN m_rulesMessages : IsDelivered(m_rulesMessages[k])

ReportInv ==
    /\ PollingInv
    /\ TodoOver(LastingActions)
    /\ Polls /\ config \in NeverPassing =>
           DisruptionOfThisRule /\ ReportsAreDelivered

LEMMA NoPassRuns ==
    ASSUME TodoOver(LastingActions), config \in NeverPassing
    PROVE  ~ExecPass
<1> SUFFICES ASSUME ExecPass PROVE FALSE
  OBVIOUS
<1>1. todo \in Seq(LastingActions) /\ todo # << >> /\ Head(todo).name = "pass"
  BY DEF TodoOver, rs, NeverPassing, LastingActions, ExecPass, Running
<1>2. Head(todo) \in LastingActions
  BY <1>1
<1> QED
  BY <1>1, <1>2 DEF LastingActions

(* Inside of a rule the message is marked disruptive only with m_it.       *)
LEMMA DisruptionOfThisRuleNext ==
    ASSUME TransactionInv, PendingInv, DisruptionOfThisRule, ~ExecPass,
           [Next]_vars
    PROVE  DisruptionOfThisRule'
<1>0. m_it \in Intervention
      /\ ruleMessage \in [save : BOOLEAN, disruptive : BOOLEAN]
  BY DEF TransactionInv, TypeInv, TypeOK, EngineTypeOK, ReportTypeOK, LoopTypeOK
<1>1. CASE ApiCall
  <2>1. pc' = "idle" \/ pc' = "loop"
    BY <1>1, CallsInOrder DEF evaluate
  <2> QED
    BY <2>1 DEF DisruptionOfThisRule
<1>2. CASE RuleStep
  <2>1. CASE LoopStep
    <3>1. pc' \in {"idle", "loop"} \/ (pc' = "match" /\ ~ruleMessage'.disruptive)
      BY <2>1 DEF LoopStep, SkipInsideMarker, EvaluateMarker, SkipNext,
         SkipAllowedOrRemoved, NotInMarker, InLoop, NextRule, StartRule,
         AfterRule, EndPhase
    <3> QED
      BY <3>1 DEF DisruptionOfThisRule
  <2>2. CASE ChainStep
    <3>1. /\ pc \in {"match", "exec"} /\ pc' \in {"match", "exec", "after"}
          /\ UNCHANGED <<phase, i, ruleMessage, m_it>>
      BY <2>2 DEF ChainStep, OperatorMatches, OperatorFails,
         RemovedRuleReturnsTrue, LinkExecuted, ExecuteLink, LeaveRule
    <3>2. pc = "match" => ~m_it.disruptive
      BY DEF PendingInv
    <3> QED
      BY <3>1, <3>2 DEF DisruptionOfThisRule
  <2>3. CASE ActionStep
    <3>1. pc = "exec" /\ UNCHANGED <<pc, phase, i>>
      BY <2>3 DEF ActionStep, SkipDisruptive, Running, ExecLeaves, ExecDeny,
         ExecRedirect, ExecPass, ExecAllow, ExecBlock, ExecStatus, ExecLog,
         ExecSkip, ExecSkipAfter, ExecCtlRuleEngine, ExecCtlRuleRemoveById,
         ExecCtlRuleRemoveByTag, ExecCtlRequestBodyAccess,
         ExecCtlRequestBodyProcessor
    <3>2. CASE ExecDeny \/ ExecRedirect
      <4>1. m_it'.disruptive /\ m_it'.log = <<phase, i>>
        BY <1>0, <3>2, ItFields DEF ExecDeny, ExecRedirect
      <4> QED
        BY <3>1, <4>1 DEF DisruptionOfThisRule
    <3>3. CASE ExecStatus
      <4>1. /\ m_it'.disruptive = m_it.disruptive /\ m_it'.log = m_it.log
            /\ ruleMessage' = ruleMessage
        BY <1>0, <3>3, ItFields DEF ExecStatus
      <4> QED
        BY <3>1, <4>1 DEF DisruptionOfThisRule
    <3>4. CASE ExecLog
      <4>1. m_it' = m_it /\ ruleMessage'.disruptive = ruleMessage.disruptive
        BY <1>0, <3>4 DEF ExecLog
      <4> QED
        BY <3>1, <4>1 DEF DisruptionOfThisRule
    <3>5. CASE UNCHANGED <<m_it, ruleMessage>>
      BY <3>1, <3>5 DEF DisruptionOfThisRule
    <3> QED
      BY <2>3, <3>2, <3>3, <3>4, <3>5 DEF ActionStep, SkipDisruptive,
         ExecAllow, ExecBlock, ExecSkip, ExecSkipAfter, ExecCtlRuleEngine,
         ExecCtlRuleRemoveById, ExecCtlRuleRemoveByTag,
         ExecCtlRequestBodyAccess, ExecCtlRequestBodyProcessor
  <2> QED
    BY <1>2, <2>1, <2>2, <2>3 DEF RuleStep, EvaluationStep
<1>3. CASE UNCHANGED vars
  BY <1>3 DEF vars, engineVars, loopVars, DisruptionOfThisRule
<1> QED
  BY <1>1, <1>2, <1>3 DEF Next, Done

(* What was reported stays delivered or pending.                           *)
LEMMA IsDeliveredNext ==
    ASSUME TransactionInv, PendingInv, DisruptionOfThisRule, ~ExecPass, Polls,
           [Next]_vars, NEW m, IsDelivered(m)
    PROVE  IsDelivered(m)'
<1>0. m_it \in Intervention /\ delivered \in Seq(Intervention)
  BY DEF TransactionInv, TypeInv, TypeOK, EngineTypeOK, ReportTypeOK, ApiTypeOK
<1>1. CASE intervention
  <2>1. CASE m_it.disruptive
    <3>1. delivered' = Append(delivered, m_it)
      BY <1>1, <2>1 DEF intervention
    <3>2. /\ Len(delivered) + 1 \in DOMAIN delivered'
          /\ delivered'[Len(delivered) + 1] = m_it
          /\ \A d \in DOMAIN delivered :
                d \in DOMAIN delivered' /\ delivered'[d] = delivered[d]
      BY <1>0, <3>1
    <3> QED
      BY <3>2 DEF IsDelivered
  <2>2. CASE ~m_it.disruptive
    BY <1>1, <2>2 DEF intervention, IsDelivered
  <2> QED
    BY <2>1, <2>2
<1>2. CASE ~intervention
  <2>1. delivered' = delivered
    BY <1>2, ZenonT(60) DEF Next, Done, vars, apiVars, ApiCall, Called, processConnection,
       processURI, addRequestHeader, processRequestHeaders, appendBody,
       AppendWhole, AppendPartial, AppendRejected, AppendUninspected, Feed,
       processRequestBody, addResponseHeader, processResponseHeaders,
       processResponseBody, processLogging, RuleStep
  <2>2. m_it.disruptive => m_it'.disruptive /\ m_it'.log = m_it.log
    <3>1. CASE ExecDeny \/ ExecRedirect
      <4>1. m_it'.disruptive /\ m_it'.log = <<phase, i>>
        BY <1>0, <3>1, ItFields DEF ExecDeny, ExecRedirect
      <4>2. pc = "exec"
        BY <3>1 DEF ExecDeny, ExecRedirect, Running
      <4> QED
        BY <4>1, <4>2 DEF DisruptionOfThisRule
    <3>2. CASE ExecStatus
      BY <1>0, <3>2, ItFields DEF ExecStatus
    <3>3. ASSUME NEW s \in Sides, NEW n \in ChunkSizes, AppendRejected(s, n)
          PROVE  ~m_it.disruptive
      BY <3>3 DEF AppendRejected, Feed, MayCall, Polls, PendingInv
    <3> QED
      BY <1>2, <3>1, <3>2, <3>3, ItChanges
  <2> QED
    BY <2>1, <2>2 DEF IsDelivered
<1> QED
  BY <1>1, <1>2

(* What a concatenation holds comes from one of its parts.                 *)
LEMMA AppendedItems ==
    ASSUME NEW T, NEW s \in Seq(T), NEW v, NEW t \in Seq({v}),
           NEW k \in DOMAIN (s \o t)
    PROVE  (k \in DOMAIN s /\ (s \o t)[k] = s[k]) \/ (s \o t)[k] = v
<1>1. /\ Len(s) \in Nat /\ Len(t) \in Nat /\ k \in 1 .. Len(s) + Len(t)
      /\ \A j \in 1 .. Len(t) : t[j] = v
  OBVIOUS
<1>2. CASE k <= Len(s)
  BY <1>1, <1>2
<1>3. CASE k > Len(s)
  <2>1. k - Len(s) \in 1 .. Len(t) /\ (s \o t)[k] = t[k - Len(s)]
    BY <1>1, <1>3
  <2> QED
    BY <1>1, <2>1
<1> QED
  BY <1>1, <1>2, <1>3

(* Messages are logged one rule at a time: a multiMatch logs ones that are *)
(* not disruptive, the end of a rule logs what its actions made of it.     *)
LEMMA MessagesGrow ==
    ASSUME TransactionInv, [Next]_vars, NEW k \in DOMAIN m_rulesMessages'
    PROVE  \/ k \in DOMAIN m_rulesMessages
                /\ m_rulesMessages'[k] = m_rulesMessages[k]
           \/ m_rulesMessages'[k] = Message(FALSE)
           \/ /\ pc = "exec"
              /\ m_rulesMessages'[k] = Message(ruleMessage.disruptive)
<1>0. /\ m_rulesMessages \in Seq(MessageType)
      /\ Len(m_rulesMessages) \in Nat
  BY DEF TransactionInv, TypeInv, TypeOK, EngineTypeOK, ReportTypeOK,
     MessageType
<1>1. CASE UNCHANGED m_rulesMessages
  BY <1>1
<1>2. ASSUME NEW n \in 1 .. MaxValues,
             m_rulesMessages' =
               m_rulesMessages \o [j \in 1 .. n |-> Message(FALSE)]
      PROVE  \/ k \in DOMAIN m_rulesMessages
                  /\ m_rulesMessages'[k] = m_rulesMessages[k]
             \/ m_rulesMessages'[k] = Message(FALSE)
  <2>1. Message(FALSE) \in {Message(FALSE)} /\ n \in Nat
    BY MaxValuesAssumption
  <2>2. [j \in 1 .. n |-> Message(FALSE)] \in Seq({Message(FALSE)})
    BY <2>1, Repeated
  <2>3. PICK t \in Seq({Message(FALSE)}) : m_rulesMessages' = m_rulesMessages \o t
    BY <1>2, <2>2
  <2>4. k \in DOMAIN (m_rulesMessages \o t)
    BY <2>3, Zenon
  <2>5. \/ k \in DOMAIN m_rulesMessages
             /\ (m_rulesMessages \o t)[k] = m_rulesMessages[k]
        \/ (m_rulesMessages \o t)[k] = Message(FALSE)
    BY <1>0, <2>4, AppendedItems, Zenon
  <2> QED
    BY <2>3, <2>5, Zenon
<1>3. ASSUME pc = "exec",
             m_rulesMessages' =
               Append(m_rulesMessages, Message(ruleMessage.disruptive))
      PROVE  \/ k \in DOMAIN m_rulesMessages
                  /\ m_rulesMessages'[k] = m_rulesMessages[k]
             \/ m_rulesMessages'[k] = Message(ruleMessage.disruptive)
  <2> PICK v : v = Message(ruleMessage.disruptive)
    OBVIOUS
  <2>1. m_rulesMessages' = Append(m_rulesMessages, v)
    BY <1>3
  <2> QED
    BY <1>0, <2>1
<1>4. ASSUME NEW n \in 1 .. MaxValues, OperatorMatches(n)
      PROVE  \/ UNCHANGED m_rulesMessages
             \/ m_rulesMessages' =
                  m_rulesMessages \o [j \in 1 .. n |-> Message(FALSE)]
  BY <1>4 DEF OperatorMatches
<1>5. CASE LinkExecuted
  <2>1. pc = "exec"
    BY <1>5 DEF LinkExecuted
  <2>2. \/ UNCHANGED m_rulesMessages
        \/ m_rulesMessages' =
             Append(m_rulesMessages, Message(ruleMessage.disruptive))
    BY <1>5 DEF LinkExecuted
  <2> QED
    BY <1>1, <1>3, <2>1, <2>2
<1>6. \/ UNCHANGED m_rulesMessages \/ LinkExecuted
      \/ \E n \in 1 .. MaxValues : OperatorMatches(n)
  BY ZenonT(60) DEF Next, Done, vars, engineVars, ApiCall, processConnection, processURI,
       addRequestHeader, processRequestHeaders, appendBody, AppendWhole,
       AppendPartial, AppendRejected, AppendUninspected, Feed,
       processRequestBody, addResponseHeader, processResponseHeaders,
       processResponseBody, processLogging, intervention, EngineUntouched,
       RuleStep, EvaluationStep, LoopStep, SkipInsideMarker, EvaluateMarker,
       SkipNext, SkipAllowedOrRemoved, StartRule, AfterRule, EndPhase,
       ChainStep, OperatorFails, RemovedRuleReturnsTrue, ActionStep,
       SkipDisruptive, ExecLeaves, ExecDeny, ExecRedirect, ExecPass,
       ExecAllow, ExecBlock, ExecStatus, ExecLog, ExecSkip, ExecSkipAfter,
       ExecCtlRuleEngine, ExecCtlRuleRemoveById, ExecCtlRuleRemoveByTag,
       ExecCtlRequestBodyAccess, ExecCtlRequestBodyProcessor
<1> QED
  BY <1>1, <1>2, <1>4, <1>5, <1>6

LEMMA ReportNext ==
    ASSUME TransactionInv, ReportInv, [Next]_vars
    PROVE  ReportInv'
<1>1. PollingInv'
  BY PollingNext DEF ReportInv
<1>2. TodoOver(LastingActions)'
  <2>1. Block \in LastingActions
    BY BlockIsAction DEF Block, LastingActions
  <2> QED
    BY <2>1, TodoOverNext DEF ReportInv
<1>3. config' = config
  BY ConfigFixed
<1>4. ASSUME Polls, config \in NeverPassing
      PROVE  DisruptionOfThisRule' /\ ReportsAreDelivered'
  <2>1. PendingInv /\ DisruptionOfThisRule /\ ReportsAreDelivered
    BY <1>4 DEF ReportInv, PollingInv
  <2>2. ~ExecPass
    BY <1>4, NoPassRuns DEF ReportInv
  <2>3. DisruptionOfThisRule'
    BY <2>1, <2>2, DisruptionOfThisRuleNext
  <2>4. ASSUME NEW k \in DOMAIN m_rulesMessages'
        PROVE  IsDelivered(m_rulesMessages[k])'
    <3> PICK m : m = m_rulesMessages'[k]
      OBVIOUS
    <3>1. IsDelivered(m)
      <4>1. CASE k \in DOMAIN m_rulesMessages /\ m = m_rulesMessages[k]
        BY <2>1, <4>1 DEF ReportsAreDelivered
      <4>2. CASE m = Message(FALSE)
        BY <4>2 DEF Message, IsDelivered
      <4>3. CASE pc = "exec" /\ m = Message(ruleMessage.disruptive)
        <5>1. m.rule = <<phase, i>> /\ m.disruptive = ruleMessage.disruptive
          BY <4>3 DEF Message
        <5> QED
          BY <2>1, <4>3, <5>1 DEF DisruptionOfThisRule, IsDelivered
      <4> QED
        BY <4>1, <4>2, <4>3, MessagesGrow
    <3>2. IsDelivered(m)'
      BY <1>4, <2>1, <2>2, <3>1, IsDeliveredNext
    <3> QED
      BY <3>2 DEF IsDelivered
  <2> QED
    BY <2>3, <2>4 DEF ReportsAreDelivered
<1> QED
  BY <1>1, <1>2, <1>3, <1>4 DEF ReportInv, Polls, NeverPassing

(* With a connector that checks and rules without pass, a match the log    *)
(* reports as disruptive, and hence leaves out of the server log, is one   *)
(* the server is told about, through chains, blocks, default actions,      *)
(* multiMatch and rejected bodies.                                         *)
THEOREM ReportedIsDelivered == Spec => []DisruptiveMatchIsDelivered
<1>1. Init => ReportInv
  <2> SUFFICES ASSUME Init PROVE ReportInv
    OBVIOUS
  <2>1. /\ pc = "idle" /\ m_it.disruptive = FALSE /\ todo = << >>
        /\ m_rulesMessages = << >>
    BY DEF Init, EngineInit, CleanIt
  <2> QED
    BY <2>1 DEF ReportInv, PollingInv, PendingInv, TodoOver,
       DisruptionOfThisRule, ReportsAreDelivered
<1>2. TransactionInv /\ ReportInv /\ [Next]_vars => ReportInv'
  BY ReportNext
<1>3. ReportInv => DisruptiveMatchIsDelivered
  BY DEF ReportInv, ReportsAreDelivered, IsDelivered,
     DisruptiveMatchIsDelivered
<1> QED
  BY <1>1, <1>2, <1>3, InvAlways, PTL DEF Spec

-----------------------------------------------------------------------------
(* Markers.  While rules are skipped the marker still lies ahead: in this  *)
(* phase, behind the rule that is evaluated, and in every later phase,     *)
(* where the skip goes on when this one is left early.                     *)

HereAhead   == SkipsAhead(rs, phase, i)
MarkerFrom(k) == \E j \in MarkerIn(rs, phase, m_marker) : j >= k
MarkerLater ==
    \A q \in phase + 1 .. LoggingPhase : MarkerIn(rs, q, m_marker) # {}

SkipEnds ==
    /\ pc = "exec" => todo \in Seq(HereAhead)
    /\ pc = "match" => ~isInsideAMarker
    /\ isInsideAMarker =>
         /\ MarkerLater
         /\ pc = "loop" => MarkerFrom(i)
         /\ pc \in {"exec", "after"} => MarkerFrom(i + 1)

MarkerInv == AllowInv /\ (config \in MarkersFollowing => SkipEnds)

(* The actions a rule executes skip only to markers ahead of it.           *)
LEMMA ActionsSkipAhead ==
    ASSUME TransactionInv, config \in MarkersFollowing,
           pc \in {"match", "exec", "after"}
    PROVE  /\ \A l \in 1 .. Len(chain) : ActionsAfterFullMatch(l) \in Seq(HereAhead)
           /\ rs.defaults[phase].disruptive \in Seq(HereAhead)
<1>1. phase \in Phases /\ i \in 1 .. Len(rules) /\ ~isMarker
  BY Position DEF TransactionInv
<1>2. rules \in Seq(Rule(Action) \cup Marker)
  BY <1>1, RuleSetFacts DEF TransactionInv
<1>3. chain \in Seq(Link(Action))
  BY <1>1, NonEmptyChain DEF TransactionInv
<1>4. FollowedByMarkers(rs, phase, i)
  <2>1. i \in DOMAIN rs.rules[phase] /\ rs.rules[phase][i].kind # "SecMarker"
    BY <1>1, <1>2 DEF rules, rule, isMarker
  <2> QED
    BY <1>1, <2>1 DEF MarkersFollowing, rs
<1>5. rs.defaults[phase] \in ActionList(HereAhead)
  BY <1>4 DEF FollowedByMarkers, HereAhead
<1>6. ASSUME NEW l \in 1 .. Len(chain)
      PROVE  ActionsAfterFullMatch(l) \in Seq(HereAhead)
  <2>1. l \in DOMAIN rs.rules[phase][i].chain
        /\ rs.rules[phase][i].chain[l] = chain[l]
    BY <1>3 DEF chain, rule, rules
  <2>2. /\ chain[l].acts \in ActionList(HereAhead)
        /\ rs.posUpdate[chain[l].id] \in Seq(HereAhead)
    BY <1>4, <2>1 DEF FollowedByMarkers, HereAhead
  <2>3. Block \in HereAhead
    BY BlockIsAction DEF Block, HereAhead, SkipsAhead
  <2> QED
    BY <1>5, <2>2, <2>3, ActionsOverParts
<1> QED
  BY <1>5, <1>6 DEF ActionList

(* Only EvaluateMarker and skipAfter change m_marker.                      *)
LEMMA MarkerChanges ==
    ASSUME [Next]_vars
    PROVE  UNCHANGED m_marker \/ EvaluateMarker \/ ExecSkipAfter
BY ZenonT(60) DEF Next, Done, vars, engineVars, controlVars, ApiCall, processConnection,
       processURI, addRequestHeader, processRequestHeaders, appendBody,
       AppendWhole, AppendPartial, AppendRejected, AppendUninspected, Feed,
       processRequestBody, addResponseHeader, processResponseHeaders,
       processResponseBody, processLogging, intervention, Returns, evaluate,
       RuleStep, EvaluationStep, LoopStep, SkipInsideMarker, SkipNext,
       SkipAllowedOrRemoved, StartRule, AfterRule, EndPhase, ChainStep,
       OperatorMatches, OperatorFails, RemovedRuleReturnsTrue, LinkExecuted,
       ActionStep, SkipDisruptive, ExecDeny, ExecRedirect, ExecPass,
       ExecAllow, ExecBlock, ExecStatus, ExecLog, ExecSkip,
       ExecCtlRuleEngine, ExecCtlRuleRemoveById, ExecCtlRuleRemoveByTag,
       ExecCtlRequestBodyAccess, ExecCtlRequestBodyProcessor

(* The invariant while config, phase, i and m_marker stay.                 *)
LEMMA SkipStays ==
    ASSUME UNCHANGED <<config, phase, m_marker>>
    PROVE  /\ rs' = rs /\ (isInsideAMarker' <=> isInsideAMarker)
           /\ MarkerLater' <=> MarkerLater
           /\ \A k : MarkerFrom(k)' <=> MarkerFrom(k)
           /\ i' = i => HereAhead' = HereAhead
BY DEF rs, isInsideAMarker, MarkerLater, MarkerFrom, HereAhead

(* The loop goes past a rule that is not the marker looked for.            *)
LEMMA SkipGoesOn ==
    ASSUME MarkerFrom(i), i \in Nat,
           rs.rules[phase] \in Seq(Rule(Action) \cup Marker),
           i \notin MarkerIn(rs, phase, m_marker)
    PROVE  MarkerFrom(i + 1)
<1>1. PICK j \in MarkerIn(rs, phase, m_marker) : j >= i
  BY DEF MarkerFrom
<1>2. j \in DOMAIN rs.rules[phase] /\ DOMAIN rs.rules[phase] \subseteq Nat
  BY DEF MarkerIn
<1>3. j >= i + 1
  BY <1>1, <1>2
<1> QED
  BY <1>1, <1>3 DEF MarkerFrom

LEMMA SkipLoop ==
    ASSUME AllowInv, SkipEnds, LoopStep, [Next]_vars
    PROVE  SkipEnds'
<1>0. /\ UNCHANGED <<config, phase>> /\ rs' = rs
      /\ i \in Nat
  <2>1. UNCHANGED <<config, phase>>
    BY DEF LoopStep, SkipInsideMarker, EvaluateMarker, SkipNext,
       SkipAllowedOrRemoved, StartRule, AfterRule, EndPhase, NextRule
  <2> QED
    BY <2>1 DEF rs, AllowInv, TransactionInv, TypeInv, TypeOK, EngineTypeOK,
       LoopTypeOK
<1>1. pc = "loop" => phase \in Phases
                     /\ rs.rules[phase] \in Seq(Rule(Action) \cup Marker)
  BY RuleSetFacts DEF AllowInv, TransactionInv, TypeInv, InRange, rules
<1>2. CASE SkipInsideMarker
  <2>1. /\ pc = "loop" /\ pc' = "loop" /\ i' = i + 1 /\ isInsideAMarker
        /\ UNCHANGED m_marker /\ ~isMarker
    BY <1>2 DEF SkipInsideMarker, InLoop, NextRule, controlVars
  <2>2. i \notin MarkerIn(rs, phase, m_marker)
    BY <2>1 DEF MarkerIn, isMarker, rule, rules
  <2>3. MarkerFrom(i + 1)
    BY <1>0, <1>1, <2>1, <2>2, SkipGoesOn DEF SkipEnds
  <2> QED
    BY <1>0, <2>1, <2>3, SkipStays DEF SkipEnds
<1>3. CASE EvaluateMarker
  <2>1. /\ pc = "loop" /\ pc' = "loop" /\ i' = i + 1 /\ isMarker
        /\ m_marker' = IF m_marker = rule.name THEN None ELSE m_marker
    BY <1>3 DEF EvaluateMarker, InLoop, NextRule
  <2>2. CASE m_marker = rule.name \/ ~isInsideAMarker
    <3>1. ~isInsideAMarker'
      BY <2>1, <2>2 DEF isInsideAMarker
    <3> QED
      BY <2>1, <3>1 DEF SkipEnds
  <2>3. CASE m_marker # rule.name /\ isInsideAMarker
    <3>1. i \notin MarkerIn(rs, phase, m_marker)
      BY <2>3 DEF MarkerIn, rule, rules
    <3>2. MarkerFrom(i + 1)
      BY <1>0, <1>1, <2>1, <2>3, <3>1, SkipGoesOn DEF SkipEnds
    <3>3. m_marker' = m_marker
      BY <2>1, <2>3
    <3> QED
      BY <1>0, <2>1, <2>3, <3>2, <3>3, SkipStays DEF SkipEnds
  <2> QED
    BY <2>2, <2>3
<1>4. CASE SkipNext \/ SkipAllowedOrRemoved \/ StartRule
  <2>1. ~isInsideAMarker' /\ pc' # "exec"
    BY <1>4 DEF SkipNext, SkipAllowedOrRemoved, StartRule, NotInMarker,
       InLoop, NextRule, isInsideAMarker, controlVars
  <2> QED
    BY <2>1 DEF SkipEnds
<1>5. CASE AfterRule
  <2>1. /\ pc = "after" /\ UNCHANGED m_marker
        /\ pc' = "idle" \/ (pc' = "loop" /\ i' = i + 1)
    BY <1>5 DEF AfterRule, controlVars
  <2> QED
    BY <1>0, <2>1, SkipStays DEF SkipEnds
<1>6. CASE EndPhase
  <2>1. pc' = "idle" /\ UNCHANGED m_marker
    BY <1>6 DEF EndPhase, controlVars
  <2> QED
    BY <1>0, <2>1, SkipStays DEF SkipEnds
<1> QED
  BY <1>2, <1>3, <1>4, <1>5, <1>6 DEF LoopStep

LEMMA SkipChain ==
    ASSUME AllowInv, SkipEnds, config \in MarkersFollowing, ChainStep
    PROVE  SkipEnds'
<1>0. /\ pc \in {"match", "exec"} /\ UNCHANGED <<config, phase, i, m_marker>>
      /\ pc' = "match" => pc = "match"
      /\ pc' \in {"match", "exec", "after"}
  BY DEF ChainStep, OperatorMatches, OperatorFails, RemovedRuleReturnsTrue,
     LinkExecuted, ExecuteLink, LeaveRule, controlVars
<1>1. ASSUME pc' = "exec" PROVE todo' \in Seq(HereAhead)
  <2>1. link \in 1 .. Len(chain) /\ Len(chain) \in Nat
    BY <1>0, Position DEF AllowInv, TransactionInv
  <2>2. link # 1 => link - 1 \in 1 .. Len(chain)
    BY <2>1
  <2>3. \E l \in 1 .. Len(chain) : ExecuteLink(l)
    <3>1. ~LeaveRule
      BY <1>1 DEF LeaveRule
    <3>2. ASSUME NEW n \in 1 .. MaxValues, OperatorMatches(n)
          PROVE  ExecuteLink(link)
      BY <1>1, <3>1, <3>2 DEF OperatorMatches
    <3>3. ~OperatorFails
      BY <3>1 DEF OperatorFails
    <3>4. RemovedRuleReturnsTrue \/ LinkExecuted
            => link # 1 /\ ExecuteLink(link - 1)
      BY <2>1, <3>1 DEF RemovedRuleReturnsTrue, LinkExecuted
    <3> QED
      BY <2>1, <2>2, <3>2, <3>3, <3>4 DEF ChainStep
  <2> QED
    BY <1>0, <2>3, ActionsSkipAhead DEF ExecuteLink, AllowInv
<1> QED
  BY <1>0, <1>1, SkipStays DEF SkipEnds

LEMMA SkipActions ==
    ASSUME AllowInv, SkipEnds, config \in MarkersFollowing, ActionStep
    PROVE  SkipEnds'
<1>0. pc = "exec" /\ pc' = "exec" /\ UNCHANGED <<config, phase, i>>
  BY DEF ActionStep, SkipDisruptive, Running, ExecLeaves, ExecDeny,
     ExecRedirect, ExecPass, ExecAllow, ExecBlock, ExecStatus, ExecLog,
     ExecSkip, ExecSkipAfter, ExecCtlRuleEngine, ExecCtlRuleRemoveById,
     ExecCtlRuleRemoveByTag, ExecCtlRequestBodyAccess,
     ExecCtlRequestBodyProcessor
<1>1. todo \in Seq(HereAhead) /\ todo # << >> /\ Tail(todo) \in Seq(HereAhead)
  <2>1. todo \in Seq(HereAhead)
    BY <1>0 DEF SkipEnds
  <2>2. todo # << >>
    BY DEF ActionStep, SkipDisruptive, Running, ExecDeny, ExecRedirect,
       ExecPass, ExecAllow, ExecBlock, ExecStatus, ExecLog, ExecSkip,
       ExecSkipAfter, ExecCtlRuleEngine, ExecCtlRuleRemoveById,
       ExecCtlRuleRemoveByTag, ExecCtlRequestBodyAccess,
       ExecCtlRequestBodyProcessor
  <2> QED
    BY <2>1, <2>2
<1>2. HereAhead' = HereAhead /\ rs' = rs
  BY <1>0 DEF HereAhead, rs
<1>3. todo' \in Seq(HereAhead)
  <2>1. CASE ExecBlock
    <3>1. rs.defaults[phase].disruptive \in Seq(HereAhead)
      BY <1>0, ActionsSkipAhead DEF AllowInv
    <3>2. todo' = rs.defaults[phase].disruptive \o Tail(todo)
      BY <2>1 DEF ExecBlock
    <3>3. rs.defaults[phase].disruptive \o Tail(todo) \in Seq(HereAhead)
      BY <1>1, <3>1, Concatenated
    <3> QED
      BY <3>2, <3>3
  <2>2. CASE ~ExecBlock
    <3>1. todo' = Tail(todo)
      BY <2>2 DEF ActionStep, Running, SkipDisruptive, ExecDeny, ExecRedirect,
         ExecPass, ExecAllow, ExecStatus, ExecLog, ExecSkip, ExecSkipAfter,
         ExecCtlRuleEngine, ExecCtlRuleRemoveById, ExecCtlRuleRemoveByTag,
         ExecCtlRequestBodyAccess, ExecCtlRequestBodyProcessor
    <3> QED
      BY <1>1, <3>1
  <2> QED
    BY <2>1, <2>2
<1>4. CASE ExecSkipAfter
  <2>1. Head(todo) \in HereAhead /\ Head(todo).name = "skipAfter"
        /\ m_marker' = Head(todo).arg
    BY <1>1, <1>4 DEF ExecSkipAfter, Running, Arg
  <2>2. MarkerAhead(rs, phase, i, m_marker')
    BY <2>1 DEF HereAhead, SkipsAhead
  <2>3. MarkerLater' /\ MarkerFrom(i + 1)'
    <3>1. PICK j \in MarkerIn(rs, phase, m_marker') : j > i
      BY <2>2 DEF MarkerAhead
    <3>2. j >= i + 1
      <4>1. phase \in Phases /\ i \in Nat
        BY <1>0, Position DEF AllowInv, TransactionInv, TypeInv, TypeOK,
           EngineTypeOK, LoopTypeOK
      <4>2. rs.rules[phase] \in Seq(Rule(Action) \cup Marker)
        BY <4>1, RuleSetFacts DEF AllowInv, TransactionInv, rules
      <4>3. j \in Nat
        BY <4>2 DEF MarkerIn
      <4> QED
        BY <3>1, <4>1, <4>3
    <3> QED
      BY <1>0, <1>2, <2>2, <3>2 DEF MarkerAhead, MarkerLater, MarkerFrom
  <2> QED
    BY <1>0, <1>2, <1>3, <2>3 DEF SkipEnds
<1>5. CASE UNCHANGED m_marker
  BY <1>0, <1>2, <1>3, <1>5, SkipStays DEF SkipEnds
<1>6. UNCHANGED m_marker \/ ExecSkipAfter
  BY DEF ActionStep, controlVars, SkipDisruptive, ExecDeny, ExecRedirect,
     ExecPass, ExecAllow, ExecBlock, ExecStatus, ExecLog, ExecSkip,
     ExecCtlRuleEngine, ExecCtlRuleRemoveById, ExecCtlRuleRemoveByTag,
     ExecCtlRequestBodyAccess, ExecCtlRequestBodyProcessor
<1> QED
  BY <1>4, <1>5, <1>6

(* A later phase begins with the marker somewhere among its rules.         *)
LEMMA SkipCalls ==
    ASSUME AllowInv, SkipEnds, ApiCall, [Next]_vars
    PROVE  SkipEnds'
<1>0. UNCHANGED <<config, m_marker>> /\ rs' = rs /\ pc = "idle"
  <2>1. ~EvaluateMarker /\ ~ExecSkipAfter /\ pc = "idle"
    BY CallsInOrder DEF EvaluateMarker, InLoop, ExecSkipAfter, Running, AllowInv
  <2> QED
    BY <2>1, MarkerChanges, ConfigFixed DEF rs
<1>1. CASE UNCHANGED <<pc, phase>>
  BY <1>0, <1>1, SkipStays DEF SkipEnds
<1>2. ASSUME NEW p \in Phases, stage < p, evaluate(p)
      PROVE  SkipEnds'
  <2>1. phase' = p /\ i' = 1 /\ pc' \in {"idle", "loop"}
    BY <1>2 DEF evaluate
  <2>2. phase < p /\ phase \in -1 .. 6 /\ p \in 0 .. 6
    <3>1. stage \in -1 .. 6 /\ phase <= stage
      BY BodyTypes DEF AllowInv, PhaseOrder
    <3>2. phase \in Phases \cup {NoPhase}
      BY DEF AllowInv, TransactionInv, TypeInv, TypeOK, EngineTypeOK,
         LoopTypeOK
    <3>3. phase \in -1 .. 6
      BY <3>2 DEF Phases, NoPhase, ConnectionPhase, LoggingPhase
    <3> QED
      BY <1>2, <3>1, <3>3 DEF Phases, ConnectionPhase, LoggingPhase
  <2>3. ASSUME isInsideAMarker
        PROVE  MarkerLater' /\ MarkerFrom(i)'
    <3>1. \A q \in phase + 1 .. LoggingPhase : MarkerIn(rs, q, m_marker) # {}
      BY <2>3 DEF SkipEnds, MarkerLater
    <3>2. p \in phase + 1 .. LoggingPhase
          /\ p + 1 .. LoggingPhase \subseteq phase + 1 .. LoggingPhase
      BY <2>2 DEF LoggingPhase
    <3>3. MarkerLater'
      BY <1>0, <2>1, <3>1, <3>2 DEF MarkerLater
    <3>4. PICK j \in MarkerIn(rs, p, m_marker) : TRUE
      BY <3>1, <3>2
    <3>5. j >= 1
      <4>1. rs.rules[p] \in Seq(Rule(Action) \cup Marker)
        BY <1>2, RuleSetFacts DEF AllowInv, TransactionInv, RuleSet, RuleSetOver
      <4> QED
        BY <4>1 DEF MarkerIn
    <3> QED
      BY <1>0, <2>1, <3>3, <3>4, <3>5 DEF MarkerFrom
  <2>4. isInsideAMarker' <=> isInsideAMarker
    BY <1>0 DEF isInsideAMarker
  <2> QED
    BY <2>1, <2>3, <2>4 DEF SkipEnds
<1> QED
  BY <1>1, <1>2, CallsInOrder DEF AllowInv

LEMMA MarkerInvNext == MarkerInv /\ [Next]_vars => MarkerInv'
<1> SUFFICES ASSUME MarkerInv, [Next]_vars PROVE MarkerInv'
  OBVIOUS
<1>1. AllowInv' /\ config' = config
  BY AllowNext, ConfigFixed DEF MarkerInv
<1>2. ASSUME config \in MarkersFollowing PROVE SkipEnds'
  <2>1. AllowInv /\ SkipEnds
    BY <1>2 DEF MarkerInv
  <2>2. CASE ApiCall
    BY <2>1, <2>2, SkipCalls
  <2>3. CASE RuleStep
    BY <1>2, <2>1, <2>3, SkipLoop, SkipChain, SkipActions
       DEF RuleStep, EvaluationStep
  <2>4. CASE UNCHANGED vars
    <3>1. UNCHANGED <<config, phase, i, m_marker, pc, todo>>
      BY <2>4 DEF vars, engineVars, loopVars, controlVars
    <3> QED
      BY <2>1, <3>1, SkipStays DEF SkipEnds
  <2> QED
    BY <2>2, <2>3, <2>4 DEF Next, Done
<1> QED
  BY <1>1, <1>2 DEF MarkerInv

(* skipAfter ends: when every marker a rule can skip to lies ahead of it,  *)
(* no phase that runs to its end leaves the transaction inside of a        *)
(* marker, also when the skip began in a phase that was intercepted.       *)
THEOREM MarkersEnd == Spec => MarkersAreLeft
<1>1. Init => MarkerInv
  <2> SUFFICES ASSUME Init PROVE MarkerInv
    OBVIOUS
  <2>1. pc = "idle" /\ ~isInsideAMarker
    BY DEF Init, EngineInit, isInsideAMarker
  <2> QED
    BY <2>1, AllowInit DEF MarkerInv, SkipEnds
<1>2. MarkerInv /\ [Next]_vars
        => [EndPhase /\ config \in MarkersFollowing => ~isInsideAMarker]_vars
  <2> SUFFICES ASSUME MarkerInv, EndPhase, config \in MarkersFollowing,
                      isInsideAMarker
               PROVE  FALSE
    OBVIOUS
  <2>1. pc = "loop" /\ i > Len(rules) /\ i \in Nat /\ phase \in Phases
    BY DEF EndPhase, MarkerInv, AllowInv, TransactionInv, TypeInv, InRange,
       TypeOK, EngineTypeOK, LoopTypeOK
  <2>2. PICK j \in MarkerIn(rs, phase, m_marker) : j >= i
    BY <2>1 DEF MarkerInv, SkipEnds, MarkerFrom
  <2>3. rules \in Seq(Rule(Action) \cup Marker)
    BY <2>1, RuleSetFacts DEF MarkerInv, AllowInv, TransactionInv
  <2>4. j \in 1 .. Len(rules)
    BY <2>2, <2>3 DEF MarkerIn, rules
  <2> QED
    BY <2>1, <2>2, <2>3, <2>4
<1> QED
  BY <1>1, <1>2, MarkerInvNext, PTL DEF Spec, MarkersAreLeft
=============================================================================
