------------------------------ MODULE RulesSet ------------------------------
(***************************************************************************)
(* The rule engine of libmodsecurity: RulesSet::evaluate walks the rules   *)
(* of one phase for one transaction, RuleWithOperator::evaluate walks one  *)
(* chain, RuleWithActions executes the actions of a rule that matched.     *)
(*                                                                         *)
(* One step of the model is one iteration of the loop over the rules, the  *)
(* operator of one link of a chain, or one action of a rule.  Whether an   *)
(* operator matches is a free choice: it depends on the request.           *)
(***************************************************************************)
EXTENDS Integers, Sequences, FiniteSets

CONSTANTS Configs,      \* names of the configurations that were loaded
          Loaded,       \* the rule set each of them was loaded into
          Ids,          \* rule ids (m_ruleId); a chained rule may have id 0
          Tags,         \* values of the tag action
          Markers,      \* names of SecMarker and of skipAfter
          Urls,         \* targets of the redirect action
          StatusCodes,  \* values of the status action
          MaxValues     \* bound: values one multiMatch rule matches

VARIABLES config,              \* names m_rules, the transaction's rule set
          pc,                  \* "idle", "loop", "match", "exec" or "after"
          phase,               \* the phase evaluated last
          i,                   \* the loop variable of RulesSet::evaluate
          link,                \* depth in the chain being evaluated
          hits,                \* links of the chain whose operator matched
          todo,                \* actions executeActionsAfterFullMatch has left
          ruleMessage,         \* the RuleMessage on the stack of evaluate
          m_it,                \* the ModSecurityIntervention being prepared
          m_allowType,
          m_skip_next,
          m_marker,
          m_secRuleEngine,     \* the ctl:ruleEngine override
          m_ruleRemoveById,
          m_ruleRemoveByTag,
          m_requestBodyAccess, \* the ctl:requestBodyAccess override
          m_requestBodyType,
          m_requestBodyProcessor,
          m_rulesMessages,
          granted              \* history: the last allow that ran, and where

loopVars    == <<pc, phase, i, link, hits, todo, ruleMessage>>
controlVars == <<m_allowType, m_skip_next, m_marker, m_secRuleEngine,
                 m_ruleRemoveById, m_ruleRemoveByTag, granted>>
bodyCtlVars == <<m_requestBodyAccess, m_requestBodyType,
                 m_requestBodyProcessor>>
engineVars  == <<config, loopVars, m_it, controlVars, bodyCtlVars,
                 m_rulesMessages>>

-----------------------------------------------------------------------------
(* Phases (modsecurity.h) and the values of the configuration properties.  *)

ConnectionPhase      == 0
UriPhase             == 1
RequestHeadersPhase  == 2
RequestBodyPhase     == 3
ResponseHeadersPhase == 4
ResponseBodyPhase    == 5
LoggingPhase         == 6
Phases               == ConnectionPhase .. LoggingPhase

None         == "none"
NoPhase      == -1
NoGrant      == [type |-> "NoneAllow", phase |-> NoPhase]
EngineStates == {"Disabled", "Enabled", "DetectionOnly"}
AllowTypes   == {"NoneAllow", "PhaseAllow", "RequestAllow", "FromNowOnAllow"}
ConfigBools  == {"NotSet", "True", "False"}
BodyFormats  == {"UnknownFormat", "MultiPart", "WWWFormUrlEncoded",
                 "JSON", "XML"}

(* An action of a rule: its name and its parameter.                        *)
Action ==
         [name : {"deny", "pass", "block", "log", "nolog"}, arg : {None}]
    \cup [name : {"redirect"}, arg : Urls]
    \cup [name : {"allow"}, arg : AllowTypes \ {"NoneAllow"}]
    \cup [name : {"status"}, arg : StatusCodes]
    \cup [name : {"skip"}, arg : Nat]
    \cup [name : {"skipAfter"}, arg : Markers]
    \cup [name : {"ctl:ruleEngine"}, arg : EngineStates]
    \cup [name : {"ctl:ruleRemoveById"}, arg : SUBSET Ids]
    \cup [name : {"ctl:ruleRemoveByTag"}, arg : Tags]
    \cup [name : {"ctl:requestBodyAccess"}, arg : {"True", "False"}]
    \cup [name : {"ctl:requestBodyProcessor"},
          arg : {"URLENCODED", "JSON", "XML"}]

(* Action::isDisruptive; Block is not disruptive, executeAction names it.  *)
isDisruptive(a) == a.name \in {"deny", "redirect", "pass", "allow"}

(* Actions over A that run after a full match, in the order they were      *)
(* written: some, perhaps block, some more, and at most one that is        *)
(* disruptive, which is kept apart and runs last (RuleWithActions's        *)
(* constructor).                                                           *)
ActionList(A) == [before : Seq(A), block : BOOLEAN, after : Seq(A),
                  disruptive : Seq(A)]

(* One SecRule of a chain.                                                 *)
Link(A) == [id : Ids \cup {0}, multi : BOOLEAN, acts : ActionList(A)]

(* What a phase holds: rules (SecRule with its chain, SecAction,           *)
(* SecRuleScript) and the markers SecMarker leaves in every phase.         *)
Rule(A) == [kind : {"SecRule", "SecAction", "SecRuleScript"},
            tags : SUBSET Tags, msg : BOOLEAN, chain : Seq(Link(A)),
            dangling : BOOLEAN]
Marker  == [kind : {"SecMarker"}, name : Markers]

(* A loaded rule set: m_secRuleEngine, m_rulesSetPhases, m_defaultActions, *)
(* the SecRuleRemove... and SecRuleUpdateActionById exceptions and the     *)
(* properties of the bodies.  A limit of 0 is no limit.                    *)
Sides == {"req", "res"}
RuleSetOver(A) ==
    [engine : EngineStates,
     rules : [Phases -> Seq(Rule(A) \cup Marker)],
     defaults : [Phases -> ActionList(A)],
     removeId : SUBSET Ids,
     removeTag : SUBSET Tags,
     posUpdate : [Ids \cup {0} -> Seq(A)],
     access : [Sides -> ConfigBools],
     limit : [Sides -> Nat],
     limitAction : [Sides -> {"NotSet", "ProcessPartial", "Reject"}],
     noFilesLimit : Nat,
     mimeTypes : {"NotSet", "Cleared", "Listed"}]
RuleSet == RuleSetOver(Action)

ASSUME LoadedAssumption ==
    /\ Loaded \in [Configs -> RuleSet]
    /\ \A c \in Configs, p \in Phases : \A k \in 1 .. Len(Loaded[c].rules[p]) :
          \/ Loaded[c].rules[p][k].kind = "SecMarker"
          \/ Loaded[c].rules[p][k].chain # << >>

ASSUME StatusAssumption == StatusCodes \subseteq Nat
ASSUME IdsAssumption    == Ids \subseteq Nat \ {0}
ASSUME UrlsAssumption   == None \notin Urls
ASSUME MaxValuesAssumption == MaxValues \in Nat \ {0}

-----------------------------------------------------------------------------
(* Reading the state.                                                      *)

rs == Loaded[config]

(* Transaction::getRuleEngineState.                                        *)
getRuleEngineState ==
    IF m_secRuleEngine = "NotSet" THEN rs.engine ELSE m_secRuleEngine

rules    == rs.rules[phase]
rule     == rules[i]
chain    == rule.chain
theLink  == chain[link]
isMarker == rule.kind = "SecMarker"

isInsideAMarker == m_marker # None

(* RulesExceptions::contains, SecRuleRemoveByTag/Msg, ctl:ruleRemoveByTag. *)
RuleIsRemoved ==
    \/ chain[1].id \in rs.removeId
    \/ rule.tags \cap rs.removeTag # {}
    \/ rule.tags \cap m_ruleRemoveByTag # {}

(* Only RuleWithOperator::evaluate looks at ctl:ruleRemoveById.            *)
LinkIsRemoved(l) == rule.kind = "SecRule" /\ chain[l].id \in m_ruleRemoveById

-----------------------------------------------------------------------------
(* RulesSet::evaluate: the checks before the loop.                         *)

(* Mutant: allow:request ends one phase early.                             *)
MutAllowSkipsPhase(p) ==
    \/ m_allowType = "FromNowOnAllow" /\ p # LoggingPhase
    \/ m_allowType = "RequestAllow" /\ p < RequestBodyPhase

AllowSkipsPhase(p) ==
    \/ m_allowType = "FromNowOnAllow" /\ p # LoggingPhase
    \/ m_allowType = "RequestAllow" /\ p <= RequestBodyPhase

evaluate(p) ==
    /\ phase' = p
    /\ i' = 1
    /\ IF AllowSkipsPhase(p)
         THEN pc' = "idle" /\ UNCHANGED m_allowType
         ELSE pc' = "loop" /\ m_allowType' = "NoneAllow"
    /\ UNCHANGED <<link, hits, todo, ruleMessage, m_skip_next, m_marker,
                   m_secRuleEngine, m_ruleRemoveById, m_ruleRemoveByTag,
                   granted>>

(* The loop over the rules of the phase, one action per branch.            *)
InLoop == pc = "loop" /\ i <= Len(rules)

NextRule == i' = i + 1 /\ UNCHANGED <<pc, phase, link, hits, todo, ruleMessage>>

SkipInsideMarker ==
    /\ InLoop
    /\ isInsideAMarker /\ ~isMarker
    /\ NextRule
    /\ UNCHANGED <<config, m_it, controlVars, bodyCtlVars, m_rulesMessages>>

(* Mutant: a marker that is reached is not removed.                        *)
MutEvaluateMarker ==
    /\ InLoop /\ isMarker /\ NextRule
    /\ UNCHANGED <<config, m_it, controlVars, bodyCtlVars, m_rulesMessages>>

(* RuleMarker::evaluate.                                                   *)
EvaluateMarker ==
    /\ InLoop
    /\ isMarker
    /\ m_marker' = IF m_marker = rule.name THEN None ELSE m_marker
    /\ NextRule
    /\ UNCHANGED <<config, m_it, m_allowType, m_skip_next, m_secRuleEngine,
                   m_ruleRemoveById, m_ruleRemoveByTag, granted, bodyCtlVars,
                   m_rulesMessages>>

NotInMarker == InLoop /\ ~isInsideAMarker /\ ~isMarker

(* Mutant: m_skip_next is counted down without being checked.              *)
MutSkipNext ==
    /\ NotInMarker
    /\ m_skip_next' = m_skip_next - 1
    /\ NextRule
    /\ UNCHANGED <<config, m_it, m_allowType, m_marker, m_secRuleEngine,
                   m_ruleRemoveById, m_ruleRemoveByTag, granted, bodyCtlVars,
                   m_rulesMessages>>

SkipNext ==
    /\ NotInMarker
    /\ m_skip_next > 0
    /\ m_skip_next' = m_skip_next - 1
    /\ NextRule
    /\ UNCHANGED <<config, m_it, m_allowType, m_marker, m_secRuleEngine,
                   m_ruleRemoveById, m_ruleRemoveByTag, granted, bodyCtlVars,
                   m_rulesMessages>>

SkipAllowedOrRemoved ==
    /\ NotInMarker
    /\ m_skip_next = 0
    /\ m_allowType # "NoneAllow" \/ RuleIsRemoved
    /\ NextRule
    /\ UNCHANGED <<config, m_it, controlVars, bodyCtlVars, m_rulesMessages>>

(* RuleWithActions::evaluate(Transaction) puts a RuleMessage on the stack. *)
StartRule ==
    /\ NotInMarker
    /\ m_skip_next = 0
    /\ m_allowType = "NoneAllow" /\ ~RuleIsRemoved
    /\ pc' = "match"
    /\ link' = 1
    /\ hits' = 0
    /\ ruleMessage' = [save |-> TRUE, disruptive |-> FALSE]
    /\ UNCHANGED <<config, phase, i, todo, m_it, controlVars, bodyCtlVars,
                   m_rulesMessages>>

(* Mutant: the loop goes on after an interception.                         *)
MutAfterRule ==
    /\ pc = "after"
    /\ pc' = "loop" /\ i' = i + 1
    /\ UNCHANGED <<config, phase, link, hits, todo, ruleMessage, m_it,
                   controlVars, bodyCtlVars, m_rulesMessages>>

(* After rule->evaluate: the loop is left when the request is intercepted. *)
AfterRule ==
    /\ pc = "after"
    /\ IF m_it.disruptive
         THEN pc' = "idle" /\ UNCHANGED i
         ELSE pc' = "loop" /\ i' = i + 1
    /\ UNCHANGED <<config, phase, link, hits, todo, ruleMessage, m_it, controlVars,
                   bodyCtlVars, m_rulesMessages>>

EndPhase ==
    /\ pc = "loop" /\ i > Len(rules)
    /\ pc' = "idle"
    /\ UNCHANGED <<config, phase, i, link, hits, todo, ruleMessage, m_it,
                   controlVars, bodyCtlVars, m_rulesMessages>>

-----------------------------------------------------------------------------
(* RuleWithOperator::evaluate, RuleUnconditional, RuleScript.              *)

(* What executeActionsAfterFullMatch runs for link l, in its order: the    *)
(* default actions that are not disruptive, the actions of                 *)
(* SecRuleUpdateActionById, the rule's own, its disruptive action last.    *)
(* A default block runs for a rule that has block itself; an update        *)
(* replaces the rule's block and its disruptive action.                    *)
Block == [name |-> "block", arg |-> None]
Only(cond, s) == IF cond THEN s ELSE << >>

ActionsAfterFullMatch(l) ==
    LET own     == chain[l].acts
        default == rs.defaults[phase]
        update  == rs.posUpdate[chain[l].id]
        containsBlock == rule.kind = "SecRule" /\ own.block
    IN  default.before \o Only(default.block /\ containsBlock, <<Block>>)
          \o default.after
          \o update
          \o own.before \o Only(own.block /\ update = << >>, <<Block>>)
          \o own.after
          \o Only(update = << >>, own.disruptive)

ExecuteLink(l) ==
    /\ pc' = "exec"
    /\ link' = l
    /\ todo' = ActionsAfterFullMatch(l)

LeaveRule == pc' = "after" /\ UNCHANGED <<link, todo>>

Message(d) == [rule |-> <<phase, i>>, disruptive |-> d]

(* The operator of this link matched n values.  A multiMatch rule logs     *)
(* each of them (performLogging with lastLog = false, which resets a       *)
(* message no action has changed yet); the last link of the chain ends the *)
(* descent; a rule marked as chained that has no successor never matches.  *)
OperatorMatches(n) ==
    /\ pc = "match" /\ ~LinkIsRemoved(link)
    /\ hits' = link
    /\ IF rule.kind = "SecRule" /\ theLink.multi /\ ruleMessage.save
         THEN m_rulesMessages' =
                m_rulesMessages \o [k \in 1 .. n |-> Message(FALSE)]
         ELSE n = 1 /\ UNCHANGED m_rulesMessages
    /\ \/ /\ link < Len(chain)
          /\ link' = link + 1
          /\ UNCHANGED <<pc, todo>>
       \/ link = Len(chain) /\ ~rule.dangling /\ ExecuteLink(link)
       \/ link = Len(chain) /\ rule.dangling /\ LeaveRule
    /\ UNCHANGED <<config, phase, i, ruleMessage, m_it, controlVars, bodyCtlVars>>

(* Mutant: a chained rule that does not match lets its parent execute.     *)
MutOperatorFails ==
    /\ pc = "match" /\ ~LinkIsRemoved(link)
    /\ rule.kind # "SecAction"
    /\ IF link = 1 THEN LeaveRule ELSE ExecuteLink(link - 1)
    /\ UNCHANGED <<config, phase, i, hits, ruleMessage, m_it, controlVars,
                   bodyCtlVars, m_rulesMessages>>

(* The operator (or the script) does not match: the whole chain is false.  *)
OperatorFails ==
    /\ pc = "match" /\ ~LinkIsRemoved(link)
    /\ rule.kind # "SecAction"
    /\ LeaveRule
    /\ UNCHANGED <<config, phase, i, hits, ruleMessage, m_it, controlVars,
                   bodyCtlVars, m_rulesMessages>>

(* A rule removed by ctl:ruleRemoveById returns true: alone it does        *)
(* nothing, as a chained rule it lets its parent execute.                  *)
RemovedRuleReturnsTrue ==
    /\ pc = "match" /\ LinkIsRemoved(link)
    /\ IF link = 1 THEN LeaveRule ELSE ExecuteLink(link - 1)
    /\ UNCHANGED <<config, phase, i, hits, ruleMessage, m_it, controlVars,
                   bodyCtlVars, m_rulesMessages>>

(* performLogging with lastLog = true: what reaches m_rulesMessages when   *)
(* all the actions of link l have run.                                     *)
LoggedLast(l) ==
    /\ ~chain[l].multi
    /\ \/ rule.kind = "SecRule" /\ l = 1 /\ ruleMessage.save
       \/ rule.kind = "SecAction"
            /\ (chain[l].acts.block \/ (ruleMessage.save /\ rule.msg))

(* Mutant: the chain is not unwound.                                       *)
MutLinkExecuted ==
    /\ pc = "exec" /\ todo = << >>
    /\ IF link > 1 THEN ExecuteLink(link) ELSE LeaveRule
    /\ UNCHANGED <<config, phase, i, hits, ruleMessage, m_it, controlVars,
                   bodyCtlVars, m_rulesMessages>>

(* All actions of the link ran: log, then unwind to the parent.            *)
LinkExecuted ==
    /\ pc = "exec" /\ todo = << >>
    /\ m_rulesMessages' =
         IF LoggedLast(link)
           THEN Append(m_rulesMessages, Message(ruleMessage.disruptive))
           ELSE m_rulesMessages
    /\ IF link > 1 THEN ExecuteLink(link - 1) ELSE LeaveRule
    /\ UNCHANGED <<config, phase, i, hits, ruleMessage, m_it, controlVars,
                   bodyCtlVars>>

-----------------------------------------------------------------------------
(* RuleWithActions::executeAction and the evaluate methods of the actions. *)

(* Mutant: only block is held back when the engine is not On.              *)
MutNeedsEngineOn(a) == a.name = "block"

(* executeAction: a disruptive action, and block, run only when the        *)
(* engine is On at that moment.                                            *)
NeedsEngineOn(a) == isDisruptive(a) \/ a.name = "block"

Running(names) ==
    /\ pc = "exec" /\ todo # << >>
    /\ Head(todo).name \in names
    /\ NeedsEngineOn(Head(todo)) => getRuleEngineState = "Enabled"
    /\ todo' = Tail(todo)

Arg == Head(todo).arg

SkipDisruptive ==
    /\ pc = "exec" /\ todo # << >>
    /\ NeedsEngineOn(Head(todo)) /\ getRuleEngineState # "Enabled"
    /\ todo' = Tail(todo)
    /\ UNCHANGED <<config, pc, phase, i, link, hits, ruleMessage, m_it,
                   controlVars, bodyCtlVars, m_rulesMessages>>

(* intervention::reset, intervention::free and intervention::clean.        *)
reset(it)     == [it EXCEPT !.status = 200, !.disruptive = FALSE]
freeIt(it)    == [it EXCEPT !.url = None, !.log = None]
CleanIt       == [status |-> 200, url |-> None, log |-> None,
                  disruptive |-> FALSE]

(* Mutants: the log of an earlier intervention is kept; a status of 200 is *)
(* taken for one the rule set.                                             *)
MutDenied(it) ==
    [it EXCEPT !.status = IF it.status = 200 THEN 403 ELSE it.status,
               !.disruptive = TRUE,
               !.log = IF it.log = None THEN <<phase, i>> ELSE it.log]
MutRedirected(it, url) ==
    [it EXCEPT !.status = IF it.status <= 307 THEN it.status ELSE 302,
               !.url = url, !.disruptive = TRUE, !.log = <<phase, i>>]

(* Deny::evaluate; Drop::evaluate does the same.                           *)
denied(it) ==
    [it EXCEPT !.status = IF it.status = 200 THEN 403 ELSE it.status,
               !.disruptive = TRUE,
               !.log = <<phase, i>>]

(* Redirect::evaluate: a status of a redirection is kept.                  *)
redirected(it, url) ==
    [it EXCEPT !.status = IF it.status \in 301 .. 307 THEN it.status ELSE 302,
               !.url = url,
               !.disruptive = TRUE,
               !.log = <<phase, i>>]

ExecLeaves == UNCHANGED <<config, pc, phase, i, link, hits, m_rulesMessages>>

ExecDeny ==
    /\ Running({"deny"})
    /\ m_it' = denied(m_it)
    /\ ruleMessage' = [ruleMessage EXCEPT !.disruptive = TRUE]
    /\ ExecLeaves /\ UNCHANGED <<controlVars, bodyCtlVars>>

ExecRedirect ==
    /\ Running({"redirect"})
    /\ m_it' = redirected(m_it, Arg)
    /\ ruleMessage' = [ruleMessage EXCEPT !.disruptive = TRUE]
    /\ ExecLeaves /\ UNCHANGED <<controlVars, bodyCtlVars>>

(* Mutant: pass does not free the url.                                     *)
MutExecPass ==
    /\ Running({"pass"})
    /\ m_it' = reset(m_it)
    /\ ExecLeaves /\ UNCHANGED <<ruleMessage, controlVars, bodyCtlVars>>

ExecPass ==
    /\ Running({"pass"})
    /\ m_it' = reset(freeIt(m_it))
    /\ ExecLeaves /\ UNCHANGED <<ruleMessage, controlVars, bodyCtlVars>>

ExecAllow ==
    /\ Running({"allow"})
    /\ m_allowType' = Arg
    /\ granted' = [type |-> Arg, phase |-> phase]
    /\ ExecLeaves
    /\ UNCHANGED <<ruleMessage, m_it, m_skip_next, m_marker, m_secRuleEngine,
                   m_ruleRemoveById, m_ruleRemoveByTag, bodyCtlVars>>

(* Block::evaluate runs the disruptive default actions of the phase; they  *)
(* are put in front of what is left, and no action comes between them that *)
(* could turn the engine off.                                              *)
ExecBlock ==
    /\ pc = "exec" /\ todo # << >>
    /\ Head(todo).name = "block" /\ getRuleEngineState = "Enabled"
    /\ todo' = rs.defaults[phase].disruptive \o Tail(todo)
    /\ ExecLeaves
    /\ UNCHANGED <<ruleMessage, m_it, controlVars, bodyCtlVars>>

ExecStatus ==
    /\ Running({"status"})
    /\ m_it' = [m_it EXCEPT !.status = Arg]
    /\ ExecLeaves /\ UNCHANGED <<ruleMessage, controlVars, bodyCtlVars>>

ExecLog ==
    /\ Running({"log", "nolog"})
    /\ ruleMessage' = [ruleMessage EXCEPT !.save = (Head(todo).name = "log")]
    /\ ExecLeaves /\ UNCHANGED <<m_it, controlVars, bodyCtlVars>>

ExecSkip ==
    /\ Running({"skip"})
    /\ m_skip_next' = Arg
    /\ ExecLeaves
    /\ UNCHANGED <<ruleMessage, m_it, m_allowType, m_marker, m_secRuleEngine,
                   m_ruleRemoveById, m_ruleRemoveByTag, granted, bodyCtlVars>>

ExecSkipAfter ==
    /\ Running({"skipAfter"})
    /\ m_marker' = Arg
    /\ ExecLeaves
    /\ UNCHANGED <<ruleMessage, m_it, m_allowType, m_skip_next,
                   m_secRuleEngine, m_ruleRemoveById, m_ruleRemoveByTag,
                   granted, bodyCtlVars>>

ExecCtlRuleEngine ==
    /\ Running({"ctl:ruleEngine"})
    /\ m_secRuleEngine' = Arg
    /\ ExecLeaves
    /\ UNCHANGED <<ruleMessage, m_it, m_allowType, m_skip_next, m_marker,
                   m_ruleRemoveById, m_ruleRemoveByTag, granted, bodyCtlVars>>

ExecCtlRuleRemoveById ==
    /\ Running({"ctl:ruleRemoveById"})
    /\ m_ruleRemoveById' = m_ruleRemoveById \cup Arg
    /\ ExecLeaves
    /\ UNCHANGED <<ruleMessage, m_it, m_allowType, m_skip_next, m_marker,
                   m_secRuleEngine, m_ruleRemoveByTag, granted, bodyCtlVars>>

ExecCtlRuleRemoveByTag ==
    /\ Running({"ctl:ruleRemoveByTag"})
    /\ m_ruleRemoveByTag' = m_ruleRemoveByTag \cup {Arg}
    /\ ExecLeaves
    /\ UNCHANGED <<ruleMessage, m_it, m_allowType, m_skip_next, m_marker,
                   m_secRuleEngine, m_ruleRemoveById, granted, bodyCtlVars>>

ExecCtlRequestBodyAccess ==
    /\ Running({"ctl:requestBodyAccess"})
    /\ m_requestBodyAccess' = Arg
    /\ ExecLeaves
    /\ UNCHANGED <<ruleMessage, m_it, controlVars, m_requestBodyType,
                   m_requestBodyProcessor>>

(* ctl:requestBodyProcessor: JSON and XML set the processor, URLENCODED    *)
(* sets the type and leaves a processor chosen earlier in place.           *)
ExecCtlRequestBodyProcessor ==
    /\ Running({"ctl:requestBodyProcessor"})
    /\ IF Arg = "URLENCODED"
         THEN /\ m_requestBodyType' = "WWWFormUrlEncoded"
              /\ UNCHANGED m_requestBodyProcessor
         ELSE m_requestBodyProcessor' = Arg /\ UNCHANGED m_requestBodyType
    /\ ExecLeaves
    /\ UNCHANGED <<ruleMessage, m_it, controlVars, m_requestBodyAccess>>

-----------------------------------------------------------------------------
(* One step of the evaluation of a phase.                                  *)

LoopStep ==
    \/ SkipInsideMarker \/ EvaluateMarker \/ SkipNext \/ SkipAllowedOrRemoved
    \/ StartRule \/ AfterRule \/ EndPhase

ChainStep ==
    \/ \E n \in 1 .. MaxValues : OperatorMatches(n)
    \/ OperatorFails \/ RemovedRuleReturnsTrue \/ LinkExecuted

ActionStep ==
    \/ SkipDisruptive \/ ExecDeny \/ ExecRedirect \/ ExecPass \/ ExecAllow
    \/ ExecBlock \/ ExecStatus \/ ExecLog \/ ExecSkip \/ ExecSkipAfter
    \/ ExecCtlRuleEngine \/ ExecCtlRuleRemoveById \/ ExecCtlRuleRemoveByTag
    \/ ExecCtlRequestBodyAccess \/ ExecCtlRequestBodyProcessor

EvaluationStep == LoopStep \/ ChainStep \/ ActionStep

-----------------------------------------------------------------------------
Intervention ==
    [status : Nat, url : Urls \cup {None},
     log : (Phases \X Nat) \cup {None, "limit"}, disruptive : BOOLEAN]

LoopTypeOK ==
    /\ pc \in {"idle", "loop", "match", "exec", "after"}
    /\ phase \in Phases \cup {NoPhase}
    /\ i \in Nat /\ link \in Nat /\ hits \in Nat
    /\ todo \in Seq(Action)
    /\ ruleMessage \in [save : BOOLEAN, disruptive : BOOLEAN]

ControlTypeOK ==
    /\ m_allowType \in AllowTypes
    /\ m_skip_next \in Nat
    /\ m_marker \in Markers \cup {None}
    /\ m_secRuleEngine \in EngineStates \cup {"NotSet"}
    /\ m_ruleRemoveById \subseteq Ids
    /\ m_ruleRemoveByTag \subseteq Tags
    /\ granted \in [type : AllowTypes \ {"NoneAllow"}, phase : Phases]
                     \cup {NoGrant}

BodyCtlTypeOK ==
    /\ m_requestBodyAccess \in ConfigBools
    /\ m_requestBodyType \in BodyFormats
    /\ m_requestBodyProcessor \in BodyFormats

ReportTypeOK ==
    /\ m_it \in Intervention
    /\ m_rulesMessages \in Seq([rule : Phases \X Nat, disruptive : BOOLEAN])

EngineTypeOK ==
    config \in Configs /\ LoopTypeOK /\ ControlTypeOK /\ BodyCtlTypeOK
        /\ ReportTypeOK

EngineInit ==
    /\ config \in Configs
    /\ pc = "idle" /\ phase = NoPhase /\ i = 1 /\ link = 0 /\ hits = 0
    /\ todo = << >>
    /\ ruleMessage = [save |-> TRUE, disruptive |-> FALSE]
    /\ m_it = CleanIt
    /\ m_allowType = "NoneAllow"
    /\ m_skip_next = 0
    /\ m_marker = None
    /\ m_secRuleEngine = "NotSet"
    /\ m_ruleRemoveById = {} /\ m_ruleRemoveByTag = {}
    /\ m_requestBodyAccess = "NotSet"
    /\ m_requestBodyType = "UnknownFormat"
    /\ m_requestBodyProcessor = "UnknownFormat"
    /\ m_rulesMessages = << >>
    /\ granted = NoGrant
=============================================================================
