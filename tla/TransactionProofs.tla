-------------------------- MODULE TransactionProofs --------------------------
(***************************************************************************)
(* Proofs about Transaction for every rule set, every bound and both kinds *)
(* of connector.                                                           *)
(***************************************************************************)
EXTENDS Transaction, TLAPS

-----------------------------------------------------------------------------
(* What the types of a loaded rule set say about its parts.                *)

(* The parameter of an action has the type its name asks for.              *)
LEMMA ArgTypes ==
    ASSUME NEW a \in Action
    PROVE  /\ a.name = "redirect" => a.arg \in Urls
           /\ a.name = "allow" => a.arg \in AllowTypes \ {"NoneAllow"}
           /\ a.name = "status" => a.arg \in StatusCodes
           /\ a.name = "skip" => a.arg \in Nat
           /\ a.name = "skipAfter" => a.arg \in Markers
           /\ a.name = "ctl:ruleEngine" => a.arg \in EngineStates
           /\ a.name = "ctl:ruleRemoveById" => a.arg \subseteq Ids
           /\ a.name = "ctl:ruleRemoveByTag" => a.arg \in Tags
           /\ a.name = "ctl:requestBodyAccess" => a.arg \in {"True", "False"}
           /\ a.name = "ctl:requestBodyProcessor" =>
                a.arg \in {"URLENCODED", "JSON", "XML"}
BY DEF Action

(* The rule set of a configuration, over any set A of actions.             *)
LEMMA RuleSetParts ==
    ASSUME NEW A, rs \in RuleSetOver(A), phase \in Phases
    PROVE  /\ rules \in Seq(Rule(A) \cup Marker)
           /\ rs.defaults[phase] \in ActionList(A)
           /\ \A id \in Ids \cup {0} : rs.posUpdate[id] \in Seq(A)
BY DEF RuleSetOver, rules

(* A rule that is not a marker has a chain of links.                       *)
LEMMA RuleParts ==
    ASSUME NEW A, rs \in RuleSetOver(A), phase \in Phases,
           i \in 1 .. Len(rules), ~isMarker
    PROVE  rule \in Rule(A) /\ chain \in Seq(Link(A))
<1>1. rules \in Seq(Rule(A) \cup Marker)
  BY RuleSetParts
<1>2. rule \in Rule(A) \cup Marker
  BY <1>1 DEF rule
<1>3. rule \notin Marker
  BY DEF isMarker, Marker
<1> QED
  BY <1>2, <1>3 DEF chain, Rule

(* executeActionsAfterFullMatch runs actions of the phase's defaults, of    *)
(* the update of the rule and of the rule itself (and block).              *)
LEMMA ActionsOverParts ==
    ASSUME NEW A, Block \in A, NEW l, rs.defaults[phase] \in ActionList(A),
           chain[l].acts \in ActionList(A),
           rs.posUpdate[chain[l].id] \in Seq(A)
    PROVE  ActionsAfterFullMatch(l) \in Seq(A)
<1> DEFINE own     == chain[l].acts
           default == rs.defaults[phase]
           update  == rs.posUpdate[chain[l].id]
<1>1. /\ default.before \in Seq(A) /\ default.after \in Seq(A)
      /\ own.before \in Seq(A) /\ own.after \in Seq(A)
      /\ own.disruptive \in Seq(A) /\ update \in Seq(A)
  BY DEF ActionList
<1>2. \A c : Only(c, <<Block>>) \in Seq(A)
  BY DEF Only
<1>3. \A c : Only(c, own.disruptive) \in Seq(A)
  BY <1>1 DEF Only
<1> HIDE DEF own, default, update
<1>4. \A s, t \in Seq(A) : s \o t \in Seq(A)
  OBVIOUS
<1> QED
  BY <1>1, <1>2, <1>3, <1>4 DEF ActionsAfterFullMatch, own, default, update

(* Over a rule set of actions in A that is a list over A.                  *)
LEMMA ActionsOfLink ==
    ASSUME NEW A, rs \in RuleSetOver(A), Block \in A, phase \in Phases,
           i \in 1 .. Len(rules), ~isMarker, NEW l \in 1 .. Len(chain)
    PROVE  ActionsAfterFullMatch(l) \in Seq(A)
<1>1. chain[l] \in Link(A)
  BY RuleParts
<1>2. chain[l].acts \in ActionList(A) /\ chain[l].id \in Ids \cup {0}
  BY <1>1 DEF Link
<1>3. /\ rs.defaults[phase] \in ActionList(A)
      /\ rs.posUpdate[chain[l].id] \in Seq(A)
  BY <1>2, RuleSetParts
<1> QED
  BY <1>2, <1>3, ActionsOverParts

-----------------------------------------------------------------------------
(* Type correctness.  It needs to know where the evaluation is: inside a   *)
(* rule, i and link are positions of a rule and of a link of its chain.    *)

InRange ==
    /\ pc # "idle" => phase \in Phases /\ i >= 1
    /\ pc \in {"match", "exec", "after"} =>
         i <= Len(rules) /\ ~isMarker /\ link \in 1 .. Len(chain)

TypeInv == TypeOK /\ InRange

(* Facts about the rule set that the steps below use.                      *)
LEMMA RuleSetFacts ==
    ASSUME TypeInv
    PROVE  /\ rs \in RuleSet
           /\ phase \in Phases => rules \in Seq(Rule(Action) \cup Marker)
<1>1. rs \in RuleSet
  BY LoadedAssumption DEF rs, TypeInv, TypeOK, EngineTypeOK
<1> QED
  BY <1>1, RuleSetParts DEF RuleSet

LEMMA BlockIsAction == Block \in Action
BY DEF Block, Action

LEMMA NonEmptyChain ==
    ASSUME TypeInv, phase \in Phases, i \in 1 .. Len(rules), ~isMarker
    PROVE  chain \in Seq(Link(Action)) /\ Len(chain) >= 1
<1>1. chain \in Seq(Link(Action))
  BY RuleParts, RuleSetFacts DEF RuleSet
<1>2. chain # << >>
  BY LoadedAssumption
     DEF chain, rule, rules, rs, isMarker, TypeInv, TypeOK, EngineTypeOK
<1> QED
  BY <1>1, <1>2

LEMMA TypeInit == Init => TypeInv
<1> SUFFICES ASSUME Init PROVE TypeInv
  OBVIOUS
<1>1. ReportTypeOK
  <2>1. CleanIt \in Intervention
    BY DEF CleanIt, Intervention
  <2>2. << >> \in Seq([rule : Phases \X Nat, disruptive : BOOLEAN])
    OBVIOUS
  <2> QED
    BY <2>1, <2>2, Zenon DEF Init, EngineInit, ReportTypeOK
<1>2. LoopTypeOK
  <2>1. << >> \in Seq(Action)
    OBVIOUS
  <2>2. [save |-> TRUE, disruptive |-> FALSE]
            \in [save : BOOLEAN, disruptive : BOOLEAN]
    OBVIOUS
  <2>3. 0 \in Nat /\ 1 \in Nat
    OBVIOUS
  <2> QED
    BY <2>1, <2>2, <2>3, Zenon DEF Init, EngineInit, LoopTypeOK
<1>3. ControlTypeOK /\ BodyCtlTypeOK
  <2>1. 0 \in Nat
    OBVIOUS
  <2> QED
    BY <2>1, Zenon DEF Init, EngineInit, ControlTypeOK, BodyCtlTypeOK,
         AllowTypes, ConfigBools, BodyFormats
<1>4. ApiTypeOK
  <2>1. << >> \in Seq(Intervention)
    OBVIOUS
  <2> QED
    BY <2>1, Zenon DEF Init, ApiTypeOK
<1>5. DataTypeOK
  <2>1. EmptyBody \in [sent : Nat, len : Nat, kept : SUBSET Nat]
    BY DEF EmptyBody
  <2> QED
    BY <2>1, Zenon DEF Init, DataTypeOK
<1>6. config \in Configs
  BY DEF Init, EngineInit
<1>7. InRange
  BY DEF Init, EngineInit, InRange
<1> QED
  BY <1>1, <1>2, <1>3, <1>4, <1>5, <1>6, <1>7 DEF TypeInv, TypeOK, EngineTypeOK

(* A group of variables that a step leaves alone keeps its type.           *)
LEMMA LoopKept == LoopTypeOK /\ UNCHANGED loopVars => LoopTypeOK'
BY Zenon DEF LoopTypeOK, loopVars

LEMMA ControlKept == ControlTypeOK /\ UNCHANGED controlVars => ControlTypeOK'
BY Zenon DEF ControlTypeOK, controlVars

LEMMA BodyCtlKept == BodyCtlTypeOK /\ UNCHANGED bodyCtlVars => BodyCtlTypeOK'
BY Zenon DEF BodyCtlTypeOK, bodyCtlVars

LEMMA ReportKept ==
    ReportTypeOK /\ UNCHANGED <<m_it, m_rulesMessages>> => ReportTypeOK'
BY Zenon DEF ReportTypeOK

LEMMA ApiKept == ApiTypeOK /\ UNCHANGED apiVars => ApiTypeOK'
BY Zenon DEF ApiTypeOK, apiVars

LEMMA DataKept == DataTypeOK /\ UNCHANGED dataVars => DataTypeOK'
BY Zenon DEF DataTypeOK, dataVars

(* Where the evaluation is inside a rule.                                  *)
LEMMA Position ==
    ASSUME TypeInv, pc \in {"match", "exec", "after"}
    PROVE  /\ phase \in Phases /\ i \in 1 .. Len(rules) /\ ~isMarker
           /\ link \in 1 .. Len(chain) /\ Len(chain) \in Nat
<1>1. phase \in Phases /\ i >= 1 /\ i <= Len(rules) /\ ~isMarker
      /\ link \in 1 .. Len(chain)
  BY DEF TypeInv, InRange
<1>2. i \in Nat
  BY DEF TypeInv, TypeOK, EngineTypeOK, LoopTypeOK
<1>3. rules \in Seq(Rule(Action) \cup Marker)
  BY <1>1, RuleSetFacts
<1>4. i \in 1 .. Len(rules)
  BY <1>1, <1>2, <1>3
<1>5. chain \in Seq(Link(Action))
  BY <1>1, <1>4, NonEmptyChain
<1> QED
  BY <1>1, <1>4, <1>5

(* ExecuteLink fills todo with actions of the link.                        *)
LEMMA ExecuteLinkType ==
    ASSUME TypeInv, pc \in {"match", "exec"},
           NEW l \in 1 .. Len(chain), ExecuteLink(l)
    PROVE  todo' \in Seq(Action) /\ link' = l /\ pc' = "exec"
<1>1. phase \in Phases /\ i \in 1 .. Len(rules) /\ ~isMarker
  BY Position
<1>2. ActionsAfterFullMatch(l) \in Seq(Action)
  BY <1>1, ActionsOfLink, RuleSetFacts, BlockIsAction DEF RuleSet
<1> QED
  BY <1>2 DEF ExecuteLink

(* The rule that is evaluated stays the same while config, phase and i do. *)
LEMMA SameRule ==
    ASSUME UNCHANGED <<config, phase>>
    PROVE  /\ rs' = rs /\ rules' = rules
           /\ i' = i => rule' = rule /\ chain' = chain /\ (isMarker' <=> isMarker)
BY DEF rs, rules, rule, chain, isMarker

(* A step of the loop that goes to the next rule.                          *)
LEMMA NextRuleType ==
    ASSUME TypeInv, InLoop, NextRule
    PROVE  LoopTypeOK' /\ InRange'
<1>1. phase' = phase /\ phase \in Phases /\ pc' = "loop"
  BY DEF NextRule, InLoop, TypeInv, InRange
<1>2. i' = i + 1 /\ i \in Nat
  BY DEF NextRule, TypeInv, TypeOK, EngineTypeOK, LoopTypeOK
<1>3. LoopTypeOK'
  BY <1>1, <1>2 DEF NextRule, TypeInv, TypeOK, EngineTypeOK, LoopTypeOK
<1> QED
  BY <1>1, <1>2, <1>3 DEF InRange

LEMMA TypeLoop ==
    ASSUME TypeInv, LoopStep, UNCHANGED <<apiVars, dataVars>>
    PROVE  TypeInv'
<1> USE DEF TypeInv, TypeOK, EngineTypeOK
<1> USE ControlKept, BodyCtlKept, ReportKept, ApiKept, DataKept
<1>1. CASE SkipInsideMarker
  BY <1>1, NextRuleType DEF SkipInsideMarker
<1>2. CASE EvaluateMarker
  <2>1. ControlTypeOK'
    BY <1>2 DEF EvaluateMarker, ControlTypeOK
  <2> QED
    BY <2>1, <1>2, NextRuleType DEF EvaluateMarker
<1>3. CASE SkipNext
  <2>1. ControlTypeOK'
    BY <1>3 DEF SkipNext, ControlTypeOK
  <2> QED
    BY <2>1, <1>3, NextRuleType DEF SkipNext, NotInMarker
<1>4. CASE SkipAllowedOrRemoved
  BY <1>4, NextRuleType DEF SkipAllowedOrRemoved, NotInMarker
<1>5. CASE StartRule
  <2>1. phase \in Phases /\ i \in 1 .. Len(rules) /\ ~isMarker
    <3>1. phase \in Phases /\ i >= 1 /\ i <= Len(rules) /\ ~isMarker
      BY <1>5 DEF StartRule, NotInMarker, InLoop, InRange
    <3>2. i \in Nat /\ rules \in Seq(Rule(Action) \cup Marker)
      BY <3>1, RuleSetFacts DEF LoopTypeOK
    <3> QED
      BY <3>1, <3>2
  <2>2. chain \in Seq(Link(Action)) /\ Len(chain) >= 1
    BY <2>1, NonEmptyChain
  <2>3. InRange'
    BY <2>1, <2>2, <1>5, SameRule DEF StartRule, InRange
  <2>4. LoopTypeOK'
    BY <1>5 DEF StartRule, LoopTypeOK
  <2> QED
    BY <2>3, <2>4, <1>5 DEF StartRule
<1>6. CASE AfterRule
  <2>1. LoopTypeOK' /\ InRange'
    BY <1>6 DEF AfterRule, LoopTypeOK, InRange
  <2> QED
    BY <2>1, <1>6 DEF AfterRule
<1>7. CASE EndPhase
  <2>1. LoopTypeOK' /\ InRange'
    BY <1>7 DEF EndPhase, LoopTypeOK, InRange
  <2> QED
    BY <2>1, <1>7 DEF EndPhase
<1> QED
  BY <1>1, <1>2, <1>3, <1>4, <1>5, <1>6, <1>7 DEF LoopStep

-----------------------------------------------------------------------------
(* The steps of a chain.                                                   *)

MessageType == [rule : Phases \X Nat, disruptive : BOOLEAN]

(* A sequence that repeats one element, and a concatenation.               *)
LEMMA Repeated ==
    ASSUME NEW S, NEW x \in S, NEW n \in Nat
    PROVE  [k \in 1 .. n |-> x] \in Seq(S)
OBVIOUS

LEMMA Concatenated ==
    ASSUME NEW S, NEW s \in Seq(S), NEW t \in Seq(S)
    PROVE  s \o t \in Seq(S)
OBVIOUS

LEMMA MessageTypes ==
    ASSUME TypeInv, phase \in Phases, NEW d \in BOOLEAN
    PROVE  Message(d) \in MessageType
<1>1. i \in Nat
  BY DEF TypeInv, TypeOK, EngineTypeOK, LoopTypeOK
<1> QED
  BY <1>1 DEF Message, MessageType

(* A step inside a rule that leaves config, phase and i alone and keeps    *)
(* link in the chain.                                                      *)
LEMMA StaysInRule ==
    ASSUME TypeInv, pc \in {"match", "exec", "after"},
           UNCHANGED <<config, phase, i>>,
           pc' \in {"match", "exec", "after"}, link' \in 1 .. Len(chain)
    PROVE  InRange'
<1>1. phase \in Phases /\ i \in 1 .. Len(rules) /\ ~isMarker
  BY Position
<1>2. rules' = rules /\ chain' = chain /\ (isMarker' <=> isMarker)
  BY SameRule
<1>3. i >= 1 /\ i <= Len(rules)
  BY <1>1, RuleSetFacts
<1> QED
  BY <1>1, <1>2, <1>3 DEF InRange

(* ExecuteLink and LeaveRule, by which a link ends.                        *)
LEMMA LinkEnds ==
    ASSUME TypeInv, pc \in {"match", "exec"},
           UNCHANGED <<config, phase, i>>,
           LeaveRule \/ \E l \in 1 .. Len(chain) : ExecuteLink(l)
    PROVE  /\ InRange' /\ pc' \in {"exec", "after"}
           /\ todo' \in Seq(Action) /\ link' \in Nat
<1>0. link \in 1 .. Len(chain) /\ Len(chain) \in Nat /\ todo \in Seq(Action)
  BY Position DEF TypeInv, TypeOK, EngineTypeOK, LoopTypeOK
<1>1. CASE LeaveRule
  <2>1. pc' = "after" /\ link' = link /\ todo' = todo
    BY <1>1 DEF LeaveRule
  <2> QED
    BY <1>0, <2>1, StaysInRule
<1>2. CASE \E l \in 1 .. Len(chain) : ExecuteLink(l)
  <2> PICK l \in 1 .. Len(chain) : ExecuteLink(l)
    BY <1>2
  <2>1. todo' \in Seq(Action) /\ link' = l /\ pc' = "exec"
    BY ExecuteLinkType
  <2> QED
    BY <1>0, <2>1, StaysInRule
<1> QED
  BY <1>1, <1>2

LEMMA TypeChain ==
    ASSUME TypeInv, ChainStep, UNCHANGED <<apiVars, dataVars>>
    PROVE  TypeInv'
<1> USE DEF TypeInv, TypeOK, EngineTypeOK
<1> USE ControlKept, BodyCtlKept, ReportKept, ApiKept, DataKept
<1>0. pc \in {"match", "exec"}
  BY DEF ChainStep, OperatorMatches, OperatorFails, RemovedRuleReturnsTrue,
         LinkExecuted
<1>p. /\ phase \in Phases /\ link \in 1 .. Len(chain) /\ Len(chain) \in Nat
      /\ link \in Nat
  BY <1>0, Position
<1>1. CASE \E n \in 1 .. MaxValues : OperatorMatches(n)
  <2> PICK n \in 1 .. MaxValues : OperatorMatches(n)
    BY <1>1
  <2> USE DEF OperatorMatches
  <2>1. ReportTypeOK'
    <3>1. Message(FALSE) \in MessageType
      BY <1>p, MessageTypes
    <3>2. n \in Nat
      BY MaxValuesAssumption
    <3>3. [k \in 1 .. n |-> Message(FALSE)] \in Seq(MessageType)
      BY ONLY <3>1, <3>2, Repeated
    <3>4. m_rulesMessages \in Seq(MessageType)
      BY DEF ReportTypeOK, MessageType
    <3>5. m_rulesMessages' \in Seq(MessageType)
      <4>1. m_rulesMessages \o [k \in 1 .. n |-> Message(FALSE)]
              \in Seq(MessageType)
        BY ONLY <3>3, <3>4, Concatenated
      <4> QED
        BY <3>4, <4>1
    <3> QED
      BY <3>5 DEF ReportTypeOK, MessageType
  <2>2. InRange' /\ pc' \in {"match", "exec", "after"} /\ todo' \in Seq(Action)
           /\ link' \in Nat
    <3>1. CASE link < Len(chain) /\ link' = link + 1 /\ UNCHANGED <<pc, todo>>
      <4>1. link' \in 1 .. Len(chain)
        BY <3>1, <1>p
      <4>2. pc' \in {"match", "exec", "after"}
        BY <3>1, <1>0
      <4>3. InRange'
        BY <4>1, <4>2, <1>0, StaysInRule
      <4> QED
        BY <4>1, <4>2, <4>3, <3>1, <1>p DEF LoopTypeOK
    <3>2. CASE ExecuteLink(link)
      BY <3>2, <1>0, <1>p, LinkEnds
    <3>3. CASE LeaveRule
      BY <3>3, <1>0, LinkEnds
    <3> QED
      BY <3>1, <3>2, <3>3
  <2>3. LoopTypeOK'
    BY <2>2, <1>p DEF LoopTypeOK
  <2> QED
    BY <2>1, <2>2, <2>3
<1>2. CASE OperatorFails
  <2>1. InRange' /\ pc' \in {"exec", "after"} /\ todo' \in Seq(Action)
           /\ link' \in Nat
    BY <1>0, <1>2, LinkEnds DEF OperatorFails
  <2>2. LoopTypeOK'
    BY <1>2, <2>1 DEF OperatorFails, LoopTypeOK
  <2> QED
    BY <1>2, <2>1, <2>2 DEF OperatorFails
<1>3. CASE RemovedRuleReturnsTrue
  <2>1. LeaveRule \/ \E l \in 1 .. Len(chain) : ExecuteLink(l)
    <3>1. link # 1 => link - 1 \in 1 .. Len(chain)
      BY <1>p
    <3> QED
      BY <1>3, <3>1 DEF RemovedRuleReturnsTrue
  <2>2. InRange' /\ pc' \in {"exec", "after"} /\ todo' \in Seq(Action)
           /\ link' \in Nat
    BY <1>0, <1>3, <2>1, LinkEnds DEF RemovedRuleReturnsTrue
  <2>3. LoopTypeOK'
    BY <1>3, <2>2 DEF RemovedRuleReturnsTrue, LoopTypeOK
  <2> QED
    BY <1>3, <2>2, <2>3 DEF RemovedRuleReturnsTrue
<1>4. CASE LinkExecuted
  <2>1. LeaveRule \/ \E l \in 1 .. Len(chain) : ExecuteLink(l)
    <3>1. link > 1 => link - 1 \in 1 .. Len(chain)
      BY <1>p
    <3> QED
      BY <1>4, <3>1 DEF LinkExecuted
  <2>2. InRange' /\ pc' \in {"exec", "after"} /\ todo' \in Seq(Action)
           /\ link' \in Nat
    BY <1>0, <1>4, <2>1, LinkEnds DEF LinkExecuted
  <2>3. LoopTypeOK'
    BY <1>4, <2>2 DEF LinkExecuted, LoopTypeOK
  <2>4. ReportTypeOK'
    <3>1. ruleMessage.disruptive \in BOOLEAN
      BY DEF LoopTypeOK
    <3>2. Message(ruleMessage.disruptive) \in MessageType
      BY <3>1, <1>p, MessageTypes
    <3>3. m_rulesMessages \in Seq(MessageType)
      BY DEF ReportTypeOK, MessageType
    <3>4. Append(m_rulesMessages, Message(ruleMessage.disruptive))
            \in Seq(MessageType)
      BY <3>2, <3>3
    <3> QED
      BY <1>4, <3>3, <3>4 DEF LinkExecuted, ReportTypeOK, MessageType
  <2> QED
    BY <1>4, <2>2, <2>3, <2>4 DEF LinkExecuted
<1> QED
  BY <1>1, <1>2, <1>3, <1>4 DEF ChainStep

-----------------------------------------------------------------------------
(* The actions of a rule.                                                  *)

(* The action that is executed and the ones left are actions.              *)
LEMMA HeadOfTodo ==
    ASSUME todo \in Seq(Action), todo # << >>
    PROVE  Head(todo) \in Action /\ Tail(todo) \in Seq(Action)
OBVIOUS

LEMMA RunningType ==
    ASSUME TypeInv, NEW names, Running(names)
    PROVE  /\ pc = "exec" /\ Head(todo) \in Action /\ todo' \in Seq(Action)
           /\ Head(todo).name \in names /\ Arg = Head(todo).arg
BY HeadOfTodo DEF Running, Arg, TypeInv, TypeOK, EngineTypeOK, LoopTypeOK

(* The position of the evaluation does not change while actions run.       *)
LEMMA ExecLeavesType ==
    ASSUME TypeInv, pc = "exec", UNCHANGED <<config, pc, phase, i, link, hits>>,
           todo' \in Seq(Action),
           ruleMessage' \in [save : BOOLEAN, disruptive : BOOLEAN]
    PROVE  config' \in Configs /\ LoopTypeOK' /\ InRange'
<1>1. InRange'
  BY Position, StaysInRule
<1> QED
  BY <1>1 DEF TypeInv, TypeOK, EngineTypeOK, LoopTypeOK

LEMMA ItTypes ==
    ASSUME NEW it \in Intervention, phase \in Phases, i \in Nat
    PROVE  /\ denied(it) \in Intervention
           /\ \A url \in Urls : redirected(it, url) \in Intervention
           /\ reset(it) \in Intervention
           /\ freeIt(it) \in Intervention
           /\ \A st \in Nat : [it EXCEPT !.status = st] \in Intervention
<1>0. /\ \A st \in Nat, url \in Urls \cup {None},
            log \in (Phases \X Nat) \cup {None, "limit"}, d \in BOOLEAN :
          [it EXCEPT !.status = st, !.url = url, !.disruptive = d, !.log = log]
            \in Intervention
      /\ \A st \in Nat, log \in (Phases \X Nat) \cup {None, "limit"},
            d \in BOOLEAN :
          [it EXCEPT !.status = st, !.disruptive = d, !.log = log]
            \in Intervention
  BY DEF Intervention
<1>s. it.status \in Nat /\ <<phase, i>> \in (Phases \X Nat) \cup {None, "limit"}
  BY DEF Intervention
<1>1. denied(it) \in Intervention
  <2> DEFINE st == IF it.status = 200 THEN 403 ELSE it.status
  <2>1. st \in Nat
    BY <1>s
  <2> HIDE DEF st
  <2>2. [it EXCEPT !.status = st, !.disruptive = TRUE, !.log = <<phase, i>>]
          \in Intervention
    BY <2>1, <1>s, <1>0
  <2> QED
    BY <2>2 DEF denied, st
<1>2. ASSUME NEW url \in Urls PROVE redirected(it, url) \in Intervention
  <2> DEFINE st == IF it.status \in 301 .. 307 THEN it.status ELSE 302
  <2>1. st \in Nat
    BY <1>s
  <2> HIDE DEF st
  <2>2. [it EXCEPT !.status = st, !.url = url, !.disruptive = TRUE,
                   !.log = <<phase, i>>] \in Intervention
    BY <2>1, <1>s, <1>0
  <2> QED
    BY <2>2 DEF redirected, st
<1>3. reset(it) \in Intervention /\ freeIt(it) \in Intervention
  BY ZenonT(60) DEF reset, freeIt, Intervention
<1>4. ASSUME NEW st \in Nat PROVE [it EXCEPT !.status = st] \in Intervention
  BY DEF Intervention
<1> QED
  BY <1>1, <1>2, <1>3, <1>4

LEMMA TypeActions ==
    ASSUME TypeInv, ActionStep, UNCHANGED <<apiVars, dataVars>>
    PROVE  TypeInv'
<1> USE DEF TypeInv, TypeOK, EngineTypeOK, ExecLeaves
<1> USE ControlKept, BodyCtlKept, ReportKept, ApiKept, DataKept
<1>r. ruleMessage \in [save : BOOLEAN, disruptive : BOOLEAN]
  BY DEF LoopTypeOK
<1>a. pc = "exec" => phase \in Phases /\ i \in Nat
  BY Position DEF LoopTypeOK
<1>i. m_it \in Intervention
  BY DEF ReportTypeOK
<1>1. CASE SkipDisruptive
  <2>1. todo' \in Seq(Action)
    BY <1>1, HeadOfTodo DEF SkipDisruptive, LoopTypeOK
  <2>2. config' \in Configs /\ LoopTypeOK' /\ InRange'
    BY <2>1, <1>1, <1>r, ExecLeavesType DEF SkipDisruptive
  <2> QED
    BY <2>2, <1>1 DEF SkipDisruptive
<1>2. CASE ExecDeny
  <2>1. /\ pc = "exec" /\ Head(todo) \in Action /\ todo' \in Seq(Action)
        /\ Head(todo).name \in {"deny"} /\ Arg = Head(todo).arg
    BY <1>2, RunningType DEF ExecDeny
  <2>2. config' \in Configs /\ LoopTypeOK' /\ InRange'
    <3>1. ruleMessage' \in [save : BOOLEAN, disruptive : BOOLEAN]
      BY <1>2, <1>r DEF ExecDeny
    <3> QED
      BY <2>1, <3>1, <1>2, ExecLeavesType DEF ExecDeny
  <2>3. ReportTypeOK'
    BY <2>1, <1>2, <1>a, <1>i, ItTypes DEF ExecDeny, ReportTypeOK
  <2> QED
    BY <2>2, <2>3, <1>2 DEF ExecDeny
<1>3. CASE ExecRedirect
  <2>1. /\ pc = "exec" /\ Head(todo) \in Action /\ todo' \in Seq(Action)
        /\ Head(todo).name \in {"redirect"} /\ Arg = Head(todo).arg
    BY <1>3, RunningType DEF ExecRedirect
  <2>2. config' \in Configs /\ LoopTypeOK' /\ InRange'
    <3>1. ruleMessage' \in [save : BOOLEAN, disruptive : BOOLEAN]
      BY <1>3, <1>r DEF ExecRedirect
    <3> QED
      BY <2>1, <3>1, <1>3, ExecLeavesType DEF ExecRedirect
  <2>3. ReportTypeOK'
    BY <2>1, <1>3, <1>a, <1>i, ItTypes, ArgTypes DEF ExecRedirect, ReportTypeOK
  <2> QED
    BY <2>2, <2>3, <1>3 DEF ExecRedirect
<1>4. CASE ExecPass
  <2>1. /\ pc = "exec" /\ Head(todo) \in Action /\ todo' \in Seq(Action)
        /\ Head(todo).name \in {"pass"} /\ Arg = Head(todo).arg
    BY <1>4, RunningType DEF ExecPass
  <2>2. config' \in Configs /\ LoopTypeOK' /\ InRange'
    BY <2>1, <1>4, <1>r, ExecLeavesType DEF ExecPass
  <2>3. ReportTypeOK'
    <3>1. freeIt(m_it) \in Intervention
      BY <2>1, <1>a, <1>i, ItTypes
    <3>2. reset(freeIt(m_it)) \in Intervention
      BY <2>1, <3>1, <1>a, ItTypes
    <3> QED
      BY <3>2, <1>4 DEF ExecPass, ReportTypeOK
  <2> QED
    BY <2>2, <2>3, <1>4 DEF ExecPass
<1>5. CASE ExecAllow
  <2>1. /\ pc = "exec" /\ Head(todo) \in Action /\ todo' \in Seq(Action)
        /\ Head(todo).name \in {"allow"} /\ Arg = Head(todo).arg
    BY <1>5, RunningType DEF ExecAllow
  <2>2. config' \in Configs /\ LoopTypeOK' /\ InRange'
    BY <2>1, <1>5, <1>r, ExecLeavesType DEF ExecAllow
  <2>3. ControlTypeOK'
    <3>1. Arg \in AllowTypes \ {"NoneAllow"} /\ phase \in Phases
      BY <2>1, <1>a, ArgTypes
    <3>2. granted' \in [type : AllowTypes \ {"NoneAllow"}, phase : Phases]
      BY <3>1, <1>5 DEF ExecAllow
    <3> QED
      BY <3>1, <3>2, <1>5 DEF ExecAllow, ControlTypeOK
  <2> QED
    BY <2>2, <2>3, <1>5 DEF ExecAllow
<1>6. CASE ExecBlock
  <2>1. todo' \in Seq(Action)
    <3>1. Tail(todo) \in Seq(Action)
      BY <1>6, HeadOfTodo DEF ExecBlock, LoopTypeOK
    <3>2. rs.defaults[phase] \in ActionList(Action)
      BY <1>6, <1>a, RuleSetFacts, RuleSetParts DEF ExecBlock, RuleSet
    <3>3. rs.defaults[phase].disruptive \in Seq(Action)
      BY <3>2 DEF ActionList
    <3>4. rs.defaults[phase].disruptive \o Tail(todo) \in Seq(Action)
      BY ONLY <3>1, <3>3, Concatenated
    <3> QED
      BY <3>4, <1>6 DEF ExecBlock
  <2>2. config' \in Configs /\ LoopTypeOK' /\ InRange'
    BY <2>1, <1>6, <1>r, ExecLeavesType DEF ExecBlock
  <2> QED
    BY <2>2, <1>6 DEF ExecBlock
<1>7. CASE ExecStatus
  <2>1. /\ pc = "exec" /\ Head(todo) \in Action /\ todo' \in Seq(Action)
        /\ Head(todo).name \in {"status"} /\ Arg = Head(todo).arg
    BY <1>7, RunningType DEF ExecStatus
  <2>2. config' \in Configs /\ LoopTypeOK' /\ InRange'
    BY <2>1, <1>7, <1>r, ExecLeavesType DEF ExecStatus
  <2>3. ReportTypeOK'
    <3>1. Arg \in Nat
      BY <2>1, ArgTypes, StatusAssumption
    <3> QED
      BY <3>1, <2>1, <1>7, <1>a, <1>i, ItTypes DEF ExecStatus, ReportTypeOK
  <2> QED
    BY <2>2, <2>3, <1>7 DEF ExecStatus
<1>8. CASE ExecLog
  <2>1. /\ pc = "exec" /\ Head(todo) \in Action /\ todo' \in Seq(Action)
        /\ Head(todo).name \in {"log", "nolog"} /\ Arg = Head(todo).arg
    BY <1>8, RunningType DEF ExecLog
  <2>2. config' \in Configs /\ LoopTypeOK' /\ InRange'
    <3>1. ruleMessage' \in [save : BOOLEAN, disruptive : BOOLEAN]
      BY <1>8, <1>r DEF ExecLog
    <3> QED
      BY <2>1, <3>1, <1>8, ExecLeavesType DEF ExecLog
  <2> QED
    BY <2>2, <1>8 DEF ExecLog
<1>9. CASE ExecSkip
  <2>1. /\ pc = "exec" /\ Head(todo) \in Action /\ todo' \in Seq(Action)
        /\ Head(todo).name \in {"skip"} /\ Arg = Head(todo).arg
    BY <1>9, RunningType DEF ExecSkip
  <2>2. config' \in Configs /\ LoopTypeOK' /\ InRange'
    BY <2>1, <1>9, <1>r, ExecLeavesType DEF ExecSkip
  <2>3. ControlTypeOK'
    <3>1. Arg \in Nat
      BY <2>1, ArgTypes
    <3> QED
      BY <3>1, <1>9 DEF ExecSkip, ControlTypeOK
  <2> QED
    BY <2>2, <2>3, <1>9 DEF ExecSkip
<1>10. CASE ExecSkipAfter
  <2>1. /\ pc = "exec" /\ Head(todo) \in Action /\ todo' \in Seq(Action)
        /\ Head(todo).name \in {"skipAfter"} /\ Arg = Head(todo).arg
    BY <1>10, RunningType DEF ExecSkipAfter
  <2>2. config' \in Configs /\ LoopTypeOK' /\ InRange'
    BY <2>1, <1>10, <1>r, ExecLeavesType DEF ExecSkipAfter
  <2>3. ControlTypeOK'
    <3>1. Arg \in Markers
      BY <2>1, ArgTypes
    <3> QED
      BY <3>1, <1>10 DEF ExecSkipAfter, ControlTypeOK
  <2> QED
    BY <2>2, <2>3, <1>10 DEF ExecSkipAfter
<1>11. CASE ExecCtlRuleEngine
  <2>1. /\ pc = "exec" /\ Head(todo) \in Action /\ todo' \in Seq(Action)
        /\ Head(todo).name \in {"ctl:ruleEngine"} /\ Arg = Head(todo).arg
    BY <1>11, RunningType DEF ExecCtlRuleEngine
  <2>2. config' \in Configs /\ LoopTypeOK' /\ InRange'
    BY <2>1, <1>11, <1>r, ExecLeavesType DEF ExecCtlRuleEngine
  <2>3. ControlTypeOK'
    <3>1. Arg \in EngineStates
      BY <2>1, ArgTypes
    <3> QED
      BY <3>1, <1>11 DEF ExecCtlRuleEngine, ControlTypeOK
  <2> QED
    BY <2>2, <2>3, <1>11 DEF ExecCtlRuleEngine
<1>12. CASE ExecCtlRuleRemoveById
  <2>1. /\ pc = "exec" /\ Head(todo) \in Action /\ todo' \in Seq(Action)
        /\ Head(todo).name \in {"ctl:ruleRemoveById"} /\ Arg = Head(todo).arg
    BY <1>12, RunningType DEF ExecCtlRuleRemoveById
  <2>2. config' \in Configs /\ LoopTypeOK' /\ InRange'
    BY <2>1, <1>12, <1>r, ExecLeavesType DEF ExecCtlRuleRemoveById
  <2>3. ControlTypeOK'
    <3>1. Arg \subseteq Ids
      BY <2>1, ArgTypes
    <3> QED
      BY <3>1, <1>12 DEF ExecCtlRuleRemoveById, ControlTypeOK
  <2> QED
    BY <2>2, <2>3, <1>12 DEF ExecCtlRuleRemoveById
<1>13. CASE ExecCtlRuleRemoveByTag
  <2>1. /\ pc = "exec" /\ Head(todo) \in Action /\ todo' \in Seq(Action)
        /\ Head(todo).name \in {"ctl:ruleRemoveByTag"} /\ Arg = Head(todo).arg
    BY <1>13, RunningType DEF ExecCtlRuleRemoveByTag
  <2>2. config' \in Configs /\ LoopTypeOK' /\ InRange'
    BY <2>1, <1>13, <1>r, ExecLeavesType DEF ExecCtlRuleRemoveByTag
  <2>3. ControlTypeOK'
    <3>1. Arg \in Tags
      BY <2>1, ArgTypes
    <3> QED
      BY <3>1, <1>13 DEF ExecCtlRuleRemoveByTag, ControlTypeOK
  <2> QED
    BY <2>2, <2>3, <1>13 DEF ExecCtlRuleRemoveByTag
<1>14. CASE ExecCtlRequestBodyAccess
  <2>1. /\ pc = "exec" /\ Head(todo) \in Action /\ todo' \in Seq(Action)
        /\ Head(todo).name \in {"ctl:requestBodyAccess"} /\ Arg = Head(todo).arg
    BY <1>14, RunningType DEF ExecCtlRequestBodyAccess
  <2>2. config' \in Configs /\ LoopTypeOK' /\ InRange'
    BY <2>1, <1>14, <1>r, ExecLeavesType DEF ExecCtlRequestBodyAccess
  <2>3. BodyCtlTypeOK'
    <3>1. Arg \in ConfigBools
      BY <2>1, ArgTypes DEF ConfigBools
    <3> QED
      BY <3>1, <1>14 DEF ExecCtlRequestBodyAccess, BodyCtlTypeOK
  <2> QED
    BY <2>2, <2>3, <1>14 DEF ExecCtlRequestBodyAccess
<1>15. CASE ExecCtlRequestBodyProcessor
  <2>1. /\ pc = "exec" /\ Head(todo) \in Action /\ todo' \in Seq(Action)
        /\ Head(todo).name \in {"ctl:requestBodyProcessor"} /\ Arg = Head(todo).arg
    BY <1>15, RunningType DEF ExecCtlRequestBodyProcessor
  <2>2. config' \in Configs /\ LoopTypeOK' /\ InRange'
    BY <2>1, <1>15, <1>r, ExecLeavesType DEF ExecCtlRequestBodyProcessor
  <2>3. BodyCtlTypeOK'
    <3>1. Arg \in {"URLENCODED", "JSON", "XML"}
      BY <2>1, ArgTypes
    <3> QED
      BY <3>1, <1>15 DEF ExecCtlRequestBodyProcessor, BodyCtlTypeOK, BodyFormats
  <2> QED
    BY <2>2, <2>3, <1>15 DEF ExecCtlRequestBodyProcessor
<1> QED
  BY <1>1, <1>2, <1>3, <1>4, <1>5, <1>6, <1>7, <1>8, <1>9, <1>10, <1>11, <1>12, <1>13, <1>14, <1>15
     DEF ActionStep

-----------------------------------------------------------------------------
(* The calls of the API.  What is written of a chunk that does not fit is  *)
(* limit - len bytes, a natural number only because the body never         *)
(* outgrows its limit: type correctness and BodyBounded go together.       *)

TransactionInv == TypeInv /\ BodyBounded

LEMMA BoundedKept == BodyBounded /\ UNCHANGED <<config, body>> => BodyBounded'
BY DEF BodyBounded, rs

LEMMA EvaluateType ==
    ASSUME TypeInv, NEW p \in Phases, evaluate(p)
    PROVE  LoopTypeOK' /\ ControlTypeOK' /\ InRange'
<1> USE DEF TypeInv, TypeOK, EngineTypeOK, evaluate
<1>1. LoopTypeOK'
  BY DEF LoopTypeOK
<1>2. ControlTypeOK'
  BY DEF ControlTypeOK, AllowTypes
<1>3. InRange'
  BY DEF InRange
<1> QED
  BY <1>1, <1>2, <1>3

LEMMA ReturnsType ==
    ASSUME TypeInv, pc = "idle", Returns
    PROVE  LoopTypeOK' /\ ControlTypeOK' /\ InRange'
<1>1. LoopTypeOK' /\ ControlTypeOK'
  BY LoopKept, ControlKept DEF Returns, TypeInv, TypeOK, EngineTypeOK
<1>2. pc' = "idle"
  BY DEF Returns, loopVars
<1> QED
  BY <1>1, <1>2 DEF InRange

LEMMA CalledType ==
    ASSUME TypeInv, NEW p \in Phases, Called(p)
    PROVE  ApiTypeOK'
BY Zenon DEF Called, TypeInv, TypeOK, ApiTypeOK

LEMMA UntouchedType ==
    ASSUME TypeInv, EngineUntouched
    PROVE  config' \in Configs /\ BodyCtlTypeOK' /\ ReportTypeOK'
BY BodyCtlKept, ReportKept DEF EngineUntouched, TypeInv, TypeOK, EngineTypeOK

(* A call that runs the rules of phase p or returns at once.               *)
LEMMA CallType ==
    ASSUME TransactionInv, NEW p \in Phases, MayCall(p), Called(p),
           EngineUntouched, evaluate(p) \/ Returns, DataTypeOK', UNCHANGED body
    PROVE  TransactionInv'
<1>1. LoopTypeOK' /\ ControlTypeOK' /\ InRange'
  BY EvaluateType, ReturnsType DEF MayCall, TransactionInv
<1>2. BodyBounded'
  BY BoundedKept DEF EngineUntouched, TransactionInv
<1> QED
  BY <1>1, <1>2, CalledType, UntouchedType
     DEF TransactionInv, TypeInv, TypeOK, EngineTypeOK

(* The phases are numbered as modsecurity.h does.                          *)
LEMMA PhaseNumbers ==
    /\ ConnectionPhase \in Phases /\ UriPhase \in Phases
    /\ RequestHeadersPhase \in Phases /\ RequestBodyPhase \in Phases
    /\ ResponseHeadersPhase \in Phases /\ ResponseBodyPhase \in Phases
    /\ LoggingPhase \in Phases
BY DEF Phases, ConnectionPhase, UriPhase, RequestHeadersPhase,
       RequestBodyPhase, ResponseHeadersPhase, ResponseBodyPhase, LoggingPhase

LEMMA PlainCalls ==
    ASSUME TransactionInv,
           \/ processConnection \/ processURI \/ processRequestHeaders
           \/ processResponseHeaders \/ processLogging
    PROVE  TransactionInv'
<1>1. DataTypeOK' /\ UNCHANGED body
  BY DataKept DEF processConnection, processURI, processRequestHeaders,
       processResponseHeaders, processLogging, TransactionInv, TypeInv,
       TypeOK, dataVars
<1>2. CASE processConnection
  BY <1>1, <1>2, CallType, PhaseNumbers DEF processConnection
<1>3. CASE processURI
  BY <1>1, <1>3, CallType, PhaseNumbers DEF processURI
<1>4. CASE processRequestHeaders
  BY <1>1, <1>4, CallType, PhaseNumbers DEF processRequestHeaders
<1>5. CASE processResponseHeaders
  BY <1>1, <1>5, CallType, PhaseNumbers DEF processResponseHeaders
<1>6. CASE processLogging
  BY <1>1, <1>6, CallType, PhaseNumbers DEF processLogging
<1> QED
  BY <1>2, <1>3, <1>4, <1>5, <1>6

LEMMA BodyCalls ==
    ASSUME TransactionInv,
           \/ \E ok \in BOOLEAN, files \in 0 .. body["req"].len :
                 processRequestBody(ok, files)
           \/ processResponseBody
    PROVE  TransactionInv'
<1> USE DEF TransactionInv, TypeInv, TypeOK
<1>1. CASE \E ok \in BOOLEAN, files \in 0 .. body["req"].len :
             processRequestBody(ok, files)
  <2> PICK ok \in BOOLEAN, files \in 0 .. body["req"].len :
             processRequestBody(ok, files)
    BY <1>1
  <2>1. reqbodyError \in {"", "0", "1"} /\ dataError["req"] \in {"", "0", "1"}
    BY DEF DataTypeOK, Sides
  <2>2. ParsedError(ok, files) \in {"", "0", "1"}
    BY <2>1 DEF ParsedError
  <2>3. ParsedDataError(ok, files) \in {"", "0", "1"}
    BY <2>1 DEF ParsedDataError
  <2>4. DataTypeOK' /\ UNCHANGED body
    BY <2>2, <2>3 DEF processRequestBody, DataTypeOK
  <2>5. evaluate(RequestBodyPhase) \/ Returns
    BY DEF processRequestBody
  <2> QED
    BY <2>4, <2>5, CallType, PhaseNumbers DEF processRequestBody
<1>2. CASE processResponseBody
  <2>1. dataError["res"] \in {"", "0", "1"}
    BY DEF DataTypeOK, Sides
  <2>2. DataTypeOK' /\ UNCHANGED body
    BY <1>2, <2>1 DEF processResponseBody, DataTypeOK
  <2>3. evaluate(ResponseBodyPhase) \/ Returns
    BY <1>2 DEF processResponseBody
  <2> QED
    BY <1>2, <2>2, <2>3, CallType, PhaseNumbers DEF processResponseBody
<1> QED
  BY <1>1, <1>2

LEMMA HeaderCalls ==
    ASSUME TransactionInv,
           \/ \E t \in ContentTypes : addRequestHeader(t)
           \/ \E t \in ResponseTypes : addResponseHeader(t)
    PROVE  TransactionInv'
<1> USE DEF TransactionInv, TypeInv, TypeOK, EngineTypeOK
<1>1. CASE \E t \in ContentTypes : addRequestHeader(t)
  <2> PICK t \in ContentTypes : addRequestHeader(t)
    BY <1>1
  <2>1. t \in BodyFormats
    BY TransactionAssumption DEF BodyFormats
  <2>2. BodyCtlTypeOK'
    BY <2>1 DEF addRequestHeader, BodyCtlTypeOK
  <2>3. LoopTypeOK' /\ ControlTypeOK' /\ InRange'
    BY ReturnsType DEF addRequestHeader, MayCall, Returns
  <2>4. BodyBounded'
    BY BoundedKept DEF addRequestHeader, dataVars
  <2> QED
    BY <2>2, <2>3, <2>4, ReportKept, ApiKept, DataKept DEF addRequestHeader
<1>2. CASE \E t \in ResponseTypes : addResponseHeader(t)
  <2> PICK t \in ResponseTypes : addResponseHeader(t)
    BY <1>2
  <2>1. t \in {"listed", "other"}
    BY TransactionAssumption
  <2>2. DataTypeOK'
    BY <2>1 DEF addResponseHeader, DataTypeOK
  <2>3. LoopTypeOK' /\ ControlTypeOK' /\ InRange'
    BY ReturnsType DEF addResponseHeader, MayCall
  <2>4. BodyBounded'
    BY BoundedKept DEF addResponseHeader, EngineUntouched
  <2> QED
    BY <2>2, <2>3, <2>4, UntouchedType, ApiKept DEF addResponseHeader
<1> QED
  BY <1>1, <1>2

(* Writing k of the n bytes of a chunk: the arithmetic of write.           *)
LEMMA WriteBounded ==
    ASSUME NEW b \in [sent : Nat, len : Nat, kept : SUBSET Nat],
           b.kept \subseteq 1 .. b.sent, NEW n \in Nat, NEW k \in 0 .. n
    PROVE  /\ write(b, n, k) \in [sent : Nat, len : Nat, kept : SUBSET Nat]
           /\ write(b, n, k).len = b.len + k
           /\ write(b, n, k).kept \subseteq 1 .. write(b, n, k).sent
BY DEF write

(* A chunk of which k bytes fit below the limit.                           *)
LEMMA WriteKeepsBounded ==
    ASSUME TransactionInv, NEW s \in Sides, NEW n \in Nat, NEW k \in 0 .. n,
           rs.limit[s] > 0 => body[s].len + k <= rs.limit[s],
           body' = [body EXCEPT ![s] = write(@, n, k)], UNCHANGED config
    PROVE  /\ BodyBounded'
           /\ body' \in [Sides -> [sent : Nat, len : Nat, kept : SUBSET Nat]]
<1>1. body \in [Sides -> [sent : Nat, len : Nat, kept : SUBSET Nat]]
  BY DEF TransactionInv, TypeInv, TypeOK, DataTypeOK
<1>2. /\ body[s] \in [sent : Nat, len : Nat, kept : SUBSET Nat]
      /\ body[s].kept \subseteq 1 .. body[s].sent
  BY <1>1 DEF TransactionInv, BodyBounded
<1>3. /\ write(body[s], n, k) \in [sent : Nat, len : Nat, kept : SUBSET Nat]
      /\ write(body[s], n, k).len = body[s].len + k
      /\ write(body[s], n, k).kept \subseteq 1 .. write(body[s], n, k).sent
  BY <1>2, WriteBounded
<1>4. body'[s] = write(body[s], n, k)
      /\ \A x \in Sides \ {s} : body'[x] = body[x]
  BY <1>1
<1>5. body' \in [Sides -> [sent : Nat, len : Nat, kept : SUBSET Nat]]
  BY <1>1, <1>3
<1>6. rs' = rs
  BY DEF rs
<1>7. ASSUME NEW x \in Sides
      PROVE  /\ rs'.limit[x] > 0 => body'[x].len <= rs'.limit[x]
             /\ body'[x].kept \subseteq 1 .. body'[x].sent
  <2>1. CASE x = s
    BY <2>1, <1>3, <1>4, <1>6
  <2>2. CASE x # s
    BY <2>2, <1>4, <1>6 DEF TransactionInv, BodyBounded
  <2> QED
    BY <2>1, <2>2
<1> QED
  BY <1>5, <1>7 DEF BodyBounded

LEMMA FeedType ==
    ASSUME TransactionInv, NEW s \in Sides, NEW n \in Nat, Feed(s, n)
    PROVE  /\ config' = config /\ config' \in Configs /\ LoopTypeOK'
           /\ ControlTypeOK' /\ InRange' /\ BodyCtlTypeOK' /\ ApiTypeOK'
           /\ UNCHANGED <<m_rulesMessages, reqbodyError, responseType>>
<1> USE DEF TransactionInv, TypeInv, TypeOK, EngineTypeOK
<1>1. LoopTypeOK' /\ ControlTypeOK' /\ InRange'
  BY ReturnsType DEF Feed, MayCall, Returns
<1>2. ApiTypeOK'
  BY Zenon DEF Feed, ApiTypeOK
<1> QED
  BY <1>1, <1>2, BodyCtlKept DEF Feed

(* The intervention that a rejected body makes.                            *)
LEMMA LimitIntervention ==
    ASSUME NEW it \in Intervention
    PROVE  [it EXCEPT !.log = "limit", !.status = 403, !.disruptive = TRUE]
             \in Intervention
<1>1. \A st \in Nat, log \in (Phases \X Nat) \cup {None, "limit"},
         d \in BOOLEAN :
        [it EXCEPT !.log = log, !.status = st, !.disruptive = d]
          \in Intervention
  BY DEF Intervention
<1>2. 403 \in Nat /\ "limit" \in (Phases \X Nat) \cup {None, "limit"}
  OBVIOUS
<1> QED
  BY <1>1, <1>2, ZenonT(60)

LEMMA AppendCalls ==
    ASSUME TransactionInv, NEW s \in Sides, NEW n \in ChunkSizes,
           appendBody(s, n)
    PROVE  TransactionInv'
<1> USE DEF TransactionInv, TypeInv, TypeOK, EngineTypeOK
<1>n. n \in Nat
  BY TransactionAssumption
<1>f. /\ config' = config /\ config' \in Configs /\ LoopTypeOK'
      /\ ControlTypeOK' /\ InRange' /\ BodyCtlTypeOK' /\ ApiTypeOK'
      /\ UNCHANGED <<m_rulesMessages, reqbodyError, responseType>>
  BY <1>n, FeedType DEF appendBody, AppendWhole, AppendPartial,
       AppendRejected, AppendUninspected
<1>l. body[s].len \in Nat /\ rs.limit[s] \in Nat
  BY RuleSetFacts DEF DataTypeOK, RuleSet, RuleSetOver
<1>b. rs.limit[s] > 0 => body[s].len <= rs.limit[s]
  BY DEF BodyBounded
<1>d. dataError \in [Sides -> {"", "0", "1"}]
      /\ [dataError EXCEPT ![s] = "1"] \in [Sides -> {"", "0", "1"}]
  BY DEF DataTypeOK
<1>m. m_it \in Intervention /\ m_rulesMessages \in Seq(MessageType)
  BY DEF ReportTypeOK, MessageType
<1>1. CASE AppendWhole(s, n)
  <2>1. n \in 0 .. n /\ (rs.limit[s] > 0 => body[s].len + n <= rs.limit[s])
    BY <1>1, <1>n, <1>l DEF AppendWhole, OverLimit
  <2>2. BodyBounded'
        /\ body' \in [Sides -> [sent : Nat, len : Nat, kept : SUBSET Nat]]
    BY <1>1, <1>n, <1>f, <2>1, WriteKeepsBounded DEF AppendWhole
  <2>3. DataTypeOK' /\ ReportTypeOK'
    BY <1>1, <1>f, <2>2 DEF AppendWhole, DataTypeOK, ReportTypeOK
  <2> QED
    BY <1>f, <2>2, <2>3
<1>2. CASE AppendPartial(s, n)
  <2>1. /\ rs.limit[s] - body[s].len \in 0 .. n
        /\ body[s].len + (rs.limit[s] - body[s].len) <= rs.limit[s]
    BY <1>2, <1>n, <1>l, <1>b DEF AppendPartial, OverLimit
  <2>2. body' = [body EXCEPT ![s] = write(@, n, rs.limit[s] - body[s].len)]
    BY <1>2 DEF AppendPartial, DataTypeOK
  <2>3. BodyBounded'
        /\ body' \in [Sides -> [sent : Nat, len : Nat, kept : SUBSET Nat]]
    BY <1>n, <1>f, <2>1, <2>2, WriteKeepsBounded
  <2>4. DataTypeOK' /\ ReportTypeOK'
    BY <1>2, <1>f, <1>d, <2>3 DEF AppendPartial, DataTypeOK, ReportTypeOK
  <2> QED
    BY <1>f, <2>3, <2>4
<1>3. CASE AppendRejected(s, n)
  <2>1. 0 \in 0 .. n /\ (rs.limit[s] > 0 => body[s].len + 0 <= rs.limit[s])
    BY <1>n, <1>l, <1>b
  <2>2. BodyBounded'
        /\ body' \in [Sides -> [sent : Nat, len : Nat, kept : SUBSET Nat]]
    BY <1>3, <1>n, <1>f, <2>1, WriteKeepsBounded DEF AppendRejected
  <2>3. [freeIt(m_it) EXCEPT !.log = "limit", !.status = 403,
                             !.disruptive = TRUE] \in Intervention
    <3>1. freeIt(m_it) \in Intervention
      BY <1>m DEF freeIt, Intervention
    <3> QED
      BY <3>1, LimitIntervention
  <2>4. m_it' \in Intervention
    BY <1>3, <1>m, <2>3 DEF AppendRejected
  <2>5. DataTypeOK' /\ ReportTypeOK'
    BY <1>3, <1>f, <1>d, <1>m, <2>2, <2>4
       DEF AppendRejected, DataTypeOK, ReportTypeOK, MessageType
  <2> QED
    BY <1>f, <2>2, <2>5
<1>4. CASE AppendUninspected(s, n)
  <2>1. 0 \in 0 .. n /\ (rs.limit[s] > 0 => body[s].len + 0 <= rs.limit[s])
    BY <1>n, <1>l, <1>b
  <2>2. BodyBounded'
        /\ body' \in [Sides -> [sent : Nat, len : Nat, kept : SUBSET Nat]]
    BY <1>4, <1>n, <1>f, <2>1, WriteKeepsBounded DEF AppendUninspected
  <2>3. DataTypeOK' /\ ReportTypeOK'
    BY <1>4, <1>f, <2>2 DEF AppendUninspected, DataTypeOK, ReportTypeOK
  <2> QED
    BY <1>f, <2>2, <2>3
<1> QED
  BY <1>1, <1>2, <1>3, <1>4 DEF appendBody

LEMMA InterventionCall ==
    ASSUME TransactionInv, intervention
    PROVE  TransactionInv'
<1> USE DEF TransactionInv, TypeInv, TypeOK, EngineTypeOK
<1>1. LoopTypeOK' /\ ControlTypeOK' /\ InRange'
  BY ReturnsType DEF intervention, Returns
<1>2. m_it \in Intervention /\ reset(m_it) \in Intervention
  BY ZenonT(60) DEF reset, Intervention, ReportTypeOK
<1>3. ReportTypeOK'
  BY <1>2 DEF intervention, ReportTypeOK
<1>4. delivered \in Seq(Intervention)
      /\ Append(delivered, m_it) \in Seq(Intervention)
  BY <1>2 DEF ApiTypeOK
<1>5. ApiTypeOK'
  BY <1>4, Zenon DEF intervention, ApiTypeOK
<1>6. BodyBounded'
  BY BoundedKept DEF intervention, dataVars
<1> QED
  BY <1>1, <1>3, <1>5, <1>6, BodyCtlKept, DataKept DEF intervention

-----------------------------------------------------------------------------
LEMMA InvInit == Init => TransactionInv
<1> SUFFICES ASSUME Init PROVE TransactionInv
  OBVIOUS
<1>1. TypeInv
  BY TypeInit
<1>2. BodyBounded
  <2>1. \A s \in Sides : body[s].len = 0 /\ body[s].sent = 0
                         /\ body[s].kept = {}
    BY DEF Init, EmptyBody
  <2>2. \A s \in Sides : rs.limit[s] \in Nat
    BY <1>1, RuleSetFacts DEF RuleSet, RuleSetOver
  <2> QED
    BY <2>1, <2>2 DEF BodyBounded
<1> QED
  BY <1>1, <1>2 DEF TransactionInv

LEMMA InvNext == TransactionInv /\ [Next]_vars => TransactionInv'
<1> SUFFICES ASSUME TransactionInv, [Next]_vars PROVE TransactionInv'
  OBVIOUS
<1>1. CASE ApiCall
  BY <1>1, PlainCalls, HeaderCalls, AppendCalls, BodyCalls, InterventionCall
     DEF ApiCall
<1>2. CASE RuleStep
  <2>1. TypeInv'
    BY <1>2, TypeLoop, TypeChain, TypeActions
       DEF RuleStep, EvaluationStep, TransactionInv
  <2>2. UNCHANGED <<config, body>>
    BY <1>2 DEF RuleStep, EvaluationStep, LoopStep, SkipInsideMarker,
         EvaluateMarker, SkipNext, SkipAllowedOrRemoved, StartRule, AfterRule,
         EndPhase, ChainStep, OperatorMatches, OperatorFails,
         RemovedRuleReturnsTrue, LinkExecuted, ActionStep, SkipDisruptive,
         ExecLeaves, ExecDeny, ExecRedirect, ExecPass, ExecAllow, ExecBlock,
         ExecStatus, ExecLog, ExecSkip, ExecSkipAfter, ExecCtlRuleEngine,
         ExecCtlRuleRemoveById, ExecCtlRuleRemoveByTag,
         ExecCtlRequestBodyAccess, ExecCtlRequestBodyProcessor, dataVars
  <2> QED
    BY <2>1, <2>2, BoundedKept DEF TransactionInv
<1>3. CASE UNCHANGED vars
  <2>1. TypeOK'
    BY <1>3, LoopKept, ControlKept, BodyCtlKept, ReportKept, ApiKept, DataKept
       DEF vars, engineVars, TransactionInv, TypeInv, TypeOK, EngineTypeOK
  <2>2. InRange'
    BY <1>3, SameRule DEF vars, engineVars, loopVars, TransactionInv, TypeInv,
       InRange
  <2>3. BodyBounded'
    BY <1>3, BoundedKept DEF vars, engineVars, dataVars, TransactionInv
  <2> QED
    BY <2>1, <2>2, <2>3 DEF TransactionInv, TypeInv
<1> QED
  BY <1>1, <1>2, <1>3 DEF Next, Done

THEOREM InvAlways == Spec => []TransactionInv
BY InvInit, InvNext, PTL DEF Spec

(* Every variable keeps its type in every behaviour: whatever rule set is  *)
(* loaded, whatever the rules match, and however the connector calls the   *)
(* API (with or without checking for interventions in between).            *)
THEOREM TypeCorrect == Spec => []TypeOK
<1>1. TransactionInv => TypeOK
  BY DEF TransactionInv, TypeInv
<1> QED
  BY <1>1, InvAlways, PTL

(* appendRequestBody and appendResponseBody keep each body within its      *)
(* limit, for every limit, limit action and sequence of chunks.            *)
THEOREM BodiesBounded == Spec => []BodyBounded
<1>1. TransactionInv => BodyBounded
  BY DEF TransactionInv
<1> QED
  BY <1>1, InvAlways, PTL

-----------------------------------------------------------------------------
(* Lists of actions a step takes todo from: with a rule set over A, every  *)
(* action left to execute is one of A or block.                            *)

TodoOver(A) == rs \in RuleSetOver(A) => todo \in Seq(A)

LEMMA TodoOverKept ==
    ASSUME NEW A, UNCHANGED <<config, todo>>, TodoOver(A)
    PROVE  TodoOver(A)'
BY DEF TodoOver, rs

(* A transaction keeps its rule set.                                       *)
LEMMA ConfigFixed == [Next]_vars => UNCHANGED config
BY ZenonT(60) DEF Next, Done, vars, engineVars, ApiCall, processConnection,
       processURI, addRequestHeader, processRequestHeaders,
       appendBody, AppendWhole, AppendPartial, AppendRejected,
       AppendUninspected, Feed, processRequestBody, addResponseHeader,
       processResponseHeaders, processResponseBody, processLogging,
       intervention, EngineUntouched, RuleStep, EvaluationStep,
       LoopStep, SkipInsideMarker, EvaluateMarker, SkipNext,
       SkipAllowedOrRemoved, StartRule, AfterRule, EndPhase,
       ChainStep, OperatorMatches, OperatorFails,
       RemovedRuleReturnsTrue, LinkExecuted, ActionStep,
       SkipDisruptive, ExecLeaves, ExecDeny, ExecRedirect, ExecPass,
       ExecAllow, ExecBlock, ExecStatus, ExecLog, ExecSkip,
       ExecSkipAfter, ExecCtlRuleEngine, ExecCtlRuleRemoveById,
       ExecCtlRuleRemoveByTag, ExecCtlRequestBodyAccess,
       ExecCtlRequestBodyProcessor

LEMMA TodoOverNext ==
    ASSUME TransactionInv, NEW A, Block \in A, TodoOver(A), [Next]_vars
    PROVE  TodoOver(A)'
<1>1. SUFFICES ASSUME rs \in RuleSetOver(A), todo \in Seq(A), ~UNCHANGED todo
               PROVE  todo' \in Seq(A)
  <2>1. UNCHANGED config
    BY ConfigFixed
  <2> QED
    BY <2>1 DEF TodoOver, rs
<1>2. ~ApiCall /\ ~LoopStep /\ ~UNCHANGED vars
  BY <1>1, ZenonT(60) DEF ApiCall, processConnection, processURI, addRequestHeader,
       processRequestHeaders, appendBody, AppendWhole, AppendPartial,
       AppendRejected, AppendUninspected, Feed, processRequestBody,
       addResponseHeader, processResponseHeaders, processResponseBody,
       processLogging, intervention, Returns, evaluate, loopVars, LoopStep,
       SkipInsideMarker, EvaluateMarker, SkipNext, SkipAllowedOrRemoved,
       StartRule, AfterRule, EndPhase, NextRule, vars, engineVars
<1>3. ChainStep \/ ActionStep
  BY <1>2 DEF Next, Done, RuleStep, EvaluationStep
<1>4. CASE ChainStep
  <2>1. pc \in {"match", "exec"}
    BY <1>4 DEF ChainStep, OperatorMatches, OperatorFails,
         RemovedRuleReturnsTrue, LinkExecuted
  <2>2. /\ phase \in Phases /\ i \in 1 .. Len(rules) /\ ~isMarker
        /\ link \in 1 .. Len(chain) /\ Len(chain) \in Nat
    BY <2>1, Position DEF TransactionInv
  <2>3. PICK l \in 1 .. Len(chain) : ExecuteLink(l)
    <3>1. link # 1 => link - 1 \in 1 .. Len(chain)
      BY <2>2
    <3>2. ~LeaveRule
      BY <1>1 DEF LeaveRule
    <3>3. ASSUME NEW n \in 1 .. MaxValues, OperatorMatches(n)
          PROVE  ExecuteLink(link)
      BY <1>1, <3>2, <3>3 DEF OperatorMatches
    <3>4. ~OperatorFails
      BY <3>2 DEF OperatorFails
    <3>5. RemovedRuleReturnsTrue => link # 1 /\ ExecuteLink(link - 1)
      BY <3>2 DEF RemovedRuleReturnsTrue
    <3>6. LinkExecuted => link # 1 /\ ExecuteLink(link - 1)
      BY <3>2, <2>2 DEF LinkExecuted
    <3> QED
      BY <1>4, <2>2, <3>1, <3>3, <3>4, <3>5, <3>6 DEF ChainStep
  <2>4. ActionsAfterFullMatch(l) \in Seq(A)
    BY <1>1, <2>2, ActionsOfLink
  <2> QED
    BY <2>3, <2>4 DEF ExecuteLink
<1>5. CASE ActionStep
  <2>1. Tail(todo) \in Seq(A) \/ todo = << >>
    BY <1>1
  <2>2. CASE ExecBlock
    <3>1. pc = "exec" /\ todo # << >>
          /\ todo' = rs.defaults[phase].disruptive \o Tail(todo)
      BY <2>2 DEF ExecBlock
    <3>2. rs.defaults[phase].disruptive \in Seq(A)
      BY <1>1, <3>1, Position, RuleSetParts DEF TransactionInv, ActionList
    <3>3. Tail(todo) \in Seq(A)
      BY <2>1, <3>1
    <3>4. rs.defaults[phase].disruptive \o Tail(todo) \in Seq(A)
      BY ONLY <3>2, <3>3, Concatenated
    <3> QED
      BY <3>1, <3>4
  <2>3. CASE ~ExecBlock
    <3>1. todo # << >> /\ todo' = Tail(todo)
      BY <1>5, <2>3 DEF ActionStep, Running, SkipDisruptive, ExecDeny,
           ExecRedirect, ExecPass, ExecAllow, ExecStatus, ExecLog, ExecSkip,
           ExecSkipAfter, ExecCtlRuleEngine, ExecCtlRuleRemoveById,
           ExecCtlRuleRemoveByTag, ExecCtlRequestBodyAccess,
           ExecCtlRequestBodyProcessor
    <3> QED
      BY <2>1, <3>1
  <2> QED
    BY <2>2, <2>3
<1> QED
  BY <1>3, <1>4, <1>5

-----------------------------------------------------------------------------
(* DetectionOnly.                                                          *)

(* Only with the engine On does a step make the pending intervention       *)
(* disruptive.                                                             *)
LEMMA DisruptionNeedsEngineOn ==
    ASSUME TransactionInv, [Next]_vars, m_it'.disruptive
    PROVE  m_it.disruptive \/ getRuleEngineState = "Enabled"
<1>0. m_it \in Intervention
  BY DEF TransactionInv, TypeInv, TypeOK, EngineTypeOK, ReportTypeOK
<1>1. CASE UNCHANGED m_it
  BY <1>1
<1>2. CASE ExecDeny
  BY <1>2 DEF ExecDeny, Running, NeedsEngineOn, isDisruptive
<1>3. CASE ExecRedirect
  BY <1>3 DEF ExecRedirect, Running, NeedsEngineOn, isDisruptive
<1>4. CASE ExecPass
  <2>1. ~m_it'.disruptive
    BY <1>4, <1>0 DEF ExecPass, reset, freeIt, Intervention
  <2> QED
    BY <2>1
<1>5. CASE ExecStatus
  <2>1. m_it'.disruptive = m_it.disruptive
    BY <1>5, <1>0 DEF ExecStatus, Intervention
  <2> QED
    BY <2>1
<1>6. ASSUME NEW s \in Sides, NEW n \in ChunkSizes, AppendRejected(s, n)
      PROVE  m_it.disruptive \/ getRuleEngineState = "Enabled"
  BY <1>6 DEF AppendRejected
<1>7. CASE intervention
  BY <1>7 DEF intervention
<1> QED
  BY <1>1, <1>2, <1>3, <1>4, <1>5, <1>6, <1>7 DEF Next, Done, vars,
       engineVars, ApiCall, processConnection, processURI, addRequestHeader,
       processRequestHeaders, appendBody, AppendWhole, AppendPartial,
       AppendUninspected, processRequestBody, addResponseHeader,
       processResponseHeaders, processResponseBody, processLogging,
       EngineUntouched, RuleStep, EvaluationStep, LoopStep, SkipInsideMarker,
       EvaluateMarker, SkipNext, SkipAllowedOrRemoved, StartRule, AfterRule,
       EndPhase, ChainStep, OperatorMatches, OperatorFails,
       RemovedRuleReturnsTrue, LinkExecuted, ActionStep, SkipDisruptive,
       ExecAllow, ExecBlock, ExecLog, ExecSkip, ExecSkipAfter,
       ExecCtlRuleEngine, ExecCtlRuleRemoveById, ExecCtlRuleRemoveByTag,
       ExecCtlRequestBodyAccess, ExecCtlRequestBodyProcessor

(* The override ctl:ruleEngine stays away from On, because every action    *)
(* still to be executed comes from the rule set.                           *)
DetectionInv ==
    /\ TransactionInv
    /\ TodoOver(NotEnabling)
    /\ config \in NeverEnabling => m_secRuleEngine # "Enabled"
    /\ DetectionNeverInterrupts

LEMMA BlockNotEnabling == Block \in NotEnabling
BY BlockIsAction DEF Block, NotEnabling

LEMMA OverrideNext ==
    ASSUME TransactionInv, TodoOver(NotEnabling), config \in NeverEnabling,
           m_secRuleEngine # "Enabled", [Next]_vars
    PROVE  m_secRuleEngine' # "Enabled"
<1>1. CASE UNCHANGED m_secRuleEngine
  BY <1>1
<1>2. CASE ExecCtlRuleEngine
  <2>1. todo \in Seq(NotEnabling) /\ todo # << >>
    BY <1>2 DEF TodoOver, rs, NeverEnabling, ExecCtlRuleEngine, Running
  <2>2. Head(todo) \in NotEnabling
    BY <2>1
  <2> QED
    BY <1>2, <2>2 DEF NotEnabling, ExecCtlRuleEngine, Running, Arg
<1> QED
  BY <1>1, <1>2, ZenonT(60) DEF Next, Done, vars, engineVars, controlVars, ApiCall,
       processConnection, processURI, addRequestHeader, processRequestHeaders,
       appendBody, AppendWhole, AppendPartial, AppendRejected,
       AppendUninspected, Feed, processRequestBody, addResponseHeader,
       processResponseHeaders, processResponseBody, processLogging,
       intervention, Returns, evaluate, RuleStep, EvaluationStep, LoopStep,
       SkipInsideMarker, EvaluateMarker, SkipNext, SkipAllowedOrRemoved,
       StartRule, AfterRule, EndPhase, ChainStep, OperatorMatches,
       OperatorFails, RemovedRuleReturnsTrue, LinkExecuted, ActionStep,
       SkipDisruptive, ExecDeny, ExecRedirect, ExecPass, ExecAllow, ExecBlock,
       ExecStatus, ExecLog, ExecSkip, ExecSkipAfter, ExecCtlRuleRemoveById,
       ExecCtlRuleRemoveByTag, ExecCtlRequestBodyAccess,
       ExecCtlRequestBodyProcessor

LEMMA DeliveredNext ==
    ASSUME [Next]_vars, ~m_it.disruptive
    PROVE  UNCHANGED delivered
BY ZenonT(60) DEF Next, Done, vars, apiVars, ApiCall, Called, processConnection,
       processURI, addRequestHeader, processRequestHeaders, appendBody,
       AppendWhole, AppendPartial, AppendRejected, AppendUninspected, Feed,
       processRequestBody, addResponseHeader, processResponseHeaders,
       processResponseBody, processLogging, intervention, RuleStep

LEMMA DetectionInit == Init => DetectionInv
<1> SUFFICES ASSUME Init PROVE DetectionInv
  OBVIOUS
<1>1. TransactionInv
  BY InvInit
<1>2. m_it = CleanIt /\ delivered = << >> /\ todo = << >>
      /\ m_secRuleEngine = "NotSet"
  BY DEF Init, EngineInit
<1>3. TodoOver(NotEnabling)
  BY <1>2 DEF TodoOver
<1> QED
  BY <1>1, <1>2, <1>3 DEF DetectionInv, DetectionNeverInterrupts, CleanIt

LEMMA DetectionNext == DetectionInv /\ [Next]_vars => DetectionInv'
<1> SUFFICES ASSUME DetectionInv, [Next]_vars PROVE DetectionInv'
  OBVIOUS
<1>1. TransactionInv'
  BY InvNext DEF DetectionInv
<1>2. TodoOver(NotEnabling)'
  <2>1. TransactionInv /\ TodoOver(NotEnabling)
    BY DEF DetectionInv
  <2> QED
    BY <2>1, TodoOverNext, BlockNotEnabling
<1>3. config' = config /\ rs' = rs
  BY ConfigFixed DEF rs
<1>4. config \in NeverEnabling => m_secRuleEngine' # "Enabled"
  BY OverrideNext DEF DetectionInv
<1>5. ASSUME rs.engine # "Enabled", config \in NeverEnabling
      PROVE  ~m_it'.disruptive /\ delivered' = << >>
  <2>1. ~m_it.disruptive /\ delivered = << >>
    BY <1>5 DEF DetectionInv, DetectionNeverInterrupts
  <2>2. getRuleEngineState # "Enabled"
    BY <1>5 DEF DetectionInv, getRuleEngineState
  <2> QED
    BY <2>1, <2>2, DisruptionNeedsEngineOn, DeliveredNext DEF DetectionInv
<1>6. DetectionNeverInterrupts'
  BY <1>3, <1>5 DEF DetectionNeverInterrupts, NeverEnabling
<1> QED
  BY <1>1, <1>2, <1>3, <1>4, <1>6 DEF DetectionInv, NeverEnabling

(* SecRuleEngine DetectionOnly is safe to deploy: with a rule set that     *)
(* never turns the engine on, no sequence of calls, matches, chains,       *)
(* blocks, default actions or body limits makes an intervention.           *)
THEOREM DetectionOnlyIsSafe == Spec => []DetectionNeverInterrupts
<1>1. DetectionInv => DetectionNeverInterrupts
  BY DEF DetectionInv
<1> QED
  BY <1>1, DetectionInit, DetectionNext, PTL DEF Spec

-----------------------------------------------------------------------------
(* allow.  Either the grant is still in m_allowType, or the evaluation has *)
(* come to phases where nothing is left of its scope.                      *)

(* The phases are evaluated in their order.                                *)
PhaseOrder ==
    /\ phase <= stage
    /\ pc # "idle" => phase = stage

GrantKept ==
    granted # NoGrant =>
        /\ granted.phase <= stage
        /\ \/ m_allowType = granted.type
           \/ \A q \in Phases : q >= phase => ~InAllowedScope(q)

AllowInv ==
    /\ TransactionInv /\ PhaseOrder /\ GrantKept
    /\ pc = "match" => m_allowType = "NoneAllow"

(* A call of the API that evaluates rules, or returns without.             *)
LEMMA CallsInOrder ==
    ASSUME TransactionInv, ApiCall
    PROVE  /\ pc = "idle" /\ UNCHANGED granted
           /\ \/ UNCHANGED <<pc, phase, m_allowType>> /\ stage' \in Phases \cup {NoPhase}
                   /\ stage' >= stage
              \/ \E p \in Phases : stage < p /\ stage' = p /\ evaluate(p)
<1> USE DEF ConnectionPhase, UriPhase, RequestHeadersPhase, RequestBodyPhase,
        ResponseHeadersPhase, ResponseBodyPhase, LoggingPhase, Phases, NoPhase
<1>0. stage \in -1 .. 6
  BY DEF TransactionInv, TypeInv, TypeOK, ApiTypeOK
<1>1. pc = "idle"
  BY ZenonT(60) DEF ApiCall, processConnection, processURI, addRequestHeader,
       processRequestHeaders, appendBody, AppendWhole, AppendPartial,
       AppendRejected, AppendUninspected, Feed, processRequestBody,
       addResponseHeader, processResponseHeaders, processResponseBody,
       processLogging, intervention, MayCall
<1>2. ASSUME NEW p \in Phases, MayCall(p), Called(p), evaluate(p) \/ Returns
      PROVE  /\ UNCHANGED granted
             /\ \/ UNCHANGED <<pc, phase, m_allowType>>
                     /\ stage' \in Phases \cup {NoPhase} /\ stage' >= stage
                \/ \E q \in Phases : stage < q /\ stage' = q /\ evaluate(q)
  BY <1>0, <1>2 DEF MayCall, Called, Returns, evaluate, loopVars, controlVars
<1>3. ASSUME UNCHANGED <<stage, loopVars, controlVars>>
      PROVE  /\ UNCHANGED <<granted, pc, phase, m_allowType>>
             /\ stage' \in Phases \cup {NoPhase} /\ stage' >= stage
  BY <1>0, <1>3 DEF loopVars, controlVars
<1>4. CASE processConnection
  BY <1>1, <1>2, <1>4 DEF processConnection
<1>5. CASE processURI
  BY <1>1, <1>2, <1>5 DEF processURI
<1>6. CASE processRequestHeaders
  BY <1>1, <1>2, <1>6 DEF processRequestHeaders
<1>7. CASE \E ok \in BOOLEAN, files \in 0 .. body["req"].len :
             processRequestBody(ok, files)
  BY <1>1, <1>2, <1>7 DEF processRequestBody
<1>8. CASE processResponseHeaders
  BY <1>1, <1>2, <1>8 DEF processResponseHeaders
<1>9. CASE processResponseBody
  <2>1. /\ MayCall(ResponseBodyPhase) /\ Called(ResponseBodyPhase)
        /\ evaluate(ResponseBodyPhase) \/ Returns
    BY <1>9 DEF processResponseBody
  <2>2. ResponseBodyPhase \in Phases
    BY PhaseNumbers
  <2> QED
    BY <1>1, <1>2, <2>1, <2>2
<1>10. CASE processLogging
  BY <1>1, <1>2, <1>10 DEF processLogging
<1>11. CASE \/ \E t \in ContentTypes : addRequestHeader(t)
            \/ \E t \in ResponseTypes : addResponseHeader(t)
            \/ \E s \in Sides, n \in ChunkSizes : appendBody(s, n)
            \/ intervention
  <2>1. UNCHANGED <<stage, loopVars, controlVars>>
    BY <1>11, ZenonT(60) DEF addRequestHeader, addResponseHeader, appendBody, AppendWhole,
         AppendPartial, AppendRejected, AppendUninspected, Feed, intervention,
         Returns, apiVars
  <2> QED
    BY <1>1, <1>3, <2>1
<1> QED
  BY <1>4, <1>5, <1>6, <1>7, <1>8, <1>9, <1>10, <1>11 DEF ApiCall

LEMMA AllowInit == Init => AllowInv
<1> SUFFICES ASSUME Init PROVE AllowInv
  OBVIOUS
<1>1. phase = -1 /\ stage = -1 /\ pc = "idle" /\ granted = NoGrant
  BY DEF Init, EngineInit, NoPhase
<1>2. PhaseOrder /\ GrantKept
  BY <1>1 DEF PhaseOrder, GrantKept
<1> QED
  BY <1>1, <1>2, InvInit DEF AllowInv

(* What a step of the rule engine does to the grant: nothing, unless the   *)
(* step is an allow action.                                                *)
LEMMA AllowRuleSteps ==
    ASSUME AllowInv, EvaluationStep, UNCHANGED stage
    PROVE  /\ PhaseOrder' /\ GrantKept'
           /\ pc' = "match" => m_allowType' = "NoneAllow"
<1>t. /\ stage \in Phases \cup {NoPhase} /\ phase \in Phases \cup {NoPhase}
      /\ m_allowType \in AllowTypes
  BY DEF AllowInv, TransactionInv, TypeInv, TypeOK, ApiTypeOK, EngineTypeOK,
         LoopTypeOK, ControlTypeOK
<1>1. CASE ExecAllow
  <2>1. pc = "exec" /\ pc' = pc /\ phase' = phase /\ phase = stage
        /\ phase \in Phases
    BY <1>1, Position
       DEF ExecAllow, Running, ExecLeaves, AllowInv, PhaseOrder, TransactionInv
  <2>2. granted' = [type |-> Arg, phase |-> phase] /\ m_allowType' = Arg
    BY <1>1 DEF ExecAllow
  <2>3. phase <= stage
    BY <2>1 DEF AllowInv, PhaseOrder
  <2> QED
    BY <2>1, <2>2, <2>3 DEF PhaseOrder, GrantKept
<1>2. CASE ~ExecAllow
  <2>1. UNCHANGED <<phase, granted, m_allowType>>
    BY <1>2 DEF EvaluationStep, LoopStep, SkipInsideMarker, EvaluateMarker,
         SkipNext, SkipAllowedOrRemoved, StartRule, AfterRule, EndPhase,
         NextRule, ChainStep, OperatorMatches, OperatorFails,
         RemovedRuleReturnsTrue, LinkExecuted, ActionStep, SkipDisruptive,
         ExecLeaves, ExecDeny, ExecRedirect, ExecPass, ExecBlock, ExecStatus,
         ExecLog, ExecSkip, ExecSkipAfter, ExecCtlRuleEngine,
         ExecCtlRuleRemoveById, ExecCtlRuleRemoveByTag,
         ExecCtlRequestBodyAccess, ExecCtlRequestBodyProcessor, controlVars
  <2>2. pc # "idle"
    BY DEF EvaluationStep, LoopStep, SkipInsideMarker, EvaluateMarker,
         SkipNext, SkipAllowedOrRemoved, StartRule, AfterRule, EndPhase,
         InLoop, NotInMarker, ChainStep, OperatorMatches, OperatorFails,
         RemovedRuleReturnsTrue, LinkExecuted, ActionStep, SkipDisruptive,
         Running, ExecDeny, ExecRedirect, ExecPass, ExecAllow, ExecBlock,
         ExecStatus, ExecLog, ExecSkip, ExecSkipAfter, ExecCtlRuleEngine,
         ExecCtlRuleRemoveById, ExecCtlRuleRemoveByTag,
         ExecCtlRequestBodyAccess, ExecCtlRequestBodyProcessor
  <2>3. PhaseOrder' /\ GrantKept'
    BY <2>1, <2>2 DEF AllowInv, PhaseOrder, GrantKept, InAllowedScope
  <2>4. pc' = "match" => pc = "match" \/ StartRule
    BY <1>2 DEF EvaluationStep, LoopStep, SkipInsideMarker, EvaluateMarker,
         SkipNext, SkipAllowedOrRemoved, AfterRule, EndPhase, InLoop,
         NotInMarker, NextRule, ChainStep, OperatorMatches, OperatorFails,
         RemovedRuleReturnsTrue, LinkExecuted, LeaveRule, ExecuteLink,
         ActionStep, SkipDisruptive, ExecLeaves, ExecDeny, ExecRedirect,
         ExecPass, ExecBlock, ExecStatus, ExecLog, ExecSkip, ExecSkipAfter,
         ExecCtlRuleEngine, ExecCtlRuleRemoveById, ExecCtlRuleRemoveByTag,
         ExecCtlRequestBodyAccess, ExecCtlRequestBodyProcessor
  <2>5. pc' = "match" => m_allowType' = "NoneAllow"
    BY <2>1, <2>4 DEF StartRule, AllowInv
  <2> QED
    BY <2>3, <2>5
<1> QED
  BY <1>1, <1>2

(* A phase that is evaluated lies outside the scope of the grant.          *)
LEMMA AllowEvaluate ==
    ASSUME AllowInv, NEW p \in Phases, stage < p, stage' = p, evaluate(p),
           UNCHANGED granted
    PROVE  /\ PhaseOrder' /\ GrantKept'
           /\ pc' = "match" => m_allowType' = "NoneAllow"
<1> USE DEF Phases, NoPhase, ConnectionPhase, LoggingPhase
<1>t. /\ stage \in Phases \cup {NoPhase} /\ phase \in Phases \cup {NoPhase}
      /\ m_allowType \in AllowTypes
      /\ granted # NoGrant =>
           granted \in [type : AllowTypes \ {"NoneAllow"}, phase : Phases]
  BY DEF AllowInv, TransactionInv, TypeInv, TypeOK, ApiTypeOK, EngineTypeOK,
         LoopTypeOK, ControlTypeOK
<1>1. phase' = p /\ pc' \in {"idle", "loop"} /\ PhaseOrder'
  BY DEF evaluate, PhaseOrder
<1>2. GrantKept'
  <2> SUFFICES ASSUME granted # NoGrant
               PROVE  /\ granted.phase <= stage'
                      /\ \/ m_allowType' = granted.type
                         \/ \A q \in Phases : q >= p => ~InAllowedScope(q)
    BY <1>1 DEF GrantKept, InAllowedScope
  <2>1. /\ granted.phase \in Phases /\ granted.phase < p
        /\ granted.type \in AllowTypes \ {"NoneAllow"}
    BY <1>t DEF AllowInv, GrantKept
  <2>2. CASE \A q \in Phases : q >= phase => ~InAllowedScope(q)
    BY <2>1, <2>2, <1>t DEF AllowInv, PhaseOrder
  <2>3. CASE m_allowType = granted.type /\ AllowSkipsPhase(p)
    BY <2>1, <2>3 DEF evaluate
  <2>4. CASE m_allowType = granted.type /\ ~AllowSkipsPhase(p)
    <3>1. granted.type = "RequestAllow" => p > RequestBodyPhase
      BY <2>4 DEF AllowSkipsPhase, RequestBodyPhase
    <3>2. granted.type = "FromNowOnAllow" => p = LoggingPhase
      BY <2>4 DEF AllowSkipsPhase
    <3>3. \A q \in Phases : q >= p => ~InAllowedScope(q)
      BY <2>1, <3>1, <3>2 DEF InAllowedScope, RequestBodyPhase
    <3> QED
      BY <2>1, <3>3
  <2> QED
    BY <2>2, <2>3, <2>4 DEF AllowInv, GrantKept
<1> QED
  BY <1>1, <1>2

LEMMA AllowNext == AllowInv /\ [Next]_vars => AllowInv'
<1> SUFFICES ASSUME AllowInv, [Next]_vars PROVE AllowInv'
  OBVIOUS
<1>0. TransactionInv'
  BY InvNext DEF AllowInv
<1>1. CASE ApiCall
  <2>1. CASE \E p \in Phases : stage < p /\ stage' = p /\ evaluate(p)
    BY <1>0, <1>1, <2>1, CallsInOrder, AllowEvaluate DEF AllowInv
  <2>2. CASE UNCHANGED <<pc, phase, m_allowType>>
               /\ stage' \in Phases \cup {NoPhase} /\ stage' >= stage
    <3>1. pc = "idle" /\ UNCHANGED granted
      BY <1>1, CallsInOrder DEF AllowInv
    <3>2. /\ stage \in -1 .. 6 /\ phase \in -1 .. 6 /\ stage' \in -1 .. 6
          /\ granted # NoGrant => granted.phase \in -1 .. 6
      BY <2>2 DEF AllowInv, TransactionInv, TypeInv, TypeOK, ApiTypeOK,
           EngineTypeOK, LoopTypeOK, ControlTypeOK, Phases, NoPhase,
           ConnectionPhase, LoggingPhase
    <3>3. PhaseOrder'
      BY <2>2, <3>1, <3>2 DEF AllowInv, PhaseOrder
    <3>4. GrantKept'
      BY <2>2, <3>1, <3>2 DEF AllowInv, GrantKept, InAllowedScope
    <3> QED
      BY <1>0, <2>2, <3>1, <3>3, <3>4 DEF AllowInv
  <2> QED
    BY <1>1, <2>1, <2>2, CallsInOrder DEF AllowInv
<1>2. CASE RuleStep
  BY <1>0, <1>2, AllowRuleSteps DEF RuleStep, apiVars, AllowInv
<1>3. CASE UNCHANGED vars
  BY <1>0, <1>3 DEF vars, engineVars, loopVars, controlVars, apiVars,
       AllowInv, PhaseOrder, GrantKept, InAllowedScope
<1> QED
  BY <1>1, <1>2, <1>3 DEF Next, Done

(* allow is honoured for every rule set and every sequence of calls: the   *)
(* phases it covers are skipped by RulesSet::evaluate or by the loop.      *)
THEOREM AllowHonoured == Spec => []AllowIsHonoured
<1>1. AllowInv => AllowIsHonoured
  <2> SUFFICES ASSUME AllowInv, pc = "match", granted # NoGrant
               PROVE  ~InAllowedScope(phase)
    BY DEF AllowIsHonoured, InAllowedScope
  <2>1. m_allowType = "NoneAllow" /\ phase \in Phases
    BY Position DEF AllowInv, TransactionInv
  <2>2. granted.type # "NoneAllow"
    BY DEF AllowInv, TransactionInv, TypeInv, TypeOK, EngineTypeOK,
         ControlTypeOK
  <2>3. phase >= phase
    BY <2>1 DEF Phases, ConnectionPhase, LoggingPhase
  <2> QED
    BY <2>1, <2>2, <2>3 DEF AllowInv, GrantKept
<1> QED
  BY <1>1, AllowInit, AllowNext, PTL DEF Spec

-----------------------------------------------------------------------------
(* Interventions.                                                          *)

(* A connector that checks after each call: a disruption is pending only   *)
(* while a check is due, and never while the loop or a match goes on.      *)
PendingInv ==
    /\ pc # "idle" => pollDue
    /\ ~pollDue => ~m_it.disruptive
    /\ pc \in {"loop", "match"} => ~m_it.disruptive

PollingInv == Polls => PendingInv

LEMMA PollingNext ==
    ASSUME TransactionInv, PollingInv, [Next]_vars
    PROVE  PollingInv'
<1>0. config' = config
  BY ConfigFixed
<1> SUFFICES ASSUME Polls PROVE PendingInv'
  BY <1>0 DEF PollingInv, Polls
<1> USE DEF PollingInv
<1>1. CASE ApiCall
  <2>1. CASE intervention
    <3>1. m_it \in Intervention
      BY DEF TransactionInv, TypeInv, TypeOK, EngineTypeOK, ReportTypeOK
    <3>2. ~m_it'.disruptive
      BY <2>1, <3>1 DEF intervention, reset, Intervention
    <3>3. pc' = "idle"
      BY <2>1 DEF intervention, loopVars
    <3> QED
      BY <3>2, <3>3 DEF PendingInv
  <2>2. CASE \E s \in Sides, n \in ChunkSizes : appendBody(s, n)
    <3>1. pc' = "idle" /\ pollDue'
      BY <2>2 DEF appendBody, AppendWhole, AppendPartial, AppendRejected,
           AppendUninspected, Feed, MayCall, loopVars
    <3> QED
      BY <3>1 DEF PendingInv
  <2>3. CASE \/ \E t \in ContentTypes : addRequestHeader(t)
             \/ \E t \in ResponseTypes : addResponseHeader(t)
    <3>1. UNCHANGED <<pc, pollDue, m_it>>
      BY <2>3 DEF addRequestHeader, addResponseHeader, EngineUntouched,
           Returns, loopVars, apiVars
    <3> QED
      BY <3>1, Zenon DEF PendingInv
  <2>4. CASE \/ processConnection \/ processURI \/ processRequestHeaders
             \/ \E ok \in BOOLEAN, files \in 0 .. body["req"].len :
                   processRequestBody(ok, files)
             \/ processResponseHeaders \/ processResponseBody
             \/ processLogging
    <3>1. ~pollDue /\ pollDue' /\ UNCHANGED m_it
      BY <2>4 DEF processConnection, processURI, processRequestHeaders,
           processRequestBody, processResponseHeaders, processResponseBody,
           processLogging, MayCall, Called, EngineUntouched
    <3> QED
      BY <3>1, Zenon DEF PendingInv
  <2> QED
    BY <1>1, <2>1, <2>2, <2>3, <2>4 DEF ApiCall
<1>2. CASE RuleStep
  <2>1. pc # "idle" /\ pollDue'
    <3>1. pc # "idle"
      BY <1>2 DEF RuleStep, EvaluationStep, LoopStep, SkipInsideMarker,
         EvaluateMarker, SkipNext, SkipAllowedOrRemoved, StartRule, AfterRule,
         EndPhase, InLoop, NotInMarker, ChainStep, OperatorMatches,
         OperatorFails, RemovedRuleReturnsTrue, LinkExecuted, ActionStep,
         SkipDisruptive, Running, ExecDeny, ExecRedirect, ExecPass, ExecAllow,
         ExecBlock, ExecStatus, ExecLog, ExecSkip, ExecSkipAfter,
         ExecCtlRuleEngine, ExecCtlRuleRemoveById, ExecCtlRuleRemoveByTag,
         ExecCtlRequestBodyAccess, ExecCtlRequestBodyProcessor
    <3> QED
      BY <1>2, <3>1, Zenon DEF RuleStep, apiVars, PendingInv
  <2>2. CASE LoopStep \/ ChainStep
    <3>1. UNCHANGED m_it
      BY <2>2 DEF LoopStep, SkipInsideMarker, EvaluateMarker, SkipNext,
         SkipAllowedOrRemoved, StartRule, AfterRule, EndPhase, ChainStep,
         OperatorMatches, OperatorFails, RemovedRuleReturnsTrue, LinkExecuted
    <3>2. \/ pc \in {"loop", "match"} \/ pc' \notin {"loop", "match"}
          \/ ~m_it.disruptive
      BY <2>2 DEF LoopStep, SkipInsideMarker, EvaluateMarker, SkipNext,
         SkipAllowedOrRemoved, StartRule, AfterRule, EndPhase, InLoop,
         NotInMarker, ChainStep, OperatorMatches, OperatorFails,
         RemovedRuleReturnsTrue, LinkExecuted, ExecuteLink, LeaveRule
    <3> QED
      BY <2>1, <3>1, <3>2, Zenon DEF PendingInv
  <2>3. CASE ActionStep
    <3>1. pc' = "exec"
      BY <2>3 DEF ActionStep, SkipDisruptive, Running, ExecLeaves, ExecDeny,
         ExecRedirect, ExecPass, ExecAllow, ExecBlock, ExecStatus, ExecLog,
         ExecSkip, ExecSkipAfter, ExecCtlRuleEngine, ExecCtlRuleRemoveById,
         ExecCtlRuleRemoveByTag, ExecCtlRequestBodyAccess,
         ExecCtlRequestBodyProcessor
    <3> QED
      BY <2>1, <3>1 DEF PendingInv
  <2> QED
    BY <1>2, <2>2, <2>3 DEF RuleStep, EvaluationStep
<1>3. CASE UNCHANGED vars
  <2>1. UNCHANGED <<pc, pollDue, m_it>>
    BY <1>3 DEF vars, engineVars, loopVars, apiVars
  <2> QED
    BY <2>1, Zenon DEF PendingInv
<1> QED
  BY <1>1, <1>2, <1>3 DEF Next, Done

(* A connector that calls intervention() after each call never has a rule  *)
(* evaluated between a disruption and its answer.                          *)
THEOREM InterceptionStopsRules == Spec => []NoRuleAfterInterception
<1>1. Init => PollingInv
  <2> SUFFICES ASSUME Init PROVE PendingInv
    BY DEF PollingInv
  <2>1. pc = "idle" /\ m_it.disruptive = FALSE
    BY DEF Init, EngineInit, CleanIt
  <2> QED
    BY <2>1 DEF PendingInv
<1>2. PollingInv => NoRuleAfterInterception
  BY DEF PollingInv, PendingInv, NoRuleAfterInterception
<1>3. TransactionInv /\ PollingInv /\ [Next]_vars => PollingInv'
  BY PollingNext
<1> QED
  BY <1>1, <1>2, <1>3, InvAlways, PTL DEF Spec

(* No step makes a disruption with status 200.                             *)
LEMMA ErrorStatusNext ==
    ASSUME TransactionInv, InterventionHasErrorStatus, [Next]_vars,
           200 \notin StatusCodes
    PROVE  /\ m_it'.disruptive => m_it'.status # 200
           /\ \A k \in DOMAIN delivered' : delivered'[k].status # 200
<1>0. m_it \in Intervention /\ delivered \in Seq(Intervention)
  BY DEF TransactionInv, TypeInv, TypeOK, EngineTypeOK, ReportTypeOK, ApiTypeOK
<1>a. /\ m_it.disruptive => m_it.status # 200
      /\ \A k \in DOMAIN delivered : delivered[k].status # 200
  BY DEF InterventionHasErrorStatus
<1>1. CASE intervention
  <2>1. CASE m_it.disruptive
    <3>1. ~m_it'.disruptive /\ delivered' = Append(delivered, m_it)
      BY <1>0, <1>1, <2>1 DEF intervention, reset, Intervention
    <3>2. \A k \in 1 .. Len(delivered) + 1 :
             delivered'[k].status # 200
      BY <1>0, <1>a, <2>1, <3>1
    <3> QED
      BY <1>0, <3>1, <3>2
  <2>2. CASE ~m_it.disruptive
    BY <1>1, <1>a, <2>2 DEF intervention
  <2> QED
    BY <2>1, <2>2
<1>2. CASE ~intervention
  <2>1. UNCHANGED delivered
    BY <1>2, ZenonT(60) DEF Next, Done, vars, apiVars, ApiCall, Called, processConnection,
       processURI, addRequestHeader, processRequestHeaders, appendBody,
       AppendWhole, AppendPartial, AppendRejected, AppendUninspected, Feed,
       processRequestBody, addResponseHeader, processResponseHeaders,
       processResponseBody, processLogging, RuleStep
  <2>2. m_it'.disruptive => m_it'.status # 200
    <3>1. CASE UNCHANGED m_it
      BY <1>a, <3>1
    <3>2. CASE ExecDeny
      <4>1. m_it'.status = IF m_it.status = 200 THEN 403 ELSE m_it.status
        BY <1>0, <3>2 DEF ExecDeny, denied, Intervention
      <4> QED
        BY <4>1
    <3>3. CASE ExecRedirect
      <4>1. m_it'.status = IF m_it.status \in 301 .. 307 THEN m_it.status
                           ELSE 302
        BY <1>0, <3>3 DEF ExecRedirect, redirected, Intervention
      <4> QED
        BY <4>1
    <3>4. CASE ExecPass
      <4>1. ~m_it'.disruptive
        BY <1>0, <3>4 DEF ExecPass, reset, freeIt, Intervention
      <4> QED
        BY <4>1
    <3>5. CASE ExecStatus
      <4>1. Head(todo) \in Action /\ Head(todo).name = "status"
            /\ Arg = Head(todo).arg
        BY <3>5, RunningType DEF ExecStatus, TransactionInv
      <4>2. Arg # 200
        BY <4>1, ArgTypes
      <4>3. m_it'.status = Arg
        BY <1>0, <3>5 DEF ExecStatus, Intervention
      <4> QED
        BY <4>2, <4>3
    <3>6. ASSUME NEW s \in Sides, NEW n \in ChunkSizes, AppendRejected(s, n)
          PROVE  m_it'.disruptive => m_it'.status # 200
      <4>1. \/ m_it' = m_it
            \/ m_it' = [freeIt(m_it) EXCEPT !.log = "limit", !.status = 403,
                                            !.disruptive = TRUE]
        BY <3>6 DEF AppendRejected
      <4>2. m_it' # m_it => m_it'.status = 403
        <5>1. freeIt(m_it) \in Intervention
          BY <1>0 DEF freeIt, Intervention
        <5> QED
          BY <4>1, <5>1, ZenonT(60) DEF Intervention
      <4> QED
        BY <1>a, <4>2
    <3> QED
      BY <1>2, <3>1, <3>2, <3>3, <3>4, <3>5, <3>6 DEF Next, Done, vars,
       engineVars, ApiCall, processConnection, processURI, addRequestHeader,
       processRequestHeaders, appendBody, AppendWhole, AppendPartial,
       AppendUninspected, processRequestBody, addResponseHeader,
       processResponseHeaders, processResponseBody, processLogging,
       EngineUntouched, RuleStep, EvaluationStep, LoopStep, SkipInsideMarker,
       EvaluateMarker, SkipNext, SkipAllowedOrRemoved, StartRule, AfterRule,
       EndPhase, ChainStep, OperatorMatches, OperatorFails,
       RemovedRuleReturnsTrue, LinkExecuted, ActionStep, SkipDisruptive,
       ExecAllow, ExecBlock, ExecLog, ExecSkip, ExecSkipAfter,
       ExecCtlRuleEngine, ExecCtlRuleRemoveById, ExecCtlRuleRemoveByTag,
       ExecCtlRequestBodyAccess, ExecCtlRequestBodyProcessor
  <2> QED
    BY <1>a, <2>1, <2>2
<1> QED
  BY <1>1, <1>2

(* The server is never told to answer 200 when it must interrupt, also for *)
(* a connector that checks late or not at all.                             *)
THEOREM ErrorStatus == Spec => []InterventionHasErrorStatus
<1>1. Init => InterventionHasErrorStatus
  <2> SUFFICES ASSUME Init PROVE InterventionHasErrorStatus
    OBVIOUS
  <2>1. m_it.disruptive = FALSE /\ delivered = << >>
    BY DEF Init, EngineInit, CleanIt
  <2> QED
    BY <2>1 DEF InterventionHasErrorStatus
<1>2. TransactionInv /\ InterventionHasErrorStatus /\ [Next]_vars
        => InterventionHasErrorStatus'
  BY ErrorStatusNext DEF InterventionHasErrorStatus
<1> QED
  BY <1>1, <1>2, InvAlways, PTL DEF Spec
=============================================================================
