------------------------------ MODULE Targets ------------------------------
(***************************************************************************)
(* What a rule inspects: the targets written in it, the exclusions written *)
(* beside them, the SecRuleUpdateTargetBy... directives, and the           *)
(* ctl:ruleRemoveTargetBy... actions of rules that ran before.  The        *)
(* variables of a list are a set here: the order changes nothing below.    *)
(***************************************************************************)
EXTENDS Naturals, FiniteSets, TLC

CONSTANTS TargetKeys,     \* names of elements of a collection
          Upper,          \* their upper case form
          KeyRegexes,     \* regular expressions for keys
          MatchedKeys,    \* the keys each pattern is found in
          MatchedNames,   \* the whole names of variables each is found in
          TargetRules,    \* the rules, by the name of each: see RuleAssumption
          Requests,       \* what the collections of a transaction may hold
          RuleLists,      \* the lists each rule may be written with
          UpdateLists,    \* the lists of the directives that change targets
          CtlTexts,       \* the targets the ctl actions name
          MaxUpdates, MaxCtls

KeyAssumption ==
    /\ Upper \in [TargetKeys -> TargetKeys] /\ \A k \in TargetKeys : Upper[Upper[k]] = Upper[k]
    /\ "" \notin TargetKeys
    /\ MatchedKeys \in [KeyRegexes -> SUBSET TargetKeys]
    /\ DOMAIN MatchedNames = KeyRegexes
    /\ \A p \in KeyRegexes,  k \in TargetKeys : (k \in MatchedKeys[p]) = (Upper[k] \in MatchedKeys[p])
ASSUME KeyAssumption

NoRule == "no rule"

(* A link of a chain has its parent, and no id of its own.                 *)
RuleAssumption ==
    /\ NoRule \notin DOMAIN TargetRules
    /\ \A r \in DOMAIN TargetRules :
        /\ TargetRules[r].parent \in DOMAIN TargetRules \cup {NoRule}
        /\ TargetRules[r].parent # NoRule => TargetRules[r].id = 0
        /\ {} \notin RuleLists[r]
ASSUME RuleAssumption

(* What the parser makes of a target: a variable, or a ! or & before one.  *)
TargetAssumption ==
    \A r \in DOMAIN TargetRules : \A list \in RuleLists[r] : \A v \in list :
        v.mod \in {"plain", "not", "count"} /\ v.kind \in {"all", "key", "regex", "dynamic"}
ASSUME TargetAssumption

VARIABLES written,        \* the variables of each rule, as the parser left them
          updates,        \* m_variable_update_target_by_id, _by_tag and _by_msg
          request,        \* the collections of the transaction
          ctls,           \* m_ruleRemoveTargetById and m_ruleRemoveTargetByTag
          running,        \* the link of a chain whose actions run now
          asked,          \* history: the links of this chain, and the ctl actions before each
          seen,           \* history: the values each of them inspected
          matched,        \* MATCHED_VARS
          lists           \* history: the lists the rules were written with

targetsVars == <<written, updates, request, ctls, running, asked, seen, matched, lists>>

-----------------------------------------------------------------------------
(* Variables: [mod, col, kind, name].  "all" is a whole collection, "key"  *)
(* an element, "regex" the elements a pattern is found in, "dynamic" an    *)
(* element whose name a macro gives.                                       *)

Stored == {"TX", "GLOBAL", "IP", "RESOURCE", "SESSION", "USER"}

fullName(v) ==
    CASE v.kind = "all" -> <<v.col, "all", "">>
      [] v.kind = "dynamic" -> <<v.col, "key", "dynamic">>
      [] OTHER -> <<v.col, v.kind, v.name>>

(* KeyExclusionString folds the case, as the regular expressions do.       *)
toOmit(ke, key) ==
    \E x \in ke : \/ x.kind = "regex" /\ key \in MatchedKeys[x.name]
                  \/ x.kind = "key" /\ x.name \in TargetKeys /\ Upper[x.name] = Upper[key]

(* AnchoredSetVariable and its proxies: an element asked for by its name   *)
(* comes whatever the exclusions say.                                      *)
AnchoredElements(content, v, ke) ==
    CASE v.kind = "all"   -> {x \in content : ~toOmit(ke, x.key)}
      [] v.kind = "regex" -> {x \in content : x.key \in MatchedKeys[v.name] /\ ~toOmit(ke, x.key)}
      [] OTHER            -> {x \in content : Upper[x.key] = Upper[v.name]}

(* The collections in memory: an element carries the name asked for.       *)
StoredElements(content, v, ke) ==
    IF v.kind \in {"all", "regex"} THEN AnchoredElements(content, v, ke)
    ELSE {[key |-> v.name, val |-> x.val] :
              x \in {y \in content : Upper[y.key] = Upper[v.name] /\ ~toOmit(ke, v.name)}}

(* m_translate of the collections of names.                                *)
Translated(elements) == {[key |-> x.key, val |-> x.key] : x \in elements}

RuleAttributes == <<"id", "rev", "severity", "logdata", "msg">>

(* RULE: the nearest of the rule and the ones it is chained to that has    *)
(* the attribute.                                                          *)
OwnerOf(rule, attribute) ==
    LET up[n \in 0..Cardinality(DOMAIN TargetRules)] == IF n = 0 THEN rule
            ELSE IF up[n - 1] = NoRule THEN NoRule ELSE TargetRules[up[n - 1]].parent
        has == {n \in DOMAIN up : up[n] # NoRule /\ attribute \in TargetRules[up[n]].has}
    IN  IF has = {} THEN NoRule ELSE up[CHOOSE n \in has : \A k \in has : n <= k]

(* RULE:/x/ gives the first attribute the pattern is found in, no other.   *)
RuleElements(rule, v) ==
    LET named == {i \in DOMAIN RuleAttributes :
                     CASE v.kind = "regex" -> RuleAttributes[i] \in MatchedKeys[v.name]
                       [] v.kind = "key" -> RuleAttributes[i] = v.name
                       [] OTHER -> TRUE}
        given == IF v.kind = "regex" THEN {i \in named : \A j \in named : i <= j} ELSE named
    IN  {[key |-> RuleAttributes[i], val |-> OwnerOf(rule, RuleAttributes[i])] :
             i \in {j \in given : OwnerOf(rule, RuleAttributes[j]) # NoRule}}

ElementsOf(rule, v, ke) ==
    CASE v.col \in Stored      -> StoredElements(request[v.col], v, ke)
      [] v.col = "ARGS_NAMES"  -> Translated(AnchoredElements(request["ARGS"], v, ke))
      [] v.col = "RULE"        -> RuleElements(rule, v)
      [] OTHER                 -> AnchoredElements(request[v.col], v, ke)

(* Variable::evaluate.  A count has the exclusions itself and asks the     *)
(* variable it counts, which has none; its key is its whole name, which "" *)
(* stands for.                                                             *)
evaluateVariable(rule, v) ==
    IF v.mod = "count"
    THEN {[name |-> fullName(v), key |-> "", val |-> ToString(Cardinality(ElementsOf(rule, v, {})))]}
    ELSE {[name |-> <<v.col, "key", x.key>>, key |-> x.key, val |-> x.val] :
              x \in ElementsOf(rule, v, v.ke)}

-----------------------------------------------------------------------------
(* The lists of variables.                                                 *)

Excludes(v) == v.mod = "not"

Variable(v) == [mod |-> v.mod, col |-> v.col, kind |-> v.kind, name |-> v.name, ke |-> {}]

(* An exclusion takes away the targets of its very name and is added to    *)
(* the others of its collection.                                           *)
variables(list) ==
    LET exclusionVars == {v \in list : Excludes(v)}
    IN  {[Variable(v) EXCEPT !.ke = {i \in exclusionVars : i.col = v.col}] :
             v \in {w \in list \ exclusionVars :
                       \A i \in exclusionVars : fullName(i) # fullName(w)}}

InitTargets ==
    /\ written \in [DOMAIN TargetRules -> {{}}]
    /\ updates = {}
    /\ request \in Requests
    /\ ctls = {}
    /\ running = NoRule /\ asked = {} /\ seen = {} /\ matched = {}
    /\ lists = [r \in DOMAIN TargetRules |-> {}]

(* SecRule.                                                                *)
SecRule(r) ==
    /\ lists[r] = {} /\ running = NoRule /\ asked = {} /\ ctls = {}
    /\ TargetRules[r].parent # NoRule => lists[TargetRules[r].parent] # {}
    /\ \E list \in RuleLists[r] :
        /\ lists' = [lists EXCEPT ![r] = list]
        /\ written' = [written EXCEPT ![r] = variables(list)]
    /\ UNCHANGED <<updates, request, ctls, running, asked, seen, matched>>

(* SecRuleUpdateTargetById, ByTag, ByMsg: the list is kept as it was read. *)
loadUpdateTarget(by, whats) ==
    /\ running = NoRule /\ asked = {} /\ ctls = {}
    /\ \E what \in whats, list \in UpdateLists :
        /\ Cardinality(updates) + Cardinality(list) <= MaxUpdates
        /\ updates' = updates \cup {[by |-> by, of |-> what, var |-> Variable(v)] : v \in list}
    /\ UNCHANGED <<written, request, ctls, running, asked, seen, matched, lists>>

Concerns(x, r) ==
    \/ x.by = "id"  /\ x.of = TargetRules[r].id
    \/ x.by = "tag" /\ x.of \in TargetRules[r].tags
    \/ x.by = "msg" /\ x.of = TargetRules[r].msg

(* ctl:ruleRemoveTargetById and ByTag, in the actions of a rule: the       *)
(* target is kept as the text it was written with.  A rule that names      *)
(* itself is left out: it would lose the values after its first match.     *)
ruleRemoveTarget(by, whats) ==
    /\ running # NoRule /\ Cardinality(ctls) < MaxCtls
    /\ \E what \in whats, text \in CtlTexts :
        /\ ~Concerns([by |-> by, of |-> what], running)
        /\ ctls' = ctls \cup {[by |-> by, of |-> what, text |-> text]}
    /\ UNCHANGED <<written, updates, request, running, asked, seen, matched, lists>>

-----------------------------------------------------------------------------
(* RuleWithOperator::evaluate.                                             *)

getVariablesExceptions(r) == {x.var : x \in {u \in updates : Concerns(u, r)}}

FoldedText(t) == IF t[3] \in TargetKeys THEN <<t[1], t[2], Upper[t[3]]>> ELSE t

(* Before the values: by id the texts are compared without their case.     *)
RemovesTarget(x, r, v) ==
    /\ Concerns(x, r)
    /\ IF x.by = "id" THEN FoldedText(x.text) = FoldedText(fullName(v)) ELSE x.text = fullName(v)

(* Mutant: the exclusions are not asked again for the value.               *)
MutRemovesValue(r, exclusion, value) ==
    \E x \in ctls : Concerns(x, r) /\ x.text = value.name

(* A pattern of a directive is looked for in the key of a value, in        *)
(* whatever collection it is; that of a count is its whole name.           *)
Finds(pattern, value) ==
    IF value.key = "" THEN value.name \in MatchedNames[pattern]
    ELSE value.key \in MatchedKeys[pattern]

(* For each value.                                                         *)
RemovesValue(r, exclusion, value) ==
    \/ \E e \in exclusion : IF e.kind = "regex" THEN Finds(e.name, value)
                            ELSE value.name = fullName(e)
    \/ \E x \in ctls : Concerns(x, r) /\ x.text = value.name

getFinalVars(r) ==
    LET exceptions == getVariablesExceptions(r)
        exclusion  == {v \in exceptions : Excludes(v)}
    IN  {v \in written[r] : /\ \A e \in exclusion : fullName(e) # fullName(v)
                            /\ \A x \in ctls : ~RemovesTarget(x, r, v)}
        \cup (exceptions \ exclusion)

Inspected(r) ==
    LET exclusion == {v \in getVariablesExceptions(r) : Excludes(v)}
    IN  {value \in UNION {evaluateVariable(r, v) : v \in getFinalVars(r)} :
             ~RemovesValue(r, exclusion, value)}

(* The operator, which knows a value to match or not.                      *)
OperatorTakes(value) == value.val \in {"bad", "3"}

(* RulesSet::evaluate, after each rule.                                    *)
cleanMatchedVars == matched' = {}

(* A rule, or the link chained to one that matched: updateMatchedVars for  *)
(* each value that matches, and the actions of the rule run.  One that     *)
(* does not match ends the chain.                                          *)
evaluateLink(r) ==
    /\ lists[r] # {} /\ running = TargetRules[r].parent
    /\ LET values == Inspected(r)
           hits   == {v \in values : OperatorTakes(v)}
       IN  /\ asked' = (IF running = NoRule THEN {} ELSE asked)
                       \cup {[rule |-> r, ctls |-> ctls]}
           /\ seen' = (IF running = NoRule THEN {} ELSE seen)
                      \cup {[rule |-> r, value |-> v, ctls |-> ctls] : v \in values}
           /\ running' = IF hits = {} THEN NoRule ELSE r
           /\ IF hits = {} THEN cleanMatchedVars
              ELSE matched' = matched \cup {v.name : v \in hits}
    /\ UNCHANGED <<written, updates, request, ctls, lists>>

(* The last link of a chain.                                               *)
endRule ==
    /\ running # NoRule
    /\ \A r \in DOMAIN TargetRules : TargetRules[r].parent = running => lists[r] = {}
    /\ running' = NoRule
    /\ cleanMatchedVars
    /\ UNCHANGED <<written, updates, request, ctls, asked, seen, lists>>

Tags == UNION {TargetRules[r].tags : r \in DOMAIN TargetRules}
Ids  == {TargetRules[r].id : r \in DOMAIN TargetRules} \ {0}
Msgs == {TargetRules[r].msg : r \in DOMAIN TargetRules} \ {""}

NextTargets ==
    \/ \E r \in DOMAIN TargetRules : SecRule(r) \/ evaluateLink(r)
    \/ loadUpdateTarget("id", Ids) \/ loadUpdateTarget("tag", Tags) \/ loadUpdateTarget("msg", Msgs)
    \/ ruleRemoveTarget("id", Ids) \/ ruleRemoveTarget("tag", Tags)
    \/ endRule

SpecTargets == InitTargets /\ [][NextTargets]_targetsVars

-----------------------------------------------------------------------------
(* The rules a directive or an action is meant for.                        *)
IsMeant(x, r) ==
    LET rule == TargetRules[r]
    IN  CASE x.by = "id"  -> rule.parent = NoRule /\ x.of = rule.id
          [] x.by = "tag" -> x.of \in rule.tags
          [] x.by = "msg" -> x.of = rule.msg

(* An exclusion beside a target takes the target of its very name, and the *)
(* values of its key from the others of its collection; but nothing from   *)
(* RULE, from a count, or from a target of a collection that is not stored *)
(* which asks for a value by its name (variables/rule.h,                   *)
(* anchored_set_variable.cc).                                              *)
TakesBeside(e, v, value) ==
    /\ Excludes(e) /\ e.col = v.col
    /\ \/ fullName(e) = fullName(v)
       \/ /\ v.mod # "count" /\ v.col # "RULE"
          /\ v.kind \in {"all", "regex"} \/ v.col \in Stored
          /\ toOmit({e}, value.key)

(* The name of a target in a directive, or in an action that runs before   *)
(* (a), takes it from the targets a rule was written with.                 *)
TakesTarget(a, v) ==
    \/ \E u \in updates : IsMeant(u, a.rule) /\ Excludes(u.var) /\ fullName(u.var) = fullName(v)
    \/ \E x \in a.ctls : /\ IsMeant(x, a.rule)
                         /\ \/ x.text = fullName(v)
                            \/ x.by = "id" /\ FoldedText(x.text) = FoldedText(fullName(v))

(* The name of a value, or a pattern in a directive, takes it whatever     *)
(* target it is of.                                                        *)
TakesValue(a, value) ==
    \/ \E u \in updates :
        /\ IsMeant(u, a.rule) /\ Excludes(u.var)
        /\ IF u.var.kind = "regex" THEN Finds(u.var.name, value) ELSE value.name = fullName(u.var)
    \/ \E x \in a.ctls : IsMeant(x, a.rule) /\ x.text = value.name

IsAdded(a, value) ==
    \E u \in updates : /\ IsMeant(u, a.rule) /\ ~Excludes(u.var)
                       /\ value \in evaluateVariable(a.rule, u.var)

IsLeft(a, value) ==
    \E v \in lists[a.rule] : /\ ~Excludes(v) /\ value \in evaluateVariable(a.rule, Variable(v))
                             /\ ~TakesTarget(a, v)
                             /\ \A e \in lists[a.rule] : ~TakesBeside(e, v, value)

(* A value is inspected only if some target of the rule is left to give it *)
(* and no exclusion meant for the rule takes it: one that a directive, an  *)
(* action of a rule, or of a link that ran before, names the value or the  *)
(* target in (RuleWithOperator::getFinalVars, evaluate).                   *)
ExcludedIsNotInspected ==
    \A s \in seen : (IsAdded(s, s.value) \/ IsLeft(s, s.value)) /\ ~TakesValue(s, s.value)

(* Whatever a target gives, and a count, is inspected each time the rule   *)
(* is asked, unless an exclusion meant for this rule takes it: one that is *)
(* meant for another rule, in a directive or in an action that ran before, *)
(* takes nothing.                                                          *)
OthersAreInspected ==
    \A a \in asked :
        LET named == {v \in lists[a.rule] : ~Excludes(v)}
            added == {u \in updates : ~Excludes(u.var) /\ IsMeant(u, a.rule)}
        IN  \A value \in UNION ({evaluateVariable(a.rule, Variable(v)) : v \in named}
                                \cup {evaluateVariable(a.rule, u.var) : u \in added}) :
                \/ [rule |-> a.rule, value |-> value, ctls |-> a.ctls] \in seen
                \/ TakesValue(a, value)
                \/ ~IsAdded(a, value) /\ ~IsLeft(a, value)

(* MATCHED_VARS shows the actions of a rule what this rule, or the links   *)
(* before it in its chain, inspected: nothing of a rule that ran before.   *)
MatchedWasInspected == running # NoRule => matched \subseteq {s.value.name : s \in seen}

(* A rule inspects its targets, but for what is excluded from it.          *)
InspectsItsTargets == ExcludedIsNotInspected /\ OthersAreInspected /\ MatchedWasInspected
=============================================================================
