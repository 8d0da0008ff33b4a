------------------------------- MODULE Loading -------------------------------
(***************************************************************************)
(* Loading a configuration.  A Driver reads one file, directive by         *)
(* directive; a directive that is refused ends the file and the Driver is  *)
(* thrown away.  At the end of the file the Driver is merged into a        *)
(* RulesSet, and RulesSets are merged into each other (a location of a web *)
(* server takes over what its server has).  A merge appends phase by phase *)
(* and stops at the first phase with an id that is there already; the      *)
(* properties are merged in any case.                                      *)
(***************************************************************************)
EXTENDS Integers, Sequences

CONSTANTS RulesSets,
          Directives,     \* what files are made of
          NumPhases,      \* NUMBER_OF_PHASES
          MaxDirectives,  \* bound: directives of a file
          MaxMerges       \* bound: loads and merges

Phases  == 0 .. NumPhases - 1
Driver  == "driver"
NoSet   == "none"
NotSet  == "NotSet"
NoDirective == [dir |-> "none"]

(* A Driver and a RulesSet are both RulesSetProperties with rules.         *)
Owners == RulesSets \cup {Driver}

Kinds == {"rule", "action", "script", "marker"}
Link  == [id : Nat, chained : BOOLEAN]
Rule  == [kind : Kinds, id : Nat, links : Seq(Link)]

DirectiveType ==
    [dir : {"rule"}, id : Nat, phase : Phases, chain : BOOLEAN, disruptive : BOOLEAN]
    \cup [dir : {"action", "script"}, id : Nat, phase : Phases]
    \cup [dir : {"marker"}, id : Nat]
    \cup [dir : {"default"}, phase : Phases]
    \cup [dir : {"engine"}, value : {"On", "Off", "DetectionOnly"}]
    \cup [dir : {"remove"}, lo : Nat, hi : Nat]
    \cup [dir : {"invalid", "throws"}]

ASSUME LoadingAssumption ==
    /\ NumPhases \in Nat \ {0}
    /\ Directives \subseteq DirectiveType
    /\ Driver \notin RulesSets /\ NoSet \notin RulesSets
    /\ MaxDirectives \in Nat /\ MaxMerges \in Nat

VARIABLES m_rulesAtPhase,    \* the rules of each owner and phase
          m_secRuleEngine,
          m_defaultActions,  \* how many SecDefaultActions apply to a phase
          m_ranges,          \* m_exceptions
          m_lastRule,        \* where the last SecRule of the Driver is
          loadingInto,       \* the RulesSet that is being loaded
          lines,             \* directives the Driver has read
          merges,            \* loads and merges so far
          failed,            \* history: RulesSets with a merge that failed
          refused            \* history: the directive that ended the last file

vars == <<m_rulesAtPhase, m_secRuleEngine, m_defaultActions, m_ranges,
          m_lastRule, loadingInto, lines, merges, failed, refused>>

NoLastRule == <<0, 0>>

TypeOK ==
    /\ m_rulesAtPhase \in [Owners -> [Phases -> Seq(Rule)]]
    /\ m_secRuleEngine \in [Owners -> {NotSet, "On", "Off", "DetectionOnly"}]
    /\ m_defaultActions \in [Owners -> [Phases -> Nat]]
    /\ m_ranges \in [Owners -> SUBSET (Nat \X Nat)]
    /\ m_lastRule \in Phases \X Nat
    /\ m_lastRule # NoLastRule =>
          m_lastRule[2] \in 1 .. Len(m_rulesAtPhase[Driver][m_lastRule[1]])
    /\ loadingInto \in RulesSets \cup {NoSet}
    /\ lines \in Nat
    /\ merges \in Nat
    /\ failed \subseteq RulesSets
    /\ refused \in Directives \cup {NoDirective}

NoRules    == [p \in Phases |-> << >>]
NoDefaults == [p \in Phases |-> 0]

Init ==
    /\ m_rulesAtPhase = [x \in Owners |-> NoRules]
    /\ m_secRuleEngine = [x \in Owners |-> NotSet]
    /\ m_defaultActions = [x \in Owners |-> NoDefaults]
    /\ m_ranges = [x \in Owners |-> {}]
    /\ m_lastRule = NoLastRule
    /\ loadingInto = NoSet
    /\ lines = 0
    /\ merges = 0
    /\ failed = {}
    /\ refused = NoDirective

-----------------------------------------------------------------------------
(* RulesSet::load and loadFromUri make a Driver.                           *)
loadFromUri(s) ==
    /\ loadingInto = NoSet
    /\ merges < MaxMerges
    /\ loadingInto' = s
    /\ refused' = NoDirective
    /\ UNCHANGED <<m_rulesAtPhase, m_secRuleEngine, m_defaultActions, m_ranges,
                   m_lastRule, lines, merges, failed>>

Read(d, dir) == /\ loadingInto # NoSet
                /\ lines < MaxDirectives
                /\ d.dir = dir
                /\ lines' = lines + 1
                /\ UNCHANGED <<loadingInto, merges, failed, refused>>

(* The ids of the SecRules of an owner.  Chained rules, SecActions and     *)
(* scripts are not looked at.                                              *)
RuleIds(x) == {n \in Nat : \E p \in Phases :
              \E i \in DOMAIN m_rulesAtPhase[x][p] :
                 /\ m_rulesAtPhase[x][p][i].kind = "rule"
                 /\ m_rulesAtPhase[x][p][i].id = n}

isChained == /\ m_lastRule # NoLastRule
             /\ LET links == m_rulesAtPhase[Driver][m_lastRule[1]][m_lastRule[2]].links
                IN  links[Len(links)].chained

LinkOf(d) == [id |-> d.id, chained |-> d.chain]

(* RulesSetPhases::insert, and a child for the rule at a place.            *)
Insert(rules, p, r) == [rules EXCEPT ![p] = Append(@, r)]

WithLink(r, link) == [r EXCEPT !.links = Append(@, link)]

Chain(rules, at, link) ==
    [rules EXCEPT ![at[1]] = [rules[at[1]] EXCEPT ![at[2]] =
       WithLink(rules[at[1]][at[2]], link)]]

Inserted(p, r) ==
    [m_rulesAtPhase EXCEPT ![Driver] = Insert(m_rulesAtPhase[Driver], p, r)]

OnlyRules == UNCHANGED <<m_secRuleEngine, m_defaultActions, m_ranges>>

(* The rule becomes the child of the one before it, in the phase of that.  *)
addChainedRule(d) ==
    /\ Read(d, "rule")
    /\ isChained
    /\ ~d.disruptive
    /\ m_rulesAtPhase' =
          [m_rulesAtPhase EXCEPT ![Driver] =
             Chain(m_rulesAtPhase[Driver], m_lastRule, LinkOf(d))]
    /\ UNCHANGED m_lastRule
    /\ OnlyRules

addSecRule(d) ==
    /\ Read(d, "rule")
    /\ ~isChained
    /\ d.id # 0
    /\ d.id \notin RuleIds(Driver)
    /\ m_rulesAtPhase' =
          Inserted(d.phase, [kind |-> "rule", id |-> d.id, links |-> <<LinkOf(d)>>])
    /\ m_lastRule' = <<d.phase, Len(m_rulesAtPhase[Driver][d.phase]) + 1>>
    /\ OnlyRules

(* Mutant: a SecAction forgets the rule before it.                         *)
MutAddSecAction(d) ==
    /\ Read(d, d.dir)
    /\ d.dir \in {"action", "script"}
    /\ m_rulesAtPhase' = Inserted(d.phase, [kind |-> d.dir, id |-> d.id, links |-> << >>])
    /\ m_lastRule' = NoLastRule
    /\ OnlyRules

(* addSecAction and addSecRuleScript: ids are not compared, and a chain    *)
(* that is open stays open.                                                *)
addSecAction(d) ==
    /\ Read(d, d.dir)
    /\ d.dir \in {"action", "script"}
    /\ m_rulesAtPhase' = Inserted(d.phase, [kind |-> d.dir, id |-> d.id, links |-> << >>])
    /\ UNCHANGED m_lastRule
    /\ OnlyRules

(* Mutant: the last phase is forgotten.                                    *)
MutAddSecMarker(d) ==
    /\ Read(d, "marker")
    /\ m_rulesAtPhase' =
          [m_rulesAtPhase EXCEPT ![Driver] = [p \in Phases |->
             IF p = NumPhases - 1 THEN @[p]
             ELSE Append(@[p], [kind |-> "marker", id |-> d.id, links |-> << >>])]]
    /\ UNCHANGED m_lastRule
    /\ OnlyRules

addSecMarker(d) ==
    /\ Read(d, "marker")
    /\ m_rulesAtPhase' =
          [m_rulesAtPhase EXCEPT ![Driver] = [p \in Phases |->
             Append(@[p], [kind |-> "marker", id |-> d.id, links |-> << >>])]]
    /\ UNCHANGED m_lastRule
    /\ OnlyRules

secDefaultAction(d) ==
    /\ Read(d, "default")
    /\ m_defaultActions[Driver][d.phase] = 0
    /\ m_defaultActions' =
          [m_defaultActions EXCEPT ![Driver] = [@ EXCEPT ![d.phase] = 1]]
    /\ UNCHANGED <<m_rulesAtPhase, m_lastRule, m_secRuleEngine, m_ranges>>

secRuleEngine(d) ==
    /\ Read(d, "engine")
    /\ m_secRuleEngine' = [m_secRuleEngine EXCEPT ![Driver] = d.value]
    /\ UNCHANGED <<m_rulesAtPhase, m_lastRule, m_defaultActions, m_ranges>>

-----------------------------------------------------------------------------
(* SecRuleRemoveById lo-hi: RulesExceptions::load compares the bounds as   *)
(* strings.                                                                *)
InDecimal[n \in Nat] == IF n < 10 THEN <<n>> ELSE Append(InDecimal[n \div 10], n % 10)

StringGreater(a, b) ==
    \E i \in DOMAIN a : /\ i > Len(b) \/ a[i] > b[i]
                        /\ \A j \in 1 .. i - 1 : j <= Len(b) /\ a[j] = b[j]

RangeIsRefused(lo, hi) == StringGreater(InDecimal[lo], InDecimal[hi])

secRuleRemoveById(d) ==
    /\ Read(d, "remove")
    /\ ~RangeIsRefused(d.lo, d.hi)
    /\ m_ranges' = [m_ranges EXCEPT ![Driver] = @ \cup {<<d.lo, d.hi>>}]
    /\ UNCHANGED <<m_rulesAtPhase, m_lastRule, m_defaultActions, m_secRuleEngine>>

-----------------------------------------------------------------------------
(* What the directives above do not accept.                                *)
IsRefused(d) ==
    CASE d.dir = "rule"    -> IF isChained THEN d.disruptive
                              ELSE d.id = 0 \/ d.id \in RuleIds(Driver)
      [] d.dir = "default" -> m_defaultActions[Driver][d.phase] # 0
      [] d.dir = "remove"  -> RangeIsRefused(d.lo, d.hi)
      [] d.dir = "invalid" -> TRUE
      [] OTHER             -> FALSE

(* The Driver goes; the RulesSets are left with what the arguments say.    *)
DriverDeleted(rules, engine, defaults, ranges) ==
    /\ m_rulesAtPhase' = [rules EXCEPT ![Driver] = NoRules]
    /\ m_secRuleEngine' = [engine EXCEPT ![Driver] = NotSet]
    /\ m_defaultActions' = [defaults EXCEPT ![Driver] = NoDefaults]
    /\ m_ranges' = [ranges EXCEPT ![Driver] = {}]
    /\ m_lastRule' = NoLastRule
    /\ lines' = 0
    /\ loadingInto' = NoSet

(* The parser stops and the Driver is deleted; load returns -1.            *)
parseFails(d) ==
    /\ loadingInto # NoSet
    /\ lines < MaxDirectives
    /\ IsRefused(d)
    /\ refused' = d
    /\ merges' = merges + 1
    /\ DriverDeleted(m_rulesAtPhase, m_secRuleEngine, m_defaultActions, m_ranges)
    /\ UNCHANGED failed

-----------------------------------------------------------------------------
(* RulesSetPhases::append: the ids of `to' are collected before the first  *)
(* phase is appended.                                                      *)
Duplicated(from, to, p) ==
    \E i \in DOMAIN m_rulesAtPhase[from][p] :
       /\ m_rulesAtPhase[from][p][i].kind = "rule"
       /\ m_rulesAtPhase[from][p][i].id \in RuleIds(to)

(* Mutant: a phase is compared with the same phase only.                   *)
MutAppended(from, to) ==
    {p \in Phases : \A q \in 0 .. p :
       ~\E i \in DOMAIN m_rulesAtPhase[from][q], j \in DOMAIN m_rulesAtPhase[to][q] :
          /\ m_rulesAtPhase[from][q][i].kind = "rule"
          /\ m_rulesAtPhase[to][q][j].kind = "rule"
          /\ m_rulesAtPhase[from][q][i].id = m_rulesAtPhase[to][q][j].id}

(* The phases before the first one with a duplicate.                       *)
Appended(from, to) == {p \in Phases : \A q \in 0 .. p : ~Duplicated(from, to, q)}

(* Mutant: the engine state of the other set is taken over.                *)
MutMergedEngine(from, to) ==
    IF m_secRuleEngine[from] # NotSet THEN m_secRuleEngine[from]
                                      ELSE m_secRuleEngine[to]

MergedEngine(from, to) ==
    IF m_secRuleEngine[to] = NotSet THEN m_secRuleEngine[from]
                                    ELSE m_secRuleEngine[to]

(* RulesSet::merge.  Between two RulesSets there is no Driver to delete.   *)
MergeInto(from, to) ==
    /\ DriverDeleted(
          [m_rulesAtPhase EXCEPT ![to] = [p \in Phases |->
             IF p \in Appended(from, to) THEN @[p] \o m_rulesAtPhase[from][p] ELSE @[p]]],
          [m_secRuleEngine EXCEPT ![to] = MergedEngine(from, to)],
          [m_defaultActions EXCEPT ![to] = [p \in Phases |-> @[p] + m_defaultActions[from][p]]],
          [m_ranges EXCEPT ![to] = @ \cup m_ranges[from]])
    /\ failed' = IF Appended(from, to) = Phases /\ from \notin failed
                 THEN failed ELSE failed \cup {to}
    /\ merges' = merges + 1

endOfFile ==
    /\ loadingInto # NoSet
    /\ MergeInto(Driver, loadingInto)
    /\ UNCHANGED refused

(* A semantic action of the parser throws: parse catches it, reports it in *)
(* the m_parserError of the Driver and returns 1, as for a file that was   *)
(* read to its end.  The Driver is merged as far as it got.                *)
parserThrows(d) ==
    /\ loadingInto # NoSet
    /\ lines < MaxDirectives
    /\ d.dir = "throws"
    /\ MergeInto(Driver, loadingInto)
    /\ refused' = d

mergeRulesSet(from, to) ==
    /\ loadingInto = NoSet
    /\ from # to
    /\ merges < MaxMerges
    /\ MergeInto(from, to)
    /\ UNCHANGED refused

-----------------------------------------------------------------------------
Directive(d) == \/ addChainedRule(d) \/ addSecRule(d)
                \/ addSecAction(d) \/ addSecMarker(d)
                \/ secDefaultAction(d) \/ secRuleEngine(d)
                \/ secRuleRemoveById(d)
                \/ parseFails(d) \/ parserThrows(d)

Next == \/ \E s \in RulesSets : loadFromUri(s)
        \/ \E d \in Directives : Directive(d)
        \/ endOfFile
        \/ \E from, to \in RulesSets : mergeRulesSet(from, to)

Spec == Init /\ [][Next]_vars

-----------------------------------------------------------------------------
(* Every SecRule that starts a chain has an id, and no two of them in one  *)
(* RulesSet or Driver have the same, through all loads and merges, the     *)
(* ones that fail half way included.  ctl and SecRule...ById rely on it.   *)
UniqueIds ==
    \A x \in Owners : \A p, q \in Phases :
       \A i \in DOMAIN m_rulesAtPhase[x][p], j \in DOMAIN m_rulesAtPhase[x][q] :
          LET r == m_rulesAtPhase[x][p][i]
              s == m_rulesAtPhase[x][q][j]
          IN  r.kind = "rule" /\ s.kind = "rule" =>
                 /\ r.id # 0
                 /\ r.id = s.id => p = q /\ i = j

(* A chain is cut short only by the end of its file: among the rules of a  *)
(* Driver only the last SecRule can still wait for its next link, whatever *)
(* SecActions, scripts and markers are in between.                         *)
Waits(r) == r.links # << >> /\ r.links[Len(r.links)].chained

OnlyLastChainIsOpen ==
    \A p \in Phases : \A i \in DOMAIN m_rulesAtPhase[Driver][p] :
       Waits(m_rulesAtPhase[Driver][p][i]) => <<p, i>> = m_lastRule

(* skipAfter works in every phase: the same markers stand in the same      *)
(* order in all of them, unless a merge has failed between two phases.     *)
MarkersOf(rules) ==
    LET upTo[i \in 0 .. Len(rules)] ==
            IF i = 0 THEN << >>
            ELSE IF rules[i].kind = "marker" THEN Append(upTo[i - 1], rules[i])
            ELSE upTo[i - 1]
    IN  upTo[Len(rules)]

Markers(x, p) == MarkersOf(m_rulesAtPhase[x][p])

MarkersInEveryPhase ==
    \A x \in Owners \ failed : \A p, q \in Phases : Markers(x, p) = Markers(x, q)

(* What a RulesSet says of SecRuleEngine stays, whatever is loaded into it *)
(* or merged with it later: a location keeps its own engine state.         *)
EngineStateStays ==
    [][\A s \in RulesSets : m_secRuleEngine[s] # NotSet =>
                           m_secRuleEngine'[s] = m_secRuleEngine[s]]_vars

-----------------------------------------------------------------------------
(* What the repository says, and the code does not do.                     *)

(* A load that meets an error has failed, and loads no rules.              *)
FileWithErrorAddsNoRules ==
    [][refused' # refused /\ refused' # NoDirective =>
          \A s \in RulesSets : m_rulesAtPhase'[s] = m_rulesAtPhase[s]]_vars
=============================================================================
