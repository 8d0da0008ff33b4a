--------------------------- MODULE LoadingProofs ---------------------------
(* Proofs of what is built when rules are loaded: the rules of a RulesSet, *)
(* and the tree of the networks of an @ipMatch.                            *)
EXTENDS Loading, IpTree, FiniteSetTheorems, WellFoundedInduction, TLAPS

(* UniqueIds, for one table of rules.                                      *)
HasUniqueIds(rules) ==
    \A p, q \in Phases : \A i \in DOMAIN rules[p], j \in DOMAIN rules[q] :
       rules[p][i].kind = "rule" /\ rules[q][j].kind = "rule" =>
          /\ rules[p][i].id # 0
          /\ rules[p][i].id = rules[q][j].id => p = q /\ i = j

Table == [Phases -> Seq(Rule)]

IdsIn(rules) == {n \in Nat : \E p \in Phases : \E i \in DOMAIN rules[p] :
                    rules[p][i].kind = "rule" /\ rules[p][i].id = n}

Inv == TypeOK /\ UniqueIds

LEMMA UniquePerOwner == UniqueIds <=> \A x \in Owners : HasUniqueIds(m_rulesAtPhase[x])
  BY DEF UniqueIds, HasUniqueIds

LEMMA EmptyTable == NoRules \in Table /\ HasUniqueIds(NoRules)
  BY DEF NoRules, Table, HasUniqueIds

(* A rule with a new id, or something that is not a SecRule, is appended.  *)
LEMMA AppendUnique ==
    ASSUME NEW rules \in Table, HasUniqueIds(rules),
           NEW ph \in Phases, NEW r \in Rule,
           r.kind = "rule" => r.id # 0 /\ r.id \notin IdsIn(rules)
    PROVE  LET new == Insert(rules, ph, r)
           IN  new \in Table /\ HasUniqueIds(new)
<1> DEFINE new == Insert(rules, ph, r)
<1> USE DEF Insert
<1>1. new \in Table
  BY DEF Table
<1>2. ASSUME NEW p \in Phases, NEW i \in DOMAIN new[p], new[p][i].kind = "rule"
      PROVE  \/ i \in DOMAIN rules[p] /\ new[p][i] = rules[p][i]
             \/ p = ph /\ i = Len(rules[ph]) + 1 /\ new[p][i] = r
  BY <1>2 DEF Table
<1>3. ASSUME NEW p \in Phases, NEW i \in DOMAIN rules[p], rules[p][i].kind = "rule"
      PROVE  rules[p][i].id \in IdsIn(rules)
  <2>1. rules[p] \in Seq(Rule)
    BY DEF Table
  <2>2. rules[p][i] \in Rule
    BY <2>1
  <2>3. rules[p][i].id \in Nat
    BY <2>2 DEF Rule
  <2> QED
    BY <1>3, <2>3 DEF IdsIn
<1>4. HasUniqueIds(new)
  <2> HIDE DEF new
  <2> SUFFICES ASSUME NEW p \in Phases, NEW q \in Phases,
                      NEW i \in DOMAIN new[p], NEW j \in DOMAIN new[q],
                      new[p][i].kind = "rule", new[q][j].kind = "rule"
               PROVE  /\ new[p][i].id # 0
                      /\ new[p][i].id = new[q][j].id => p = q /\ i = j
    BY DEF HasUniqueIds
  <2>1. CASE i \in DOMAIN rules[p] /\ new[p][i] = rules[p][i]
             /\ j \in DOMAIN rules[q] /\ new[q][j] = rules[q][j]
    BY <2>1 DEF HasUniqueIds
  <2>2. CASE i \in DOMAIN rules[p] /\ new[p][i] = rules[p][i]
             /\ q = ph /\ j = Len(rules[ph]) + 1 /\ new[q][j] = r
    BY <2>2, <1>3 DEF HasUniqueIds
  <2>3. CASE j \in DOMAIN rules[q] /\ new[q][j] = rules[q][j]
             /\ p = ph /\ i = Len(rules[ph]) + 1 /\ new[p][i] = r
    BY <2>3, <1>3 DEF HasUniqueIds
  <2>4. CASE /\ p = ph /\ i = Len(rules[ph]) + 1 /\ new[p][i] = r
             /\ q = ph /\ j = Len(rules[ph]) + 1 /\ new[q][j] = r
    BY <2>4
  <2> QED
    BY <1>2, <2>1, <2>2, <2>3, <2>4
<1> QED
  BY <1>1, <1>4

(* Markers are appended in every phase.                                    *)
LEMMA MarkersUnique ==
    ASSUME NEW rules \in Table, HasUniqueIds(rules),
           NEW r \in Rule, r.kind # "rule"
    PROVE  LET new == [p \in Phases |-> Append(rules[p], r)]
           IN  new \in Table /\ HasUniqueIds(new)
<1> DEFINE new == [p \in Phases |-> Append(rules[p], r)]
<1>1. new \in Table
  BY DEF Table
<1>2. ASSUME NEW p \in Phases, NEW i \in DOMAIN new[p], new[p][i].kind = "rule"
      PROVE  i \in DOMAIN rules[p] /\ new[p][i] = rules[p][i]
  BY <1>2 DEF Table
<1>3. HasUniqueIds(new)
  <2> HIDE DEF new
  <2> QED
    BY <1>2 DEF HasUniqueIds
<1> QED
  BY <1>1, <1>3

(* The phases in A of one table appended to the other.                     *)
Joined(to, from, A) == [p \in Phases |-> IF p \in A THEN to[p] \o from[p] ELSE to[p]]

(* The table of a merge: the phases in A are appended, and none of them    *)
(* has an id of the table they are appended to.                            *)
LEMMA MergeUnique ==
    ASSUME NEW to \in Table, NEW from \in Table,
           HasUniqueIds(to), HasUniqueIds(from),
           NEW A \in SUBSET Phases,
           \A p \in A : \A i \in DOMAIN from[p] :
              from[p][i].kind = "rule" => from[p][i].id \notin IdsIn(to)
    PROVE  Joined(to, from, A) \in Table /\ HasUniqueIds(Joined(to, from, A))
<1> DEFINE new == [p \in Phases |-> IF p \in A THEN to[p] \o from[p] ELSE to[p]]
<1>1. new \in Table
  BY DEF Table
<1>2. ASSUME NEW p \in Phases, NEW i \in DOMAIN new[p]
      PROVE  \/ i \in DOMAIN to[p] /\ new[p][i] = to[p][i]
             \/ /\ p \in A /\ i - Len(to[p]) \in DOMAIN from[p]
                /\ new[p][i] = from[p][i - Len(to[p])]
                /\ i \in Nat /\ Len(to[p]) \in Nat
  BY <1>2 DEF Table
<1>3. ASSUME NEW p \in Phases, NEW i \in DOMAIN to[p], to[p][i].kind = "rule"
      PROVE  to[p][i].id \in IdsIn(to)
  <2>1. to[p] \in Seq(Rule)
    BY DEF Table
  <2>2. to[p][i] \in Rule
    BY <2>1
  <2>3. to[p][i].id \in Nat
    BY <2>2 DEF Rule
  <2> QED
    BY <1>3, <2>3 DEF IdsIn
<1>4. HasUniqueIds(new)
  <2> HIDE DEF new
  <2> SUFFICES ASSUME NEW p \in Phases, NEW q \in Phases,
                      NEW i \in DOMAIN new[p], NEW j \in DOMAIN new[q],
                      new[p][i].kind = "rule", new[q][j].kind = "rule"
               PROVE  /\ new[p][i].id # 0
                      /\ new[p][i].id = new[q][j].id => p = q /\ i = j
    BY DEF HasUniqueIds
  <2> DEFINE Old(ph, k) == k \in DOMAIN to[ph] /\ new[ph][k] = to[ph][k]
             Added(ph, k) == /\ ph \in A /\ k - Len(to[ph]) \in DOMAIN from[ph]
                             /\ new[ph][k] = from[ph][k - Len(to[ph])]
                             /\ k \in Nat /\ Len(to[ph]) \in Nat
  <2>1. CASE Old(p, i) /\ Old(q, j)
    BY <2>1 DEF HasUniqueIds
  <2>2. CASE Old(p, i) /\ Added(q, j)
    BY <2>2, <1>3 DEF HasUniqueIds
  <2>3. CASE Added(p, i) /\ Old(q, j)
    <3>1. new[p][i].id # 0
      BY <2>3 DEF HasUniqueIds
    <3> QED
      BY <2>3, <1>3, <3>1
  <2>4. CASE Added(p, i) /\ Added(q, j)
    <3>1. /\ new[p][i].id # 0
          /\ new[p][i].id = new[q][j].id =>
                p = q /\ i - Len(to[p]) = j - Len(to[q])
      BY <2>4, SMTT(30) DEF HasUniqueIds
    <3> QED
      BY <3>1, <2>4
  <2> QED
    BY <1>2, <2>1, <2>2, <2>3, <2>4
<1> QED
  BY <1>1, <1>4 DEF Joined

-----------------------------------------------------------------------------
USE DEF Table

LEMMA InitInv == Init => Inv
<1> SUFFICES ASSUME Init PROVE Inv
  OBVIOUS
<1>1. 0 \in Phases
  BY LoadingAssumption DEF Phases
<1>2. TypeOK
  BY <1>1, EmptyTable DEF Init, TypeOK, NoRules, NoDefaults, NoLastRule
<1>3. UniqueIds
  BY EmptyTable, UniquePerOwner DEF Init
<1> QED
  BY <1>2, <1>3 DEF Inv

(* The rules of one owner change to a table that is all right.             *)
LEMMA NewTable ==
    ASSUME Inv, NEW x \in Owners, NEW new \in Table, HasUniqueIds(new),
           m_rulesAtPhase' = [m_rulesAtPhase EXCEPT ![x] = new]
    PROVE  m_rulesAtPhase' \in [Owners -> Table] /\ UniqueIds'
<1>1. m_rulesAtPhase' \in [Owners -> Table]
  BY DEF Inv, TypeOK
<1>2. ASSUME NEW y \in Owners PROVE HasUniqueIds(m_rulesAtPhase'[y])
  <2>1. HasUniqueIds(m_rulesAtPhase[y])
    BY UniquePerOwner DEF Inv
  <2>2. m_rulesAtPhase'[y] = IF y = x THEN new ELSE m_rulesAtPhase[y]
    BY DEF Inv, TypeOK
  <2> QED
    BY <2>1, <2>2
<1>3. UniqueIds'
  BY <1>2 DEF UniqueIds, HasUniqueIds
<1> QED
  BY <1>1, <1>3

LEMMA DirectiveFacts ==
    ASSUME NEW d \in Directives
    PROVE  /\ d.dir = "rule" => /\ d.id \in Nat /\ d.phase \in Phases
                                /\ d.chain \in BOOLEAN
           /\ d.dir \in {"action", "script"} => d.id \in Nat /\ d.phase \in Phases
           /\ d.dir = "marker" => d.id \in Nat
           /\ d.dir = "default" => d.phase \in Phases
           /\ d.dir = "engine" => d.value \in {"On", "Off", "DetectionOnly"}
           /\ d.dir = "remove" => d.lo \in Nat /\ d.hi \in Nat
  BY LoadingAssumption DEF DirectiveType

LEMMA DriverIsOwner == Driver \in Owners /\ Driver \notin RulesSets /\ NoSet \notin RulesSets
  BY LoadingAssumption DEF Owners

LEMMA IdsAreIdsIn == \A x : RuleIds(x) = IdsIn(m_rulesAtPhase[x])
  BY DEF RuleIds, IdsIn

(* The Driver is deleted and one set, if any, has a new table.             *)
LEMMA Deletion ==
    ASSUME Inv, NEW x \in Owners, NEW new \in Table, HasUniqueIds(new),
           m_rulesAtPhase' = [[m_rulesAtPhase EXCEPT ![x] = new] EXCEPT ![Driver] = NoRules]
    PROVE  m_rulesAtPhase' \in [Owners -> Table] /\ UniqueIds'
<1>1. m_rulesAtPhase' \in [Owners -> Table]
  BY EmptyTable DEF Inv, TypeOK
<1>2. ASSUME NEW y \in Owners PROVE HasUniqueIds(m_rulesAtPhase'[y])
  <2>1. HasUniqueIds(m_rulesAtPhase[y])
    BY UniquePerOwner DEF Inv
  <2>2. m_rulesAtPhase'[y] = IF y = Driver THEN NoRules
                             ELSE IF y = x THEN new ELSE m_rulesAtPhase[y]
    BY DEF Inv, TypeOK
  <2> QED
    BY <2>1, <2>2, EmptyTable
<1>3. UniqueIds'
  BY <1>2 DEF UniqueIds, HasUniqueIds
<1> QED
  BY <1>1, <1>3

-----------------------------------------------------------------------------
(* One lemma per group of actions.                                         *)

LEMMA AddSecRuleInv ==
    ASSUME Inv, NEW d \in Directives, addSecRule(d) PROVE Inv'
<1> DEFINE r == [kind |-> "rule", id |-> d.id, links |-> <<LinkOf(d)>>]
           old == m_rulesAtPhase[Driver]
           new == Insert(old, d.phase, r)
<1>1. /\ d.dir = "rule" /\ d.id \in Nat /\ d.phase \in Phases /\ d.chain \in BOOLEAN
      /\ d.id # 0 /\ d.id \notin RuleIds(Driver)
  BY DirectiveFacts DEF addSecRule, Read
<1>2. r \in Rule
  BY <1>1 DEF Rule, Kinds, LinkOf, Link
<1>3. old \in Table /\ HasUniqueIds(old)
  BY UniquePerOwner, DriverIsOwner DEF Inv, TypeOK
<1>4. d.id \notin IdsIn(old)
  BY <1>1, IdsAreIdsIn
<1>5. new \in Table /\ HasUniqueIds(new)
  <2> HIDE DEF r, old
  <2>1. r.kind = "rule" => r.id # 0 /\ r.id \notin IdsIn(old)
    BY <1>1, <1>4 DEF r
  <2> QED
    BY <1>1, <1>2, <1>3, <2>1, AppendUnique
<1>6. m_rulesAtPhase' = [m_rulesAtPhase EXCEPT ![Driver] = new]
  BY DEF addSecRule, Inserted
<1>7. m_rulesAtPhase' \in [Owners -> Table] /\ UniqueIds'
  <2> HIDE DEF new
  <2> QED
    BY <1>5, <1>6, NewTable, DriverIsOwner
<1>8. /\ m_lastRule' = <<d.phase, Len(old[d.phase]) + 1>>
      /\ Len(old[d.phase]) \in Nat
      /\ Len(m_rulesAtPhase'[Driver][d.phase]) = Len(old[d.phase]) + 1
  <2>1. m_rulesAtPhase'[Driver] = new
    BY <1>6, DriverIsOwner DEF Inv, TypeOK
  <2>2. Len(new[d.phase]) = Len(old[d.phase]) + 1 /\ Len(old[d.phase]) \in Nat
    BY <1>1, <1>2, <1>3 DEF Insert
  <2> QED
    BY <2>1, <2>2 DEF addSecRule
<1>9a. /\ m_lastRule'[1] = d.phase
       /\ m_lastRule'[2] \in 1 .. Len(m_rulesAtPhase'[Driver][m_lastRule'[1]])
       /\ m_lastRule' \in Phases \X Nat
  BY <1>1, <1>8
<1>9b. /\ UNCHANGED <<m_secRuleEngine, m_defaultActions, m_ranges, loadingInto, merges,
                       failed, refused>>
       /\ lines' \in Nat
  BY DEF addSecRule, Read, OnlyRules, Inv, TypeOK
<1>9. TypeOK'
  BY <1>7, <1>9a, <1>9b DEF Inv, TypeOK
<1> QED
  BY <1>7, <1>9 DEF Inv

(* m_lastRule stays in range when the table of the Driver only grows.      *)
LEMMA LastRuleStays ==
    ASSUME Inv, NEW new \in Table,
           \A p \in Phases : Len(m_rulesAtPhase[Driver][p]) <= Len(new[p])
    PROVE  m_lastRule # NoLastRule => m_lastRule[2] \in 1 .. Len(new[m_lastRule[1]])
<1>1. m_lastRule \in Phases \X Nat /\ m_rulesAtPhase[Driver] \in Table
  BY DriverIsOwner DEF Inv, TypeOK
<1>2. m_lastRule[1] \in Phases /\ m_lastRule[2] \in Nat
  BY <1>1
<1>3. /\ Len(m_rulesAtPhase[Driver][m_lastRule[1]]) \in Nat
      /\ Len(new[m_lastRule[1]]) \in Nat
      /\ Len(m_rulesAtPhase[Driver][m_lastRule[1]]) <= Len(new[m_lastRule[1]])
  BY <1>1, <1>2
<1> QED
  BY <1>2, <1>3 DEF Inv, TypeOK

LEMMA AddSecActionInv ==
    ASSUME Inv, NEW d \in Directives, addSecAction(d) PROVE Inv'
<1> DEFINE r == [kind |-> d.dir, id |-> d.id, links |-> << >>]
           old == m_rulesAtPhase[Driver]
           new == Insert(old, d.phase, r)
<1>1. d.dir \in {"action", "script"} /\ d.id \in Nat /\ d.phase \in Phases
  BY DirectiveFacts DEF addSecAction
<1>2. r \in Rule /\ r.kind # "rule"
  BY <1>1 DEF Rule, Kinds
<1>3. old \in Table /\ HasUniqueIds(old)
  BY UniquePerOwner, DriverIsOwner DEF Inv, TypeOK
<1>4. new \in Table /\ HasUniqueIds(new)
  <2> HIDE DEF r, old
  <2> QED
    BY <1>1, <1>2, <1>3, AppendUnique
<1>5. m_rulesAtPhase' = [m_rulesAtPhase EXCEPT ![Driver] = new]
  BY DEF addSecAction, Inserted
<1>6. \A p \in Phases : Len(old[p]) <= Len(new[p])
  BY <1>2, <1>3 DEF Insert
<1> HIDE DEF new
<1>7. m_rulesAtPhase' \in [Owners -> Table] /\ UniqueIds'
  BY <1>4, <1>5, NewTable, DriverIsOwner
<1>8. m_rulesAtPhase'[Driver] = new
  BY <1>5, DriverIsOwner DEF Inv, TypeOK
<1>9. m_lastRule # NoLastRule => m_lastRule[2] \in 1 .. Len(new[m_lastRule[1]])
  BY <1>4, <1>6, LastRuleStays
<1>10. TypeOK'
  BY <1>7, <1>8, <1>9 DEF addSecAction, Read, OnlyRules, Inv, TypeOK
<1> QED
  BY <1>7, <1>10 DEF Inv

LEMMA AddSecMarkerInv ==
    ASSUME Inv, NEW d \in Directives, addSecMarker(d) PROVE Inv'
<1> DEFINE r == [kind |-> "marker", id |-> d.id, links |-> << >>]
           old == m_rulesAtPhase[Driver]
           new == [p \in Phases |-> Append(old[p], r)]
<1>1. d.dir = "marker" /\ d.id \in Nat
  BY DirectiveFacts DEF addSecMarker, Read
<1>2. r \in Rule /\ r.kind # "rule"
  BY <1>1 DEF Rule, Kinds
<1>3. old \in Table /\ HasUniqueIds(old)
  BY UniquePerOwner, DriverIsOwner DEF Inv, TypeOK
<1>4. new \in Table /\ HasUniqueIds(new)
  <2> HIDE DEF r, old
  <2> QED
    BY <1>2, <1>3, MarkersUnique
<1>5. m_rulesAtPhase' = [m_rulesAtPhase EXCEPT ![Driver] = new]
  BY DriverIsOwner DEF addSecMarker, Inv, TypeOK
<1>6. \A p \in Phases : Len(old[p]) <= Len(new[p])
  BY <1>2, <1>3
<1> HIDE DEF new
<1>7. m_rulesAtPhase' \in [Owners -> Table] /\ UniqueIds'
  BY <1>4, <1>5, NewTable, DriverIsOwner
<1>8. m_rulesAtPhase'[Driver] = new
  BY <1>5, DriverIsOwner DEF Inv, TypeOK
<1>9. m_lastRule # NoLastRule => m_lastRule[2] \in 1 .. Len(new[m_lastRule[1]])
  BY <1>4, <1>6, LastRuleStays
<1>10. TypeOK'
  BY <1>7, <1>8, <1>9 DEF addSecMarker, Read, OnlyRules, Inv, TypeOK
<1> QED
  BY <1>7, <1>10 DEF Inv

LEMMA LinkAdded ==
    ASSUME NEW r \in Rule, NEW l \in Link
    PROVE  /\ WithLink(r, l) \in Rule
           /\ WithLink(r, l).kind = r.kind
           /\ WithLink(r, l).id = r.id
<1>1. r.links \in Seq(Link)
  BY DEF Rule
<1>2. Append(r.links, l) \in Seq(Link)
  BY <1>1
<1>3. WithLink(r, l) = [kind |-> r.kind, id |-> r.id, links |-> Append(r.links, l)]
  BY SMTT(30) DEF WithLink, Rule
<1> QED
  BY <1>2, <1>3 DEF Rule

(* Only the links of a rule change.                                        *)
LEMMA AddChainedRuleInv ==
    ASSUME Inv, NEW d \in Directives, addChainedRule(d) PROVE Inv'
<1> DEFINE ph == m_lastRule[1]
           n == m_lastRule[2]
           old == m_rulesAtPhase[Driver]
           r == WithLink(old[ph][n], LinkOf(d))
           new == Chain(old, m_lastRule, LinkOf(d))
<1>1. d.dir = "rule" /\ d.id \in Nat /\ d.chain \in BOOLEAN
  BY DirectiveFacts DEF addChainedRule, Read
<1>2. old \in Table /\ HasUniqueIds(old)
  BY UniquePerOwner, DriverIsOwner DEF Inv, TypeOK
<1>3. ph \in Phases /\ n \in 1 .. Len(old[ph])
  BY DEF addChainedRule, isChained, Inv, TypeOK
<1>4. old[ph] \in Seq(Rule) /\ old[ph][n] \in Rule
  <2>1. old[ph] \in Seq(Rule)
    BY <1>2, <1>3
  <2> QED
    BY <2>1, <1>3
<1>5. r \in Rule /\ r.kind = old[ph][n].kind /\ r.id = old[ph][n].id
  <2>1. LinkOf(d) \in Link
    BY <1>1 DEF LinkOf, Link
  <2> QED
    BY <2>1, <1>4, LinkAdded
<1>5a. new = [old EXCEPT ![ph] = [old[ph] EXCEPT ![n] = r]]
  BY DEF Chain
<1> HIDE DEF r
<1> HIDE DEF new
<1>6. new \in Table
  BY <1>2, <1>3, <1>4, <1>5, <1>5a
<1>7. \A p \in Phases : DOMAIN new[p] = DOMAIN old[p] /\ Len(new[p]) = Len(old[p])
  BY <1>2, <1>3, <1>4, <1>5, <1>5a
<1>8. \A p \in Phases : \A i \in DOMAIN old[p] :
         new[p][i].kind = old[p][i].kind /\ new[p][i].id = old[p][i].id
  BY <1>2, <1>3, <1>4, <1>5, <1>5a
<1>9. m_rulesAtPhase' = [m_rulesAtPhase EXCEPT ![Driver] = new]
  BY DEF addChainedRule, new
<1>10. HasUniqueIds(new)
  <2> HIDE DEF old
  <2> SUFFICES ASSUME NEW p \in Phases, NEW q \in Phases,
                      NEW i \in DOMAIN new[p], NEW j \in DOMAIN new[q],
                      new[p][i].kind = "rule", new[q][j].kind = "rule"
               PROVE  /\ new[p][i].id # 0
                      /\ new[p][i].id = new[q][j].id => p = q /\ i = j
    BY DEF HasUniqueIds
  <2>1. i \in DOMAIN old[p] /\ j \in DOMAIN old[q]
    BY <1>7
  <2>2. old[p][i].kind = "rule" /\ old[q][j].kind = "rule"
    BY <2>1, <1>8
  <2>3. /\ old[p][i].id # 0
        /\ old[p][i].id = old[q][j].id => p = q /\ i = j
    BY <1>2, <2>1, <2>2 DEF HasUniqueIds
  <2> QED
    BY <2>1, <2>3, <1>8
<1>11. m_rulesAtPhase' \in [Owners -> Table] /\ UniqueIds'
  BY <1>6, <1>9, <1>10, NewTable, DriverIsOwner
<1>12. m_rulesAtPhase'[Driver] = new
  BY <1>9, DriverIsOwner DEF Inv, TypeOK
<1>13. \A p \in Phases : Len(old[p]) <= Len(new[p])
  BY <1>2, <1>7
<1>14. m_lastRule # NoLastRule => m_lastRule[2] \in 1 .. Len(new[m_lastRule[1]])
  BY <1>6, <1>13, LastRuleStays
<1>15. TypeOK'
  BY <1>11, <1>12, <1>14 DEF addChainedRule, Read, OnlyRules, Inv, TypeOK
<1> QED
  BY <1>11, <1>15 DEF Inv

(* The actions that leave the rules alone.                                 *)
LEMMA LoadInv == ASSUME Inv, NEW s \in RulesSets, loadFromUri(s) PROVE Inv'
  BY DEF loadFromUri, Inv, TypeOK, UniqueIds

LEMMA PropertiesInv ==
    ASSUME Inv, NEW d \in Directives,
           secDefaultAction(d) \/ secRuleEngine(d) \/ secRuleRemoveById(d)
    PROVE  Inv'
<1>1. UNCHANGED <<m_rulesAtPhase, m_lastRule, loadingInto, merges, failed, refused>>
      /\ lines' \in Nat
  BY DEF secDefaultAction, secRuleEngine, secRuleRemoveById, Read, Inv, TypeOK
<1>2. m_secRuleEngine' \in [Owners -> {NotSet, "On", "Off", "DetectionOnly"}]
  BY DirectiveFacts DEF secDefaultAction, secRuleEngine, secRuleRemoveById, Read, Inv, TypeOK
<1>3. m_defaultActions' \in [Owners -> [Phases -> Nat]]
  <2>1. CASE secDefaultAction(d)
    <3>1. d.phase \in Phases
      BY <2>1, DirectiveFacts DEF secDefaultAction, Read
    <3>2. [m_defaultActions[Driver] EXCEPT ![d.phase] = 1] \in [Phases -> Nat]
      BY <3>1, DriverIsOwner DEF Inv, TypeOK
    <3> QED
      BY <2>1, <3>2, DriverIsOwner DEF secDefaultAction, Inv, TypeOK
  <2>2. CASE ~secDefaultAction(d)
    BY <2>2 DEF secRuleEngine, secRuleRemoveById, Inv, TypeOK
  <2> QED
    BY <2>1, <2>2
<1>4. m_ranges' \in [Owners -> SUBSET (Nat \X Nat)]
  <2>1. CASE secRuleRemoveById(d)
    <3>1. <<d.lo, d.hi>> \in Nat \X Nat
      BY <2>1, DirectiveFacts DEF secRuleRemoveById, Read
    <3> QED
      BY <2>1, <3>1, DriverIsOwner DEF secRuleRemoveById, Inv, TypeOK
  <2>2. CASE ~secRuleRemoveById(d)
    BY <2>2 DEF secRuleEngine, secDefaultAction, Inv, TypeOK
  <2> QED
    BY <2>1, <2>2
<1>5. TypeOK'
  BY <1>1, <1>2, <1>3, <1>4 DEF Inv, TypeOK
<1>6. UniqueIds'
  BY <1>1 DEF Inv, UniqueIds
<1> QED
  BY <1>5, <1>6 DEF Inv

LEMMA ParseFailsInv == ASSUME Inv, NEW d \in Directives, parseFails(d) PROVE Inv'
<1>1. m_rulesAtPhase[Driver] \in Table /\ HasUniqueIds(m_rulesAtPhase[Driver])
  BY UniquePerOwner, DriverIsOwner DEF Inv, TypeOK
<1>2. m_rulesAtPhase' = [[m_rulesAtPhase EXCEPT ![Driver] = m_rulesAtPhase[Driver]]
                            EXCEPT ![Driver] = NoRules]
  BY DriverIsOwner DEF parseFails, DriverDeleted, Inv, TypeOK
<1>3. m_rulesAtPhase' \in [Owners -> Table] /\ UniqueIds'
  BY <1>1, <1>2, Deletion, DriverIsOwner
<1>4. 0 \in Phases
  BY LoadingAssumption DEF Phases
<1>5. /\ m_lastRule' = NoLastRule /\ m_lastRule' \in Phases \X Nat
      /\ loadingInto' = NoSet /\ lines' \in Nat /\ merges' \in Nat
      /\ failed' = failed /\ refused' \in Directives
  BY <1>4 DEF parseFails, DriverDeleted, NoLastRule, Inv, TypeOK
<1>6. /\ m_secRuleEngine' \in [Owners -> {NotSet, "On", "Off", "DetectionOnly"}]
      /\ m_defaultActions' \in [Owners -> [Phases -> Nat]]
      /\ m_ranges' \in [Owners -> SUBSET (Nat \X Nat)]
  BY DEF parseFails, DriverDeleted, NoDefaults, Inv, TypeOK
<1>7. TypeOK'
  BY <1>3, <1>5, <1>6 DEF Inv, TypeOK
<1> QED
  BY <1>3, <1>7 DEF Inv

(* A merge appends phases without an id of the set they are appended to.   *)
LEMMA MergeInv ==
    ASSUME Inv, NEW from \in Owners, NEW to \in RulesSets, MergeInto(from, to),
           refused' \in Directives \cup {NoDirective}
    PROVE  Inv'
<1> DEFINE A == Appended(from, to)
           fr == m_rulesAtPhase[from]
           old == m_rulesAtPhase[to]
           new == [p \in Phases |-> IF p \in A THEN old[p] \o fr[p] ELSE old[p]]
<1>1. to \in Owners
  BY DEF Owners
<1>2. fr \in Table /\ HasUniqueIds(fr) /\ old \in Table /\ HasUniqueIds(old)
  BY <1>1, UniquePerOwner DEF Inv, TypeOK
<1>3. A \in SUBSET Phases
  BY DEF Appended
<1>4. \A p \in A : \A i \in DOMAIN fr[p] :
         fr[p][i].kind = "rule" => fr[p][i].id \notin IdsIn(old)
  <2>1. \A p \in A : ~Duplicated(from, to, p)
    BY DEF Appended, Phases
  <2> QED
    BY <2>1, IdsAreIdsIn DEF Duplicated
<1>5. m_rulesAtPhase' = [[m_rulesAtPhase EXCEPT ![to] = new] EXCEPT ![Driver] = NoRules]
  BY <1>1 DEF MergeInto, DriverDeleted, Inv, TypeOK
<1>6. new \in Table /\ HasUniqueIds(new)
  <2>1. new = Joined(old, fr, A)
    BY DEF Joined
  <2> HIDE DEF A, fr, old, new
  <2> QED
    BY <1>2, <1>3, <1>4, <2>1, MergeUnique
<1>7. m_rulesAtPhase' \in [Owners -> Table] /\ UniqueIds'
  <2> HIDE DEF new
  <2> QED
    BY <1>1, <1>5, <1>6, Deletion
<1>8. 0 \in Phases
  BY LoadingAssumption DEF Phases
<1>9. /\ m_lastRule' = NoLastRule /\ m_lastRule' \in Phases \X Nat
      /\ loadingInto' = NoSet /\ lines' \in Nat /\ merges' \in Nat
      /\ failed' \subseteq RulesSets
  BY <1>8 DEF MergeInto, DriverDeleted, NoLastRule, Inv, TypeOK
<1>10. m_secRuleEngine' \in [Owners -> {NotSet, "On", "Off", "DetectionOnly"}]
  <2>1. MergedEngine(from, to) \in {NotSet, "On", "Off", "DetectionOnly"}
    BY <1>1 DEF MergedEngine, Inv, TypeOK
  <2> QED
    BY <2>1 DEF MergeInto, DriverDeleted, Inv, TypeOK
<1>11. m_defaultActions' \in [Owners -> [Phases -> Nat]]
  <2> DEFINE sum == [p \in Phases |-> m_defaultActions[to][p] + m_defaultActions[from][p]]
  <2>1. sum \in [Phases -> Nat]
    BY <1>1 DEF Inv, TypeOK
  <2>2. m_defaultActions' =
           [[m_defaultActions EXCEPT ![to] = sum] EXCEPT ![Driver] = NoDefaults]
    BY <1>1 DEF MergeInto, DriverDeleted, Inv, TypeOK
  <2>3. NoDefaults \in [Phases -> Nat]
    BY DEF NoDefaults
  <2> HIDE DEF sum
  <2> QED
    BY <2>1, <2>2, <2>3 DEF Inv, TypeOK
<1>12. m_ranges' \in [Owners -> SUBSET (Nat \X Nat)]
  BY <1>1 DEF MergeInto, DriverDeleted, Inv, TypeOK
<1>13. TypeOK'
  BY <1>7, <1>9, <1>10, <1>11, <1>12 DEF TypeOK
<1> QED
  BY <1>7, <1>13 DEF Inv

-----------------------------------------------------------------------------
LEMMA NextInv == Inv /\ [Next]_vars => Inv'
<1> SUFFICES ASSUME Inv, [Next]_vars PROVE Inv'
  OBVIOUS
<1>1. ASSUME NEW s \in RulesSets, loadFromUri(s) PROVE Inv'
  BY <1>1, LoadInv
<1>2. ASSUME NEW d \in Directives, Directive(d) PROVE Inv'
  <2>1. CASE parserThrows(d)
    <3>1. loadingInto \in RulesSets /\ MergeInto(Driver, loadingInto) /\ refused' \in Directives
      BY <2>1 DEF parserThrows, Inv, TypeOK
    <3> QED
      BY <3>1, MergeInv, DriverIsOwner
  <2> QED
    BY <1>2, <2>1, AddChainedRuleInv, AddSecRuleInv, AddSecActionInv, AddSecMarkerInv,
       PropertiesInv, ParseFailsInv DEF Directive
<1>3. ASSUME endOfFile PROVE Inv'
  <2>1. loadingInto \in RulesSets /\ MergeInto(Driver, loadingInto)
        /\ refused' \in Directives \cup {NoDirective}
    BY <1>3 DEF endOfFile, Inv, TypeOK
  <2> QED
    BY <2>1, MergeInv, DriverIsOwner
<1>4. ASSUME NEW from \in RulesSets, NEW to \in RulesSets, mergeRulesSet(from, to) PROVE Inv'
  <2>1. from \in Owners /\ MergeInto(from, to) /\ refused' \in Directives \cup {NoDirective}
    BY <1>4 DEF mergeRulesSet, Inv, TypeOK, Owners
  <2> QED
    BY <2>1, MergeInv
<1>5. CASE UNCHANGED vars
  BY <1>5 DEF vars, Inv, TypeOK, UniqueIds
<1> QED
  BY <1>1, <1>2, <1>3, <1>4, <1>5 DEF Next

(* Through any sequence of loads and merges, the ones that fail half way   *)
(* included, every SecRule of a RulesSet has an id of its own              *)
(* (Driver::addSecRule and RulesSetPhases::append together see to it), and *)
(* m_lastRule never points outside the rules of the Driver.                *)
THEOREM IdsStayUnique == Spec => [](TypeOK /\ UniqueIds)
<1>1. Init => Inv
  BY InitInv
<1>2. Inv /\ [Next]_vars => Inv'
  BY NextInv
<1> QED
  BY <1>1, <1>2, PTL DEF Spec, Inv

(* No load and no merge changes the engine state a RulesSet already has    *)
(* (merge_ruleengine_value takes over a value only where there is none).   *)
THEOREM EngineStateIsKept == Spec => EngineStateStays
<1> DEFINE Stays == \A s \in RulesSets : m_secRuleEngine[s] # NotSet =>
                       m_secRuleEngine'[s] = m_secRuleEngine[s]
<1>1. Inv /\ [Next]_vars => [Stays]_vars
  <2> SUFFICES ASSUME Inv, Next, NEW s \in RulesSets, m_secRuleEngine[s] # NotSet
               PROVE  m_secRuleEngine'[s] = m_secRuleEngine[s]
    BY DEF vars
  <2>0. s \in Owners /\ s # Driver
    BY DriverIsOwner DEF Owners
  <2>1. ASSUME NEW from, NEW to \in RulesSets, MergeInto(from, to)
        PROVE  m_secRuleEngine'[s] = m_secRuleEngine[s]
    <3>1. m_secRuleEngine' = [[m_secRuleEngine EXCEPT ![to] = MergedEngine(from, to)]
                                 EXCEPT ![Driver] = NotSet]
      BY <2>1 DEF MergeInto, DriverDeleted
    <3>2. m_secRuleEngine'[s] = IF s = to THEN MergedEngine(from, to) ELSE m_secRuleEngine[s]
      BY <2>0, <3>1 DEF Inv, TypeOK
    <3> QED
      BY <3>2 DEF MergedEngine
  <2>2. ASSUME NEW d \in Directives, Directive(d)
        PROVE  m_secRuleEngine'[s] = m_secRuleEngine[s]
    <3>1. CASE parserThrows(d)
      BY <3>1, <2>1 DEF parserThrows, Inv, TypeOK
    <3>2. CASE parseFails(d)
      BY <3>2, <2>0 DEF parseFails, DriverDeleted, Inv, TypeOK
    <3>3. CASE secRuleEngine(d)
      BY <3>3, <2>0 DEF secRuleEngine, Inv, TypeOK
    <3> QED
      BY <2>2, <3>1, <3>2, <3>3 DEF Directive, addChainedRule, addSecRule, addSecAction,
         addSecMarker, OnlyRules, secDefaultAction, secRuleRemoveById
  <2>3. CASE endOfFile
    BY <2>3, <2>1 DEF endOfFile, Inv, TypeOK
  <2>4. CASE \E t \in RulesSets : loadFromUri(t)
    BY <2>4 DEF loadFromUri
  <2>5. CASE \E from, to \in RulesSets : mergeRulesSet(from, to)
    BY <2>5, <2>1 DEF mergeRulesSet
  <2> QED
    BY <2>2, <2>3, <2>4, <2>5 DEF Next
<1>2. Inv /\ [Next]_vars => Inv'
  BY NextInv
<1> QED
  BY <1>1, <1>2, InitInv, PTL DEF Spec, EngineStateStays

-----------------------------------------------------------------------------
(* Chains that wait for their next link.                                   *)

LEMMA LastChainStep ==
    ASSUME Inv, OnlyLastChainIsOpen, [Next]_vars
    PROVE  OnlyLastChainIsOpen'
<1> DEFINE old == m_rulesAtPhase[Driver]
<1>1. /\ m_rulesAtPhase \in [Owners -> Table] /\ old \in Table
      /\ m_lastRule \in Phases \X Nat
  BY DriverIsOwner DEF Inv, TypeOK
<1>2. \A p \in Phases : old[p] \in Seq(Rule)
  BY <1>1
<1>3. ASSUME m_rulesAtPhase'[Driver] = NoRules
      PROVE  OnlyLastChainIsOpen'
  BY <1>3 DEF OnlyLastChainIsOpen, NoRules
<1>4. ASSUME UNCHANGED <<m_rulesAtPhase, m_lastRule>>
      PROVE  OnlyLastChainIsOpen'
  BY <1>4 DEF OnlyLastChainIsOpen, Waits
<1>5. ASSUME NEW d \in Directives, addChainedRule(d)
      PROVE  OnlyLastChainIsOpen'
  <2> DEFINE ph == m_lastRule[1]
             n == m_lastRule[2]
  <2>1. ph \in Phases /\ n \in DOMAIN old[ph] /\ m_lastRule = <<ph, n>>
    <3>1. ph \in Phases /\ n \in 1 .. Len(old[ph]) /\ m_lastRule = <<ph, n>>
      BY <1>5, <1>1 DEF addChainedRule, isChained, Inv, TypeOK
    <3> QED
      BY <1>2, <3>1
  <2>2. PICK r : m_rulesAtPhase' =
           [m_rulesAtPhase EXCEPT ![Driver] =
              [old EXCEPT ![ph] = [old[ph] EXCEPT ![n] = r]]]
    BY <1>5 DEF addChainedRule, Chain
  <2>3. m_rulesAtPhase'[Driver] = [old EXCEPT ![ph] = [old[ph] EXCEPT ![n] = r]]
    BY <1>1, <2>2, DriverIsOwner
  <2>4. UNCHANGED m_lastRule
    BY <1>5 DEF addChainedRule
  <2> HIDE DEF ph, n
  <2>5. ASSUME NEW p \in Phases, NEW i \in DOMAIN m_rulesAtPhase'[Driver][p],
               <<p, i>> # <<ph, n>>
        PROVE  i \in DOMAIN old[p] /\ m_rulesAtPhase'[Driver][p][i] = old[p][i]
    <3>1. CASE p = ph
      BY <1>1, <1>2, <2>1, <2>3, <2>5, <3>1
    <3>2. CASE p # ph
      BY <1>1, <2>3, <2>5, <3>2
    <3> QED
      BY <3>1, <3>2
  <2> SUFFICES ASSUME NEW p \in Phases,
                      NEW i \in DOMAIN m_rulesAtPhase'[Driver][p],
                      Waits(m_rulesAtPhase'[Driver][p][i]), <<p, i>> # <<ph, n>>
               PROVE  FALSE
    BY <2>1, <2>4 DEF OnlyLastChainIsOpen, Waits
  <2> QED
    BY <2>1, <2>5 DEF OnlyLastChainIsOpen
<1>6. ASSUME NEW d \in Directives, addSecRule(d)
      PROVE  OnlyLastChainIsOpen'
  <2>1. \A p \in Phases : \A i \in DOMAIN old[p] : ~Waits(old[p][i])
    <3> SUFFICES ASSUME NEW p \in Phases, NEW i \in DOMAIN old[p], Waits(old[p][i])
                 PROVE  FALSE
      OBVIOUS
    <3>1. <<p, i>> = m_lastRule
      BY DEF OnlyLastChainIsOpen
    <3>2. i \in Nat /\ i >= 1
      BY <1>2
    <3>3. m_lastRule # NoLastRule /\ m_lastRule[1] = p /\ m_lastRule[2] = i
      BY <3>1, <3>2 DEF NoLastRule
    <3> QED
      BY <1>6, <3>3 DEF addSecRule, isChained, Waits
  <2>2. PICK r : m_rulesAtPhase' = Inserted(d.phase, r)
    BY <1>6 DEF addSecRule
  <2>3. d.phase \in Phases /\ m_lastRule' = <<d.phase, Len(old[d.phase]) + 1>>
    BY <1>6, DirectiveFacts DEF addSecRule, Read
  <2>4. m_rulesAtPhase'[Driver] = [old EXCEPT ![d.phase] = Append(old[d.phase], r)]
    BY <1>1, <2>2, DriverIsOwner DEF Inserted, Insert
  <2>5. ASSUME NEW p \in Phases, NEW i \in DOMAIN m_rulesAtPhase'[Driver][p]
        PROVE  \/ i \in DOMAIN old[p] /\ m_rulesAtPhase'[Driver][p][i] = old[p][i]
               \/ <<p, i>> = m_lastRule'
    <3>1. CASE p = d.phase
      BY <1>1, <1>2, <2>3, <2>4, <2>5, <3>1
    <3>2. CASE p # d.phase
      BY <1>1, <2>4, <2>5, <3>2
    <3> QED
      BY <3>1, <3>2
  <2> QED
    BY <2>1, <2>5 DEF OnlyLastChainIsOpen, Waits
<1>7. ASSUME NEW d \in Directives, addSecAction(d) \/ addSecMarker(d)
      PROVE  OnlyLastChainIsOpen'
  <2>1. PICK r : /\ r.links = << >>
                 /\ \/ /\ d.phase \in Phases
                       /\ m_rulesAtPhase'[Driver] =
                             [old EXCEPT ![d.phase] = Append(old[d.phase], r)]
                    \/ m_rulesAtPhase'[Driver] =
                             [p \in Phases |-> Append(old[p], r)]
    <3>1. CASE addSecAction(d)
      <4>1. PICK r : r = [kind |-> d.dir, id |-> d.id, links |-> << >>]
        OBVIOUS
      <4>2. r.links = << >> /\ d.phase \in Phases
        BY <3>1, <4>1, DirectiveFacts DEF addSecAction
      <4>3. m_rulesAtPhase'[Driver] =
               [old EXCEPT ![d.phase] = Append(old[d.phase], r)]
        BY <3>1, <4>1, <1>1, DriverIsOwner DEF addSecAction, Inserted, Insert
      <4> QED
        BY <4>2, <4>3
    <3>2. CASE addSecMarker(d)
      <4>1. PICK r : r = [kind |-> "marker", id |-> d.id, links |-> << >>]
        OBVIOUS
      <4>2. m_rulesAtPhase'[Driver] = [p \in Phases |-> Append(old[p], r)]
        BY <3>2, <4>1, <1>1, DriverIsOwner DEF addSecMarker
      <4> QED
        BY <4>1, <4>2
    <3> QED
      BY <1>7, <3>1, <3>2
  <2>2. UNCHANGED m_lastRule
    BY <1>7 DEF addSecAction, addSecMarker
  <2>3. ASSUME NEW p \in Phases, NEW i \in DOMAIN m_rulesAtPhase'[Driver][p]
        PROVE  \/ i \in DOMAIN old[p] /\ m_rulesAtPhase'[Driver][p][i] = old[p][i]
               \/ m_rulesAtPhase'[Driver][p][i] = r
    <3>1. m_rulesAtPhase'[Driver][p] \in {old[p], Append(old[p], r)}
      BY <1>1, <2>1
    <3> QED
      BY <1>2, <2>3, <3>1
  <2>4. ~Waits(r)
    BY <2>1 DEF Waits
  <2> QED
    BY <2>2, <2>3, <2>4 DEF OnlyLastChainIsOpen, Waits
<1>8. ASSUME NEW from, NEW to \in RulesSets, MergeInto(from, to)
      PROVE  OnlyLastChainIsOpen'
  BY <1>1, <1>3, <1>8, DriverIsOwner DEF MergeInto, DriverDeleted
<1>9. ASSUME NEW d \in Directives, Directive(d)
      PROVE  OnlyLastChainIsOpen'
  <2>1. CASE parserThrows(d)
    BY <1>8, <2>1 DEF parserThrows, Inv, TypeOK
  <2>2. CASE parseFails(d)
    BY <1>1, <1>3, <2>2, DriverIsOwner DEF parseFails, DriverDeleted
  <2>3. CASE secDefaultAction(d) \/ secRuleEngine(d) \/ secRuleRemoveById(d)
    BY <1>4, <2>3 DEF secDefaultAction, secRuleEngine, secRuleRemoveById
  <2> QED
    BY <1>5, <1>6, <1>7, <1>9, <2>1, <2>2, <2>3 DEF Directive
<1>10. CASE endOfFile
  BY <1>8, <1>10 DEF endOfFile, Inv, TypeOK
<1>11. CASE \E s \in RulesSets : loadFromUri(s)
  BY <1>4, <1>11 DEF loadFromUri
<1>12. CASE \E from, to \in RulesSets : mergeRulesSet(from, to)
  BY <1>8, <1>12 DEF mergeRulesSet
<1>13. CASE UNCHANGED vars
  BY <1>4, <1>13 DEF vars
<1> QED
  BY <1>9, <1>10, <1>11, <1>12, <1>13 DEF Next

(* While a file is read, only its last SecRule can wait for another link:  *)
(* Driver::addSecRule starts no new chain as long as one is open, and the  *)
(* SecActions, scripts and markers in between do not make it forget which. *)
THEOREM ChainsAreClosed == Spec => []OnlyLastChainIsOpen
<1>1. Init => Inv /\ OnlyLastChainIsOpen
  BY InitInv, DriverIsOwner DEF Init, OnlyLastChainIsOpen, NoRules
<1>2. Inv /\ OnlyLastChainIsOpen /\ [Next]_vars => Inv' /\ OnlyLastChainIsOpen'
  BY NextInv, LastChainStep
<1> QED
  BY <1>1, <1>2, PTL DEF Spec

-----------------------------------------------------------------------------
(* Markers, phase by phase.  A recursive function over the rules of a      *)
(* phase is reasoned about by induction, in the form of sets of numbers.   *)

LEMMA LessIsRelated == \A x, y \in Nat : x < y => <<x, y>> \in OpToRel(<, Nat)
  BY DEF OpToRel

LEMMA NatSetInduction ==
    ASSUME NEW S, 0 \in S, \A n \in Nat : n \in S => n + 1 \in S
    PROVE  Nat \subseteq S
<1> DEFINE T == {n \in Nat : n \notin S}
<1>1. SUFFICES ASSUME T # {} PROVE FALSE
  OBVIOUS
<1>2. PICK x \in T : \A y \in T : ~(<<y, x>> \in OpToRel(<, Nat))
  <2> DEFINE R == OpToRel(<, Nat)
  <2>1. IsWellFoundedOn(R, Nat)
    BY NatLessThanWellFounded
  <2>2. T \subseteq Nat
    OBVIOUS
  <2> HIDE DEF R, T
  <2> QED
    BY ONLY <1>1, <2>1, <2>2, WFMin DEF R
<1>3. x \in Nat /\ x # 0 /\ x \notin S
  OBVIOUS
<1>4. x - 1 \in Nat /\ x - 1 < x /\ (x - 1) + 1 = x
  BY <1>3
<1>5. x - 1 \in T
  BY <1>3, <1>4
<1> QED
  BY <1>2, <1>3, <1>4, <1>5, LessIsRelated

(* The markers of the first i rules, for each i up to n.                   *)
WithMarker(markers, r) == IF r.kind = "marker" THEN Append(markers, r) ELSE markers

IsScan(f, rules, n) ==
    f = [i \in 0 .. n |-> IF i = 0 THEN << >> ELSE WithMarker(f[i - 1], rules[i])]

LEMMA ScanStep ==
    ASSUME NEW f, NEW rules, NEW n \in Nat, IsScan(f, rules, n)
    PROVE  /\ f[0] = << >>
           /\ \A i \in Nat : i + 1 <= n => f[i + 1] = WithMarker(f[i], rules[i + 1])
<1>1. f[0] = << >>
  <2>1. 0 \in 0 .. n
    OBVIOUS
  <2> QED
    BY <2>1 DEF IsScan
<1>2. ASSUME NEW i \in Nat, i + 1 <= n
      PROVE  f[i + 1] = WithMarker(f[i], rules[i + 1])
  <2>1. i + 1 \in 0 .. n /\ i + 1 # 0 /\ (i + 1) - 1 = i
    BY <1>2
  <2> QED
    BY <2>1 DEF IsScan
<1> QED
  BY <1>1, <1>2

LEMMA ScanExists ==
    ASSUME NEW rules
    PROVE  \A n \in Nat : \E f : IsScan(f, rules, n)
<1> DEFINE S == {n \in Nat : \E f : IsScan(f, rules, n)}
<1>1. 0 \in S
  <2>1. PICK f : f = [i \in 0 .. 0 |-> << >>]
    OBVIOUS
  <2>2. f = [i \in 0 .. 0 |-> IF i = 0 THEN << >> ELSE WithMarker(f[i - 1], rules[i])]
    BY <2>1
  <2> QED
    BY <2>2 DEF IsScan
<1>2. ASSUME NEW n \in Nat, n \in S
      PROVE  n + 1 \in S
  <2>1. PICK f : IsScan(f, rules, n)
    BY <1>2
  <2>2. PICK g : g = [i \in 0 .. n + 1 |-> IF i = n + 1 THEN WithMarker(f[n], rules[n + 1])
                                           ELSE f[i]]
    OBVIOUS
  <2>3. \A i \in 0 .. n : g[i] = f[i] /\ i # n + 1
    BY <2>2
  <2>4. ASSUME NEW i \in 0 .. n + 1
        PROVE  g[i] = IF i = 0 THEN << >> ELSE WithMarker(g[i - 1], rules[i])
    <3>1. CASE i = n + 1
      <4>1. g[i] = WithMarker(f[n], rules[n + 1])
        BY <2>2, <3>1
      <4>2. g[n] = f[n] /\ i - 1 = n /\ i # 0
        BY <2>3, <3>1
      <4> QED
        BY <3>1, <4>1, <4>2
    <3>2. CASE i # n + 1 /\ i # 0
      <4>1. i \in 0 .. n /\ i - 1 \in 0 .. n
        BY <3>2
      <4>2. f[i] = WithMarker(f[i - 1], rules[i])
        BY <2>1, <3>2, <4>1 DEF IsScan
      <4> QED
        BY <2>3, <3>2, <4>1, <4>2
    <3>3. CASE i = 0
      <4>1. 0 \in 0 .. n
        OBVIOUS
      <4> QED
        BY <2>1, <2>3, <3>3, <4>1, ScanStep
    <3> QED
      BY <3>1, <3>2, <3>3
  <2>5. g = [i \in 0 .. n + 1 |-> g[i]]
    BY <2>2
  <2>6. g = [i \in 0 .. n + 1 |-> IF i = 0 THEN << >> ELSE WithMarker(g[i - 1], rules[i])]
    BY ONLY <2>4, <2>5, Zenon
  <2> QED
    BY <2>6 DEF IsScan
<1> HIDE DEF S
<1>3. Nat \subseteq S
  BY <1>1, <1>2, NatSetInduction
<1> QED
  BY <1>3 DEF S

LEMMA MarkersAreScanned ==
    ASSUME NEW rules \in Seq(Rule)
    PROVE  \E f : IsScan(f, rules, Len(rules)) /\ MarkersOf(rules) = f[Len(rules)]
<1>1. \E f : IsScan(f, rules, Len(rules))
  <2>1. Len(rules) \in Nat
    OBVIOUS
  <2> QED
    BY <2>1, ScanExists
<1>2. PICK f : f = CHOOSE g : IsScan(g, rules, Len(rules))
  OBVIOUS
<1>3. IsScan(f, rules, Len(rules))
  BY <1>1, <1>2
<1>4. MarkersOf(rules) = f[Len(rules)]
  BY ONLY <1>2, Zenon DEF MarkersOf, IsScan, WithMarker
<1> QED
  BY <1>3, <1>4

LEMMA RulesFacts ==
    ASSUME NEW rules \in Seq(Rule)
    PROVE  /\ Len(rules) \in Nat /\ DOMAIN rules = 1 .. Len(rules)
           /\ \A i \in Nat : i + 1 <= Len(rules) => rules[i + 1] \in Rule
  OBVIOUS

LEMMA ScanIsTyped ==
    ASSUME NEW rules \in Seq(Rule), NEW f, IsScan(f, rules, Len(rules))
    PROVE  \A i \in Nat : i <= Len(rules) => f[i] \in Seq(Rule)
<1> DEFINE S == {i \in Nat : i <= Len(rules) => f[i] \in Seq(Rule)}
<1>1. /\ f[0] = << >>
      /\ \A i \in Nat : i + 1 <= Len(rules) => f[i + 1] = WithMarker(f[i], rules[i + 1])
  BY RulesFacts, ScanStep
<1>2. 0 \in S
  <2>1. << >> \in Seq(Rule)
    OBVIOUS
  <2> QED
    BY <1>1, <2>1
<1>3. ASSUME NEW n \in Nat, n \in S
      PROVE  n + 1 \in S
  <2>1. SUFFICES ASSUME n + 1 <= Len(rules)
                 PROVE  f[n + 1] \in Seq(Rule)
    OBVIOUS
  <2>2. f[n] \in Seq(Rule) /\ rules[n + 1] \in Rule
    BY <1>3, <2>1, RulesFacts
  <2>3. PICK old \in Seq(Rule) : old = f[n]
    BY <2>2
  <2>4. PICK new \in Rule : new = rules[n + 1]
    BY <2>2
  <2>5. WithMarker(old, new) \in Seq(Rule)
    BY DEF WithMarker
  <2> QED
    BY <1>1, <2>1, <2>3, <2>4, <2>5
<1> HIDE DEF S
<1>4. Nat \subseteq S
  BY <1>2, <1>3, NatSetInduction
<1> QED
  BY <1>4 DEF S

(* The same markers at the same places are the same markers in order.      *)
SameMarkers(rules, others) ==
    /\ Len(others) = Len(rules)
    /\ \A i \in DOMAIN rules : /\ others[i].kind = rules[i].kind
                               /\ rules[i].kind = "marker" => others[i] = rules[i]

LEMMA MarkersAgree ==
    ASSUME NEW rules \in Seq(Rule), NEW others \in Seq(Rule), SameMarkers(rules, others)
    PROVE  MarkersOf(others) = MarkersOf(rules)
<1>1. PICK f : IsScan(f, rules, Len(rules)) /\ MarkersOf(rules) = f[Len(rules)]
  BY MarkersAreScanned
<1>2. PICK g : IsScan(g, others, Len(others)) /\ MarkersOf(others) = g[Len(others)]
  BY MarkersAreScanned
<1>3. PICK n \in Nat : n = Len(rules) /\ n = Len(others) /\ DOMAIN rules = 1 .. n
  BY RulesFacts DEF SameMarkers
<1>4. /\ f[0] = << >> /\ g[0] = << >>
      /\ \A i \in Nat : i + 1 <= n => /\ f[i + 1] = WithMarker(f[i], rules[i + 1])
                                      /\ g[i + 1] = WithMarker(g[i], others[i + 1])
  BY <1>1, <1>2, <1>3, ScanStep
<1> DEFINE S == {i \in Nat : i <= n => f[i] = g[i]}
<1>5. 0 \in S
  BY <1>4
<1>6. ASSUME NEW i \in Nat, i \in S
      PROVE  i + 1 \in S
  <2>1. SUFFICES ASSUME i + 1 <= n
                 PROVE  f[i + 1] = g[i + 1]
    OBVIOUS
  <2>2. f[i] = g[i] /\ i + 1 \in DOMAIN rules
    BY <1>3, <1>6, <2>1
  <2>3. WithMarker(f[i], rules[i + 1]) = WithMarker(f[i], others[i + 1])
    BY <2>2 DEF SameMarkers, WithMarker
  <2> QED
    BY <1>4, <2>1, <2>2, <2>3
<1> HIDE DEF S
<1>7. Nat \subseteq S
  BY <1>5, <1>6, NatSetInduction
<1> QED
  BY <1>1, <1>2, <1>3, <1>7 DEF S

LEMMA WithMarkerAfter ==
    ASSUME NEW a \in Seq(Rule), NEW b \in Seq(Rule), NEW r \in Rule
    PROVE  WithMarker(a \o b, r) = a \o WithMarker(b, r)
<1>1. Append(a \o b, r) = a \o Append(b, r)
  OBVIOUS
<1> QED
  BY <1>1 DEF WithMarker

LEMMA RulesConcat ==
    ASSUME NEW a \in Seq(Rule), NEW b \in Seq(Rule)
    PROVE  /\ a \o b \in Seq(Rule) /\ Len(a \o b) = Len(a) + Len(b)
           /\ \A i \in Nat : i + 1 <= Len(a) => (a \o b)[i + 1] = a[i + 1]
           /\ \A i \in Nat : i + 1 <= Len(b) => (a \o b)[Len(a) + i + 1] = b[i + 1]
  OBVIOUS

(* The markers of a merged phase are those of the one and of the other.    *)
LEMMA MarkersConcat ==
    ASSUME NEW a \in Seq(Rule), NEW b \in Seq(Rule)
    PROVE  /\ MarkersOf(a \o b) = MarkersOf(a) \o MarkersOf(b)
           /\ MarkersOf(a) \in Seq(Rule)
<1>1. PICK both : both = a \o b
  OBVIOUS
<1>2. PICK n \in Nat : n = Len(a)
  BY RulesFacts
<1>3. PICK m \in Nat : m = Len(b)
  BY RulesFacts
<1>4. /\ both \in Seq(Rule) /\ Len(both) = n + m
      /\ \A i \in Nat : i + 1 <= n => both[i + 1] = a[i + 1]
      /\ \A i \in Nat : i + 1 <= m => both[n + i + 1] = b[i + 1] /\ b[i + 1] \in Rule
  BY ONLY <1>1, <1>2, <1>3, RulesConcat, RulesFacts, a \in Seq(Rule), b \in Seq(Rule),
     ZenonT(60)
<1>5. PICK f : IsScan(f, a, n) /\ MarkersOf(a) = f[n]
  BY <1>2, MarkersAreScanned
<1>6. PICK g : IsScan(g, b, m) /\ MarkersOf(b) = g[m]
  BY <1>3, MarkersAreScanned
<1>7. PICK h : IsScan(h, both, n + m) /\ MarkersOf(both) = h[n + m]
  BY <1>4, MarkersAreScanned
<1>8. /\ f[0] = << >> /\ g[0] = << >> /\ h[0] = << >>
      /\ \A i \in Nat : i + 1 <= n => f[i + 1] = WithMarker(f[i], a[i + 1])
      /\ \A i \in Nat : i + 1 <= m => g[i + 1] = WithMarker(g[i], b[i + 1])
      /\ \A i \in Nat : i + 1 <= n + m => h[i + 1] = WithMarker(h[i], both[i + 1])
  <2>1. n + m \in Nat
    OBVIOUS
  <2> QED
    BY ONLY <1>5, <1>6, <1>7, <2>1, n \in Nat, m \in Nat, ScanStep
<1>9. /\ \A i \in Nat : i <= n => f[i] \in Seq(Rule)
      /\ \A i \in Nat : i <= m => g[i] \in Seq(Rule)
  BY <1>2, <1>3, <1>5, <1>6, ScanIsTyped
<1>10. h[n] = f[n]
  <2> DEFINE S == {i \in Nat : i <= n => h[i] = f[i]}
  <2>1. 0 \in S
    BY <1>8
  <2>2. ASSUME NEW i \in Nat, i \in S
        PROVE  i + 1 \in S
    <3>1. SUFFICES ASSUME i + 1 <= n
                   PROVE  h[i + 1] = f[i + 1]
      OBVIOUS
    <3>2. h[i] = f[i] /\ i + 1 <= n + m
      BY <2>2, <3>1
    <3> QED
      BY <1>4, <1>8, <3>1, <3>2
  <2> HIDE DEF S
  <2>3. Nat \subseteq S
    BY <2>1, <2>2, NatSetInduction
  <2> QED
    BY <2>3 DEF S
<1>11. PICK first \in Seq(Rule) : first = f[n]
  BY <1>9
<1>12. h[n] = first \o g[0]
  <2>1. first \o << >> = first
    OBVIOUS
  <2> QED
    BY <1>8, <1>10, <1>11, <2>1
<1>13. ASSUME NEW i \in Nat, i + 1 <= m, h[n + i] = first \o g[i]
       PROVE  h[n + (i + 1)] = first \o g[i + 1]
  <2>1. n + i \in Nat /\ (n + i) + 1 <= n + m /\ n + (i + 1) = (n + i) + 1 /\ i <= m
    BY ONLY <1>13, n \in Nat, m \in Nat
  <2>2. PICK r \in Rule : r = b[i + 1] /\ r = both[(n + i) + 1]
    BY <1>4, <1>13
  <2>3. h[(n + i) + 1] = WithMarker(h[n + i], r)
    BY <1>8, <2>1, <2>2
  <2>4. PICK old \in Seq(Rule) : old = g[i]
    BY <1>9, <2>1
  <2>5. WithMarker(first \o old, r) = first \o WithMarker(old, r)
    BY WithMarkerAfter
  <2>6. g[i + 1] = WithMarker(old, r)
    BY <1>8, <1>13, <2>2, <2>4
  <2> QED
    BY <1>13, <2>1, <2>3, <2>4, <2>5, <2>6
<1>14. h[n + m] = first \o g[m]
  <2> DEFINE S == {i \in Nat : i <= m => h[n + i] = first \o g[i]}
  <2>1. 0 \in S
    BY <1>12
  <2>2. ASSUME NEW i \in Nat, i \in S
        PROVE  i + 1 \in S
    <3>1. i + 1 <= m => i <= m
      BY m \in Nat
    <3>2. i + 1 <= m => h[n + (i + 1)] = first \o g[i + 1]
      BY <1>13, <2>2, <3>1
    <3> QED
      BY <3>2
  <2> HIDE DEF S
  <2>3. Nat \subseteq S
    BY <2>1, <2>2, NatSetInduction
  <2>4. m \in S
    BY <2>3
  <2>5. m <= m
    OBVIOUS
  <2> QED
    BY <2>4, <2>5 DEF S
<1> QED
  BY <1>1, <1>5, <1>6, <1>7, <1>9, <1>11, <1>14

LEMMA MarkersOfOne ==
    ASSUME NEW r \in Rule
    PROVE  /\ MarkersOf(<< >>) = << >>
           /\ MarkersOf(<<r>>) = IF r.kind = "marker" THEN <<r>> ELSE << >>
<1>1. MarkersOf(<< >>) = << >>
  <2>1. PICK none \in Seq(Rule) : none = << >> /\ Len(none) = 0
    <3>1. << >> \in Seq(Rule) /\ Len(<< >>) = 0
      OBVIOUS
    <3> QED
      BY <3>1
  <2>2. PICK f : IsScan(f, none, 0) /\ MarkersOf(none) = f[0]
    BY <2>1, MarkersAreScanned
  <2> QED
    BY <2>1, <2>2, ScanStep
<1>2. PICK one : one = <<r>>
  OBVIOUS
<1>3. one \in Seq(Rule) /\ Len(one) = 1 /\ one[1] = r
  BY <1>2
<1>4. PICK f : IsScan(f, one, 1) /\ MarkersOf(one) = f[1]
  BY <1>3, MarkersAreScanned
<1>5. f[1] = WithMarker(<< >>, r)
  <2>1. f[0] = << >> /\ f[0 + 1] = WithMarker(f[0], one[0 + 1])
    BY <1>4, ScanStep
  <2> QED
    BY <1>3, <2>1
<1>6. Append(<< >>, r) = <<r>>
  OBVIOUS
<1> QED
  BY <1>1, <1>2, <1>4, <1>5, <1>6 DEF WithMarker

LEMMA MarkersAppend ==
    ASSUME NEW rules \in Seq(Rule), NEW r \in Rule
    PROVE  MarkersOf(Append(rules, r)) =
               IF r.kind = "marker" THEN Append(MarkersOf(rules), r) ELSE MarkersOf(rules)
<1>1. Append(rules, r) = rules \o <<r>> /\ <<r>> \in Seq(Rule)
  OBVIOUS
<1>2. /\ MarkersOf(rules \o <<r>>) = MarkersOf(rules) \o MarkersOf(<<r>>)
      /\ MarkersOf(rules) \in Seq(Rule)
  BY <1>1, MarkersConcat
<1>3. PICK old \in Seq(Rule) : old = MarkersOf(rules)
  BY <1>2
<1>4. old \o <<r>> = Append(old, r) /\ old \o << >> = old
  OBVIOUS
<1> QED
  BY <1>1, <1>2, <1>3, <1>4, MarkersOfOne

(* The last SecRule of a file is one.                                      *)
LastIsSecRule ==
    m_lastRule # NoLastRule => m_rulesAtPhase[Driver][m_lastRule[1]][m_lastRule[2]].kind = "rule"

SameInPhases(rules) == \A p, q \in Phases : MarkersOf(rules[p]) = MarkersOf(rules[q])

LEMMA NoRulesSame == SameInPhases(NoRules)
  BY DEF SameInPhases, NoRules

(* One owner has a new table and the others keep theirs, or lose it.       *)
LEMMA MarkersOfOwner ==
    ASSUME MarkersInEveryPhase, NEW x \in Owners, failed \subseteq failed',
           x \in failed' \/ SameInPhases(m_rulesAtPhase'[x]),
           \A y \in Owners : y # x => \/ m_rulesAtPhase'[y] = m_rulesAtPhase[y]
                                      \/ m_rulesAtPhase'[y] = NoRules
    PROVE  MarkersInEveryPhase'
<1>1. ASSUME NEW y \in Owners, y \notin failed'
      PROVE  SameInPhases(m_rulesAtPhase'[y])
  <2>1. y # x => SameInPhases(m_rulesAtPhase[y])
    BY <1>1 DEF MarkersInEveryPhase, Markers, SameInPhases
  <2> QED
    BY <1>1, <2>1, NoRulesSame
<1> QED
  BY <1>1 DEF MarkersInEveryPhase, Markers, SameInPhases

(* The rules of the Driver grow, and keep their kinds.                     *)
LEMMA LastSecRuleStays ==
    ASSUME Inv, LastIsSecRule, UNCHANGED m_lastRule,
           \A p \in Phases : \A i \in DOMAIN m_rulesAtPhase[Driver][p] :
               m_rulesAtPhase'[Driver][p][i].kind = m_rulesAtPhase[Driver][p][i].kind
    PROVE  LastIsSecRule'
<1>1. SUFFICES ASSUME m_lastRule # NoLastRule
               PROVE  m_rulesAtPhase'[Driver][m_lastRule[1]][m_lastRule[2]].kind = "rule"
  BY DEF LastIsSecRule
<1>2. /\ m_rulesAtPhase[Driver] \in Table /\ m_lastRule[1] \in Phases
      /\ m_lastRule[2] \in 1 .. Len(m_rulesAtPhase[Driver][m_lastRule[1]])
  BY <1>1, DriverIsOwner DEF Inv, TypeOK
<1>3. m_lastRule[2] \in DOMAIN m_rulesAtPhase[Driver][m_lastRule[1]]
  BY <1>2
<1> QED
  BY <1>1, <1>2, <1>3 DEF LastIsSecRule

MarkersInv == MarkersInEveryPhase /\ LastIsSecRule

LEMMA DriverSame ==
    ASSUME Inv, MarkersInv
    PROVE  /\ SameInPhases(m_rulesAtPhase[Driver]) /\ m_rulesAtPhase[Driver] \in Table
           /\ \A p \in Phases : m_rulesAtPhase[Driver][p] \in Seq(Rule)
<1>1. Driver \notin failed
  BY DriverIsOwner DEF Inv, TypeOK
<1>2. m_rulesAtPhase[Driver] \in Table
  BY DriverIsOwner DEF Inv, TypeOK
<1> QED
  BY <1>1, <1>2, DriverIsOwner DEF MarkersInv, MarkersInEveryPhase, Markers, SameInPhases

(* Something is appended to one phase, or a marker to all of them.         *)
LEMMA AppendMarkersStep ==
    ASSUME Inv, MarkersInv, NEW d \in Directives,
           addSecRule(d) \/ addSecAction(d) \/ addSecMarker(d)
    PROVE  MarkersInv'
<1> DEFINE old == m_rulesAtPhase[Driver]
<1>1. /\ SameInPhases(old) /\ old \in Table /\ \A p \in Phases : old[p] \in Seq(Rule)
      /\ m_rulesAtPhase \in [Owners -> Table]
  BY DriverSame DEF Inv, TypeOK
<1>2. ASSUME NEW r \in Rule, r.kind # "marker", NEW ph \in Phases,
             m_rulesAtPhase' = Inserted(ph, r), failed' = failed
      PROVE  /\ MarkersInEveryPhase'
             /\ m_rulesAtPhase'[Driver][ph] = Append(old[ph], r)
             /\ \A p \in Phases : \A i \in DOMAIN old[p] :
                   m_rulesAtPhase'[Driver][p][i].kind = old[p][i].kind
  <2>1. /\ m_rulesAtPhase'[Driver] = [old EXCEPT ![ph] = Append(old[ph], r)]
        /\ \A y \in Owners : y # Driver => m_rulesAtPhase'[y] = m_rulesAtPhase[y]
    BY <1>1, <1>2, DriverIsOwner DEF Inserted, Insert
  <2>2. /\ m_rulesAtPhase'[Driver][ph] = Append(old[ph], r)
        /\ \A p \in Phases : p # ph => m_rulesAtPhase'[Driver][p] = old[p]
    BY <1>1, <2>1
  <2>3. MarkersOf(Append(old[ph], r)) = MarkersOf(old[ph])
    BY <1>1, <1>2, MarkersAppend
  <2>4. SameInPhases(m_rulesAtPhase'[Driver])
    <3>1. \A p \in Phases : MarkersOf(m_rulesAtPhase'[Driver][p]) = MarkersOf(old[p])
      BY ONLY <2>2, <2>3
    <3>2. SameInPhases(old)
      BY ONLY <1>1
    <3> HIDE DEF old
    <3> QED
      BY ONLY <3>1, <3>2 DEF SameInPhases
  <2>5. MarkersInEveryPhase'
    BY <1>2, <2>1, <2>4, MarkersOfOwner, DriverIsOwner DEF MarkersInv
  <2>6. ASSUME NEW p \in Phases, NEW i \in DOMAIN old[p]
        PROVE  m_rulesAtPhase'[Driver][p][i].kind = old[p][i].kind
    <3>1. CASE p = ph
      <4>1. Append(old[ph], r)[i] = old[ph][i]
        BY <1>1, <2>6, <3>1
      <4> QED
        BY <2>2, <3>1, <4>1
    <3> QED
      BY <2>2, <3>1
  <2> QED
    BY <2>2, <2>5, <2>6
<1>3. CASE addSecRule(d)
  <2>1. PICK r : r = [kind |-> "rule", id |-> d.id, links |-> <<LinkOf(d)>>]
    OBVIOUS
  <2>2. /\ d.dir = "rule" /\ d.id \in Nat /\ d.phase \in Phases /\ d.chain \in BOOLEAN
    BY <1>3, DirectiveFacts DEF addSecRule, Read
  <2>3. r \in Rule /\ r.kind = "rule"
    BY <2>1, <2>2 DEF Rule, Kinds, LinkOf, Link
  <2>4. /\ m_rulesAtPhase' = Inserted(d.phase, r) /\ failed' = failed
        /\ m_lastRule' = <<d.phase, Len(old[d.phase]) + 1>>
    BY <1>3, <2>1 DEF addSecRule, Read
  <2>5. /\ MarkersInEveryPhase'
        /\ m_rulesAtPhase'[Driver][d.phase] = Append(old[d.phase], r)
    BY <1>2, <2>2, <2>3, <2>4
  <2>6. Append(old[d.phase], r)[Len(old[d.phase]) + 1] = r
    BY <1>1, <2>2
  <2>7. m_lastRule'[1] = d.phase /\ m_lastRule'[2] = Len(old[d.phase]) + 1
    BY <2>4
  <2>8. LastIsSecRule'
    BY ONLY <2>3, <2>5, <2>6, <2>7 DEF LastIsSecRule
  <2> QED
    BY <2>5, <2>8 DEF MarkersInv
<1>4. CASE addSecAction(d)
  <2>1. PICK r : r = [kind |-> d.dir, id |-> d.id, links |-> << >>]
    OBVIOUS
  <2>2. d.dir \in {"action", "script"} /\ d.id \in Nat /\ d.phase \in Phases
    BY <1>4, DirectiveFacts DEF addSecAction
  <2>3. r \in Rule /\ r.kind # "marker"
    BY <2>1, <2>2 DEF Rule, Kinds
  <2>4. m_rulesAtPhase' = Inserted(d.phase, r) /\ failed' = failed /\ UNCHANGED m_lastRule
    BY <1>4, <2>1 DEF addSecAction, Read
  <2>5. /\ MarkersInEveryPhase'
        /\ \A p \in Phases : \A i \in DOMAIN old[p] :
              m_rulesAtPhase'[Driver][p][i].kind = old[p][i].kind
    BY <1>2, <2>2, <2>3, <2>4
  <2> QED
    BY <2>4, <2>5, LastSecRuleStays DEF MarkersInv
<1>5. CASE addSecMarker(d)
  <2>1. PICK r : r = [kind |-> "marker", id |-> d.id, links |-> << >>]
    OBVIOUS
  <2>2. d.id \in Nat
    BY <1>5, DirectiveFacts DEF addSecMarker, Read
  <2>3. r \in Rule /\ r.kind = "marker"
    BY <2>1, <2>2 DEF Rule, Kinds
  <2>4. /\ m_rulesAtPhase'[Driver] = [p \in Phases |-> Append(old[p], r)]
        /\ \A y \in Owners : y # Driver => m_rulesAtPhase'[y] = m_rulesAtPhase[y]
        /\ failed' = failed /\ UNCHANGED m_lastRule
    BY <1>1, <1>5, <2>1, DriverIsOwner DEF addSecMarker, Read
  <2>5. \A p \in Phases : MarkersOf(Append(old[p], r)) = Append(MarkersOf(old[p]), r)
    BY <1>1, <2>3, MarkersAppend
  <2>6. SameInPhases(m_rulesAtPhase'[Driver])
    <3>1. \A p \in Phases : MarkersOf(m_rulesAtPhase'[Driver][p]) = Append(MarkersOf(old[p]), r)
      <4>1. \A p \in Phases : m_rulesAtPhase'[Driver][p] = Append(old[p], r)
        BY ONLY <2>4
      <4> QED
        BY ONLY <4>1, <2>5
    <3>2. SameInPhases(old)
      BY ONLY <1>1
    <3> HIDE DEF old
    <3> QED
      BY ONLY <3>1, <3>2 DEF SameInPhases
  <2>7. MarkersInEveryPhase'
    BY <2>4, <2>6, MarkersOfOwner, DriverIsOwner DEF MarkersInv
  <2>8. ASSUME NEW p \in Phases, NEW i \in DOMAIN old[p]
        PROVE  m_rulesAtPhase'[Driver][p][i].kind = old[p][i].kind
    <3>1. Append(old[p], r)[i] = old[p][i]
      BY <1>1, <2>8
    <3> QED
      BY <2>4, <3>1
  <2> QED
    BY <2>4, <2>7, <2>8, LastSecRuleStays DEF MarkersInv
<1> QED
  BY <1>3, <1>4, <1>5

(* A link is added to a SecRule.                                           *)
LEMMA ChainMarkersStep ==
    ASSUME Inv, MarkersInv, NEW d \in Directives, addChainedRule(d)
    PROVE  MarkersInv'
<1>1. PICK old : old = m_rulesAtPhase[Driver]
  OBVIOUS
<1>2. PICK ph, n : m_lastRule = <<ph, n>> /\ ph \in Phases /\ n \in 1 .. Len(old[ph])
  BY <1>1 DEF addChainedRule, isChained, Inv, TypeOK
<1>3. /\ SameInPhases(old) /\ old \in Table /\ \A p \in Phases : old[p] \in Seq(Rule)
      /\ m_rulesAtPhase \in [Owners -> Table]
  BY <1>1, DriverSame DEF Inv, TypeOK
<1>4. n \in DOMAIN old[ph] /\ old[ph][n] \in Rule /\ old[ph][n].kind = "rule"
  <2>1. n \in DOMAIN old[ph] /\ old[ph][n] \in Rule
    BY <1>2, <1>3
  <2> QED
    BY <1>1, <1>2, <2>1 DEF MarkersInv, LastIsSecRule, addChainedRule, isChained
<1>5. PICK r : r = WithLink(old[ph][n], LinkOf(d))
  OBVIOUS
<1>6. r \in Rule /\ r.kind = "rule"
  <2>1. LinkOf(d) \in Link
    BY DirectiveFacts DEF LinkOf, Link, addChainedRule, Read
  <2> QED
    BY <1>4, <1>5, <2>1, LinkAdded
<1>7. PICK one : one = [old[ph] EXCEPT ![n] = r]
  OBVIOUS
<1>8. one \in Seq(Rule) /\ SameMarkers(old[ph], one)
  BY <1>2, <1>3, <1>4, <1>6, <1>7 DEF SameMarkers
<1>9. MarkersOf(one) = MarkersOf(old[ph])
  BY <1>2, <1>3, <1>8, MarkersAgree
<1>10. /\ m_rulesAtPhase'[Driver] = [old EXCEPT ![ph] = one]
       /\ \A y \in Owners : y # Driver => m_rulesAtPhase'[y] = m_rulesAtPhase[y]
       /\ failed' = failed /\ UNCHANGED m_lastRule
  BY <1>1, <1>2, <1>3, <1>5, <1>7, DriverIsOwner DEF addChainedRule, Chain, Read
<1>11. /\ m_rulesAtPhase'[Driver][ph] = one
       /\ \A p \in Phases : p # ph => m_rulesAtPhase'[Driver][p] = old[p]
  BY <1>2, <1>3, <1>10
<1>12. SameInPhases(m_rulesAtPhase'[Driver])
  BY <1>2, <1>3, <1>9, <1>11 DEF SameInPhases
<1>13. MarkersInEveryPhase'
  BY <1>10, <1>12, MarkersOfOwner, DriverIsOwner DEF MarkersInv
<1>14. \A p \in Phases : \A i \in DOMAIN old[p] :
          m_rulesAtPhase'[Driver][p][i].kind = old[p][i].kind
  <2>1. \A i \in DOMAIN old[ph] : one[i].kind = old[ph][i].kind
    BY <1>8 DEF SameMarkers
  <2> QED
    BY <1>11, <2>1
<1> QED
  BY <1>1, <1>10, <1>13, <1>14, LastSecRuleStays DEF MarkersInv

(* A merge appends every phase, or the set has a merge that failed.        *)
LEMMA MergeMarkersStep ==
    ASSUME Inv, MarkersInv, NEW from \in Owners, NEW to \in RulesSets, MergeInto(from, to)
    PROVE  MarkersInv'
<1>1. PICK fr : fr = m_rulesAtPhase[from]
  OBVIOUS
<1>2. PICK old : old = m_rulesAtPhase[to]
  OBVIOUS
<1>3. /\ to \in Owners /\ to # Driver /\ m_rulesAtPhase \in [Owners -> Table]
      /\ fr \in Table /\ old \in Table
      /\ \A p \in Phases : fr[p] \in Seq(Rule) /\ old[p] \in Seq(Rule)
  <2>1. to \in Owners /\ to # Driver /\ m_rulesAtPhase \in [Owners -> Table]
    BY DriverIsOwner DEF Inv, TypeOK, Owners
  <2>2. fr \in Table /\ old \in Table
    BY <1>1, <1>2, <2>1
  <2> QED
    BY <2>1, <2>2
<1>4. m_lastRule' = NoLastRule /\ failed \subseteq failed'
  BY DEF MergeInto, DriverDeleted
<1>5. PICK A : A = Appended(from, to)
  OBVIOUS
<1>6. m_rulesAtPhase' =
         [[m_rulesAtPhase EXCEPT ![to] =
              [p \in Phases |-> IF p \in A THEN old[p] \o fr[p] ELSE old[p]]]
             EXCEPT ![Driver] = NoRules]
  BY <1>1, <1>2, <1>5 DEF MergeInto, DriverDeleted
<1>7. /\ m_rulesAtPhase'[to] = [p \in Phases |-> IF p \in A THEN old[p] \o fr[p] ELSE old[p]]
      /\ \A y \in Owners : y # to => \/ m_rulesAtPhase'[y] = m_rulesAtPhase[y]
                                     \/ m_rulesAtPhase'[y] = NoRules
  BY <1>3, <1>6, DriverIsOwner
<1>8. to \in failed' \/ SameInPhases(m_rulesAtPhase'[to])
  <2>1. SUFFICES ASSUME to \notin failed'
                 PROVE  SameInPhases(m_rulesAtPhase'[to])
    OBVIOUS
  <2>2. A = Phases /\ from \notin failed /\ to \notin failed
    BY <1>5, <2>1 DEF MergeInto
  <2>3. SameInPhases(fr) /\ SameInPhases(old)
    BY <1>1, <1>2, <1>3, <2>2 DEF MarkersInv, MarkersInEveryPhase, Markers, SameInPhases
  <2>4. \A p \in Phases : MarkersOf(old[p] \o fr[p]) = MarkersOf(old[p]) \o MarkersOf(fr[p])
    BY <1>3, MarkersConcat
  <2>5. \A p \in Phases : m_rulesAtPhase'[to][p] = old[p] \o fr[p]
    BY <1>7, <2>2
  <2>6. ASSUME NEW p \in Phases, NEW q \in Phases
        PROVE  MarkersOf(m_rulesAtPhase'[to][p]) = MarkersOf(m_rulesAtPhase'[to][q])
    <3>1. MarkersOf(old[p]) = MarkersOf(old[q]) /\ MarkersOf(fr[p]) = MarkersOf(fr[q])
      BY <2>3 DEF SameInPhases
    <3> QED
      BY <2>4, <2>5, <3>1
  <2> QED
    BY <2>6 DEF SameInPhases
<1>9. MarkersInEveryPhase'
  BY <1>3, <1>4, <1>7, <1>8, MarkersOfOwner DEF MarkersInv
<1> QED
  BY <1>4, <1>9 DEF MarkersInv, LastIsSecRule

LEMMA MarkersStep ==
    ASSUME Inv, MarkersInv, [Next]_vars
    PROVE  MarkersInv'
<1>1. CASE UNCHANGED <<m_rulesAtPhase, m_lastRule, failed>>
  BY <1>1 DEF MarkersInv, MarkersInEveryPhase, Markers, LastIsSecRule
<1>2. ASSUME NEW d \in Directives, Directive(d)
      PROVE  MarkersInv'
  <2>1. CASE parserThrows(d)
    BY <2>1, MergeMarkersStep, DriverIsOwner DEF parserThrows, Inv, TypeOK
  <2>2. CASE parseFails(d)
    <3>1. /\ m_rulesAtPhase'[Driver] = NoRules /\ m_lastRule' = NoLastRule /\ failed' = failed
          /\ \A y \in Owners : y # Driver => m_rulesAtPhase'[y] = m_rulesAtPhase[y]
      BY <2>2, DriverIsOwner DEF parseFails, DriverDeleted, Inv, TypeOK
    <3>2. MarkersInEveryPhase'
      BY <3>1, NoRulesSame, MarkersOfOwner, DriverIsOwner DEF MarkersInv
    <3> QED
      BY <3>1, <3>2 DEF MarkersInv, LastIsSecRule
  <2>3. CASE secDefaultAction(d) \/ secRuleEngine(d) \/ secRuleRemoveById(d)
    BY <1>1, <2>3 DEF secDefaultAction, secRuleEngine, secRuleRemoveById, Read
  <2> QED
    BY <1>2, <2>1, <2>2, <2>3, AppendMarkersStep, ChainMarkersStep DEF Directive
<1>3. CASE endOfFile
  BY <1>3, MergeMarkersStep, DriverIsOwner DEF endOfFile, Inv, TypeOK
<1>4. CASE \E s \in RulesSets : loadFromUri(s)
  BY <1>1, <1>4 DEF loadFromUri
<1>5. CASE \E from, to \in RulesSets : mergeRulesSet(from, to)
  BY <1>5, MergeMarkersStep DEF mergeRulesSet, Owners
<1>6. CASE UNCHANGED vars
  BY <1>1, <1>6 DEF vars
<1> QED
  BY <1>2, <1>3, <1>4, <1>5, <1>6 DEF Next

(* As long as no merge into it has failed half way, a RulesSet has the     *)
(* same markers in the same order in every phase, whatever was loaded and  *)
(* merged (Driver::addSecMarker and RulesSetPhases::append): skipAfter     *)
(* finds its marker in any phase.                                          *)
THEOREM MarkersStand == Spec => []MarkersInEveryPhase
<1>1. Init => Inv /\ MarkersInv
  <2>1. ASSUME Init PROVE MarkersInv
    BY <2>1, NoRulesSame DEF Init, MarkersInv, MarkersInEveryPhase, Markers, SameInPhases,
                             LastIsSecRule
  <2> QED
    BY <2>1, InitInv
<1>2. Inv /\ MarkersInv /\ [Next]_vars => Inv' /\ MarkersInv'
  BY NextInv, MarkersStep
<1>3. MarkersInv => MarkersInEveryPhase
  BY DEF MarkersInv
<1> QED
  BY <1>1, <1>2, <1>3, PTL DEF Spec

-----------------------------------------------------------------------------
(* The radix tree: a loop that gets closer to its end with each step.      *)

LEMMA LeastOf ==
    ASSUME NEW T, T \subseteq Nat, T # {}
    PROVE  \E x \in T : \A y \in T : x <= y
<1>1. PICK x \in T : \A y \in T : ~(<<y, x>> \in OpToRel(<, Nat))
  <2>. DEFINE R == OpToRel(<, Nat)
  <2>1. IsWellFoundedOn(R, Nat)
    BY NatLessThanWellFounded
  <2>. HIDE DEF R
  <2>. QED  BY ONLY T \subseteq Nat, T # {}, <2>1, WFMin DEF R
<1>2. ASSUME NEW y \in T PROVE x <= y
  <2>1. ~(y < x)
    BY <1>1 DEF OpToRel
  <2>. QED  BY <2>1
<1>. QED  BY <1>2

(* "next" stays in S and brings what it does not leave alone nearer.       *)
Nears(next, rank, S, K) ==
    /\ K \in Nat /\ next \in [S -> S] /\ rank \in [S -> 0..K]
    /\ \A m \in S : next[m] # m => rank[next[m]] < rank[m]

IsWalk(f, next) == f = [m \in DOMAIN next |-> IF next[m] = m THEN m ELSE f[next[m]]]

(* Such a loop has a last step from everywhere: the function of Walk is    *)
(* built for what is nearest first.                                        *)
LEMMA WalkExists ==
    ASSUME NEW next, NEW rank, NEW S, NEW K, Nears(next, rank, S, K)
    PROVE  \E f : IsWalk(f, next)
<1>. DEFINE Built(f, k) ==
        \A m \in S : rank[m] < k => f[m] = IF next[m] = m THEN m ELSE f[next[m]]
     Missed == {k \in Nat : ~\E f \in [S -> S] : Built(f, k)}
<1>0. /\ K \in Nat /\ DOMAIN next = S
      /\ \A m \in S : next[m] \in S /\ rank[m] \in Nat /\ rank[m] <= K /\ rank[next[m]] \in Nat
      /\ \A m \in S : next[m] # m => rank[next[m]] < rank[m]
  BY DEF Nears
<1>1. Missed = {}
  <2>1. SUFFICES ASSUME Missed # {} PROVE FALSE
    OBVIOUS
  <2>2. PICK k \in Missed : \A j \in Missed : k <= j
    <3>. HIDE DEF Missed
    <3>1. Missed \subseteq Nat
      BY DEF Missed
    <3>. QED  BY <2>1, <3>1, LeastOf
  <2>3. k # 0
    <3>1. PICK f : f = [m \in S |-> m]
      OBVIOUS
    <3>2. f \in [S -> S] /\ Built(f, 0)
      BY <1>0, <3>1
    <3>3. 0 \notin Missed
      BY <3>2
    <3>. QED  BY <2>2, <3>3
  <2>4. k - 1 \in Nat /\ k - 1 \notin Missed
    BY <2>2, <2>3, SMTT(40)
  <2>5. PICK f \in [S -> S] : Built(f, k - 1)
    BY <2>4
  <2>6. PICK g : g = [m \in S |-> IF rank[m] < k - 1 THEN f[m]
                                   ELSE IF next[m] = m THEN m ELSE f[next[m]]]
    OBVIOUS
  <2>7. g \in [S -> S]
    BY <1>0, <2>6
  <2>8. ASSUME NEW m \in S, rank[m] < k PROVE g[m] = IF next[m] = m THEN m ELSE g[next[m]]
    <3>1. rank[m] < k - 1 => f[m] = IF next[m] = m THEN m ELSE f[next[m]]
      BY <2>5
    <3>2. g[m] = IF next[m] = m THEN m ELSE f[next[m]]
      BY <2>6, <3>1
    <3>3. CASE next[m] # m
      <4>1. next[m] \in S /\ rank[next[m]] < k - 1
        BY <1>0, <2>2, <2>8, <3>3
      <4>. QED  BY <2>6, <3>2, <4>1
    <3>. QED  BY <3>2, <3>3
  <2>. QED  BY <2>2, <2>7, <2>8
<1>2. PICK f \in [S -> S] : Built(f, K + 1)
  <2>1. K + 1 \in Nat
    BY <1>0
  <2>. QED  BY <1>1, <2>1
<1>3. \A m \in S : f[m] = IF next[m] = m THEN m ELSE f[next[m]]
  BY <1>0, <1>2
<1>4. f = [m \in S |-> f[m]]
  BY <1>2
<1>5. f = [m \in S |-> IF next[m] = m THEN m ELSE f[next[m]]]
  BY ONLY <1>3, <1>4, Zenon
<1>. QED  BY <1>0, <1>5 DEF IsWalk

LEMMA WalkStep ==
    ASSUME NEW next, NEW rank, NEW S, NEW K, Nears(next, rank, S, K), NEW n \in S
    PROVE  Walk(next, n) = IF next[n] = n THEN n ELSE Walk(next, next[n])
<1>1. PICK f : f = CHOOSE g : IsWalk(g, next)
  OBVIOUS
<1>2. IsWalk(f, next)
  BY <1>1, WalkExists
<1>3. \A m : Walk(next, m) = f[m]
  BY ONLY <1>1, Zenon DEF Walk, IsWalk
<1>4. DOMAIN next = S
  BY DEF Nears
<1>5. f[n] = IF next[n] = n THEN n ELSE f[next[n]]
  BY ONLY <1>2, <1>4, n \in S DEF IsWalk
<1>. QED  BY <1>3, <1>5

(* What every step keeps is kept to the end, and the end is an end.        *)
LEMMA WalkStays ==
    ASSUME NEW next, NEW rank, NEW S, NEW K, Nears(next, rank, S, K),
           NEW T \in SUBSET S, \A m \in T : next[m] \in T, NEW n \in T
    PROVE  Walk(next, n) \in T /\ next[Walk(next, n)] = Walk(next, n)
<1>. DEFINE Good(m) == Walk(next, m) \in T /\ next[Walk(next, m)] = Walk(next, m)
     Bad == {m \in T : ~Good(m)}
     Ranks == {rank[m] : m \in Bad}
<1>1. SUFFICES ASSUME Bad # {} PROVE FALSE
  OBVIOUS
<1>2. \A m \in T : rank[m] \in Nat /\ m \in S
  BY DEF Nears
<1>3. PICK r \in Ranks : \A q \in Ranks : r <= q
  <2>1. Ranks \subseteq Nat /\ Ranks # {}
    BY <1>1, <1>2
  <2>. HIDE DEF Ranks
  <2>. QED  BY <2>1, LeastOf
<1>4. PICK m \in Bad : r = rank[m]
  OBVIOUS
<1>5. m \in S /\ Walk(next, m) = IF next[m] = m THEN m ELSE Walk(next, next[m])
  BY <1>2, WalkStep
<1>6. next[m] # m
  BY <1>5
<1>7. next[m] \in T /\ rank[next[m]] < rank[m] /\ rank[next[m]] \in Nat /\ rank[m] \in Nat
  BY <1>5, <1>6, <1>2 DEF Nears
<1>8. next[m] \notin Bad
  <2>1. ~(rank[m] <= rank[next[m]])
    BY <1>7
  <2>. QED  BY <1>3, <1>4, <2>1
<1>. QED  BY <1>5, <1>6, <1>7, <1>8

-----------------------------------------------------------------------------
(* The radix tree: the inductive invariant.                                *)

(* The first b bits are the same.                                          *)
Agree(x, y, b) == \A i \in 1..b : x[i] = y[i]

NodeType == [bit : 0..IpBits, prefix : Address \cup {<< >>}, data : 0..IpBits,
             list : BOOLEAN, netmasks : Seq(0..IpBits), left : Nat, right : Nat, parent : Nat]

IsLeaf(t, m) == t.node[m].bit = IpBits

(* rep: of each node, an address below it.  Below a fork, those with a 0   *)
(* or a 1 after the bits that all below it share.                          *)
Hangs(t, rep, m, c, v) ==
    /\ c \in DOMAIN t.node /\ t.node[c].parent = m /\ t.node[m].bit < t.node[c].bit
    /\ Agree(rep[c], rep[m], t.node[m].bit) /\ rep[c][t.node[m].bit + 1] = v

HasParent(t, m) ==
    LET p == t.node[m].parent
    IN  IF m = t.head THEN p = NullNode
        ELSE p \in DOMAIN t.node /\ ~IsLeaf(t, p) /\ m \in {t.node[p].left, t.node[p].right}

Shape(t, rep) ==
    /\ t \in [head : Nat, node : Seq(NodeType)] /\ t.head \in DOMAIN t.node
    /\ rep \in [DOMAIN t.node -> Address]
    /\ \A m \in DOMAIN t.node :
        /\ HasParent(t, m)
        /\ IsLeaf(t, m) => t.node[m].prefix = rep[m]
        /\ ~IsLeaf(t, m) => /\ Hangs(t, rep, m, t.node[m].left, 0)
                            /\ Hangs(t, rep, m, t.node[m].right, 1)

(* A netmask is at the last node above its address where it still cuts     *)
(* away what tells the addresses below apart.                              *)
Fits(t, m, k) ==
    LET p == t.node[m].parent
    IN  k <= t.node[m].bit /\ (p = NullNode \/ t.node[p].bit < k)

(* The leaf of a network with the netmask k is below m.                    *)
Under(t, rep, l, m, k) ==
    IsLeaf(t, l) /\ t.node[l].data = k /\ Agree(rep[l], rep[m], t.node[m].bit)

HoldsOne(t, rep, m) ==
    \E k \in 1..IpBits - 1 :
        t.node[m].netmasks = <<k>> /\ Fits(t, m, k) /\ \E l \in DOMAIN t.node : Under(t, rep, l, m, k)

Lists(t, rep) ==
    \A m \in DOMAIN t.node :
        /\ t.node[m].netmasks = << >> \/ HoldsOne(t, rep, m)
        /\ ~t.node[m].list => t.node[m].netmasks = << >>
        /\ IsLeaf(t, m) /\ t.node[m].list => t.node[m].netmasks # << >>

(* A leaf is a network: cut to its netmask, which is in a list above it.   *)
IsListed(t, rep, l) ==
    LET k == t.node[l].data
    IN  k < IpBits => \E m \in DOMAIN t.node : t.node[m].netmasks = <<k>> /\ Under(t, rep, l, m, k)

NetworkOf(t, l) == [address |-> t.node[l].prefix, netmask |-> t.node[l].data]

Leaves(t, rep) ==
    \A l \in DOMAIN t.node : IsLeaf(t, l) =>
        /\ t.node[l].data \in 1..IpBits /\ rep[l] = ConvertIPNetmask(rep[l], t.node[l].data)
        /\ IsListed(t, rep, l)

Members(t, networks) ==
    {NetworkOf(t, l) : l \in {m \in DOMAIN t.node : IsLeaf(t, m)}}
        = {networks[i] : i \in DOMAIN networks}

IsTree(t, rep, networks) == Shape(t, rep) /\ Lists(t, rep) /\ Leaves(t, rep) /\ Members(t, networks)

TreeInv ==
    /\ added \in Seq([address : Address, netmask : 1..IpBits])
    /\ StartsOnce(added) =>
        \/ tree = CPTCreateRadixTree /\ added = << >>
        \/ \E rep : IsTree(tree, rep, added)

LEMMA NodeFacts ==
    ASSUME NEW t, NEW rep, Shape(t, rep)
    PROVE  /\ IpBits \in Nat \ {0} /\ Len(t.node) \in Nat /\ DOMAIN t.node = 1..Len(t.node)
           /\ NullNode \notin DOMAIN t.node
           /\ \A m \in DOMAIN t.node :
                /\ t.node[m] \in NodeType /\ t.node[m].bit \in 0..IpBits
                /\ t.node[m].data \in 0..IpBits /\ rep[m] \in Address
                /\ t.node[m].netmasks \in Seq(0..IpBits) /\ t.node[m].list \in BOOLEAN
<1>1. t.node \in Seq(NodeType) /\ rep \in [DOMAIN t.node -> Address]
  BY DEF Shape
<1>2. \A m \in DOMAIN t.node : t.node[m] \in NodeType
  BY <1>1
<1>3. \A n \in NodeType :
        n.bit \in 0..IpBits /\ n.data \in 0..IpBits /\ n.netmasks \in Seq(0..IpBits) /\ n.list \in BOOLEAN
  BY DEF NodeType
<1>4. Len(t.node) \in Nat /\ DOMAIN t.node = 1..Len(t.node)
  BY <1>1
<1>5. NullNode \notin DOMAIN t.node
  BY <1>4 DEF NullNode
<1>6. \A m \in DOMAIN t.node : rep[m] \in Address
  BY <1>1
<1>. QED  BY ONLY <1>2, <1>3, <1>4, <1>5, <1>6, IpTreeAssumption

LEMMA AgreeFacts ==
    ASSUME NEW x, NEW y, NEW z, NEW b \in Nat, NEW c \in Nat, b <= c
    PROVE  /\ Agree(x, y, c) => Agree(x, y, b)
           /\ Agree(x, y, b) => Agree(y, x, b)
           /\ Agree(x, y, b) /\ Agree(y, z, c) => Agree(x, z, b)
           /\ Agree(x, y, c) /\ Agree(y, z, b) => Agree(x, z, b)
BY DEF Agree

LEMMA CutFacts ==
    ASSUME NEW x \in Address, NEW y \in Address, NEW k \in 0..IpBits
    PROVE  /\ ConvertIPNetmask(x, k) \in Address
           /\ Agree(ConvertIPNetmask(x, k), x, k)
           /\ Agree(x, y, k) => ConvertIPNetmask(x, k) = ConvertIPNetmask(y, k)
           /\ ConvertIPNetmask(x, k) = y => Agree(x, y, k)
           /\ Agree(x, y, IpBits) => x = y
           /\ ConvertIPNetmask(x, IpBits) = x
<1>. /\ IpBits \in Nat
     /\ x = [i \in 1..IpBits |-> x[i]] /\ y = [i \in 1..IpBits |-> y[i]]
     /\ \A i \in 1..IpBits : x[i] \in {0, 1} /\ y[i] \in {0, 1}
  BY IpTreeAssumption DEF Address
<1>1. ConvertIPNetmask(x, k) \in Address
  BY DEF ConvertIPNetmask, Address
<1>2. \A i \in 1..IpBits : ConvertIPNetmask(x, k)[i] = IF i <= k THEN x[i] ELSE 0
  BY DEF ConvertIPNetmask
<1>3. \A i \in 1..k : i <= k /\ i \in 1..IpBits
  OBVIOUS
<1>4. Agree(x, y, k) => ConvertIPNetmask(x, k) = ConvertIPNetmask(y, k)
  <2>1. SUFFICES ASSUME Agree(x, y, k)
                 PROVE  ConvertIPNetmask(x, k) = ConvertIPNetmask(y, k)
    OBVIOUS
  <2>2. \A i \in 1..IpBits : i <= k => x[i] = y[i]
    <3>1. k \in Nat /\ IpBits \in Nat
      OBVIOUS
    <3>. QED  BY ONLY <2>1, <3>1 DEF Agree
  <2>3. \A i \in 1..IpBits : (IF i <= k THEN x[i] ELSE 0) = (IF i <= k THEN y[i] ELSE 0)
    BY <2>2
  <2>. QED  BY ONLY <2>3, Zenon DEF ConvertIPNetmask
<1>5. Agree(x, y, IpBits) => x = y
  BY DEF Agree
<1>6. ConvertIPNetmask(x, IpBits) = x
  <2>1. \A i \in 1..IpBits : (IF i <= IpBits THEN x[i] ELSE 0) = x[i]
    OBVIOUS
  <2>2. [i \in 1..IpBits |-> IF i <= IpBits THEN x[i] ELSE 0] = [i \in 1..IpBits |-> x[i]]
    BY ONLY <2>1, Zenon
  <2>. QED  BY <2>2 DEF ConvertIPNetmask
<1>7. Agree(ConvertIPNetmask(x, k), x, k)
  BY <1>2, <1>3 DEF Agree
<1>8. Agree(ConvertIPNetmask(x, k), x, k) /\ ConvertIPNetmask(x, k) = y => Agree(x, y, k)
  BY DEF Agree
<1>. QED  BY ONLY <1>1, <1>4, <1>5, <1>6, <1>7, <1>8

(* The loops over the tree come to an end: the bits grow on the way down,  *)
(* and shrink on the way up.                                               *)
LEMMA ChildIs ==
    ASSUME NEW t, NEW rep, Shape(t, rep), NEW a \in Address,
           NEW m \in DOMAIN t.node, ~IsLeaf(t, m), NEW c, c = Child(t, m, a)
    PROVE  /\ c \in DOMAIN t.node /\ t.node[c].parent = m /\ t.node[m].bit < t.node[c].bit
           /\ t.node[m].bit + 1 \in 1..IpBits
           /\ Agree(rep[c], rep[m], t.node[m].bit)
           /\ rep[c][t.node[m].bit + 1] = a[t.node[m].bit + 1]
           /\ c \in {t.node[m].left, t.node[m].right}
<1>1. t.node[m].bit + 1 \in 1..IpBits
  BY NodeFacts DEF IsLeaf
<1>2. a[t.node[m].bit + 1] \in {0, 1}
  BY <1>1 DEF Address
<1>3. Hangs(t, rep, m, t.node[m].left, 0) /\ Hangs(t, rep, m, t.node[m].right, 1)
  BY DEF Shape
<1>4. CASE a[t.node[m].bit + 1] = 1
  BY <1>1, <1>3, <1>4 DEF Hangs, Child
<1>5. CASE a[t.node[m].bit + 1] = 0
  BY <1>1, <1>3, <1>5 DEF Hangs, Child
<1>. QED  BY <1>2, <1>4, <1>5

LEMMA DownIs ==
    ASSUME NEW t, NEW rep, Shape(t, rep), NEW a \in Address
    PROVE  /\ Nears(Down(t, a), [m \in DOMAIN t.node |-> IpBits - t.node[m].bit],
                    DOMAIN t.node, IpBits)
           /\ \A m \in DOMAIN t.node : Down(t, a)[m] = IF IsLeaf(t, m) THEN m ELSE Child(t, m, a)
           /\ \A m \in DOMAIN t.node : Down(t, a)[m] = m => IsLeaf(t, m)
<1>1. \A m \in DOMAIN t.node : t.node[m].bit >= IpBits <=> IsLeaf(t, m)
  BY NodeFacts DEF IsLeaf
<1>2. Down(t, a) = [m \in DOMAIN t.node |-> IF IsLeaf(t, m) THEN m ELSE Child(t, m, a)]
  BY <1>1, Zenon DEF Down
<1>3. \A m \in DOMAIN t.node : ~IsLeaf(t, m) =>
        /\ Child(t, m, a) \in DOMAIN t.node /\ t.node[m].bit < t.node[Child(t, m, a)].bit
        /\ Child(t, m, a) # m
  BY ChildIs, NodeFacts
<1>4. \A m \in DOMAIN t.node : IpBits - t.node[m].bit \in 0..IpBits
  BY NodeFacts
<1>5. PICK rank : rank = [m \in DOMAIN t.node |-> IpBits - t.node[m].bit]
  OBVIOUS
<1>6. rank \in [DOMAIN t.node -> 0..IpBits]
  BY <1>4, <1>5
<1>7. Down(t, a) \in [DOMAIN t.node -> DOMAIN t.node]
  BY <1>2, <1>3
<1>8. \A m \in DOMAIN t.node : Down(t, a)[m] # m => rank[Down(t, a)[m]] < rank[m]
  BY <1>2, <1>3, <1>5, NodeFacts
<1>9. Nears(Down(t, a), rank, DOMAIN t.node, IpBits)
  BY <1>6, <1>7, <1>8, NodeFacts DEF Nears
<1>. QED  BY <1>2, <1>3, <1>5, <1>9

LEMMA ParentIs ==
    ASSUME NEW t, NEW rep, Shape(t, rep), NEW m \in DOMAIN t.node, NEW p, p = t.node[m].parent
    PROVE  /\ m = t.head <=> p = NullNode
           /\ p # NullNode => /\ p \in DOMAIN t.node /\ ~IsLeaf(t, p) /\ t.node[p].bit < t.node[m].bit
                              /\ Agree(rep[m], rep[p], t.node[p].bit)
                              /\ \A a \in Address :
                                   a[t.node[p].bit + 1] = rep[m][t.node[p].bit + 1]
                                   <=> Child(t, p, a) = m
<1>1. HasParent(t, m) /\ NullNode \notin DOMAIN t.node
  BY NodeFacts DEF Shape
<1>2. m = t.head <=> p = NullNode
  BY <1>1 DEF HasParent
<1>3. ASSUME p # NullNode
      PROVE  /\ p \in DOMAIN t.node /\ ~IsLeaf(t, p) /\ t.node[p].bit < t.node[m].bit
             /\ Agree(rep[m], rep[p], t.node[p].bit)
             /\ \A a \in Address : a[t.node[p].bit + 1] = rep[m][t.node[p].bit + 1]
                                   <=> Child(t, p, a) = m
  <2>1. p \in DOMAIN t.node /\ ~IsLeaf(t, p) /\ m \in {t.node[p].left, t.node[p].right}
    BY <1>1, <1>2, <1>3 DEF HasParent
  <2>2. Hangs(t, rep, p, t.node[p].left, 0) /\ Hangs(t, rep, p, t.node[p].right, 1)
    BY <2>1 DEF Shape
  <2>3. t.node[p].bit + 1 \in 1..IpBits
    BY <2>1, NodeFacts, SMTT(40) DEF IsLeaf
  <2>4. \A a \in Address : a[t.node[p].bit + 1] \in {0, 1}
    BY <2>3 DEF Address
  <2>5. PICK b, l, r : b = t.node[p].bit + 1 /\ l = t.node[p].left /\ r = t.node[p].right
    OBVIOUS
  <2>6. rep[l][b] = 0 /\ rep[r][b] = 1
    BY <2>2, <2>5 DEF Hangs
  <2>7. l # r /\ m \in {l, r} /\ \A a \in Address : a[b] \in {0, 1}
    <3>1. l # r
      BY ONLY <2>6
    <3>2. m \in {l, r} /\ \A a \in Address : a[b] \in {0, 1}
      BY ONLY <2>1, <2>4, <2>5
    <3>. QED  BY ONLY <3>1, <3>2
  <2>8. \A a : Child(t, p, a) = IF a[b] = 1 THEN r ELSE l
    BY <2>5 DEF Child
  <2>9. \A a \in Address : a[b] = rep[m][b] <=> Child(t, p, a) = m
    BY ONLY <2>6, <2>7, <2>8
  <2>10. t.node[p].bit < t.node[m].bit /\ Agree(rep[m], rep[p], t.node[p].bit)
    BY ONLY <2>1, <2>2 DEF Hangs
  <2>. QED  BY <2>1, <2>5, <2>9, <2>10
<1>. QED  BY <1>2, <1>3

(* At p the address a goes where r goes.                                   *)
GoesAs(t, a, r, p) == a[t.node[p].bit + 1] = r[t.node[p].bit + 1]

LEMMA BitLeads ==
    ASSUME NEW t, NEW rep, Shape(t, rep), NEW m \in DOMAIN t.node, NEW p, p = t.node[m].parent,
           p # NullNode, NEW a \in Address
    PROVE  GoesAs(t, a, rep[m], p) <=> Child(t, p, a) = m
BY ParentIs DEF GoesAs

LEMMA BitsGrow ==
    ASSUME NEW t, NEW rep, Shape(t, rep), NEW m \in DOMAIN t.node, NEW p, p = t.node[m].parent,
           p # NullNode
    PROVE  /\ p \in DOMAIN t.node /\ t.node[p].bit \in Nat /\ t.node[m].bit \in Nat
           /\ t.node[p].bit + 1 \in Nat /\ t.node[p].bit < t.node[m].bit
           /\ t.node[p].bit + 1 <= t.node[m].bit
<1>1. p \in DOMAIN t.node /\ t.node[p].bit < t.node[m].bit
  BY ParentIs
<1>2. t.node[p].bit \in Nat /\ t.node[m].bit \in Nat
  BY <1>1, NodeFacts
<1>. QED  BY <1>1, <1>2

LEMMA UpIs ==
    ASSUME NEW t, NEW rep, Shape(t, rep), NEW b \in Nat
    PROVE  /\ Nears(Up(t, b), [m \in DOMAIN t.node |-> t.node[m].bit], DOMAIN t.node, IpBits)
           /\ \A m \in DOMAIN t.node :
                LET p == t.node[m].parent
                IN  Up(t, b)[m] = IF p # NullNode /\ b <= t.node[p].bit THEN p ELSE m
<1>1. \A m \in DOMAIN t.node :
        LET p == t.node[m].parent
        IN  Up(t, b)[m] = IF p # NullNode /\ b <= t.node[p].bit THEN p ELSE m
  BY DEF Up
<1>2. \A m \in DOMAIN t.node :
        LET p == t.node[m].parent
        IN  p # NullNode => p \in DOMAIN t.node /\ t.node[p].bit < t.node[m].bit
  BY ParentIs
<1>3. Up(t, b) \in [DOMAIN t.node -> DOMAIN t.node]
  BY <1>2 DEF Up
<1>4. PICK rank : rank = [m \in DOMAIN t.node |-> t.node[m].bit]
  OBVIOUS
<1>5. rank \in [DOMAIN t.node -> 0..IpBits]
  BY <1>4, NodeFacts
<1>6. \A m \in DOMAIN t.node : Up(t, b)[m] # m => rank[Up(t, b)[m]] < rank[m]
  BY <1>1, <1>2, <1>4
<1>7. Nears(Up(t, b), rank, DOMAIN t.node, IpBits)
  BY <1>3, <1>5, <1>6, NodeFacts DEF Nears
<1>. QED  BY <1>1, <1>4, <1>7

(* The nodes an address passes from m on.                                  *)
Reach(t, x, m) ==
    {n \in DOMAIN t.node :
        \A T \in SUBSET DOMAIN t.node : m \in T /\ (\A k \in T : Down(t, x)[k] \in T) => n \in T}

OnWay(t, x) == Reach(t, x, t.head)

LEMMA ReachIs ==
    ASSUME NEW t, NEW rep, Shape(t, rep), NEW x \in Address, NEW m \in DOMAIN t.node
    PROVE  /\ m \in Reach(t, x, m) /\ Reach(t, x, m) \subseteq DOMAIN t.node
           /\ \A k \in Reach(t, x, m) : Down(t, x)[k] \in Reach(t, x, m)
           /\ \A T \in SUBSET DOMAIN t.node :
                m \in T /\ (\A k \in T : Down(t, x)[k] \in T) => Reach(t, x, m) \subseteq T
           /\ Reach(t, x, m) \subseteq {m} \cup Reach(t, x, Down(t, x)[m])
           /\ \A k \in Reach(t, x, m) : k = m \/ t.node[m].bit < t.node[k].bit
<1>. DEFINE d == Down(t, x)
<1>1. \A k \in DOMAIN t.node : d[k] \in DOMAIN t.node
  <2>1. PICK rank : Nears(d, rank, DOMAIN t.node, IpBits)
    BY DownIs
  <2>. QED  BY <2>1 DEF Nears
<1>2. m \in Reach(t, x, m) /\ Reach(t, x, m) \subseteq DOMAIN t.node
  BY DEF Reach
<1>3. \A T \in SUBSET DOMAIN t.node :
        m \in T /\ (\A k \in T : d[k] \in T) => Reach(t, x, m) \subseteq T
  BY DEF Reach
<1>4. \A k \in Reach(t, x, m) : d[k] \in Reach(t, x, m)
  <2>1. SUFFICES ASSUME NEW k \in Reach(t, x, m), NEW T \in SUBSET DOMAIN t.node, m \in T,
                        \A i \in T : d[i] \in T
                 PROVE  d[k] \in T
    BY <1>1, <1>2 DEF Reach
  <2>. QED  BY <1>3, <2>1
<1>5. Reach(t, x, m) \subseteq {m} \cup Reach(t, x, d[m])
  <2>. DEFINE T == {m} \cup Reach(t, x, d[m])
  <2>1. d[m] \in Reach(t, x, d[m]) /\ \A k \in Reach(t, x, d[m]) : d[k] \in Reach(t, x, d[m])
    BY <1>1 DEF Reach
  <2>2. T \in SUBSET DOMAIN t.node
    BY DEF Reach
  <2>3. m \in T /\ \A k \in T : d[k] \in T
    BY <2>1
  <2>. HIDE DEF T
  <2>4. Reach(t, x, m) \subseteq T
    BY <1>3, <2>2, <2>3
  <2>. QED  BY <2>4 DEF T
<1>6. \A k \in Reach(t, x, m) : k = m \/ t.node[m].bit < t.node[k].bit
  <2>. DEFINE T == {k \in DOMAIN t.node : k = m \/ t.node[m].bit < t.node[k].bit}
  <2>1. \A k \in DOMAIN t.node : d[k] = k \/ t.node[k].bit < t.node[d[k]].bit
    <3>1. SUFFICES ASSUME NEW k \in DOMAIN t.node, d[k] # k PROVE t.node[k].bit < t.node[d[k]].bit
      OBVIOUS
    <3>2. ~IsLeaf(t, k) /\ d[k] = Child(t, k, x)
      BY <3>1, DownIs
    <3>. QED  BY <3>2, ChildIs
  <2>2. ASSUME NEW k \in T PROVE d[k] \in T
    <3>. HIDE DEF d
    <3>0. k \in DOMAIN t.node /\ d[k] \in DOMAIN t.node
      BY <1>1
    <3>1. t.node[m].bit \in Nat /\ t.node[k].bit \in Nat /\ t.node[d[k]].bit \in Nat
      BY <3>0, NodeFacts
    <3>. QED  BY <2>1, <3>0, <3>1
  <2>3. m \in T /\ T \in SUBSET DOMAIN t.node
    OBVIOUS
  <2>. HIDE DEF T, d
  <2>4. Reach(t, x, m) \subseteq T
    BY <1>3, <2>2, <2>3
  <2>. QED  BY <2>4 DEF T
<1>. QED  BY <1>2, <1>3, <1>4, <1>5, <1>6

(* One of two nodes on the way of an address is before the other.          *)
LEMMA WayIsOrdered ==
    ASSUME NEW t, NEW rep, Shape(t, rep), NEW x \in Address,
           NEW m \in OnWay(t, x), NEW n \in OnWay(t, x)
    PROVE  m \in Reach(t, x, n) \/ n \in Reach(t, x, m)
<1>. DEFINE d == Down(t, x)
     T == {k \in OnWay(t, x) : k \in Reach(t, x, n) \/ n \in Reach(t, x, k)}
<1>1. /\ t.head \in DOMAIN t.node /\ OnWay(t, x) \subseteq DOMAIN t.node
      /\ t.head \in OnWay(t, x) /\ \A k \in OnWay(t, x) : d[k] \in OnWay(t, x)
  BY ReachIs DEF OnWay, Shape
<1>2. t.head \in T
  BY <1>1 DEF OnWay
<1>3. ASSUME NEW k \in T PROVE d[k] \in T
  <2>1. k \in DOMAIN t.node /\ n \in DOMAIN t.node /\ d[k] \in OnWay(t, x)
    BY <1>1
  <2>2. CASE k \in Reach(t, x, n)
    BY <2>1, <2>2, ReachIs
  <2>3. CASE n \in Reach(t, x, k)
    <3>1. n = k \/ n \in Reach(t, x, d[k])
      BY <2>1, <2>3, ReachIs
    <3>2. n = k => d[k] \in Reach(t, x, n)
      BY <2>1, ReachIs
    <3>. QED  BY <2>1, <3>1, <3>2
  <2>. QED  BY <2>2, <2>3
<1>4. T \in SUBSET DOMAIN t.node
  BY <1>1
<1>. HIDE DEF T, d
<1>5. Reach(t, x, t.head) \subseteq T
  BY <1>1, <1>2, <1>3, <1>4, ReachIs DEF d
<1>. QED  BY <1>5 DEF T, OnWay

LEMMA WayIs ==
    ASSUME NEW t, NEW rep, Shape(t, rep), NEW x \in Address
    PROVE  /\ t.head \in OnWay(t, x) /\ OnWay(t, x) \subseteq DOMAIN t.node
           /\ \A m \in OnWay(t, x) :
                LET p == t.node[m].parent
                IN  /\ Down(t, x)[m] \in OnWay(t, x)
                    /\ p # NullNode => p \in OnWay(t, x) /\ Child(t, p, x) = m
           /\ \A m \in OnWay(t, x) : \A n \in OnWay(t, x) :
                LET p == t.node[n].parent
                IN  /\ t.node[m].bit = t.node[n].bit => m = n
                    /\ m # n /\ t.node[m].bit <= t.node[n].bit =>
                        p # NullNode /\ t.node[m].bit <= t.node[p].bit
<1>. DEFINE d == Down(t, x)
<1>1. /\ t.head \in DOMAIN t.node /\ OnWay(t, x) \subseteq DOMAIN t.node
      /\ t.head \in OnWay(t, x) /\ \A k \in OnWay(t, x) : d[k] \in OnWay(t, x)
  BY ReachIs DEF OnWay, Shape
<1>2. \A m \in OnWay(t, x) :
        LET p == t.node[m].parent IN p # NullNode => p \in OnWay(t, x) /\ Child(t, p, x) = m
  <2>. DEFINE FromAbove(m) == LET p == t.node[m].parent
                         IN  p # NullNode => p \in OnWay(t, x) /\ Child(t, p, x) = m
       T == {m \in OnWay(t, x) : FromAbove(m)}
  <2>1. t.head \in T
    BY <1>1, ParentIs
  <2>2. ASSUME NEW m \in T PROVE d[m] \in T
    <3>1. m \in DOMAIN t.node /\ m \in OnWay(t, x)
      BY <1>1
    <3>2. CASE IsLeaf(t, m)
      BY <3>1, <3>2, DownIs
    <3>3. CASE ~IsLeaf(t, m)
      <4>1. d[m] = Child(t, m, x) /\ d[m] \in OnWay(t, x)
        BY <1>1, <3>1, <3>3, DownIs
      <4>2. t.node[d[m]].parent = m
        BY <3>1, <3>3, <4>1, ChildIs
      <4>. QED  BY <3>1, <4>1, <4>2
    <3>. QED  BY <3>2, <3>3
  <2>3. T \in SUBSET DOMAIN t.node
    BY <1>1
  <2>. HIDE DEF T, d
  <2>4. Reach(t, x, t.head) \subseteq T
    BY <1>1, <2>1, <2>2, <2>3, ReachIs DEF d
  <2>. QED  BY <2>4 DEF T, OnWay
<1>3. ASSUME NEW m \in OnWay(t, x), NEW n \in OnWay(t, x), t.node[m].bit = t.node[n].bit
      PROVE  m = n
  <2>1. m \in DOMAIN t.node /\ n \in DOMAIN t.node
    BY <1>1
  <2>2. m \in Reach(t, x, n) \/ n \in Reach(t, x, m)
    BY WayIsOrdered
  <2>. QED  BY <1>3, <2>1, <2>2, ReachIs, NodeFacts
<1>4. ASSUME NEW m \in OnWay(t, x), NEW n \in OnWay(t, x), m # n, t.node[m].bit <= t.node[n].bit,
             NEW p, p = t.node[n].parent
      PROVE  p # NullNode /\ t.node[m].bit <= t.node[p].bit
  <2>1. m \in DOMAIN t.node /\ n \in DOMAIN t.node
    BY <1>1
  <2>2. ~(m \in Reach(t, x, n))
    BY <1>4, <2>1, ReachIs, NodeFacts
  <2>3. n # t.head
    BY <2>2 DEF OnWay
  <2>4. p # NullNode /\ p \in OnWay(t, x) /\ Child(t, p, x) = n /\ p \in DOMAIN t.node
    BY <1>1, <1>2, <1>4, <2>1, <2>3, ParentIs
  <2>5. d[p] = n
    BY <1>4, <2>1, <2>4, ParentIs, DownIs, ZenonT(40)
  <2>6. m \in Reach(t, x, p) \/ p \in Reach(t, x, m)
    BY <2>4, WayIsOrdered
  <2>7. CASE m \in Reach(t, x, p)
    <3>1. m = p
      BY <2>2, <2>4, <2>5, <2>7, ReachIs
    <3>. QED  BY <2>4, <3>1, NodeFacts
  <2>8. CASE p \in Reach(t, x, m)
    <3>1. p = m \/ t.node[m].bit < t.node[p].bit
      BY <2>1, <2>8, ReachIs
    <3>2. t.node[m].bit \in Nat /\ t.node[p].bit \in Nat
      BY <2>1, <2>4, NodeFacts
    <3>. QED  BY <2>4, <3>1, <3>2
  <2>. QED  BY <2>6, <2>7, <2>8
<1>. QED  BY <1>1, <1>2, <1>3, <1>4

LEMMA RetriveIs ==
    ASSUME NEW t, NEW rep, Shape(t, rep), NEW x \in Address, NEW m \in DOMAIN t.node
    PROVE  /\ CPTRetriveNode(t, x, m) \in DOMAIN t.node /\ IsLeaf(t, CPTRetriveNode(t, x, m))
           /\ m \in OnWay(t, x) => /\ CPTRetriveNode(t, x, m) \in OnWay(t, x)
                                   /\ CPTRetriveNode(t, x, m) = CPTRetriveNode(t, x, t.head)
           /\ IsLeaf(t, m) => CPTRetriveNode(t, x, m) = m
<1>. DEFINE d == Down(t, x)
     T == {k \in OnWay(t, x) : Walk(d, k) = Walk(d, t.head)}
<1>1. PICK rank : Nears(d, rank, DOMAIN t.node, IpBits)
  BY DownIs
<1>2. \A k \in DOMAIN t.node : d[k] \in DOMAIN t.node /\ (d[k] = k => IsLeaf(t, k))
  BY <1>1, DownIs DEF Nears
<1>3. IsLeaf(t, m) => d[m] = m
  BY DownIs
<1>4. /\ OnWay(t, x) \in SUBSET DOMAIN t.node /\ t.head \in OnWay(t, x)
      /\ \A k \in OnWay(t, x) : d[k] \in OnWay(t, x)
  BY WayIs
<1>. HIDE DEF d
<1>5. \A k \in DOMAIN t.node : Walk(d, k) = IF d[k] = k THEN k ELSE Walk(d, d[k])
  BY <1>1, WalkStep
<1>6. Walk(d, m) \in DOMAIN t.node /\ d[Walk(d, m)] = Walk(d, m)
  BY <1>1, <1>2, WalkStays
<1>7. m \in OnWay(t, x) => Walk(d, m) \in OnWay(t, x)
  BY <1>1, <1>4, WalkStays
<1>8. OnWay(t, x) \subseteq T
  <2>1. \A k \in T : d[k] \in T
    BY <1>4, <1>5
  <2>2. T \in SUBSET DOMAIN t.node /\ t.head \in T
    BY <1>4
  <2>. HIDE DEF T
  <2>. QED  BY <1>4, <2>1, <2>2, ReachIs DEF OnWay, d
<1>9. CPTRetriveNode(t, x, m) = Walk(d, m) /\ CPTRetriveNode(t, x, t.head) = Walk(d, t.head)
  BY DEF CPTRetriveNode, d
<1>. QED  BY <1>2, <1>3, <1>5, <1>6, <1>7, <1>8, <1>9

(* The way of an address leads past each node whose addresses share its    *)
(* bits, up to the one that tells the node from its neighbour.             *)
LEMMA AgreeingIsOnWay ==
    ASSUME NEW t, NEW rep, Shape(t, rep), NEW x \in Address
    PROVE  \A n \in DOMAIN t.node :
              LET p == t.node[n].parent
              IN  p = NullNode \/ Agree(x, rep[n], t.node[p].bit + 1) => n \in OnWay(t, x)
<1>. DEFINE Goes(n) == LET p == t.node[n].parent
                       IN  p = NullNode \/ Agree(x, rep[n], t.node[p].bit + 1)
     Bad == {n \in DOMAIN t.node : Goes(n) /\ n \notin OnWay(t, x)}
     Bits == {t.node[n].bit : n \in Bad}
<1>1. SUFFICES ASSUME Bad # {} PROVE FALSE
  OBVIOUS
<1>2. PICK b \in Bits : \A c \in Bits : b <= c
  <2>1. Bits \subseteq Nat /\ Bits # {}
    <3>1. \A n \in DOMAIN t.node : t.node[n].bit \in Nat
      BY NodeFacts
    <3>2. \A n \in Bad : n \in DOMAIN t.node
      OBVIOUS
    <3>. HIDE DEF Bad
    <3>. QED  BY <1>1, <3>1, <3>2
  <2>. HIDE DEF Bits
  <2>. QED  BY <2>1, LeastOf
<1>3. PICK n \in Bad : b = t.node[n].bit
  OBVIOUS
<1>4. PICK p : p = t.node[n].parent
  OBVIOUS
<1>5. p # NullNode
  BY <1>3, <1>4, ParentIs, WayIs
<1>6. /\ p \in DOMAIN t.node /\ ~IsLeaf(t, p) /\ t.node[p].bit < b /\ t.node[p].bit \in Nat
      /\ b \in Nat /\ Agree(rep[n], rep[p], t.node[p].bit) /\ Agree(x, rep[n], t.node[p].bit + 1)
      /\ (x[t.node[p].bit + 1] = rep[n][t.node[p].bit + 1] <=> Child(t, p, x) = n)
  <2>1. n \in DOMAIN t.node /\ Agree(x, rep[n], t.node[p].bit + 1)
    BY <1>3, <1>4, <1>5
  <2>2. p \in DOMAIN t.node /\ t.node[p].bit < b /\ t.node[p].bit \in Nat /\ b \in Nat
    BY <1>3, <1>4, <1>5, <2>1, BitsGrow
  <2>3. ~IsLeaf(t, p) /\ Agree(rep[n], rep[p], t.node[p].bit)
    BY ONLY Shape(t, rep), <1>4, <1>5, <2>1, ParentIs
  <2>4. GoesAs(t, x, rep[n], p) <=> Child(t, p, x) = n
    BY ONLY Shape(t, rep), x \in Address, <1>4, <1>5, <2>1, BitLeads
  <2>. QED  BY ONLY <2>1, <2>2, <2>3, <2>4 DEF GoesAs
<1>7. Child(t, p, x) = n
  <2>1. t.node[p].bit + 1 \in 1..t.node[p].bit + 1
    BY <1>6
  <2>. QED  BY <1>6, <2>1 DEF Agree
<1>8. Goes(p)
  <2>1. PICK q : q = t.node[p].parent
    OBVIOUS
  <2>2. SUFFICES ASSUME q # NullNode PROVE Agree(x, rep[p], t.node[q].bit + 1)
    BY <2>1
  <2>3. t.node[q].bit + 1 <= t.node[p].bit /\ t.node[q].bit + 1 \in Nat
    BY <1>6, <2>1, <2>2, BitsGrow
  <2>4. Agree(x, rep[n], t.node[q].bit + 1)
    BY <1>6, <2>3, AgreeFacts
  <2>. QED  BY <1>6, <2>3, <2>4, AgreeFacts
<1>9. p \in OnWay(t, x)
  <2>1. ~(b <= t.node[p].bit)
    BY <1>6
  <2>. QED  BY <1>2, <1>6, <1>8, <2>1
<1>10. n \in OnWay(t, x)
  <2>1. Down(t, x)[p] = n
    BY <1>6, <1>7, DownIs
  <2>. QED  BY <1>9, <2>1, WayIs
<1>. QED  BY <1>3, <1>10

LEMMA LeafIsFound ==
    ASSUME NEW t, NEW rep, Shape(t, rep), NEW l \in DOMAIN t.node, IsLeaf(t, l),
           NEW m \in DOMAIN t.node, Agree(rep[l], rep[m], t.node[m].bit)
    PROVE  /\ CPTRetriveNode(t, rep[l], m) = l /\ CPTRetriveNode(t, rep[l], t.head) = l
           /\ m \in OnWay(t, rep[l]) /\ l \in OnWay(t, rep[l])
<1>. DEFINE x == rep[l]
<1>1. x \in Address /\ IpBits \in Nat
  BY NodeFacts
<1>2. ASSUME NEW n \in DOMAIN t.node, Agree(x, rep[n], t.node[n].bit)
      PROVE  n \in OnWay(t, x)
  <2>1. PICK p : p = t.node[n].parent
    OBVIOUS
  <2>2. p # NullNode => t.node[p].bit + 1 <= t.node[n].bit /\ t.node[p].bit + 1 \in Nat
                        /\ t.node[n].bit \in Nat
    BY <2>1, BitsGrow
  <2>3. p # NullNode => Agree(x, rep[n], t.node[p].bit + 1)
    BY <1>2, <2>2, AgreeFacts
  <2>. QED  BY <1>1, <2>1, <2>3, AgreeingIsOnWay
<1>3. m \in OnWay(t, x)
  BY <1>2
<1>4. l \in OnWay(t, x)
  BY <1>2 DEF Agree
<1>. QED  BY <1>1, <1>3, <1>4, RetriveIs

(* Looking an address up: from node to node that has a list.               *)
LEMMA ListlessIs ==
    ASSUME NEW t, NEW rep, Shape(t, rep), NEW n \in 0..Len(t.node)
    PROVE  /\ \E rank : Nears(Listless(t), rank, 0..Len(t.node), IpBits + 1)
           /\ LET m == CPTRetriveParentNode(t, n)
              IN  /\ m \in 0..Len(t.node) /\ m # NullNode => t.node[m].list
                  /\ n = NullNode => m = NullNode
                  /\ m # NullNode => /\ n \in DOMAIN t.node /\ m \in DOMAIN t.node
                                     /\ t.node[m].bit <= t.node[n].bit
<1>. DEFINE next == Listless(t)
     S == 0..Len(t.node)
     Low(m) == m # NullNode => n \in DOMAIN t.node /\ t.node[m].bit <= t.node[n].bit
     T == {m \in S : Low(m)}
<1>1. /\ DOMAIN t.node = 1..Len(t.node) /\ Len(t.node) \in Nat /\ NullNode = 0
      /\ IpBits + 1 \in Nat /\ \A m \in S : m # NullNode => m \in DOMAIN t.node
  BY NodeFacts DEF NullNode
<1>2. \A m \in S : next[m] = IF m = NullNode \/ t.node[m].list THEN m ELSE t.node[m].parent
  BY DEF Listless
<1>3. PICK rank : rank = [m \in S |-> IF m = NullNode THEN 0 ELSE t.node[m].bit + 1]
  OBVIOUS
<1>4. rank \in [S -> 0..IpBits + 1]
  <2>1. \A m \in S : (IF m = NullNode THEN 0 ELSE t.node[m].bit + 1) \in 0..IpBits + 1
    BY <1>1, NodeFacts
  <2>. QED  BY <1>3, <2>1
<1>5. ASSUME NEW m \in S, next[m] # m
      PROVE  /\ m \in DOMAIN t.node /\ next[m] = t.node[m].parent
             /\ next[m] # NullNode => next[m] \in DOMAIN t.node /\ t.node[next[m]].bit < t.node[m].bit
                                      /\ t.node[m].bit \in Nat /\ t.node[next[m]].bit \in Nat
  BY <1>1, <1>2, <1>5, BitsGrow
<1>6. next \in [S -> S]
  <2>1. \A m \in S : next[m] \in S
    BY <1>1, <1>5
  <2>2. next = [m \in S |-> next[m]]
    BY DEF Listless
  <2>. QED  BY <2>1, <2>2
<1>7. \A m \in S : next[m] # m => rank[next[m]] < rank[m]
  <2>1. SUFFICES ASSUME NEW m \in S, next[m] # m PROVE rank[next[m]] < rank[m]
    OBVIOUS
  <2>2. m # NullNode /\ rank[m] = t.node[m].bit + 1 /\ t.node[m].bit \in Nat
    BY <1>1, <1>3, <1>5, <2>1, NodeFacts
  <2>3. rank[next[m]] = IF next[m] = NullNode THEN 0 ELSE t.node[next[m]].bit + 1
    BY <1>3, <1>6, <2>1
  <2>. QED  BY <1>5, <2>1, <2>2, <2>3
<1>8. Nears(next, rank, S, IpBits + 1)
  BY <1>1, <1>4, <1>6, <1>7 DEF Nears
<1>9. \A m \in T : next[m] \in T
  <2>1. SUFFICES ASSUME NEW m \in T, next[m] # m PROVE next[m] \in T
    OBVIOUS
  <2>2. m # NullNode /\ next[m] \in S
    BY <1>1, <1>5, <1>6, <2>1
  <2>3. next[m] # NullNode => t.node[next[m]].bit <= t.node[n].bit
    <3>1. n \in DOMAIN t.node /\ t.node[m].bit <= t.node[n].bit
      BY <2>1, <2>2
    <3>2. t.node[n].bit \in Nat
      BY <3>1, NodeFacts
    <3>. QED  BY <1>5, <2>1, <3>1, <3>2
  <2>. QED  BY <2>1, <2>2, <2>3
<1>10. n \in T
  BY <1>1, NodeFacts
<1>. HIDE DEF next
<1>11. Walk(next, n) \in T /\ next[Walk(next, n)] = Walk(next, n)
  <2>1. T \in SUBSET S
    OBVIOUS
  <2>. HIDE DEF T, S
  <2>. QED  BY <1>8, <1>9, <1>10, <2>1, WalkStays DEF T
<1>12. \A m \in S : next[m] = m /\ m # NullNode => t.node[m].list
  <2>1. SUFFICES ASSUME NEW m \in S, next[m] = m, m # NullNode, ~t.node[m].list PROVE FALSE
    OBVIOUS
  <2>2. m \in DOMAIN t.node /\ t.node[m].parent = m
    BY <1>1, <1>2, <2>1
  <2>. QED  BY <2>1, <2>2, BitsGrow
<1>13. n = NullNode => Walk(next, n) = NullNode
  <2>1. n = NullNode => next[n] = n
    BY <1>2
  <2>. QED  BY <1>8, <2>1, WalkStep
<1>. QED  BY <1>1, <1>8, <1>11, <1>12, <1>13 DEF CPTRetriveParentNode, next

LEMMA HeadIs ==
    ASSUME NEW X, NEW l \in Seq(X), l # << >>
    PROVE  l[1] \in X /\ Len(l) >= 1
  OBVIOUS

LEMMA ElementIs ==
    ASSUME NEW X, NEW l \in Seq(X), NEW i \in DOMAIN l
    PROVE  l[i] \in X
  OBVIOUS

LEMMA CutIs ==
    ASSUME NEW t, NEW rep, Shape(t, rep), NEW m \in DOMAIN t.node, NEW a \in Address
    PROVE  Cut(t, m, a) \in Address
<1>1. PICK list : list = t.node[m].netmasks
  OBVIOUS
<1>2. list \in Seq(0..IpBits)
  BY <1>1, NodeFacts
<1>3. list # << >> => list[1] \in 0..IpBits
  BY <1>2, HeadIs
<1>. QED  BY <1>1, <1>3, CutFacts DEF Cut

LEMMA NetblocksIs ==
    ASSUME NEW t, NEW rep, Shape(t, rep)
    PROVE  /\ \E rank : Nears(Netblocks(t), rank, (0..Len(t.node)) \X Address, IpBits + 1)
           /\ \A s \in (0..Len(t.node)) \X Address :
                LET m == CPTRetriveParentNode(t, s[1])
                    a == Cut(t, m, s[2])
                IN  IF m = NullNode \/ Listed(t, m, a) THEN Netblocks(t)[s] = s
                    ELSE Netblocks(t)[s] = <<t.node[m].parent, a>> /\ Netblocks(t)[s] # s
<1>. DEFINE next == Netblocks(t)
     N == 0..Len(t.node)
     S == N \X Address
     Height(n) == IF n = NullNode THEN 0 ELSE t.node[n].bit + 1
     Above1(n) == CPTRetriveParentNode(t, n)
<1>1. \A n \in N : n = NullNode \/ n \in DOMAIN t.node
  BY NodeFacts DEF NullNode
<1>2. \A n \in N : Height(n) \in 0..IpBits + 1
  BY <1>1, NodeFacts
<1>3. \A s \in S : next[s] = LET m == Above1(s[1])
                                 a == Cut(t, m, s[2])
                             IN  IF m = NullNode \/ Listed(t, m, a) THEN s
                                 ELSE <<t.node[m].parent, a>>
  BY Zenon DEF Netblocks
<1>4. ASSUME NEW s \in S, NEW m, m = Above1(s[1]), m # NullNode
      PROVE  /\ t.node[m].parent \in N /\ Cut(t, m, s[2]) \in Address
             /\ Height(t.node[m].parent) < Height(s[1])
  <2>1. s[1] \in N /\ s[2] \in Address
    OBVIOUS
  <2>2. /\ s[1] \in DOMAIN t.node /\ m \in DOMAIN t.node /\ t.node[m].bit <= t.node[s[1]].bit
        /\ s[1] # NullNode
    BY <1>1, <1>4, <2>1, ListlessIs
  <2>3. t.node[m].bit \in Nat /\ t.node[s[1]].bit \in Nat
    BY <2>2, NodeFacts
  <2>4. PICK p : p = t.node[m].parent
    OBVIOUS
  <2>5. p # NullNode => p \in DOMAIN t.node /\ t.node[p].bit < t.node[m].bit /\ t.node[p].bit \in Nat
    BY <2>2, <2>4, BitsGrow
  <2>6. p \in N
    BY <2>5, NodeFacts DEF NullNode
  <2>7. Height(p) < Height(s[1])
    BY <2>2, <2>3, <2>5
  <2>. QED  BY <2>1, <2>2, <2>4, <2>6, <2>7, CutIs
<1>5. \A s \in S : s = <<s[1], s[2]>> /\ s[1] \in N
  OBVIOUS
<1>6. PICK rank : rank = [s \in S |-> Height(s[1])]
  OBVIOUS
<1>. HIDE DEF Height, Above1, N
<1>7. rank \in [S -> 0..IpBits + 1]
  BY <1>2, <1>5, <1>6
<1>8. \A s \in S : next[s] # s => next[s] \in S /\ rank[next[s]] < rank[s]
  <2>1. SUFFICES ASSUME NEW s \in S, next[s] # s PROVE next[s] \in S /\ rank[next[s]] < rank[s]
    OBVIOUS
  <2>2. PICK m, a : m = Above1(s[1]) /\ a = Cut(t, m, s[2])
    OBVIOUS
  <2>3. m # NullNode /\ next[s] = <<t.node[m].parent, a>>
    BY <1>3, <2>1, <2>2
  <2>4. t.node[m].parent \in N /\ a \in Address /\ Height(t.node[m].parent) < Height(s[1])
    BY <1>4, <2>2, <2>3
  <2>5. next[s] \in S /\ next[s][1] = t.node[m].parent
    BY <2>3, <2>4
  <2>. QED  BY ONLY <1>6, <2>1, <2>4, <2>5
<1>9. next \in [S -> S]
  <2>1. next = [s \in S |-> next[s]]
    BY DEF Netblocks, N
  <2>. HIDE DEF next
  <2>2. \A s \in S : next[s] \in S
    BY <1>8
  <2>. QED  BY ONLY <2>1, <2>2
<1>10. Nears(next, rank, S, IpBits + 1)
  <2>. HIDE DEF next, S
  <2>. QED  BY <1>7, <1>8, <1>9, IpTreeAssumption DEF Nears
<1>11. ASSUME NEW s \in S, NEW m, m = Above1(s[1]), m # NullNode, NEW a
       PROVE  <<t.node[m].parent, a>> # s
  <2>1. Height(t.node[m].parent) # Height(s[1])
    BY <1>2, <1>4, <1>5, <1>11
  <2>. QED  BY <2>1
<1>12. ASSUME NEW s \in S
       PROVE  LET m == Above1(s[1])
                  a == Cut(t, m, s[2])
              IN  IF m = NullNode \/ Listed(t, m, a) THEN next[s] = s
                  ELSE next[s] = <<t.node[m].parent, a>> /\ next[s] # s
  <2>1. PICK m, a : m = Above1(s[1]) /\ a = Cut(t, m, s[2])
    OBVIOUS
  <2>2. next[s] = IF m = NullNode \/ Listed(t, m, a) THEN s ELSE <<t.node[m].parent, a>>
    BY <1>3, <2>1
  <2>3. m # NullNode => <<t.node[m].parent, a>> # s
    BY <1>11, <2>1
  <2>. HIDE DEF next, S
  <2>. QED  BY ONLY <2>1, <2>2, <2>3
<1>13. \E r : Nears(next, r, S, IpBits + 1)
  BY ONLY <1>10, Zenon
<1>. QED  BY ONLY <1>12, <1>13 DEF N, Above1

LEMMA ListedIs ==
    ASSUME NEW t, NEW m, NEW a
    PROVE  /\ t.node[m].netmasks = << >> => Cut(t, m, a) = a /\ ~Listed(t, m, a)
           /\ \A k : t.node[m].netmasks = <<k>> =>
                /\ Cut(t, m, a) = ConvertIPNetmask(a, k)
                /\ LET l == CPTRetriveNode(t, a, m)
                   IN  Listed(t, m, a) <=> t.node[l].prefix = a /\ t.node[l].data = k
<1>1. t.node[m].netmasks = << >> => Cut(t, m, a) = a /\ ~Listed(t, m, a)
  BY DEF Cut, Listed
<1>2. ASSUME NEW k, t.node[m].netmasks = <<k>>
      PROVE  /\ Cut(t, m, a) = ConvertIPNetmask(a, k)
             /\ LET l == CPTRetriveNode(t, a, m)
                IN  Listed(t, m, a) <=> t.node[l].prefix = a /\ t.node[l].data = k
  <2>1. <<k>> # << >> /\ <<k>>[1] = k /\ 1..Len(<<k>>) = {1}
    OBVIOUS
  <2>. QED  BY <1>2, <2>1 DEF Cut, Listed
<1>. QED  BY <1>1, <1>2

HasLeaf(t, a, k) == \E l \in DOMAIN t.node : IsLeaf(t, l) /\ t.node[l].prefix = a /\ t.node[l].data = k

HasNetwork(networks, a, k) ==
    \E i \in DOMAIN networks : networks[i] = [address |-> a, netmask |-> k]

LEMMA NetworkIs ==
    ASSUME NEW t, NEW networks, Members(t, networks), NEW a, NEW k
    PROVE  HasNetwork(networks, a, k) <=> HasLeaf(t, a, k)
<1>1. \A l : NetworkOf(t, l) = [address |-> a, netmask |-> k]
             <=> t.node[l].prefix = a /\ t.node[l].data = k
  BY DEF NetworkOf
<1>2. HasNetwork(networks, a, k)
      <=> [address |-> a, netmask |-> k] \in {NetworkOf(t, l) : l \in {m \in DOMAIN t.node : IsLeaf(t, m)}}
  BY DEF Members, HasNetwork
<1>. QED  BY <1>1, <1>2 DEF HasLeaf

(* What the search finds is a network of the address.                      *)
LEMMA FoundIsWithin ==
    ASSUME NEW t, NEW rep, NEW networks, IsTree(t, rep, networks), NEW x \in Address,
           NEW n \in DOMAIN t.node, CPTFindElementIPNetblock(t, x, n)
    PROVE  \E i \in DOMAIN networks :
              networks[i] = [address |-> ConvertIPNetmask(x, networks[i].netmask),
                             netmask |-> networks[i].netmask]
<1>. DEFINE next == Netblocks(t)
     N == 0..Len(t.node)
     S == N \X Address
     Like(s) == s[1] # NullNode => Agree(s[2], x, t.node[s[1]].bit)
     T == {s \in S : Like(s)}
     Cuts(m, a) == \E k \in 1..IpBits - 1 :
                      t.node[m].netmasks = <<k>> /\ Fits(t, m, k) /\ a = ConvertIPNetmask(x, k)
<1>1. Shape(t, rep) /\ Lists(t, rep) /\ Members(t, networks)
  BY DEF IsTree
<1>2. /\ \A m \in N : m # NullNode => m \in DOMAIN t.node
      /\ n \in N
  BY <1>1, NodeFacts DEF NullNode
<1>3. PICK rank : Nears(next, rank, S, IpBits + 1)
  BY <1>1, NetblocksIs
<1>4. ASSUME NEW s \in S, NEW m, m = CPTRetriveParentNode(t, s[1]), NEW a, a = Cut(t, m, s[2])
      PROVE  IF m = NullNode \/ Listed(t, m, a) THEN next[s] = s
             ELSE next[s] = <<t.node[m].parent, a>> /\ next[s] # s
  BY <1>1, <1>4, NetblocksIs
<1>5. \A s \in S : s[1] \in N /\ s[2] \in Address
  OBVIOUS
(* A list on the way holds the one netmask that cuts at its node.          *)
<1>6. ASSUME NEW s \in T, NEW m, m = CPTRetriveParentNode(t, s[1]), m # NullNode,
             NEW a, a = Cut(t, m, s[2])
      PROVE  /\ m \in DOMAIN t.node /\ a \in Address
             /\ t.node[m].netmasks = << >> => a = s[2] /\ ~Listed(t, m, a)
             /\ t.node[m].netmasks # << >> => Cuts(m, a)
             /\ Agree(s[2], x, t.node[m].bit)
  <2>1. /\ s[1] \in DOMAIN t.node /\ m \in DOMAIN t.node /\ t.node[m].bit <= t.node[s[1]].bit
        /\ s[1] # NullNode /\ s[2] \in Address
    BY <1>1, <1>2, <1>5, <1>6, ListlessIs
  <2>2. t.node[m].bit \in 0..IpBits /\ t.node[s[1]].bit \in 0..IpBits
    BY <1>1, <2>1, NodeFacts
  <2>3. Agree(s[2], x, t.node[m].bit)
    <3>1. Agree(s[2], x, t.node[s[1]].bit)
      BY <1>6, <2>1
    <3>. QED  BY <2>1, <2>2, <3>1, AgreeFacts
  <2>4. a \in Address
    BY <1>1, <1>6, <2>1, CutIs
  <2>5. t.node[m].netmasks = << >> => a = s[2] /\ ~Listed(t, m, a)
    BY <1>6, ListedIs
  <2>6. ASSUME t.node[m].netmasks # << >>
        PROVE  Cuts(m, a)
    <3>1. HoldsOne(t, rep, m)
      BY <1>1, <2>1, <2>6 DEF Lists
    <3>2. PICK k \in 1..IpBits - 1 : t.node[m].netmasks = <<k>> /\ Fits(t, m, k)
      BY <3>1 DEF HoldsOne
    <3>3. a = ConvertIPNetmask(s[2], k)
      BY <1>6, <3>2, ListedIs
    <3>4. k \in 0..IpBits /\ k <= t.node[m].bit
      BY <3>2, IpTreeAssumption DEF Fits
    <3>5. Agree(s[2], x, k)
      BY <2>2, <2>3, <3>4, AgreeFacts
    <3>6. a = ConvertIPNetmask(x, k)
      BY <2>1, <3>3, <3>4, <3>5, CutFacts
    <3>. QED  BY <3>2, <3>6
  <2>. QED  BY <2>1, <2>3, <2>4, <2>5, <2>6
<1>7. ASSUME NEW s \in T PROVE next[s] \in T
  <2>1. PICK m, a : m = CPTRetriveParentNode(t, s[1]) /\ a = Cut(t, m, s[2])
    OBVIOUS
  <2>2. SUFFICES ASSUME m # NullNode, ~Listed(t, m, a) PROVE next[s] \in T
    BY <1>4, <2>1
  <2>3. next[s] = <<t.node[m].parent, a>> /\ m \in DOMAIN t.node /\ a \in Address
    BY <1>4, <1>6, <2>1, <2>2
  <2>4. PICK p : p = t.node[m].parent
    OBVIOUS
  <2>5. SUFFICES ASSUME p # NullNode PROVE Agree(a, x, t.node[p].bit)
    <3>1. p = NullNode \/ p \in N
      BY <1>1, <2>3, <2>4, BitsGrow, NodeFacts, SMTT(40)
    <3>2. p \in N /\ next[s][1] = p /\ next[s][2] = a
      BY <2>3, <2>4, <3>1, <1>1, NodeFacts DEF NullNode
    <3>. QED  BY <2>3, <2>4, <3>2
  <2>6. t.node[p].bit \in Nat /\ t.node[m].bit \in Nat /\ t.node[p].bit < t.node[m].bit
    BY <1>1, <2>3, <2>4, <2>5, BitsGrow
  <2>7. CASE t.node[m].netmasks = << >>
    BY <1>6, <2>1, <2>2, <2>6, <2>7, AgreeFacts
  <2>8. CASE t.node[m].netmasks # << >>
    <3>1. PICK k \in 1..IpBits - 1 : Fits(t, m, k) /\ a = ConvertIPNetmask(x, k)
      BY <1>6, <2>1, <2>2, <2>8
    <3>2. t.node[p].bit <= k /\ k \in 0..IpBits
      <4>1. t.node[p].bit < k
        BY <2>4, <2>5, <3>1 DEF Fits
      <4>2. k \in Nat /\ k \in 0..IpBits
        BY <3>1, IpTreeAssumption
      <4>. QED  BY <2>6, <4>1, <4>2
    <3>3. Agree(a, x, k)
      BY <3>1, <3>2, CutFacts
    <3>. QED  BY <2>6, <3>2, <3>3, AgreeFacts
  <2>. QED  BY <2>7, <2>8
<1>8. PICK w : w = Walk(next, <<n, x>>)
  OBVIOUS
<1>9. w \in T /\ next[w] = w
  <2>1. <<n, x>> \in T
    <3>1. <<n, x>> \in S /\ <<n, x>>[1] = n /\ <<n, x>>[2] = x
      BY <1>2
    <3>. QED  BY <3>1 DEF Agree
  <2>2. T \in SUBSET S
    OBVIOUS
  <2>. HIDE DEF T, next, S
  <2>. QED  BY <1>3, <1>7, <1>8, <2>1, <2>2, WalkStays
<1>10. PICK m, a : m = CPTRetriveParentNode(t, w[1]) /\ a = Cut(t, m, w[2])
  OBVIOUS
<1>11. m # NullNode
  BY <1>8, <1>10 DEF CPTFindElementIPNetblock
<1>12. Listed(t, m, a)
  BY <1>4, <1>9, <1>10, <1>11
<1>13. m \in DOMAIN t.node /\ a \in Address /\ t.node[m].netmasks # << >>
  BY <1>6, <1>9, <1>10, <1>11, <1>12
<1>14. PICK k \in 1..IpBits - 1 : t.node[m].netmasks = <<k>> /\ a = ConvertIPNetmask(x, k)
  <2>1. Cuts(m, a)
    <3>. HIDE DEF T, S, next, Cuts
    <3>. QED  BY <1>6, <1>9, <1>10, <1>11, <1>13
  <2>. QED  BY <2>1
<1>15. PICK l : l = CPTRetriveNode(t, a, m)
  OBVIOUS
<1>16. l \in DOMAIN t.node /\ IsLeaf(t, l) /\ t.node[l].prefix = a /\ t.node[l].data = k
  BY <1>1, <1>12, <1>13, <1>14, <1>15, RetriveIs, ListedIs
<1>17. PICK i \in DOMAIN networks : networks[i] = [address |-> a, netmask |-> k]
  <2>1. HasLeaf(t, a, k)
    BY <1>16 DEF HasLeaf
  <2>. QED  BY <1>1, <2>1, NetworkIs DEF HasNetwork
<1>. QED  BY <1>14, <1>17

(* What is not found at first is found in the list that the netmask of its *)
(* network is in: the search does not pass that list.                      *)
LEMMA WithinIsFound ==
    ASSUME NEW t, NEW rep, NEW networks, IsTree(t, rep, networks), NEW x \in Address,
           NEW l \in DOMAIN t.node, IsLeaf(t, l), NEW k, k = t.node[l].data, k < IpBits,
           rep[l] = ConvertIPNetmask(x, k),
           NEW n, n = CPTRetriveNode(t, x, t.head)
    PROVE  CPTFindElementIPNetblock(t, x, n)
<1>. DEFINE next == Netblocks(t)
     N == 0..Len(t.node)
     S == N \X Address
<1>1. Shape(t, rep) /\ Lists(t, rep) /\ Leaves(t, rep)
  BY DEF IsTree
<1>2. /\ \A m \in N : m # NullNode => m \in DOMAIN t.node
      /\ IpBits \in Nat /\ k \in 1..IpBits /\ rep[l] \in Address /\ t.head \in DOMAIN t.node
  BY <1>1, NodeFacts DEF NullNode, Leaves, Shape
<1>3. PICK rank : Nears(next, rank, S, IpBits + 1)
  BY <1>1, NetblocksIs
<1>4. ASSUME NEW s \in S, NEW m, m = CPTRetriveParentNode(t, s[1]), NEW a, a = Cut(t, m, s[2])
      PROVE  IF m = NullNode \/ Listed(t, m, a) THEN next[s] = s
             ELSE next[s] = <<t.node[m].parent, a>> /\ next[s] # s
  BY <1>1, <1>4, NetblocksIs
(* The node with the list.                                                 *)
<1>5. PICK g \in DOMAIN t.node : t.node[g].netmasks = <<k>> /\ Agree(rep[l], rep[g], t.node[g].bit)
  BY <1>1 DEF Leaves, IsListed, Under
<1>6. Fits(t, g, k) /\ t.node[g].list
  <2>1. t.node[g].netmasks # << >>
    BY <1>5
  <2>2. HoldsOne(t, rep, g) /\ t.node[g].list
    BY <1>1, <2>1, NodeFacts DEF Lists
  <2>3. PICK j \in 1..IpBits - 1 : t.node[g].netmasks = <<j>> /\ Fits(t, g, j)
    BY <2>2 DEF HoldsOne
  <2>4. j = <<j>>[1] /\ k = <<k>>[1]
    OBVIOUS
  <2>. QED  BY <1>5, <2>2, <2>3, <2>4
<1>7. g \in OnWay(t, x)
  <2>1. Agree(x, rep[l], k)
    BY <1>2, CutFacts
  <2>2. PICK p : p = t.node[g].parent
    OBVIOUS
  <2>3. SUFFICES ASSUME p # NullNode PROVE Agree(x, rep[g], t.node[p].bit + 1)
    BY <1>1, <1>5, <2>2, AgreeingIsOnWay
  <2>4. t.node[p].bit + 1 \in Nat /\ t.node[g].bit \in Nat /\ t.node[p].bit \in Nat
    BY <1>1, <1>5, <2>2, <2>3, BitsGrow
  <2>5. t.node[p].bit + 1 <= k /\ k <= t.node[g].bit /\ k \in Nat
    BY <1>2, <1>6, <2>2, <2>3, <2>4 DEF Fits
  <2>6. Agree(x, rep[g], k)
    BY <1>5, <2>1, <2>4, <2>5, AgreeFacts
  <2>. QED  BY <2>4, <2>5, <2>6, AgreeFacts
(* From a node on the way that is not above it, the search gets there.     *)
<1>8. ASSUME NEW s \in S, s[1] \in OnWay(t, x), t.node[g].bit <= t.node[s[1]].bit,
             NEW m, m = CPTRetriveParentNode(t, s[1])
      PROVE  m # NullNode /\ m \in OnWay(t, x) /\ t.node[g].bit <= t.node[m].bit
  <2>. DEFINE up == Listless(t)
       V == {v \in OnWay(t, x) : t.node[g].bit <= t.node[v].bit}
  <2>1. PICK near : Nears(up, near, N, IpBits + 1)
    <3>1. s[1] \in N
      OBVIOUS
    <3>. QED  BY <1>1, <3>1, ListlessIs
  <2>2. \A v \in V : v \in DOMAIN t.node /\ v \in N /\ v # NullNode
    BY <1>1, WayIs, NodeFacts, SMTT(40)
  <2>3. ASSUME NEW v \in V PROVE up[v] \in V
    <3>1. up[v] = IF t.node[v].list THEN v ELSE t.node[v].parent
      BY <2>2 DEF Listless
    <3>2. SUFFICES ASSUME ~t.node[v].list PROVE t.node[v].parent \in V
      BY <3>1
    <3>3. v # g
      BY <1>6, <3>2
    <3>4. t.node[v].parent # NullNode /\ t.node[g].bit <= t.node[t.node[v].parent].bit
      BY <1>1, <1>7, <3>3, WayIs
    <3>. QED  BY <1>1, <3>4, WayIs
  <2>4. s[1] \in V /\ V \in SUBSET N
    BY <1>8, <2>2
  <2>. HIDE DEF V, up, N
  <2>5. Walk(up, s[1]) \in V
    BY <2>1, <2>3, <2>4, WalkStays
  <2>6. m = Walk(up, s[1])
    BY <1>8 DEF CPTRetriveParentNode, up
  <2>. QED  BY <2>2, <2>5, <2>6 DEF V
<1>. DEFINE T == {s \in S : s[1] \in OnWay(t, x) /\ t.node[g].bit <= t.node[s[1]].bit
                            /\ Agree(s[2], x, k)}
<1>9. ASSUME NEW s \in T PROVE next[s] \in T
  <2>1. PICK m, a : m = CPTRetriveParentNode(t, s[1]) /\ a = Cut(t, m, s[2])
    OBVIOUS
  <2>2. /\ m # NullNode /\ m \in OnWay(t, x) /\ t.node[g].bit <= t.node[m].bit
        /\ m \in DOMAIN t.node /\ s[2] \in Address /\ Agree(s[2], x, k)
    BY <1>1, <1>8, <2>1, WayIs
  <2>3. SUFFICES ASSUME ~Listed(t, m, a) PROVE next[s] \in T
    BY <1>4, <2>1
  <2>4. next[s] = <<t.node[m].parent, a>> /\ a \in Address
    BY <1>1, <1>4, <2>1, <2>2, <2>3, CutIs
  <2>5. m # g
    <3>1. SUFFICES ASSUME m = g PROVE FALSE
      OBVIOUS
    <3>2. a = ConvertIPNetmask(s[2], k)
      BY <1>5, <2>1, <3>1, ListedIs
    <3>3. a = rep[l]
      BY <1>2, <2>2, <3>2, CutFacts
    <3>4. CPTRetriveNode(t, a, m) = l
      BY <1>1, <1>5, <3>1, <3>3, LeafIsFound
    <3>5. t.node[l].prefix = a
      BY <1>1, <3>3 DEF Shape
    <3>. QED  BY <1>5, <2>3, <3>1, <3>4, <3>5, ListedIs
  <2>6. PICK p : p = t.node[m].parent
    OBVIOUS
  <2>7. p # NullNode /\ t.node[g].bit <= t.node[p].bit /\ p \in OnWay(t, x)
    BY <1>1, <1>7, <2>2, <2>5, <2>6, WayIs
  <2>8. /\ p \in DOMAIN t.node /\ t.node[p].bit \in Nat /\ t.node[g].bit \in Nat
        /\ k <= t.node[p].bit /\ k \in Nat
    <3>1. p \in DOMAIN t.node /\ t.node[p].bit \in Nat
      BY <1>1, <2>2, <2>6, <2>7, BitsGrow
    <3>2. t.node[g].bit \in Nat
      BY <1>1, <1>5, NodeFacts, SMTT(40)
    <3>3. k \in Nat /\ k <= t.node[g].bit
      BY <1>2, <1>6 DEF Fits
    <3>. QED  BY ONLY <2>7, <3>1, <3>2, <3>3
  <2>9. Agree(a, x, k)
    <3>1. CASE t.node[m].netmasks = << >>
      BY <2>1, <2>2, <3>1, ListedIs
    <3>2. CASE t.node[m].netmasks # << >>
      <4>1. HoldsOne(t, rep, m)
        BY <1>1, <2>2, <3>2 DEF Lists
      <4>2. PICK j \in 1..IpBits - 1 : t.node[m].netmasks = <<j>> /\ Fits(t, m, j)
        BY <4>1 DEF HoldsOne
      <4>3. a = ConvertIPNetmask(s[2], j) /\ j \in 0..IpBits /\ k <= j
        <5>1. a = ConvertIPNetmask(s[2], j)
          BY <2>1, <4>2, ListedIs
        <5>2. t.node[p].bit < j
          BY <2>6, <2>7, <4>2 DEF Fits
        <5>3. j \in 0..IpBits /\ j \in Nat
          BY <1>2
        <5>. QED  BY ONLY <2>8, <5>1, <5>2, <5>3
      <4>4. Agree(a, s[2], j) /\ j \in Nat
        BY <1>2, <2>2, <4>3, CutFacts
      <4>. QED  BY ONLY <2>2, <2>8, <4>3, <4>4, AgreeFacts
    <3>. QED  BY <3>1, <3>2
  <2>10. next[s][1] = p /\ next[s][2] = a /\ next[s] \in S
    <3>1. p \in N
      <4>1. DOMAIN t.node \subseteq N
        BY <1>1, NodeFacts
      <4>. QED  BY <2>8, <4>1
    <3>. QED  BY <2>4, <2>6, <3>1
  <2>. QED  BY <2>7, <2>9, <2>10
<1>10. PICK w : w = Walk(next, <<n, x>>)
  OBVIOUS
<1>11. w \in T
  <2>1. n \in OnWay(t, x) /\ IsLeaf(t, n) /\ n \in DOMAIN t.node
    BY <1>1, <1>2, RetriveIs, WayIs
  <2>2. n \in N /\ t.node[g].bit <= t.node[n].bit
    BY <1>1, <1>5, <2>1, NodeFacts DEF IsLeaf
  <2>3. <<n, x>> \in S /\ <<n, x>>[1] = n /\ <<n, x>>[2] = x /\ Agree(x, x, k)
    BY <2>2 DEF Agree
  <2>4. <<n, x>> \in T /\ T \in SUBSET S
    BY <2>1, <2>2, <2>3
  <2>. HIDE DEF T, next, S
  <2>. QED  BY <1>3, <1>9, <1>10, <2>4, WalkStays
<1>. QED  BY <1>8, <1>10, <1>11 DEF CPTFindElementIPNetblock

(* An address is found exactly when it is in one of the networks.          *)
LEMMA LookupIsExact ==
    ASSUME NEW t, NEW rep, NEW networks, IsTree(t, rep, networks), NEW x \in Address,
           networks \in Seq([address : Address, netmask : 1..IpBits])
    PROVE  CPTFindElement(t, x) <=> \E i \in 1..Len(networks) : Within(x, networks[i])
<1>. DEFINE n == CPTRetriveNode(t, x, t.head)
<1>1. Shape(t, rep) /\ Lists(t, rep) /\ Leaves(t, rep) /\ Members(t, networks)
  BY DEF IsTree
<1>2. /\ t.head \in DOMAIN t.node /\ t.head # NullNode
      /\ n \in DOMAIN t.node /\ IsLeaf(t, n) /\ n \in OnWay(t, x)
  <2>1. t.head \in DOMAIN t.node
    BY <1>1 DEF Shape
  <2>. QED  BY <1>1, <2>1, NodeFacts, RetriveIs, WayIs
<1>3. DOMAIN networks = 1..Len(networks)
  OBVIOUS
<1>4. ConvertIPNetmask(x, IpBits) = x /\ IpBits \in Nat \ {0}
  BY IpTreeAssumption, CutFacts
<1>5. ASSUME CPTFindElement(t, x)
      PROVE  \E i \in DOMAIN networks : Within(x, networks[i])
  <2>1. CASE t.node[n].prefix = x /\ t.node[n].data = IpBits
    <3>1. PICK i \in DOMAIN networks : networks[i] = [address |-> x, netmask |-> IpBits]
      <4>1. HasLeaf(t, x, IpBits)
        BY <1>2, <2>1 DEF HasLeaf
      <4>. QED  BY <1>1, <4>1, NetworkIs DEF HasNetwork
    <3>. QED  BY <1>4, <3>1 DEF Within
  <2>2. CASE CPTFindElementIPNetblock(t, x, n)
    <3>1. PICK i \in DOMAIN networks :
             networks[i] = [address |-> ConvertIPNetmask(x, networks[i].netmask),
                            netmask |-> networks[i].netmask]
      BY <1>2, <2>2, FoundIsWithin
    <3>2. PICK k, a : k = networks[i].netmask /\ a = ConvertIPNetmask(x, k)
      OBVIOUS
    <3>3. networks[i] = [address |-> a, netmask |-> k]
      BY <3>1, <3>2
    <3>4. networks[i].address = ConvertIPNetmask(x, networks[i].netmask)
      BY ONLY <3>2, <3>3
    <3>. QED  BY <3>4 DEF Within
  <2>. QED  BY <1>5, <2>1, <2>2 DEF CPTFindElement
<1>6. ASSUME NEW i \in DOMAIN networks, Within(x, networks[i])
      PROVE  CPTFindElement(t, x)
  <2>1. PICK a, k : a = networks[i].address /\ k = networks[i].netmask
    OBVIOUS
  <2>2. networks[i] = [address |-> a, netmask |-> k] /\ a \in Address /\ k \in 1..IpBits
    <3>1. networks[i] \in [address : Address, netmask : 1..IpBits]
      BY ElementIs
    <3>. QED  BY <2>1, <3>1
  <2>3. PICK l \in DOMAIN t.node : IsLeaf(t, l) /\ t.node[l].prefix = a /\ t.node[l].data = k
    <3>1. HasNetwork(networks, a, k)
      BY <2>2 DEF HasNetwork
    <3>. QED  BY <1>1, <3>1, NetworkIs DEF HasLeaf
  <2>4. rep[l] = a /\ a = ConvertIPNetmask(x, k)
    BY <1>1, <1>6, <2>1, <2>3 DEF Shape, Within
  <2>5. CASE k < IpBits
    <3>1. CPTFindElementIPNetblock(t, x, n)
      BY <2>3, <2>4, <2>5, WithinIsFound
    <3>. QED  BY <1>2, <3>1 DEF CPTFindElement
  <2>6. CASE k = IpBits
    <3>1. a = x
      BY <1>4, <2>4, <2>6
    <3>2. n = l
      <4>1. Agree(rep[l], rep[l], t.node[l].bit)
        BY DEF Agree
      <4>. QED  BY <1>1, <2>3, <2>4, <3>1, <4>1, LeafIsFound
    <3>3. ~t.node[n].list
      <4>1. SUFFICES ASSUME t.node[n].list PROVE FALSE
        OBVIOUS
      <4>2. HoldsOne(t, rep, n)
        BY <1>1, <1>2, <4>1 DEF Lists
      <4>3. PICK j \in 1..IpBits - 1, o \in DOMAIN t.node : Under(t, rep, o, n, j)
        BY <4>2 DEF HoldsOne
      <4>4. Agree(rep[o], rep[n], IpBits) /\ IsLeaf(t, o) /\ t.node[o].data = j
        BY <1>2, <4>3 DEF Under, IsLeaf
      <4>5. rep[o] = x
        BY <1>1, <1>4, <2>4, <3>1, <3>2, <4>4, CutFacts, NodeFacts
      <4>6. o = n
        <5>1. Agree(rep[o], rep[o], t.node[o].bit)
          BY DEF Agree
        <5>. QED  BY <1>1, <4>4, <4>5, <5>1, LeafIsFound
      <4>. QED  BY <1>4, <2>3, <2>6, <3>2, <4>4, <4>6
    <3>. QED  BY <1>2, <2>3, <2>6, <3>1, <3>2, <3>3 DEF CPTFindElement
  <2>. QED  BY <1>4, <2>2, <2>5, <2>6
<1>. QED  BY <1>3, <1>5, <1>6

-----------------------------------------------------------------------------
(* The radix tree: adding a network.                                       *)

(* The node that the netmask b of the leaf n belongs to.                   *)
LEMMA ClimbIs ==
    ASSUME NEW t, NEW rep, Shape(t, rep), NEW n \in DOMAIN t.node,
           NEW b \in Nat, b <= t.node[n].bit, NEW c, c = Climb(t, n, b)
    PROVE  /\ c \in DOMAIN t.node /\ Fits(t, c, b) /\ t.node[c].bit <= t.node[n].bit
           /\ Agree(rep[n], rep[c], t.node[c].bit)
           /\ \A x \in Address : n \in OnWay(t, x) => c \in OnWay(t, x)
<1>. DEFINE up == Up(t, b)
     T == {m \in DOMAIN t.node :
             /\ b <= t.node[m].bit /\ t.node[m].bit <= t.node[n].bit
             /\ Agree(rep[n], rep[m], t.node[m].bit)
             /\ \A x \in Address : n \in OnWay(t, x) => m \in OnWay(t, x)}
<1>1. PICK rank : Nears(up, rank, DOMAIN t.node, IpBits)
  BY UpIs
<1>2. \A m \in DOMAIN t.node :
        LET p == t.node[m].parent
        IN  up[m] = IF p # NullNode /\ b <= t.node[p].bit THEN p ELSE m
  BY UpIs
<1>3. ASSUME NEW m \in T PROVE up[m] \in T
  <2>1. PICK p : p = t.node[m].parent
    OBVIOUS
  <2>2. SUFFICES ASSUME p # NullNode, b <= t.node[p].bit PROVE p \in T
    BY <1>2, <2>1
  <2>3. /\ p \in DOMAIN t.node /\ t.node[p].bit \in Nat /\ t.node[m].bit \in Nat
        /\ t.node[p].bit < t.node[m].bit /\ t.node[n].bit \in Nat
    <3>1. m \in DOMAIN t.node
      OBVIOUS
    <3>. HIDE DEF T
    <3>2. t.node[n].bit \in Nat
      BY NodeFacts
    <3>. QED  BY <2>1, <2>2, <3>1, <3>2, BitsGrow
  <2>4. Agree(rep[m], rep[p], t.node[p].bit)
    BY <2>1, <2>2, ParentIs
  <2>5. Agree(rep[n], rep[p], t.node[p].bit)
    BY <2>3, <2>4, AgreeFacts
  <2>6. \A x \in Address : m \in OnWay(t, x) => p \in OnWay(t, x)
    BY <2>1, <2>2, WayIs
  <2>. QED  BY <2>2, <2>3, <2>5, <2>6
<1>4. n \in T
  BY NodeFacts DEF Agree
<1>5. c \in T /\ up[c] = c
  <2>1. T \in SUBSET DOMAIN t.node
    OBVIOUS
  <2>2. c = Walk(up, n)
    BY DEF Climb
  <2>. HIDE DEF T, up
  <2>. QED  BY <1>1, <1>3, <1>4, <2>1, <2>2, WalkStays
<1>6. Fits(t, c, b)
  <2>1. PICK p : p = t.node[c].parent
    OBVIOUS
  <2>2. p # NullNode => p \in DOMAIN t.node /\ t.node[p].bit \in Nat /\ p # c
    BY <1>5, <2>1, BitsGrow
  <2>3. p = NullNode \/ ~(b <= t.node[p].bit)
    BY <1>2, <1>5, <2>1, <2>2
  <2>. QED  BY <1>5, <2>1, <2>2, <2>3 DEF Fits
<1>. QED  BY <1>5, <1>6

(* Another tree with other lists at most.                                  *)
OtherLists(t, u) ==
    /\ u \in [head : Nat, node : Seq(NodeType)] /\ u.head = t.head /\ DOMAIN u.node = DOMAIN t.node
    /\ \A m \in DOMAIN t.node :
        /\ u.node[m].bit = t.node[m].bit /\ u.node[m].prefix = t.node[m].prefix
        /\ u.node[m].data = t.node[m].data /\ u.node[m].left = t.node[m].left
        /\ u.node[m].right = t.node[m].right /\ u.node[m].parent = t.node[m].parent

LEMMA ListsAside ==
    ASSUME NEW t, NEW rep, Shape(t, rep), NEW u, OtherLists(t, u)
    PROVE  /\ Shape(u, rep)
           /\ \A m \in DOMAIN t.node : \A k : Fits(u, m, k) <=> Fits(t, m, k)
           /\ \A l, m \in DOMAIN t.node : \A k : Under(u, rep, l, m, k) <=> Under(t, rep, l, m, k)
           /\ \A l \in DOMAIN t.node : NetworkOf(u, l) = NetworkOf(t, l) /\ (IsLeaf(u, l) <=> IsLeaf(t, l))
<1>1. \A m \in DOMAIN t.node : IsLeaf(u, m) <=> IsLeaf(t, m)
  BY DEF OtherLists, IsLeaf
<1>2. \A l \in DOMAIN t.node : NetworkOf(u, l) = NetworkOf(t, l)
  BY DEF OtherLists, NetworkOf
<1>3. ASSUME NEW l \in DOMAIN t.node, NEW m \in DOMAIN t.node, NEW k
      PROVE  Under(u, rep, l, m, k) <=> Under(t, rep, l, m, k)
  BY <1>1 DEF OtherLists, Under
<1>4. ASSUME NEW m \in DOMAIN t.node, NEW p, p = t.node[m].parent, p # NullNode
      PROVE  p \in DOMAIN t.node
  BY <1>4, ParentIs
<1>5. ASSUME NEW m \in DOMAIN t.node, NEW k
      PROVE  Fits(u, m, k) <=> Fits(t, m, k)
  <2>1. PICK p : p = t.node[m].parent /\ p = u.node[m].parent
    BY DEF OtherLists
  <2>2. p = NullNode \/ u.node[p].bit = t.node[p].bit
    BY <1>4, <2>1 DEF OtherLists
  <2>. QED  BY <2>1, <2>2 DEF OtherLists, Fits
<1>6. ASSUME NEW m \in DOMAIN u.node
      PROVE  /\ HasParent(u, m)
             /\ IsLeaf(u, m) => u.node[m].prefix = rep[m]
             /\ ~IsLeaf(u, m) => /\ Hangs(u, rep, m, u.node[m].left, 0)
                                 /\ Hangs(u, rep, m, u.node[m].right, 1)
  <2>1. m \in DOMAIN t.node
    BY DEF OtherLists
  <2>2. HasParent(u, m)
    <3>1. HasParent(t, m)
      BY <2>1 DEF Shape
    <3>2. PICK p : p = t.node[m].parent /\ p = u.node[m].parent
      BY <2>1 DEF OtherLists
    <3>3. CASE m = t.head
      BY <3>1, <3>2, <3>3 DEF HasParent, OtherLists
    <3>4. CASE m # t.head
      <4>1. p \in DOMAIN t.node /\ ~IsLeaf(t, p) /\ m \in {t.node[p].left, t.node[p].right}
        BY <3>1, <3>2, <3>4 DEF HasParent
      <4>2. p \in DOMAIN u.node /\ ~IsLeaf(u, p) /\ m \in {u.node[p].left, u.node[p].right}
        BY <1>1, <4>1 DEF OtherLists
      <4>. QED  BY <3>2, <3>4, <4>2 DEF HasParent, OtherLists
    <3>. QED  BY <3>3, <3>4
  <2>3. IsLeaf(u, m) => u.node[m].prefix = rep[m]
    BY <1>1, <2>1 DEF OtherLists, Shape
  <2>4. ASSUME NEW c, NEW v, Hangs(t, rep, m, c, v) PROVE Hangs(u, rep, m, c, v)
    BY <2>1, <2>4 DEF Hangs, OtherLists
  <2>5. ~IsLeaf(u, m) => /\ Hangs(t, rep, m, t.node[m].left, 0)
                         /\ Hangs(t, rep, m, t.node[m].right, 1)
    BY <1>1, <2>1 DEF Shape
  <2>6. u.node[m].left = t.node[m].left /\ u.node[m].right = t.node[m].right
    BY <2>1 DEF OtherLists
  <2>. QED  BY ONLY <2>2, <2>3, <2>4, <2>5, <2>6
<1>7. Shape(u, rep)
  BY <1>6 DEF Shape, OtherLists
<1>. QED  BY <1>1, <1>2, <1>3, <1>5, <1>7

(* A netmask in a list that was empty.                                     *)
LEMMA AddToListIs ==
    ASSUME NEW t, NEW rep, Shape(t, rep), NEW c \in DOMAIN t.node, NEW k \in 1..IpBits - 1,
           t.node[c].netmasks = << >>, NEW u, u = AddToList(t, c, k)
    PROVE  /\ OtherLists(t, u)
           /\ \A m \in DOMAIN t.node :
                IF m = c THEN u.node[m].netmasks = <<k>> /\ u.node[m].list
                ELSE u.node[m].netmasks = t.node[m].netmasks /\ u.node[m].list = t.node[m].list
<1>. DEFINE new == [t.node[c] EXCEPT !.list = TRUE, !.netmasks = <<k>>]
<1>1. t \in [head : Nat, node : Seq(NodeType)] /\ t.node[c] \in NodeType /\ IpBits \in Nat
  BY NodeFacts DEF Shape
<1>2. Lengthened(<< >>, k) = <<k>>
  BY DEF Lengthened
<1>3. u = [t EXCEPT !.node = [t.node EXCEPT ![c] = new]]
  <2>1. u = [t EXCEPT !.node = [t.node EXCEPT
                ![c] = [t.node[c] EXCEPT !.list = TRUE, !.netmasks = Lengthened(t.node[c].netmasks, k)]]]
    BY DEF AddToList
  <2>. QED  BY <1>2, <2>1
<1>4. u.head = t.head /\ u.node = [t.node EXCEPT ![c] = new]
  BY <1>1, <1>3
<1>5. new \in NodeType
  <2>1. <<k>> \in Seq(0..IpBits)
    BY <1>1
  <2>. QED  BY <1>1, <2>1 DEF NodeType
<1>6. u \in [head : Nat, node : Seq(NodeType)]
  <2>. HIDE DEF new
  <2>1. [t.node EXCEPT ![c] = new] \in Seq(NodeType)
    <3>1. t.node \in Seq(NodeType)
      BY <1>1
    <3>. QED  BY ONLY <1>5, <3>1
  <2>. QED  BY ONLY <1>1, <1>3, <2>1
<1>7. /\ DOMAIN u.node = DOMAIN t.node
      /\ \A m \in DOMAIN t.node : u.node[m] = IF m = c THEN new ELSE t.node[m]
  BY <1>1, <1>4
<1>8. /\ new.bit = t.node[c].bit /\ new.prefix = t.node[c].prefix /\ new.data = t.node[c].data
      /\ new.left = t.node[c].left /\ new.right = t.node[c].right /\ new.parent = t.node[c].parent
      /\ new.netmasks = <<k>> /\ new.list = TRUE
  BY <1>1 DEF NodeType
<1>. HIDE DEF new
<1>9. OtherLists(t, u)
  BY <1>4, <1>6, <1>7, <1>8 DEF OtherLists
<1>. QED  BY <1>7, <1>8, <1>9

(* Two networks that begin alike, as far as both reach, are one.           *)
LEMMA CutAlike ==
    ASSUME NEW x \in Address, NEW y \in Address, NEW j \in 0..IpBits, NEW k \in 0..IpBits,
           NEW b \in Nat, j <= b, k <= b, Agree(x, y, b),
           x = ConvertIPNetmask(x, j), y = ConvertIPNetmask(y, k)
    PROVE  x = y
<1>1. IpBits \in Nat /\ j \in Nat /\ k \in Nat
  BY IpTreeAssumption
<1>2. \A i \in 1..IpBits : x[i] = IF i <= j THEN x[i] ELSE 0
  BY Zenon DEF ConvertIPNetmask
<1>3. \A i \in 1..IpBits : y[i] = IF i <= k THEN y[i] ELSE 0
  BY Zenon DEF ConvertIPNetmask
<1>4. \A i \in 1..IpBits : x[i] = y[i]
  BY <1>1, <1>2, <1>3 DEF Agree
<1>5. Agree(x, y, IpBits)
  BY <1>4 DEF Agree
<1>. QED  BY <1>1, <1>5, CutFacts

(* A tree with a new leaf l, whose netmask is not in a list yet.           *)
HoldsOther(t, rep, m, l) ==
    \E k \in 1..IpBits - 1 :
        /\ t.node[m].netmasks = <<k>> /\ Fits(t, m, k)
        /\ \E o \in DOMAIN t.node \ {l} : Under(t, rep, o, m, k)

WithoutLeaf(t, rep, l) ==
    /\ Shape(t, rep) /\ l \in DOMAIN t.node /\ IsLeaf(t, l)
    /\ \A m \in DOMAIN t.node :
        /\ t.node[m].netmasks = << >> \/ HoldsOther(t, rep, m, l)
        /\ ~t.node[m].list => t.node[m].netmasks = << >>
        /\ IsLeaf(t, m) /\ t.node[m].list => t.node[m].netmasks # << >>
    /\ \A o \in DOMAIN t.node : IsLeaf(t, o) =>
        /\ t.node[o].data \in 1..IpBits /\ rep[o] = ConvertIPNetmask(rep[o], t.node[o].data)
        /\ o # l => IsListed(t, rep, o) /\ rep[o] # rep[l]

SameLeaves(t, u) ==
    /\ DOMAIN u.node = DOMAIN t.node
    /\ \A l \in DOMAIN t.node : NetworkOf(u, l) = NetworkOf(t, l) /\ (IsLeaf(u, l) <=> IsLeaf(t, l))

LEMMA InsertIs ==
    ASSUME NEW t, NEW rep, NEW l, WithoutLeaf(t, rep, l), NEW k, k = t.node[l].data,
           NEW u, u = InsertNetmask(t, l, k)
    PROVE  Shape(u, rep) /\ Lists(u, rep) /\ Leaves(u, rep) /\ SameLeaves(t, u)
<1>1. /\ Shape(t, rep) /\ l \in DOMAIN t.node /\ IsLeaf(t, l) /\ k \in 1..IpBits
      /\ rep[l] = ConvertIPNetmask(rep[l], k) /\ IpBits \in Nat /\ t.node[l].bit = IpBits
  BY IpTreeAssumption DEF WithoutLeaf, IsLeaf
<1>2. \A m \in DOMAIN t.node : HoldsOther(t, rep, m, l) => HoldsOne(t, rep, m)
  BY DEF HoldsOther, HoldsOne
<1>3. ASSUME k = IpBits
      PROVE  Shape(u, rep) /\ Lists(u, rep) /\ Leaves(u, rep) /\ SameLeaves(t, u)
  <2>1. u = t
    BY <1>3 DEF InsertNetmask, CheckBitmask
  <2>2. Lists(t, rep)
    BY <1>2 DEF WithoutLeaf, Lists
  <2>3. IsListed(t, rep, l)
    BY <1>1, <1>3 DEF IsListed
  <2>4. Leaves(t, rep)
    BY <2>3 DEF WithoutLeaf, Leaves
  <2>5. SameLeaves(t, t)
    BY DEF SameLeaves
  <2>. QED  BY <1>1, <2>1, <2>2, <2>4, <2>5
<1>4. ASSUME k # IpBits
      PROVE  Shape(u, rep) /\ Lists(u, rep) /\ Leaves(u, rep) /\ SameLeaves(t, u)
  <2>1. PICK c : c = Climb(t, l, k)
    OBVIOUS
  <2>2. k \in Nat /\ k <= t.node[l].bit /\ k \in 1..IpBits - 1 /\ k < IpBits
    BY <1>1, <1>4
  <2>3. /\ c \in DOMAIN t.node /\ Fits(t, c, k) /\ Agree(rep[l], rep[c], t.node[c].bit)
        /\ t.node[c].bit \in Nat
    <3>1. c \in DOMAIN t.node /\ Fits(t, c, k) /\ Agree(rep[l], rep[c], t.node[c].bit)
      BY <1>1, <2>1, <2>2, ClimbIs
    <3>. QED  BY <1>1, <3>1, NodeFacts
  (* The list there is empty: another network in it would be this one.     *)
  <2>4. t.node[c].netmasks = << >>
    <3>1. SUFFICES ASSUME t.node[c].netmasks # << >> PROVE FALSE
      OBVIOUS
    <3>2. HoldsOther(t, rep, c, l)
      BY <2>3, <3>1 DEF WithoutLeaf
    <3>3. PICK j \in 1..IpBits - 1, o \in DOMAIN t.node \ {l} :
             Fits(t, c, j) /\ Under(t, rep, o, c, j)
      BY <3>2 DEF HoldsOther
    <3>4. /\ IsLeaf(t, o) /\ t.node[o].data = j /\ Agree(rep[o], rep[c], t.node[c].bit)
          /\ rep[o] = ConvertIPNetmask(rep[o], j) /\ rep[o] # rep[l]
      BY <3>3 DEF Under, WithoutLeaf
    <3>5. /\ rep[o] \in Address /\ rep[l] \in Address /\ j \in 0..IpBits /\ k \in 0..IpBits
          /\ j <= t.node[c].bit /\ k <= t.node[c].bit
      <4>1. rep[o] \in Address /\ rep[l] \in Address
        BY <1>1, <3>3, NodeFacts
      <4>2. j <= t.node[c].bit /\ k <= t.node[c].bit
        BY <2>3, <3>3 DEF Fits
      <4>3. j \in 0..IpBits /\ k \in 0..IpBits
        BY <1>1
      <4>. QED  BY ONLY <4>1, <4>2, <4>3
    <3>6. Agree(rep[o], rep[l], t.node[c].bit)
      BY <2>3, <3>4, AgreeFacts
    <3>. QED  BY <1>1, <2>3, <3>4, <3>5, <3>6, CutAlike
  <2>5. u = AddToList(t, c, k)
    BY <1>4, <2>1 DEF InsertNetmask, CheckBitmask
  <2>6. /\ OtherLists(t, u)
        /\ \A m \in DOMAIN t.node :
             IF m = c THEN u.node[m].netmasks = <<k>> /\ u.node[m].list
             ELSE u.node[m].netmasks = t.node[m].netmasks /\ u.node[m].list = t.node[m].list
    BY ONLY <1>1, <2>2, <2>3, <2>4, <2>5, AddToListIs
  <2>7. /\ Shape(u, rep) /\ DOMAIN u.node = DOMAIN t.node
        /\ \A o, m \in DOMAIN t.node : \A j : Under(u, rep, o, m, j) <=> Under(t, rep, o, m, j)
        /\ \A o \in DOMAIN t.node : NetworkOf(u, o) = NetworkOf(t, o) /\ (IsLeaf(u, o) <=> IsLeaf(t, o))
        /\ \A m \in DOMAIN t.node : u.node[m].data = t.node[m].data
    <3>1. DOMAIN u.node = DOMAIN t.node /\ \A m \in DOMAIN t.node : u.node[m].data = t.node[m].data
      BY <2>6 DEF OtherLists
    <3>2. Shape(t, rep) /\ OtherLists(t, u)
      BY <1>1, <2>6
    <3>. QED  BY ONLY <3>1, <3>2, ListsAside
  <2>8. \A m \in DOMAIN t.node : \A j : Fits(u, m, j) <=> Fits(t, m, j)
    <3>1. Shape(t, rep) /\ OtherLists(t, u)
      BY <1>1, <2>6
    <3>. QED  BY ONLY <3>1, ListsAside
  <2>9. Under(u, rep, l, c, k)
    BY <1>1, <2>3, <2>7 DEF Under
  <2>10. HoldsOne(u, rep, c)
    <3>1. u.node[c].netmasks = <<k>> /\ Fits(u, c, k) /\ l \in DOMAIN u.node
      BY <1>1, <2>3, <2>6, <2>7, <2>8
    <3>. QED  BY <2>2, <2>9, <3>1 DEF HoldsOne
  <2>11. ASSUME NEW m \in DOMAIN t.node, m # c, HoldsOne(t, rep, m) PROVE HoldsOne(u, rep, m)
    <3>1. PICK j \in 1..IpBits - 1, o \in DOMAIN t.node :
             t.node[m].netmasks = <<j>> /\ Fits(t, m, j) /\ Under(t, rep, o, m, j)
      BY <2>11 DEF HoldsOne
    <3>2. u.node[m].netmasks = <<j>> /\ Fits(u, m, j) /\ Under(u, rep, o, m, j) /\ o \in DOMAIN u.node
      BY <2>6, <2>7, <2>8, <2>11, <3>1
    <3>. QED  BY <3>2 DEF HoldsOne
  <2>12. Lists(u, rep)
    <3>1. SUFFICES ASSUME NEW m \in DOMAIN t.node
                   PROVE  /\ u.node[m].netmasks = << >> \/ HoldsOne(u, rep, m)
                          /\ ~u.node[m].list => u.node[m].netmasks = << >>
                          /\ IsLeaf(u, m) /\ u.node[m].list => u.node[m].netmasks # << >>
      BY <2>7 DEF Lists
    <3>2. CASE m = c
      <4>1. u.node[m].netmasks = <<k>> /\ u.node[m].list /\ <<k>> # << >>
        BY <2>6, <3>2
      <4>. QED  BY <2>10, <3>2, <4>1
    <3>3. CASE m # c
      <4>1. u.node[m].netmasks = t.node[m].netmasks /\ u.node[m].list = t.node[m].list
        BY <2>6, <3>3
      <4>. QED  BY <1>2, <2>7, <2>11, <3>3, <4>1 DEF WithoutLeaf
    <3>. QED  BY <3>2, <3>3
  <2>13. ASSUME NEW o \in DOMAIN t.node, IsListed(t, rep, o), o # l PROVE IsListed(u, rep, o)
    <3>1. SUFFICES ASSUME NEW j, j = t.node[o].data, j < IpBits
                   PROVE  \E m \in DOMAIN u.node : u.node[m].netmasks = <<j>> /\ Under(u, rep, o, m, j)
      BY <2>7 DEF IsListed
    <3>2. PICK m \in DOMAIN t.node : t.node[m].netmasks = <<j>> /\ Under(t, rep, o, m, j)
      BY <2>13, <3>1 DEF IsListed
    <3>3. m # c
      <4>1. <<j>> # << >>
        OBVIOUS
      <4>. QED  BY <2>4, <3>2, <4>1
    <3>. QED  BY <2>6, <2>7, <3>2, <3>3
  <2>14. IsListed(u, rep, l)
    <3>1. u.node[c].netmasks = <<k>> /\ c \in DOMAIN u.node /\ u.node[l].data = k
      BY <1>1, <2>3, <2>6, <2>7
    <3>. QED  BY <2>9, <3>1 DEF IsListed
  <2>15. Leaves(u, rep)
    BY <2>7, <2>13, <2>14 DEF WithoutLeaf, Leaves
  <2>. QED  BY <2>7, <2>12, <2>15 DEF SameLeaves
<1>. QED  BY <1>3, <1>4

(* The first network is the head of the tree.                              *)
LEMMA CreateHeadIs ==
    ASSUME NEW a \in Address, NEW k \in 1..IpBits, a = ConvertIPNetmask(a, k),
           NEW u, u = CPTCreateHead(a, k)
    PROVE  /\ \E rep : Shape(u, rep) /\ Lists(u, rep) /\ Leaves(u, rep)
           /\ DOMAIN u.node = {1} /\ IsLeaf(u, 1)
           /\ NetworkOf(u, 1) = [address |-> a, netmask |-> k]
<1>. DEFINE t == [head |-> 1, node |-> <<Node(IpBits, a, k)>>]
     rep == [m \in {1} |-> a]
<1>1. IpBits \in Nat \ {0} /\ k \in 0..IpBits /\ IpBits \in 0..IpBits
  BY IpTreeAssumption
<1>2. Node(IpBits, a, k) \in NodeType
  BY <1>1 DEF Node, NodeType, NullNode
<1>3. /\ t \in [head : Nat, node : Seq(NodeType)] /\ DOMAIN t.node = {1} /\ t.head = 1
      /\ t.node[1] = Node(IpBits, a, k)
  BY <1>2
<1>4. /\ t.node[1].bit = IpBits /\ t.node[1].prefix = a /\ t.node[1].data = k
      /\ t.node[1].list = FALSE /\ t.node[1].netmasks = << >> /\ t.node[1].parent = NullNode
  BY <1>3 DEF Node
<1>5. rep \in [{1} -> Address] /\ rep[1] = a
  OBVIOUS
<1>. HIDE DEF t, rep
<1>6. HasParent(t, 1) /\ IsLeaf(t, 1)
  BY <1>3, <1>4 DEF HasParent, IsLeaf
<1>7. Shape(t, rep)
  BY <1>3, <1>4, <1>5, <1>6 DEF Shape
<1>8. WithoutLeaf(t, rep, 1)
  BY <1>3, <1>4, <1>5, <1>6, <1>7 DEF WithoutLeaf
<1>9. u = InsertNetmask(t, 1, k)
  BY DEF CPTCreateHead, t
<1>10. Shape(u, rep) /\ Lists(u, rep) /\ Leaves(u, rep) /\ SameLeaves(t, u)
  BY <1>4, <1>8, <1>9, InsertIs
<1>11. NetworkOf(t, 1) = [address |-> a, netmask |-> k]
  BY <1>4 DEF NetworkOf
<1>. QED  BY <1>3, <1>6, <1>10, <1>11 DEF SameLeaves

LEMMA PartsOfOne ==
    ASSUME NEW k
    PROVE  /\ Len(<<k>>) = 1 /\ SubSeq(<<k>>, 1, 0) = << >> /\ SubSeq(<<k>>, 2, 1) = << >>
           /\ SubSeq(<<k>>, 1, 1) = <<k>>
<1>1. <<k>> \in Seq({k}) /\ Len(<<k>>) = 1
  OBVIOUS
<1>2. SubSeq(<<k>>, 1, 0) = << >>
  OBVIOUS
<1>3. SubSeq(<<k>>, 2, 1) = << >>
  OBVIOUS
<1>4. SubSeq(<<k>>, 1, 1) = <<k>>
  <2>. DEFINE q == SubSeq(<<k>>, 1, 1)
  <2>1. q \in Seq({k}) /\ Len(q) = 1 /\ q[1] = k
    OBVIOUS
  <2>. HIDE DEF q
  <2>2. q = <<q[1]>>
    BY <2>1
  <2>. QED  BY <2>1, <2>2 DEF q
<1>. QED  BY <1>1, <1>2, <1>3, <1>4

(* The netmasks that a new fork takes: a list has one at most.             *)
Short(list, bit) ==
    CHOOSE i \in 1..Len(list) + 1 :
        /\ i <= Len(list) => list[i] <= bit
        /\ \A j \in 1..i - 1 : list[j] > bit

LEMMA ShortIs ==
    ASSUME NEW bit \in Nat, NEW k \in Nat
    PROVE  Short(<< >>, bit) = 1 /\ Short(<<k>>, bit) = IF k <= bit THEN 1 ELSE 2
<1>1. Short(<< >>, bit) = 1
  <2>1. Short(<< >>, bit) =
          CHOOSE i \in 1..1 : (i <= 0 => << >>[i] <= bit) /\ \A j \in 1..i - 1 : << >>[j] > bit
    BY DEF Short
  <2>. QED  BY <2>1
<1>. DEFINE s == Short(<<k>>, bit)
<1>2. s = CHOOSE i \in 1..2 : (i <= 1 => <<k>>[i] <= bit) /\ \A j \in 1..i - 1 : <<k>>[j] > bit
  BY DEF Short
<1>3. <<k>>[1] = k
  OBVIOUS
<1>. HIDE DEF s
<1>4. s = IF k <= bit THEN 1 ELSE 2
  BY <1>2, <1>3
<1>. QED  BY <1>1, <1>4 DEF s

(* What of the list of n stays, and what the fork takes.                   *)
Parts(list, s, below, above) ==
    SubSeq(list, 1, s - 1) = below /\ SubSeq(list, s, Len(list)) = above

LEMMA PartsAre ==
    ASSUME NEW bit \in Nat, NEW list, NEW s, s = Short(list, bit)
    PROVE  /\ list = << >> => s = 1 /\ Parts(list, s, << >>, << >>)
           /\ \A k \in Nat : list = <<k>> /\ k <= bit => s = 1 /\ Parts(list, s, << >>, <<k>>)
           /\ \A k \in Nat : list = <<k>> /\ ~(k <= bit) => s = 2 /\ Parts(list, s, <<k>>, << >>)
<1>1. ASSUME list = << >>
      PROVE  s = 1 /\ Parts(list, s, << >>, << >>)
  <2>1. s = 1
    BY <1>1, ShortIs
  <2>. QED  BY <1>1, <2>1 DEF Parts
<1>2. ASSUME NEW k \in Nat, list = <<k>>, k <= bit
      PROVE  s = 1 /\ Parts(list, s, << >>, <<k>>)
  <2>1. s = 1
    BY <1>2, ShortIs
  <2>2. s - 1 = 0 /\ Len(list) = 1
    BY <1>2, <2>1, PartsOfOne
  <2>. QED  BY ONLY <1>2, <2>1, <2>2, PartsOfOne DEF Parts
<1>3. ASSUME NEW k \in Nat, list = <<k>>, ~(k <= bit)
      PROVE  s = 2 /\ Parts(list, s, <<k>>, << >>)
  <2>1. s = 2
    BY <1>3, ShortIs
  <2>2. s - 1 = 1 /\ Len(list) = 1
    BY <1>3, <2>1, PartsOfOne
  <2>. QED  BY ONLY <1>3, <2>1, <2>2, PartsOfOne DEF Parts
<1>. QED  BY <1>1, <1>2, <1>3

(* A node stays one, whatever field of it is set.                          *)
LEMMA NodeStays ==
    ASSUME NEW x \in NodeType
    PROVE  /\ \A p \in Nat : /\ [x EXCEPT !.parent = p] \in NodeType
                             /\ [x EXCEPT !.left = p] \in NodeType
                             /\ [x EXCEPT !.right = p] \in NodeType
           /\ \A l \in Seq(0..IpBits) : [x EXCEPT !.netmasks = l] \in NodeType
           /\ \A b \in BOOLEAN : [x EXCEPT !.list = b] \in NodeType
<1>1. ASSUME NEW p \in Nat PROVE [x EXCEPT !.parent = p] \in NodeType
  BY DEF NodeType
<1>2. ASSUME NEW p \in Nat PROVE [x EXCEPT !.left = p] \in NodeType
  BY DEF NodeType
<1>3. ASSUME NEW p \in Nat PROVE [x EXCEPT !.right = p] \in NodeType
  BY DEF NodeType
<1>4. ASSUME NEW l \in Seq(0..IpBits) PROVE [x EXCEPT !.netmasks = l] \in NodeType
  BY DEF NodeType
<1>5. ASSUME NEW b \in BOOLEAN PROVE [x EXCEPT !.list = b] \in NodeType
  BY DEF NodeType
<1>. QED  BY <1>1, <1>2, <1>3, <1>4, <1>5

LEMMA NodeIs ==
    ASSUME NEW bit \in 0..IpBits, NEW prefix \in Address \cup {<< >>}, NEW data \in 0..IpBits
    PROVE  Node(bit, prefix, data) \in NodeType
BY DEF Node, NodeType, NullNode

LEMMA TwoMore ==
    ASSUME NEW X, NEW r \in Seq(X), NEW x \in X, NEW y \in X, NEW q, q = r \o <<x, y>>
    PROVE  /\ q \in Seq(X) /\ Len(q) = Len(r) + 2 /\ DOMAIN q = 1..Len(q)
           /\ q[Len(r) + 1] = x /\ q[Len(r) + 2] = y
           /\ \A m \in 1..Len(r) : q[m] = r[m]
<1>1. <<x, y>> \in Seq(X) /\ Len(<<x, y>>) = 2 /\ Len(r) \in Nat
  OBVIOUS
<1>2. q \in Seq(X)
  BY <1>1
<1>3. Len(q) = Len(r) + 2
  BY <1>1
<1>4. DOMAIN q = 1..Len(q)
  BY <1>2
<1>5. q[Len(r) + 1] = x
  BY <1>1
<1>6. q[Len(r) + 2] = y
  BY <1>1
<1>7. \A m \in 1..Len(r) : q[m] = r[m]
  BY <1>1
<1>. QED  BY <1>2, <1>3, <1>4, <1>5, <1>6, <1>7

(* The nodes of a tree with a new fork above n.                            *)
Made(t, n, bit, a, k, u) ==
    LET leaf == Len(t.node) + 1
        fork == Len(t.node) + 2
        old  == t.node[n]
        up   == old.parent
        list == old.netmasks
        s    == Short(list, bit)
    IN  /\ u \in [head : Nat, node : Seq(NodeType)] /\ DOMAIN u.node = 1..fork
        /\ u.head = IF up = NullNode THEN fork ELSE t.head
        /\ u.node[leaf] = [Node(IpBits, a, k) EXCEPT !.parent = fork]
        /\ u.node[fork] = [Node(bit, << >>, 0) EXCEPT
                             !.list = old.list,
                             !.netmasks = SubSeq(list, s, Len(list)),
                             !.parent = up,
                             !.left  = IF a[bit + 1] = 1 THEN n ELSE leaf,
                             !.right = IF a[bit + 1] = 1 THEN leaf ELSE n]
        /\ \A m \in DOMAIN t.node :
             u.node[m] = IF m = n
                         THEN [old EXCEPT !.netmasks = SubSeq(list, 1, s - 1), !.list = @ /\ s > 1,
                                          !.parent = fork]
                         ELSE IF m = up
                         THEN IF t.node[up].right = n THEN [t.node[m] EXCEPT !.right = fork]
                              ELSE [t.node[m] EXCEPT !.left = fork]
                         ELSE t.node[m]

LEMMA ForkIsMade ==
    ASSUME NEW t, NEW rep, Shape(t, rep), NEW n \in DOMAIN t.node, NEW bit \in 0..IpBits - 1,
           NEW a \in Address, NEW k \in 1..IpBits,
           t.node[n].netmasks = << >> \/ \E j \in 0..IpBits : t.node[n].netmasks = <<j>>
    PROVE  Made(t, n, bit, a, k, Fork(t, n, bit, a, k))
<1>. DEFINE leaf == Len(t.node) + 1
     fork == Len(t.node) + 2
     old  == t.node[n]
     up   == old.parent
     list == old.netmasks
     s    == Short(list, bit)
     below == [old EXCEPT !.netmasks = SubSeq(list, 1, s - 1), !.list = @ /\ s > 1, !.parent = fork]
     made == [Node(bit, << >>, 0) EXCEPT
                !.list = old.list, !.netmasks = SubSeq(list, s, Len(list)), !.parent = up,
                !.left  = IF a[bit + 1] = 1 THEN n ELSE leaf,
                !.right = IF a[bit + 1] = 1 THEN leaf ELSE n]
     new  == [Node(IpBits, a, k) EXCEPT !.parent = fork]
     nodes == [t.node EXCEPT ![n] = below] \o <<new, made>>
     right == [t.node[up] EXCEPT !.right = fork]
     left == [t.node[up] EXCEPT !.left = fork]
     F == Fork(t, n, bit, a, k)
     upper == IF t.node[up].right = n THEN right ELSE left
     all == IF up = NullNode THEN nodes ELSE [nodes EXCEPT ![up] = upper]
<1>1. /\ Len(t.node) \in Nat /\ DOMAIN t.node = 1..Len(t.node) /\ t.node \in Seq(NodeType)
      /\ old \in NodeType /\ n \in Nat /\ IpBits \in Nat /\ t.head \in Nat
  BY NodeFacts DEF Shape
<1>2. /\ up # NullNode => up \in DOMAIN t.node /\ up # n /\ t.node[up] \in NodeType
      /\ up \in Nat
  <2>1. up # NullNode => up \in DOMAIN t.node /\ up # n
    BY BitsGrow
  <2>2. up \in Nat
    BY <1>1 DEF NodeType
  <2>. QED  BY <2>1, <2>2, NodeFacts
<1>3. /\ SubSeq(list, 1, s - 1) \in Seq(0..IpBits) /\ SubSeq(list, s, Len(list)) \in Seq(0..IpBits)
  <2>1. bit \in Nat
    BY <1>1
  <2>2. CASE list = << >>
    BY <2>1, <2>2, PartsAre DEF Parts
  <2>3. CASE list # << >>
    <3>1. PICK j \in 0..IpBits : list = <<j>>
      BY <2>3
    <3>2. j \in Nat /\ <<j>> \in Seq(0..IpBits) /\ << >> \in Seq(0..IpBits)
      BY <1>1
    <3>3. s = Short(list, bit)
      OBVIOUS
    <3>. HIDE DEF list, s
    <3>4. /\ SubSeq(list, 1, s - 1) \in {<< >>, <<j>>}
          /\ SubSeq(list, s, Len(list)) \in {<< >>, <<j>>}
      <4>1. CASE j <= bit
        BY ONLY <2>1, <3>1, <3>2, <3>3, <4>1, PartsAre DEF Parts
      <4>2. CASE ~(j <= bit)
        BY ONLY <2>1, <3>1, <3>2, <3>3, <4>2, PartsAre DEF Parts
      <4>. QED  BY ONLY <4>1, <4>2
    <3>. QED  BY ONLY <3>2, <3>4
  <2>. QED  BY <2>2, <2>3
<1>. HIDE DEF s
<1>4. below \in NodeType
  <2>1. PICK l, b : l = SubSeq(list, 1, s - 1) /\ b = (old.list /\ s > 1)
    OBVIOUS
  <2>2. l \in Seq(0..IpBits) /\ b \in BOOLEAN /\ fork \in Nat
    BY <1>1, <1>3, <2>1
  <2>3. PICK x, y, z : x = [old EXCEPT !.netmasks = l] /\ y = [x EXCEPT !.list = b]
                       /\ z = [y EXCEPT !.parent = fork]
    OBVIOUS
  <2>4. x \in NodeType
    BY ONLY <1>1, <2>2, <2>3, NodeStays
  <2>5. y \in NodeType
    BY ONLY <2>2, <2>3, <2>4, NodeStays
  <2>6. z \in NodeType
    BY ONLY <2>2, <2>3, <2>5, NodeStays
  <2>7. x.list = old.list
    BY <1>1, <2>3 DEF NodeType
  <2>8. below = z
    BY ONLY <2>1, <2>3, <2>7, Zenon DEF below
  <2>. QED  BY ONLY <2>6, <2>8
<1>5. new \in NodeType
  <2>1. Node(IpBits, a, k) \in NodeType /\ fork \in Nat
    <3>1. IpBits \in 0..IpBits /\ k \in 0..IpBits /\ fork \in Nat
      BY <1>1
    <3>. QED  BY ONLY <3>1, a \in Address, NodeIs
  <2>. QED  BY ONLY <2>1, NodeStays DEF new
<1>6. made \in NodeType
  <2>1. old.list \in BOOLEAN /\ up \in Nat /\ leaf \in Nat /\ n \in Nat
    <3>1. old.list \in BOOLEAN
      BY <1>1 DEF NodeType
    <3>2. leaf \in Nat
      BY <1>1
    <3>. QED  BY ONLY <1>1, <1>2, <3>1, <3>2
  <2>2. PICK l : l = SubSeq(list, s, Len(list)) /\ l \in Seq(0..IpBits)
    BY <1>3
  <2>3. PICK w, x, y, z, v :
          /\ w = [Node(bit, << >>, 0) EXCEPT !.list = old.list]
          /\ x = [w EXCEPT !.netmasks = l]
          /\ y = [x EXCEPT !.parent = up]
          /\ z = [y EXCEPT !.left = IF a[bit + 1] = 1 THEN n ELSE leaf]
          /\ v = [z EXCEPT !.right = IF a[bit + 1] = 1 THEN leaf ELSE n]
    OBVIOUS
  <2>4. w \in NodeType
    <3>1. Node(bit, << >>, 0) \in NodeType
      <4>1. bit \in 0..IpBits /\ 0 \in 0..IpBits /\ << >> \in Address \cup {<< >>}
        BY <1>1
      <4>. QED  BY ONLY <4>1, NodeIs
    <3>. QED  BY ONLY <2>1, <2>3, <3>1, NodeStays
  <2>5. x \in NodeType
    BY ONLY <2>2, <2>3, <2>4, NodeStays
  <2>6. y \in NodeType
    BY ONLY <2>1, <2>3, <2>5, NodeStays
  <2>7. z \in NodeType
    BY ONLY <2>1, <2>3, <2>6, NodeStays
  <2>8. v \in NodeType
    BY ONLY <2>1, <2>3, <2>7, NodeStays
  <2>9. made = v
    BY ONLY <2>2, <2>3, Zenon DEF made
  <2>. QED  BY ONLY <2>8, <2>9
<1>. HIDE DEF below, new, made
<1>7. /\ nodes \in Seq(NodeType) /\ DOMAIN nodes = 1..fork
      /\ nodes[leaf] = new /\ nodes[fork] = made
      /\ \A m \in DOMAIN t.node : nodes[m] = IF m = n THEN below ELSE t.node[m]
  <2>. DEFINE r == [t.node EXCEPT ![n] = below]
  <2>1. /\ r \in Seq(NodeType) /\ Len(r) = Len(t.node) /\ DOMAIN r = DOMAIN t.node
        /\ \A m \in DOMAIN t.node : r[m] = IF m = n THEN below ELSE t.node[m]
    BY <1>1, <1>4
  <2>. HIDE DEF r
  <2>3. nodes = r \o <<new, made>>
    BY DEF r
  <2>. HIDE DEF nodes
  <2>4. /\ nodes \in Seq(NodeType) /\ Len(nodes) = Len(r) + 2 /\ DOMAIN nodes = 1..Len(nodes)
        /\ nodes[Len(r) + 1] = new /\ nodes[Len(r) + 2] = made
        /\ \A m \in 1..Len(r) : nodes[m] = r[m]
    BY ONLY <1>5, <1>6, <2>1, <2>3, TwoMore
  <2>. QED  BY <1>1, <2>1, <2>4
<1>8. up # NullNode => right \in NodeType /\ left \in NodeType
  <2>1. fork \in Nat
    BY <1>1
  <2>. QED  BY ONLY <1>2, <2>1, NodeStays DEF right, left
<1>. HIDE DEF nodes, right, left
<1>9. /\ all \in Seq(NodeType) /\ DOMAIN all = 1..fork
      /\ all[leaf] = new /\ all[fork] = made
      /\ \A m \in DOMAIN t.node :
           all[m] = IF m = n THEN below ELSE IF m = up THEN upper ELSE t.node[m]
  <2>1. CASE up = NullNode
    BY <1>1, <1>7, <2>1 DEF NullNode
  <2>2. CASE up # NullNode
    <3>1. upper \in NodeType /\ up \in DOMAIN nodes /\ up \in 1..Len(t.node)
      BY <1>1, <1>2, <1>7, <1>8, <2>2
    <3>. HIDE DEF upper
    <3>2. all = [nodes EXCEPT ![up] = upper] /\ up \in DOMAIN nodes
      BY <2>2, <3>1
    <3>3. /\ all \in Seq(NodeType) /\ DOMAIN all = DOMAIN nodes
          /\ \A m \in DOMAIN nodes : all[m] = IF m = up THEN upper ELSE nodes[m]
      BY <1>7, <3>1, <3>2
    <3>4. leaf \in DOMAIN nodes /\ fork \in DOMAIN nodes /\ up # leaf /\ up # fork
      BY <1>1, <1>7, <3>1
    <3>5. \A m \in DOMAIN t.node : m \in DOMAIN nodes
      BY <1>1, <1>7
    <3>. QED  BY <1>2, <1>7, <2>2, <3>3, <3>4, <3>5
  <2>. QED  BY <2>1, <2>2
<1>10. F = [head |-> IF up = NullNode THEN fork ELSE t.head, node |-> all]
  <2>2. up # NullNode => nodes[up] = t.node[up]
    BY <1>2, <1>7
  <2>3. F = [head |-> IF up = NullNode THEN fork ELSE t.head,
             node |-> IF up = NullNode THEN nodes
                  ELSE IF t.node[up].right = n THEN [nodes EXCEPT ![up].right = fork]
                  ELSE [nodes EXCEPT ![up].left = fork]]
    BY ONLY Zenon DEF F, Fork, nodes, below, made, new, s, Short
  <2>4. up # NullNode => /\ [nodes EXCEPT ![up].right = fork] = [nodes EXCEPT ![up] = right]
                         /\ [nodes EXCEPT ![up].left = fork] = [nodes EXCEPT ![up] = left]
    BY <2>2 DEF right, left
  <2>. QED  BY <2>3, <2>4
<1>11. F.head = (IF up = NullNode THEN fork ELSE t.head) /\ F.node = all
  BY <1>10
<1>12. F \in [head : Nat, node : Seq(NodeType)]
  <2>1. fork \in Nat
    BY <1>1
  <2>. HIDE DEF all, F, fork
  <2>. QED  BY <1>1, <1>9, <1>10, <2>1
<1>. HIDE DEF F, all
<1>13. \A m \in DOMAIN t.node :
         F.node[m] = IF m = n THEN below
                     ELSE IF m = up
                     THEN IF t.node[up].right = n THEN [t.node[m] EXCEPT !.right = fork]
                          ELSE [t.node[m] EXCEPT !.left = fork]
                     ELSE t.node[m]
  BY <1>9, <1>11 DEF upper, right, left
<1>14. DOMAIN F.node = 1..fork /\ F.node[leaf] = new /\ F.node[fork] = made
  BY <1>9, <1>11
<1>15. Fork(t, n, bit, a, k) = F
  BY DEF F
<1>. QED  BY ONLY <1>11, <1>12, <1>13, <1>14, <1>15, Zenon DEF Made, below, new, made, s

Forked(t, n, bit, a, k, u) ==
    LET leaf == Len(t.node) + 1
        fork == Len(t.node) + 2
        up   == t.node[n].parent
    IN  /\ u \in [head : Nat, node : Seq(NodeType)] /\ DOMAIN u.node = 1..fork
        /\ u.head = IF up = NullNode THEN fork ELSE t.head
        /\ u.node[leaf].bit = IpBits /\ u.node[leaf].prefix = a /\ u.node[leaf].data = k
        /\ u.node[leaf].parent = fork
        /\ ~u.node[leaf].list /\ u.node[leaf].netmasks = << >>
        /\ u.node[fork].bit = bit /\ u.node[fork].parent = up
        /\ u.node[fork].left = IF a[bit + 1] = 1 THEN n ELSE leaf
        /\ u.node[fork].right = IF a[bit + 1] = 1 THEN leaf ELSE n
        /\ \A m \in DOMAIN t.node :
             /\ u.node[m].bit = t.node[m].bit /\ u.node[m].prefix = t.node[m].prefix
             /\ u.node[m].data = t.node[m].data
             /\ u.node[m].parent = IF m = n THEN fork ELSE t.node[m].parent
             /\ u.node[m].left = IF m = up /\ t.node[m].right # n THEN fork ELSE t.node[m].left
             /\ u.node[m].right = IF m = up /\ t.node[m].right = n THEN fork ELSE t.node[m].right

ForkedLists(t, n, bit, u) ==
    LET list  == t.node[n].netmasks
        below == u.node[n]
        above == u.node[Len(t.node) + 2]
    IN  /\ \A m \in DOMAIN t.node \ {n} :
             u.node[m].netmasks = t.node[m].netmasks /\ u.node[m].list = t.node[m].list
        /\ list = << >> =>
             below.netmasks = << >> /\ ~below.list /\ above.netmasks = << >>
        /\ \A j \in Nat : list = <<j>> =>
             IF j <= bit
             THEN below.netmasks = << >> /\ ~below.list
                  /\ above.netmasks = <<j>> /\ above.list = t.node[n].list
             ELSE below.netmasks = <<j>> /\ below.list = t.node[n].list /\ above.netmasks = << >>

LEMMA NodeFields ==
    ASSUME NEW x \in NodeType
    PROVE  /\ x = [bit |-> x.bit, prefix |-> x.prefix, data |-> x.data, list |-> x.list,
                   netmasks |-> x.netmasks, left |-> x.left, right |-> x.right, parent |-> x.parent]
           /\ x.list \in BOOLEAN
BY DEF NodeType

LEMMA ForkIsForked ==
    ASSUME NEW t, NEW rep, Shape(t, rep), NEW n \in DOMAIN t.node, NEW bit \in 0..IpBits - 1,
           NEW a, NEW k, NEW u, Made(t, n, bit, a, k, u)
    PROVE  Forked(t, n, bit, a, k, u) /\ ForkedLists(t, n, bit, u)
<1>. DEFINE leaf == Len(t.node) + 1
     fork == Len(t.node) + 2
     up   == t.node[n].parent
     list == t.node[n].netmasks
     s    == Short(list, bit)
<1>1. \A m \in DOMAIN t.node : t.node[m] \in NodeType
  BY NodeFacts
<1>2. up # n /\ n \in DOMAIN t.node
  <2>1. up # NullNode => up # n
    BY BitsGrow
  <2>. QED  BY <2>1, NodeFacts
<1>3. /\ u \in [head : Nat, node : Seq(NodeType)] /\ DOMAIN u.node = 1..fork
      /\ u.head = IF up = NullNode THEN fork ELSE t.head
  BY DEF Made
<1>4. /\ u.node[leaf].bit = IpBits /\ u.node[leaf].prefix = a /\ u.node[leaf].data = k
      /\ u.node[leaf].parent = fork
      /\ u.node[leaf].list = FALSE /\ u.node[leaf].netmasks = << >>
  <2>1. u.node[leaf] = [Node(IpBits, a, k) EXCEPT !.parent = fork]
    BY DEF Made
  <2>2. u.node[leaf] = [bit |-> IpBits, prefix |-> a, data |-> k, list |-> FALSE,
                        netmasks |-> << >>, left |-> NullNode, right |-> NullNode, parent |-> fork]
    BY ONLY <2>1 DEF Node
  <2>. QED  BY ONLY <2>2
<1>5. /\ u.node[fork].bit = bit /\ u.node[fork].parent = up
      /\ u.node[fork].left = IF a[bit + 1] = 1 THEN n ELSE leaf
      /\ u.node[fork].right = IF a[bit + 1] = 1 THEN leaf ELSE n
      /\ u.node[fork].list = t.node[n].list
      /\ u.node[fork].netmasks = SubSeq(list, s, Len(list))
  <2>1. PICK l, v, w, c : /\ l = IF a[bit + 1] = 1 THEN n ELSE leaf
                          /\ v = IF a[bit + 1] = 1 THEN leaf ELSE n
                          /\ w = SubSeq(list, s, Len(list)) /\ c = up
    OBVIOUS
  <2>. DEFINE b == t.node[n].list
  <2>. HIDE DEF b
  <2>. HIDE DEF s
  <2>2. u.node[fork] = [Node(bit, << >>, 0) EXCEPT
                          !.list = b, !.netmasks = w, !.parent = c, !.left = l, !.right = v]
    <3>1. u.node[fork] = [Node(bit, << >>, 0) EXCEPT
                             !.list = t.node[n].list,
                             !.netmasks = SubSeq(list, s, Len(list)),
                             !.parent = up,
                             !.left  = IF a[bit + 1] = 1 THEN n ELSE leaf,
                             !.right = IF a[bit + 1] = 1 THEN leaf ELSE n]
      BY Zenon DEF Made, s
    <3>. QED  BY ONLY <2>1, <3>1, Zenon DEF b
  <2>3. u.node[fork] = [bit |-> bit, prefix |-> << >>, data |-> 0, list |-> b,
                        netmasks |-> w, left |-> l, right |-> v, parent |-> c]
    BY ONLY <2>2 DEF Node
  <2>4. /\ u.node[fork].bit = bit /\ u.node[fork].parent = c /\ u.node[fork].left = l
        /\ u.node[fork].right = v /\ u.node[fork].list = b /\ u.node[fork].netmasks = w
    BY ONLY <2>3
  <2>. QED  BY ONLY <2>1, <2>4, Zenon DEF b
<1>6. /\ u.node[n].bit = t.node[n].bit /\ u.node[n].prefix = t.node[n].prefix
      /\ u.node[n].data = t.node[n].data /\ u.node[n].parent = fork
      /\ u.node[n].left = t.node[n].left /\ u.node[n].right = t.node[n].right
      /\ u.node[n].netmasks = SubSeq(list, 1, s - 1) /\ u.node[n].list = (t.node[n].list /\ s > 1)
  <2>1. PICK x, w, b, f : x = t.node[n] /\ w = SubSeq(list, 1, s - 1) /\ b = (t.node[n].list /\ s > 1)
                       /\ f = fork
    OBVIOUS
  <2>2. u.node[n] = [x EXCEPT !.netmasks = w, !.list = b, !.parent = f]
    BY <2>1, <1>2, Zenon DEF Made
  <2>3. /\ u.node[n].bit = x.bit /\ u.node[n].prefix = x.prefix /\ u.node[n].data = x.data
        /\ u.node[n].left = x.left /\ u.node[n].right = x.right
        /\ u.node[n].netmasks = w /\ u.node[n].list = b /\ u.node[n].parent = f
    <3>1. x = [bit |-> x.bit, prefix |-> x.prefix, data |-> x.data, list |-> x.list,
               netmasks |-> x.netmasks, left |-> x.left, right |-> x.right, parent |-> x.parent]
      BY ONLY <1>1, <1>2, <2>1, NodeFields
    <3>. QED  BY ONLY <2>2, <3>1
  <2>. QED  BY ONLY <2>1, <2>3
<1>7. ASSUME NEW m \in DOMAIN t.node, m # n
      PROVE  /\ u.node[m].bit = t.node[m].bit /\ u.node[m].prefix = t.node[m].prefix
             /\ u.node[m].data = t.node[m].data /\ u.node[m].parent = t.node[m].parent
             /\ u.node[m].left = IF m = up /\ t.node[m].right # n THEN fork ELSE t.node[m].left
             /\ u.node[m].right = IF m = up /\ t.node[m].right = n THEN fork ELSE t.node[m].right
             /\ u.node[m].netmasks = t.node[m].netmasks /\ u.node[m].list = t.node[m].list
  <2>1. PICK x, f : x = t.node[m] /\ f = fork
    OBVIOUS
  <2>2. x = [bit |-> x.bit, prefix |-> x.prefix, data |-> x.data, list |-> x.list,
             netmasks |-> x.netmasks, left |-> x.left, right |-> x.right, parent |-> x.parent]
    BY ONLY <1>1, <1>7, <2>1, NodeFields
  <2>3. u.node[m] = IF m = up
                    THEN IF t.node[up].right = n THEN [x EXCEPT !.right = f] ELSE [x EXCEPT !.left = f]
                    ELSE x
    BY <1>7, <2>1, Zenon DEF Made
  <2>4. CASE m # up
    BY <2>1, <2>3, <2>4
  <2>5. CASE m = up /\ t.node[up].right = n
    <3>1. u.node[m] = [x EXCEPT !.right = f] /\ t.node[m].right = n
      BY ONLY <2>3, <2>5
    <3>2. /\ u.node[m].bit = x.bit /\ u.node[m].prefix = x.prefix /\ u.node[m].data = x.data
          /\ u.node[m].left = x.left /\ u.node[m].right = f /\ u.node[m].parent = x.parent
          /\ u.node[m].netmasks = x.netmasks /\ u.node[m].list = x.list
      BY ONLY <2>2, <3>1
    <3>. QED  BY ONLY <2>1, <2>5, <3>1, <3>2
  <2>6. CASE m = up /\ t.node[up].right # n
    <3>1. u.node[m] = [x EXCEPT !.left = f] /\ t.node[m].right # n
      BY ONLY <2>3, <2>6
    <3>2. /\ u.node[m].bit = x.bit /\ u.node[m].prefix = x.prefix /\ u.node[m].data = x.data
          /\ u.node[m].left = f /\ u.node[m].right = x.right /\ u.node[m].parent = x.parent
          /\ u.node[m].netmasks = x.netmasks /\ u.node[m].list = x.list
      BY ONLY <2>2, <3>1
    <3>. QED  BY ONLY <2>1, <2>6, <3>1, <3>2
  <2>. QED  BY <2>4, <2>5, <2>6
<1>8. Forked(t, n, bit, a, k, u)
  <2>1. \A m \in DOMAIN t.node :
             /\ u.node[m].bit = t.node[m].bit /\ u.node[m].prefix = t.node[m].prefix
             /\ u.node[m].data = t.node[m].data
             /\ u.node[m].parent = IF m = n THEN fork ELSE t.node[m].parent
             /\ u.node[m].left = IF m = up /\ t.node[m].right # n THEN fork ELSE t.node[m].left
             /\ u.node[m].right = IF m = up /\ t.node[m].right = n THEN fork ELSE t.node[m].right
    BY ONLY <1>2, <1>6, <1>7
  <2>. QED  BY ONLY <1>3, <1>4, <1>5, <2>1 DEF Forked
<1>9. ForkedLists(t, n, bit, u)
  <2>1. \A m \in DOMAIN t.node \ {n} :
             u.node[m].netmasks = t.node[m].netmasks /\ u.node[m].list = t.node[m].list
    BY ONLY <1>7
  <2>2. bit \in Nat /\ t.node[n].list \in BOOLEAN
    BY <1>1, IpTreeAssumption, NodeFields
  <2>3. ASSUME list = << >>
        PROVE  u.node[n].netmasks = << >> /\ ~u.node[n].list /\ u.node[fork].netmasks = << >>
    <3>0. s = Short(list, bit)
      OBVIOUS
    <3>. HIDE DEF s, list
    <3>1. s = 1 /\ Parts(list, s, << >>, << >>)
      BY ONLY <2>2, <2>3, <3>0, PartsAre
    <3>2. ~(s > 1)
      BY ONLY <3>1
    <3>. QED  BY ONLY <1>5, <1>6, <3>1, <3>2 DEF Parts
  <2>4. ASSUME NEW j \in Nat, list = <<j>>, j <= bit
        PROVE  /\ u.node[n].netmasks = << >> /\ ~u.node[n].list
               /\ u.node[fork].netmasks = <<j>> /\ u.node[fork].list = t.node[n].list
    <3>0. s = Short(list, bit)
      OBVIOUS
    <3>. HIDE DEF s, list
    <3>1. s = 1 /\ Parts(list, s, << >>, <<j>>)
      BY ONLY <2>2, <2>4, <3>0, PartsAre
    <3>2. ~(s > 1)
      BY ONLY <3>1
    <3>. QED  BY ONLY <1>5, <1>6, <3>1, <3>2 DEF Parts
  <2>5. ASSUME NEW j \in Nat, list = <<j>>, ~(j <= bit)
        PROVE  /\ u.node[n].netmasks = <<j>> /\ u.node[n].list = t.node[n].list
               /\ u.node[fork].netmasks = << >>
    <3>0. s = Short(list, bit)
      OBVIOUS
    <3>. HIDE DEF s, list
    <3>1. s = 2 /\ Parts(list, s, <<j>>, << >>)
      BY ONLY <2>2, <2>5, <3>0, PartsAre
    <3>2. s > 1
      BY ONLY <3>1
    <3>. QED  BY ONLY <1>5, <1>6, <2>2, <3>1, <3>2 DEF Parts
  <2>. QED  BY ONLY <2>1, <2>3, <2>4, <2>5 DEF ForkedLists
<1>. QED  BY <1>8, <1>9

(* The new leaf stands for itself, the fork for what was there.            *)
NewRep(t, rep, n, a) ==
    [m \in 1..Len(t.node) + 2 |->
        IF m = Len(t.node) + 1 THEN a ELSE IF m = Len(t.node) + 2 THEN rep[n] ELSE rep[m]]

(* Where an address leaves the others: above n, on the bit after "bit".    *)
LeavesAbove(t, rep, n, bit, a) ==
    LET p == t.node[n].parent
    IN  /\ n \in DOMAIN t.node /\ bit \in 0..IpBits - 1 /\ bit < t.node[n].bit
        /\ p = NullNode \/ t.node[p].bit < bit
        /\ a \in Address /\ Agree(rep[n], a, bit) /\ a[bit + 1] # rep[n][bit + 1]

LEMMA ForkShape ==
    ASSUME NEW t, NEW rep, Shape(t, rep), NEW n, NEW bit, NEW a, NEW k, NEW u,
           LeavesAbove(t, rep, n, bit, a), Forked(t, n, bit, a, k, u),
           NEW r, r = NewRep(t, rep, n, a)
    PROVE  /\ Shape(u, r) /\ IsLeaf(u, Len(t.node) + 1) /\ ~IsLeaf(u, Len(t.node) + 2)
           /\ r[Len(t.node) + 1] = a /\ r[Len(t.node) + 2] = rep[n]
           /\ \A m \in DOMAIN t.node : r[m] = rep[m] /\ (IsLeaf(u, m) <=> IsLeaf(t, m))
<1>. DEFINE leaf == Len(t.node) + 1
     fork == Len(t.node) + 2
     up   == t.node[n].parent
<1>1. /\ n \in DOMAIN t.node /\ bit \in Nat /\ bit + 1 \in 1..IpBits /\ bit < t.node[n].bit
      /\ up = NullNode \/ t.node[up].bit < bit
      /\ a \in Address /\ Agree(rep[n], a, bit) /\ a[bit + 1] # rep[n][bit + 1]
      /\ IpBits \in Nat /\ bit < IpBits
  BY IpTreeAssumption DEF LeavesAbove
<1>2. /\ Len(t.node) \in Nat /\ DOMAIN t.node = 1..Len(t.node) /\ NullNode \notin DOMAIN t.node
      /\ leaf \notin DOMAIN t.node /\ fork \notin DOMAIN t.node /\ leaf # fork /\ fork # NullNode
      /\ t.head \in DOMAIN t.node
  <2>1. Len(t.node) \in Nat /\ DOMAIN t.node = 1..Len(t.node) /\ NullNode \notin DOMAIN t.node
    BY NodeFacts
  <2>2. t.head \in DOMAIN t.node
    BY DEF Shape
  <2>. QED  BY <2>1, <2>2 DEF NullNode
<1>3. DOMAIN u.node = DOMAIN t.node \cup {leaf, fork}
  <2>1. DOMAIN u.node = 1..fork
    BY DEF Forked
  <2>. QED  BY <1>2, <2>1
<1>. HIDE DEF leaf, fork
<1>4. /\ r \in [DOMAIN u.node -> Address] /\ r[leaf] = a /\ r[fork] = rep[n]
      /\ \A m \in DOMAIN t.node : r[m] = rep[m] /\ rep[m] \in Address
  <2>1. \A m \in DOMAIN t.node : rep[m] \in Address
    BY NodeFacts
  <2>2. r = [m \in DOMAIN u.node |-> IF m = leaf THEN a ELSE IF m = fork THEN rep[n] ELSE rep[m]]
    <3>1. DOMAIN u.node = 1..fork
      BY DEF Forked, fork
    <3>. QED  BY <3>1, Zenon DEF NewRep, leaf, fork
  <2>. QED  BY ONLY <1>1, <1>2, <1>3, <2>1, <2>2
<1>5. /\ u \in [head : Nat, node : Seq(NodeType)]
      /\ u.head = IF up = NullNode THEN fork ELSE t.head
      /\ u.node[leaf].bit = IpBits /\ u.node[leaf].prefix = a /\ u.node[leaf].parent = fork
      /\ u.node[fork].bit = bit /\ u.node[fork].parent = up
      /\ u.node[fork].left = IF a[bit + 1] = 1 THEN n ELSE leaf
      /\ u.node[fork].right = IF a[bit + 1] = 1 THEN leaf ELSE n
  BY Zenon DEF Forked, leaf, fork
<1>6. \A m \in DOMAIN t.node :
        /\ u.node[m].bit = t.node[m].bit /\ u.node[m].prefix = t.node[m].prefix
        /\ u.node[m].parent = IF m = n THEN fork ELSE t.node[m].parent
        /\ u.node[m].left = IF m = up /\ t.node[m].right # n THEN fork ELSE t.node[m].left
        /\ u.node[m].right = IF m = up /\ t.node[m].right = n THEN fork ELSE t.node[m].right
  BY Zenon DEF Forked, fork
<1>7. IsLeaf(u, leaf) /\ ~IsLeaf(u, fork) /\ \A m \in DOMAIN t.node : IsLeaf(u, m) <=> IsLeaf(t, m)
  BY <1>1, <1>5, <1>6 DEF IsLeaf
<1>8. /\ n = t.head <=> up = NullNode
      /\ up # NullNode => up \in DOMAIN t.node /\ ~IsLeaf(t, up) /\ up # n
  <2>1. n = t.head <=> up = NullNode
    BY <1>1, ParentIs
  <2>2. up # NullNode => up \in DOMAIN t.node /\ ~IsLeaf(t, up)
    BY <1>1, ParentIs
  <2>3. up # NullNode => up # n
    BY <1>1, BitsGrow
  <2>. QED  BY <2>1, <2>2, <2>3
<1>9. rep[n][bit + 1] \in {0, 1} /\ a[bit + 1] \in {0, 1}
  BY <1>1, <1>4 DEF Address
(* The children of a node that stays.                                      *)
<1>10. ASSUME NEW m \in DOMAIN t.node, ~IsLeaf(t, m)
       PROVE  Hangs(t, rep, m, t.node[m].left, 0) /\ Hangs(t, rep, m, t.node[m].right, 1)
  BY <1>10 DEF Shape
<1>11. ASSUME NEW m \in DOMAIN t.node, NEW c, NEW v, Hangs(t, rep, m, c, v), c # n
       PROVE  Hangs(u, r, m, c, v)
  <2>1. /\ c \in DOMAIN t.node /\ t.node[c].parent = m /\ t.node[m].bit < t.node[c].bit
        /\ Agree(rep[c], rep[m], t.node[m].bit) /\ rep[c][t.node[m].bit + 1] = v
    BY <1>11 DEF Hangs
  <2>2. c \in DOMAIN u.node /\ u.node[c].parent = m /\ u.node[m].bit < u.node[c].bit
    BY <1>3, <1>6, <1>11, <2>1
  <2>3. r[c] = rep[c] /\ r[m] = rep[m] /\ u.node[m].bit = t.node[m].bit
    BY <1>4, <1>6, <2>1
  <2>. QED  BY ONLY <2>1, <2>2, <2>3 DEF Hangs
<1>12. ASSUME NEW m \in DOMAIN t.node, NEW v, Hangs(t, rep, m, n, v)
       PROVE  m = up /\ up # NullNode /\ Hangs(u, r, m, fork, v)
  <2>1. /\ t.node[n].parent = m /\ Agree(rep[n], rep[m], t.node[m].bit)
        /\ rep[n][t.node[m].bit + 1] = v
    BY <1>12 DEF Hangs
  <2>2. m = up /\ up # NullNode
    BY <1>2, <2>1
  <2>3. fork \in DOMAIN u.node /\ u.node[fork].parent = m /\ u.node[m].bit < u.node[fork].bit
    BY <1>1, <1>3, <1>5, <1>6, <2>2
  <2>4. r[fork] = rep[n] /\ r[m] = rep[m] /\ u.node[m].bit = t.node[m].bit
    BY <1>4, <1>6
  <2>. QED  BY ONLY <2>1, <2>2, <2>3, <2>4 DEF Hangs
<1>13. ASSUME NEW m \in DOMAIN t.node
       PROVE  /\ IsLeaf(u, m) => u.node[m].prefix = r[m]
              /\ ~IsLeaf(u, m) => /\ Hangs(u, r, m, u.node[m].left, 0)
                                  /\ Hangs(u, r, m, u.node[m].right, 1)
  <2>1. IsLeaf(u, m) => u.node[m].prefix = r[m]
    BY <1>4, <1>6, <1>7 DEF Shape
  <2>2. SUFFICES ASSUME ~IsLeaf(u, m)
                 PROVE  Hangs(u, r, m, u.node[m].left, 0) /\ Hangs(u, r, m, u.node[m].right, 1)
    BY <2>1
  <2>3. PICK l, g : l = t.node[m].left /\ g = t.node[m].right
    OBVIOUS
  <2>4. Hangs(t, rep, m, l, 0) /\ Hangs(t, rep, m, g, 1) /\ l # g
    <3>1. Hangs(t, rep, m, l, 0) /\ Hangs(t, rep, m, g, 1)
      BY <1>7, <1>10, <2>2, <2>3
    <3>. QED  BY ONLY <3>1 DEF Hangs
  <2>5. CASE g = n
    <3>1. m = up /\ Hangs(u, r, m, fork, 1) /\ Hangs(u, r, m, l, 0)
      BY <1>11, <1>12, <2>4, <2>5
    <3>2. u.node[m].right = fork /\ u.node[m].left = l
      BY <1>6, <2>3, <2>5, <3>1
    <3>. QED  BY ONLY <3>1, <3>2
  <2>6. CASE l = n
    <3>1. m = up /\ Hangs(u, r, m, fork, 0) /\ Hangs(u, r, m, g, 1)
      BY <1>11, <1>12, <2>4, <2>6
    <3>2. u.node[m].left = fork /\ u.node[m].right = g
      BY <1>6, <2>3, <2>4, <2>6, <3>1
    <3>. QED  BY ONLY <3>1, <3>2
  <2>7. CASE l # n /\ g # n
    <3>1. Hangs(u, r, m, l, 0) /\ Hangs(u, r, m, g, 1)
      BY <1>11, <2>4, <2>7
    <3>2. m # up
      <4>1. SUFFICES ASSUME m = up PROVE n \in {l, g}
        BY <2>7
      <4>2. n # t.head
        BY <1>2, <1>8, <4>1
      <4>. QED  BY <1>1, <2>3, <4>1, <4>2 DEF Shape, HasParent
    <3>3. u.node[m].left = l /\ u.node[m].right = g
      BY <1>6, <2>3, <3>2
    <3>. QED  BY ONLY <3>1, <3>3
  <2>. QED  BY <2>5, <2>6, <2>7
(* The fork and the new leaf.                                              *)
<1>14. Hangs(u, r, fork, u.node[fork].left, 0) /\ Hangs(u, r, fork, u.node[fork].right, 1)
  <2>1. Hangs(u, r, fork, leaf, a[bit + 1])
    <3>1. /\ leaf \in DOMAIN u.node /\ u.node[leaf].parent = fork
          /\ u.node[fork].bit < u.node[leaf].bit
      BY <1>1, <1>3, <1>5
    <3>2. Agree(a, rep[n], bit)
      BY <1>1, AgreeFacts
    <3>. QED  BY ONLY <1>4, <1>5, <3>1, <3>2 DEF Hangs
  <2>2. Hangs(u, r, fork, n, rep[n][bit + 1])
    <3>1. n \in DOMAIN u.node /\ u.node[n].parent = fork /\ u.node[fork].bit < u.node[n].bit
      BY <1>1, <1>3, <1>5, <1>6
    <3>2. Agree(rep[n], rep[n], bit) /\ r[n] = rep[n]
      BY <1>1, <1>4 DEF Agree
    <3>. QED  BY ONLY <1>4, <1>5, <3>1, <3>2 DEF Hangs
  <2>3. CASE a[bit + 1] = 1
    <3>1. rep[n][bit + 1] = 0 /\ u.node[fork].left = n /\ u.node[fork].right = leaf
      BY <1>1, <1>5, <1>9, <2>3
    <3>. QED  BY ONLY <2>1, <2>2, <2>3, <3>1
  <2>4. CASE a[bit + 1] = 0
    <3>1. rep[n][bit + 1] = 1 /\ u.node[fork].left = leaf /\ u.node[fork].right = n
      BY <1>1, <1>5, <1>9, <2>4
    <3>. QED  BY ONLY <2>1, <2>2, <2>4, <3>1
  <2>. QED  BY <1>9, <2>3, <2>4
<1>15. leaf \in {u.node[fork].left, u.node[fork].right} /\ n \in {u.node[fork].left, u.node[fork].right}
  BY ONLY <1>5
<1>16. HasParent(u, leaf)
  BY <1>2, <1>3, <1>5, <1>7, <1>15 DEF HasParent
<1>17. HasParent(u, fork)
  <2>1. CASE up = NullNode
    BY <1>5, <2>1 DEF HasParent
  <2>2. CASE up # NullNode
    <3>1. u.head # fork /\ u.node[fork].parent = up /\ up \in DOMAIN u.node /\ ~IsLeaf(u, up)
      BY <1>2, <1>3, <1>5, <1>7, <1>8, <2>2
    <3>2. fork \in {u.node[up].left, u.node[up].right}
      BY <1>6, <1>8, <2>2
    <3>. QED  BY ONLY <3>1, <3>2 DEF HasParent
  <2>. QED  BY <2>1, <2>2
<1>18. ASSUME NEW m \in DOMAIN t.node PROVE HasParent(u, m)
  <2>1. CASE m = n
    <3>1. m # u.head
      BY <1>2, <1>5, <1>8, <2>1
    <3>2. u.node[m].parent = fork /\ fork \in DOMAIN u.node
      BY <1>3, <1>6, <2>1
    <3>. QED  BY ONLY <1>7, <1>15, <2>1, <3>1, <3>2 DEF HasParent
  <2>2. CASE m # n
    <3>1. PICK p : p = t.node[m].parent
      OBVIOUS
    <3>2. u.node[m].parent = p
      BY <1>6, <2>2, <3>1
    <3>3. CASE m = t.head
      <4>1. p = NullNode /\ up # NullNode
        BY <1>8, <2>2, <3>1, <3>3 DEF Shape, HasParent
      <4>2. u.head = m
        BY <1>5, <3>3, <4>1
      <4>. QED  BY ONLY <3>2, <4>1, <4>2 DEF HasParent
    <3>4. CASE m # t.head
      <4>1. p \in DOMAIN t.node /\ ~IsLeaf(t, p) /\ m \in {t.node[p].left, t.node[p].right}
        BY <3>1, <3>4 DEF Shape, HasParent
      <4>2. m # u.head
        BY <1>2, <1>5, <3>4
      <4>3. m \in {u.node[p].left, u.node[p].right}
        <5>1. CASE p # up
          BY <1>6, <4>1, <5>1
        <5>2. CASE p = up
          <6>1. n \in {t.node[p].left, t.node[p].right}
            BY <1>1, <1>2, <1>8, <4>1, <5>2 DEF Shape, HasParent
          <6>. QED  BY <1>6, <2>2, <4>1, <5>2, <6>1
        <5>. QED  BY <5>1, <5>2
      <4>4. p \in DOMAIN u.node /\ ~IsLeaf(u, p)
        BY <1>3, <1>7, <4>1
      <4>. QED  BY ONLY <3>2, <4>2, <4>3, <4>4 DEF HasParent
    <3>. QED  BY <3>3, <3>4
  <2>. QED  BY <2>1, <2>2
<1>19. u.head \in DOMAIN u.node
  BY <1>2, <1>3, <1>5
<1>20. IsLeaf(u, leaf) => u.node[leaf].prefix = r[leaf]
  BY <1>4, <1>5
<1>21. Shape(u, r)
  <2>1. \A m \in DOMAIN u.node :
        /\ HasParent(u, m)
        /\ IsLeaf(u, m) => u.node[m].prefix = r[m]
        /\ ~IsLeaf(u, m) => /\ Hangs(u, r, m, u.node[m].left, 0)
                            /\ Hangs(u, r, m, u.node[m].right, 1)
    BY ONLY <1>3, <1>7, <1>13, <1>14, <1>16, <1>17, <1>18, <1>20
  <2>. QED  BY ONLY <1>4, <1>5, <1>19, <2>1 DEF Shape
<1>. QED  BY ONLY <1>4, <1>7, <1>21 DEF leaf, fork

(* The fork takes the netmasks that fit it: only that of the new leaf is   *)
(* not in a list.                                                          *)
LEMMA ForkLists ==
    ASSUME NEW t, NEW rep, Shape(t, rep), Lists(t, rep), Leaves(t, rep),
           NEW n, NEW bit, NEW a, NEW k \in 1..IpBits, NEW u,
           a = ConvertIPNetmask(a, k), \A o \in DOMAIN t.node : IsLeaf(t, o) => rep[o] # a,
           LeavesAbove(t, rep, n, bit, a), Forked(t, n, bit, a, k, u), ForkedLists(t, n, bit, u),
           NEW r, r = NewRep(t, rep, n, a)
    PROVE  WithoutLeaf(u, r, Len(t.node) + 1)
<1>. DEFINE leaf == Len(t.node) + 1
     fork == Len(t.node) + 2
     up   == t.node[n].parent
     list == t.node[n].netmasks
<1>1. /\ Shape(u, r) /\ IsLeaf(u, leaf) /\ ~IsLeaf(u, fork) /\ r[leaf] = a /\ r[fork] = rep[n]
      /\ \A m \in DOMAIN t.node : r[m] = rep[m] /\ (IsLeaf(u, m) <=> IsLeaf(t, m))
  BY ForkShape
<1>2. /\ n \in DOMAIN t.node /\ bit \in Nat /\ bit < t.node[n].bit /\ t.node[n].bit \in Nat
      /\ up = NullNode \/ (t.node[up].bit < bit /\ t.node[up].bit \in Nat /\ up \in DOMAIN t.node)
      /\ IpBits \in Nat
  <2>1. n \in DOMAIN t.node /\ bit < t.node[n].bit /\ (up = NullNode \/ t.node[up].bit < bit)
    BY DEF LeavesAbove
  <2>2. bit \in Nat
    BY IpTreeAssumption DEF LeavesAbove
  <2>3. t.node[n].bit \in Nat
    BY <2>1, NodeFacts
  <2>4. up # NullNode => up \in DOMAIN t.node /\ t.node[up].bit \in Nat
    BY <2>1, BitsGrow
  <2>5. IpBits \in Nat
    BY IpTreeAssumption
  <2>. QED  BY ONLY <2>1, <2>2, <2>3, <2>4, <2>5
<1>3. /\ DOMAIN t.node = 1..Len(t.node) /\ Len(t.node) \in Nat
      /\ DOMAIN u.node = DOMAIN t.node \cup {leaf, fork}
      /\ leaf \notin DOMAIN t.node /\ fork \notin DOMAIN t.node /\ leaf # fork /\ fork # NullNode
  <2>1. DOMAIN t.node = 1..Len(t.node) /\ Len(t.node) \in Nat
    BY NodeFacts
  <2>2. DOMAIN u.node = 1..fork
    BY DEF Forked
  <2>. QED  BY <2>1, <2>2 DEF NullNode
<1>4. /\ u.node[leaf].data = k /\ ~u.node[leaf].list /\ u.node[leaf].netmasks = << >>
      /\ u.node[fork].bit = bit /\ u.node[fork].parent = up
  BY Zenon DEF Forked
<1>. HIDE DEF leaf, fork
<1>5. \A m \in DOMAIN t.node :
        /\ u.node[m].bit = t.node[m].bit /\ u.node[m].data = t.node[m].data
        /\ u.node[m].parent = IF m = n THEN fork ELSE t.node[m].parent
  BY Zenon DEF Forked, fork
<1>6. \A m \in DOMAIN t.node \ {n} :
        u.node[m].netmasks = t.node[m].netmasks /\ u.node[m].list = t.node[m].list
  BY Zenon DEF ForkedLists
<1>7. list = << >> =>
        u.node[n].netmasks = << >> /\ ~u.node[n].list /\ u.node[fork].netmasks = << >>
  BY Zenon DEF ForkedLists, fork
<1>8. \A j \in Nat : list = <<j>> /\ j <= bit =>
        /\ u.node[n].netmasks = << >> /\ ~u.node[n].list
        /\ u.node[fork].netmasks = <<j>> /\ u.node[fork].list = t.node[n].list
  BY Zenon DEF ForkedLists, fork
<1>9. \A j \in Nat : list = <<j>> /\ ~(j <= bit) =>
        /\ u.node[n].netmasks = <<j>> /\ u.node[n].list = t.node[n].list
        /\ u.node[fork].netmasks = << >>
  BY Zenon DEF ForkedLists, fork
(* What is below a node, and what fits it.                                 *)
<1>10. ASSUME NEW o \in DOMAIN t.node, NEW m \in DOMAIN t.node, NEW j, Under(t, rep, o, m, j)
       PROVE  Under(u, r, o, m, j)
  BY <1>1, <1>5, <1>10 DEF Under
<1>11. ASSUME NEW o \in DOMAIN t.node, NEW j, Under(t, rep, o, n, j)
       PROVE  Under(u, r, o, fork, j)
  <2>1. Agree(rep[o], rep[n], bit)
    <3>1. Agree(rep[o], rep[n], t.node[n].bit)
      BY <1>11 DEF Under
    <3>. QED  BY ONLY <1>2, <3>1, AgreeFacts
  <2>2. IsLeaf(u, o) /\ u.node[o].data = j
    BY <1>1, <1>5, <1>11 DEF Under
  <2>3. r[o] = rep[o] /\ r[fork] = rep[n] /\ u.node[fork].bit = bit
    BY <1>1, <1>4
  <2>. QED  BY ONLY <2>1, <2>2, <2>3 DEF Under
<1>12. ASSUME NEW m \in DOMAIN t.node, m # n, NEW j, Fits(t, m, j)
       PROVE  Fits(u, m, j)
  <2>1. PICK p : p = t.node[m].parent /\ p = u.node[m].parent
    BY <1>5, <1>12
  <2>2. p # NullNode => u.node[p].bit = t.node[p].bit
    <3>1. p # NullNode => p \in DOMAIN t.node
      BY <2>1, ParentIs
    <3>. QED  BY <1>5, <3>1
  <2>. QED  BY <1>5, <1>12, <2>1, <2>2 DEF Fits
<1>13. ASSUME NEW j \in Nat, Fits(t, n, j), j <= bit
       PROVE  Fits(u, fork, j)
  <2>1. up = NullNode \/ t.node[up].bit < j
    BY <1>13 DEF Fits
  <2>2. up # NullNode => u.node[up].bit = t.node[up].bit
    BY <1>2, <1>5
  <2>. QED  BY <1>4, <1>13, <2>1, <2>2 DEF Fits
<1>14. ASSUME NEW j \in Nat, Fits(t, n, j), ~(j <= bit)
       PROVE  Fits(u, n, j)
  <2>1. j <= t.node[n].bit
    BY <1>14 DEF Fits
  <2>2. u.node[n].parent = fork /\ u.node[n].bit = t.node[n].bit
    BY <1>2, <1>5
  <2>. QED  BY <1>2, <1>4, <1>14, <2>1, <2>2 DEF Fits
<1>15. ASSUME NEW m \in DOMAIN u.node, NEW j \in 1..IpBits - 1, u.node[m].netmasks = <<j>>,
              Fits(u, m, j), NEW o \in DOMAIN t.node, Under(u, r, o, m, j)
       PROVE  HoldsOther(u, r, m, leaf)
  <2>1. o \in DOMAIN u.node \ {leaf}
    BY <1>3
  <2>. QED  BY <1>15, <2>1 DEF HoldsOther
(* The lists.                                                              *)
<1>16. ASSUME NEW m \in DOMAIN t.node
       PROVE  /\ ~t.node[m].list => t.node[m].netmasks = << >>
              /\ IsLeaf(t, m) /\ t.node[m].list => t.node[m].netmasks # << >>
              /\ t.node[m].netmasks = << >>
                 \/ \E j \in 1..IpBits - 1 : \E o \in DOMAIN t.node :
                      t.node[m].netmasks = <<j>> /\ Fits(t, m, j) /\ Under(t, rep, o, m, j)
  BY DEF Lists, HoldsOne
<1>. DEFINE IsListOf(m) == /\ u.node[m].netmasks = << >> \/ HoldsOther(u, r, m, leaf)
                           /\ ~u.node[m].list => u.node[m].netmasks = << >>
                           /\ IsLeaf(u, m) /\ u.node[m].list => u.node[m].netmasks # << >>
<1>17. ASSUME NEW m \in DOMAIN t.node, m # n PROVE IsListOf(m)
  <2>1. u.node[m].netmasks = t.node[m].netmasks /\ u.node[m].list = t.node[m].list
        /\ (IsLeaf(u, m) <=> IsLeaf(t, m)) /\ m \in DOMAIN u.node
    BY <1>1, <1>3, <1>6, <1>17
  <2>2. ASSUME t.node[m].netmasks # << >> PROVE HoldsOther(u, r, m, leaf)
    <3>1. PICK j \in 1..IpBits - 1, o \in DOMAIN t.node :
             t.node[m].netmasks = <<j>> /\ Fits(t, m, j) /\ Under(t, rep, o, m, j)
      BY <1>16, <2>2
    <3>. QED  BY <1>10, <1>12, <1>15, <1>17, <2>1, <3>1
  <2>. QED  BY ONLY <1>16, <2>1, <2>2
<1>18. IsListOf(leaf)
  BY <1>4
<1>19. IsListOf(n) /\ IsListOf(fork)
  <2>1. CASE list = << >>
    BY <1>1, <1>7, <2>1
  <2>2. CASE list # << >>
    <3>1. PICK j \in 1..IpBits - 1, o \in DOMAIN t.node :
             list = <<j>> /\ Fits(t, n, j) /\ Under(t, rep, o, n, j)
      BY <1>2, <1>16, <2>2
    <3>2. t.node[n].list /\ j \in Nat /\ n \in DOMAIN u.node /\ fork \in DOMAIN u.node /\ <<j>> # << >>
      BY <1>2, <1>3, <1>16, <2>2
    <3>3. CASE j <= bit
      <4>1. /\ u.node[n].netmasks = << >> /\ ~u.node[n].list
            /\ u.node[fork].netmasks = <<j>> /\ u.node[fork].list
        BY <1>8, <3>1, <3>2, <3>3
      <4>2. HoldsOther(u, r, fork, leaf)
        BY <1>11, <1>13, <1>15, <3>1, <3>2, <3>3, <4>1
      <4>. QED  BY <1>1, <3>2, <4>1, <4>2
    <3>4. CASE ~(j <= bit)
      <4>1. u.node[n].netmasks = <<j>> /\ u.node[n].list /\ u.node[fork].netmasks = << >>
        BY <1>9, <3>1, <3>2, <3>4
      <4>2. HoldsOther(u, r, n, leaf)
        BY <1>2, <1>10, <1>14, <1>15, <3>1, <3>2, <3>4, <4>1
      <4>. QED  BY <1>1, <3>2, <4>1, <4>2
    <3>. QED  BY <3>3, <3>4
  <2>. QED  BY <2>1, <2>2
(* The leaves.                                                             *)
<1>20. ASSUME NEW o \in DOMAIN t.node, IsLeaf(t, o)
       PROVE  /\ u.node[o].data \in 1..IpBits /\ r[o] = ConvertIPNetmask(r[o], u.node[o].data)
              /\ IsListed(u, r, o) /\ r[o] # a
  <2>1. /\ t.node[o].data \in 1..IpBits /\ rep[o] = ConvertIPNetmask(rep[o], t.node[o].data)
        /\ IsListed(t, rep, o) /\ rep[o] # a
    BY <1>20 DEF Leaves
  <2>2. u.node[o].data = t.node[o].data /\ r[o] = rep[o]
    BY <1>1, <1>5
  <2>3. SUFFICES ASSUME NEW j, j = t.node[o].data, j < IpBits
                 PROVE  \E m \in DOMAIN u.node : u.node[m].netmasks = <<j>> /\ Under(u, r, o, m, j)
    BY <2>1, <2>2 DEF IsListed
  <2>4. PICK m \in DOMAIN t.node : t.node[m].netmasks = <<j>> /\ Under(t, rep, o, m, j)
    BY <2>1, <2>3 DEF IsListed
  <2>5. m \in DOMAIN u.node /\ n \in DOMAIN u.node /\ fork \in DOMAIN u.node /\ j \in Nat
    BY <1>2, <1>3, <2>1, <2>3
  <2>6. CASE m # n
    BY <1>6, <1>10, <2>4, <2>5, <2>6
  <2>7. CASE m = n /\ j <= bit
    <3>1. list = <<j>> /\ Under(u, r, o, fork, j)
      BY <1>11, <2>4, <2>7
    <3>2. u.node[fork].netmasks = <<j>>
      BY <1>8, <2>5, <2>7, <3>1
    <3>. QED  BY <2>5, <3>1, <3>2
  <2>8. CASE m = n /\ ~(j <= bit)
    <3>1. list = <<j>> /\ Under(u, r, o, n, j)
      BY <1>10, <2>4, <2>8
    <3>2. u.node[n].netmasks = <<j>>
      BY <1>9, <2>5, <2>8, <3>1
    <3>. QED  BY <2>5, <3>1, <3>2
  <2>. QED  BY <2>6, <2>7, <2>8
<1>21. \A m \in DOMAIN u.node : IsListOf(m)
  BY ONLY <1>3, <1>17, <1>18, <1>19
<1>22. \A o \in DOMAIN u.node : IsLeaf(u, o) =>
         /\ u.node[o].data \in 1..IpBits /\ r[o] = ConvertIPNetmask(r[o], u.node[o].data)
         /\ o # leaf => IsListed(u, r, o) /\ r[o] # r[leaf]
  <2>1. u.node[leaf].data \in 1..IpBits /\ r[leaf] = ConvertIPNetmask(r[leaf], u.node[leaf].data)
    BY <1>1, <1>4
  <2>. QED  BY ONLY <1>1, <1>3, <1>20, <2>1
<1>23. leaf \in DOMAIN u.node
  BY <1>3
<1>. QED  BY ONLY <1>1, <1>21, <1>22, <1>23 DEF WithoutLeaf, leaf

(* The first bit on which an address leaves another.                       *)
Leaving(x, a, bit) ==
    bit \in 0..IpBits - 1 /\ Agree(x, a, bit) /\ a[bit + 1] # x[bit + 1]

LEMMA FirstDifference ==
    ASSUME NEW x, NEW a, NEW differ, differ = {i \in 1..IpBits : a[i] # x[i]}, differ # {},
           NEW bit, bit = (CHOOSE i \in differ : \A j \in differ : i <= j) - 1
    PROVE  Leaving(x, a, bit)
<1>1. IpBits \in Nat
  BY IpTreeAssumption
<1>2. differ \subseteq Nat /\ differ \subseteq 1..IpBits
  BY <1>1
<1>3. \E i \in differ : \A j \in differ : i <= j
  BY <1>2, LeastOf
<1>4. PICK d : d = CHOOSE i \in differ : \A j \in differ : i <= j
  OBVIOUS
<1>5. d \in differ /\ \A j \in differ : d <= j
  BY ONLY <1>3, <1>4
<1>6. bit = d - 1 /\ d \in 1..IpBits
  BY <1>2, <1>4, <1>5
<1>7. a[d] # x[d]
  BY <1>5
<1>8. \A i \in 1..bit : i \in 1..IpBits /\ ~(d <= i)
  BY ONLY <1>1, <1>6
<1>9. \A i \in 1..bit : a[i] = x[i]
  BY <1>5, <1>8
<1>10. bit \in 0..IpBits - 1 /\ bit + 1 = d
  BY ONLY <1>1, <1>6
<1>. QED  BY ONLY <1>7, <1>9, <1>10 DEF Agree, Leaving

(* The fork is made at the only place where the address leaves the others. *)
LEMMA ForkPlace ==
    ASSUME NEW t, NEW rep, Shape(t, rep), NEW a \in Address,
           NEW bottom, bottom = CPTRetriveNode(t, a, t.head),
           NEW bit, Leaving(rep[bottom], a, bit),
           NEW n, n = Climb(t, bottom, bit)
    PROVE  LeavesAbove(t, rep, n, bit, a)
<1>1. /\ bottom \in DOMAIN t.node /\ IsLeaf(t, bottom) /\ bottom \in OnWay(t, a)
      /\ t.node[bottom].bit = IpBits
  <2>1. t.head \in DOMAIN t.node /\ t.head \in OnWay(t, a)
    BY WayIs DEF Shape
  <2>2. bottom \in DOMAIN t.node /\ IsLeaf(t, bottom) /\ bottom \in OnWay(t, a)
    BY <2>1, RetriveIs
  <2>. QED  BY <2>2 DEF Shape, IsLeaf
<1>2. /\ bit \in 0..IpBits - 1 /\ bit \in Nat /\ bit + 1 \in Nat /\ bit < IpBits /\ IpBits \in Nat
      /\ Agree(rep[bottom], a, bit) /\ a[bit + 1] # rep[bottom][bit + 1]
  BY IpTreeAssumption DEF Leaving
<1>3. /\ n \in DOMAIN t.node /\ Fits(t, n, bit) /\ Agree(rep[bottom], rep[n], t.node[n].bit)
      /\ n \in OnWay(t, a) /\ t.node[n].bit \in Nat
  <2>1. bit <= t.node[bottom].bit
    BY <1>1, <1>2
  <2>2. /\ n \in DOMAIN t.node /\ Fits(t, n, bit) /\ Agree(rep[bottom], rep[n], t.node[n].bit)
        /\ n \in OnWay(t, a)
    BY <1>1, <1>2, <2>1, ClimbIs
  <2>. QED  BY <2>2, NodeFacts
(* A fork on that bit would have led the address to another leaf.          *)
<1>4. bit < t.node[n].bit
  <2>1. SUFFICES ASSUME t.node[n].bit = bit PROVE FALSE
    BY <1>2, <1>3 DEF Fits
  <2>2. PICK c : c = Climb(t, bottom, bit + 1)
    OBVIOUS
  <2>3. /\ c \in DOMAIN t.node /\ Fits(t, c, bit + 1) /\ Agree(rep[bottom], rep[c], t.node[c].bit)
        /\ c \in OnWay(t, a) /\ t.node[c].bit \in Nat
    <3>1. bit + 1 <= t.node[bottom].bit
      BY <1>1, <1>2
    <3>2. /\ c \in DOMAIN t.node /\ Fits(t, c, bit + 1) /\ Agree(rep[bottom], rep[c], t.node[c].bit)
          /\ c \in OnWay(t, a)
      BY <1>1, <1>2, <2>2, <3>1, ClimbIs
    <3>. QED  BY <3>2, NodeFacts
  <2>4. PICK p : p = t.node[c].parent
    OBVIOUS
  <2>5. bit + 1 <= t.node[c].bit /\ (p = NullNode \/ t.node[p].bit < bit + 1)
    BY <2>3, <2>4 DEF Fits
  <2>6. p # NullNode /\ bit <= t.node[p].bit
    <3>1. n # c /\ t.node[n].bit <= t.node[c].bit
      BY <1>2, <2>1, <2>3, <2>5
    <3>. QED  BY <1>3, <2>1, <2>3, <2>4, <3>1, WayIs
  <2>7. p \in OnWay(t, a) /\ Child(t, p, a) = c
    BY <2>3, <2>4, <2>6, WayIs
  <2>8. p \in DOMAIN t.node /\ t.node[p].bit \in Nat
    BY <2>3, <2>4, <2>6, BitsGrow
  <2>9. p = n
    <3>1. t.node[p].bit = t.node[n].bit
      BY <1>2, <2>1, <2>5, <2>6, <2>8
    <3>. QED  BY <1>3, <2>7, <3>1, WayIs
  <2>10. rep[c][bit + 1] = a[bit + 1]
    <3>1. ~IsLeaf(t, n)
      BY <1>2, <2>1 DEF IsLeaf
    <3>. QED  BY <1>3, <2>1, <2>7, <2>9, <3>1, ChildIs
  <2>11. rep[bottom][bit + 1] = rep[c][bit + 1]
    BY <1>2, <2>3, <2>5 DEF Agree
  <2>. QED  BY <1>2, <2>10, <2>11
<1>5. Agree(rep[n], a, bit) /\ a[bit + 1] # rep[n][bit + 1]
  BY <1>2, <1>3, <1>4 DEF Agree
<1>. QED  BY <1>2, <1>3, <1>4, <1>5 DEF LeavesAbove, Fits

LEMMA MembersGrow ==
    ASSUME NEW t, NEW u, NEW S, NEW networks \in Seq(S), Members(t, networks),
           NEW l, NEW f, NEW c \in S, DOMAIN u.node = DOMAIN t.node \cup {l, f},
           IsLeaf(u, l), ~IsLeaf(u, f), NetworkOf(u, l) = c,
           \A m \in DOMAIN t.node : NetworkOf(u, m) = NetworkOf(t, m) /\ (IsLeaf(u, m) <=> IsLeaf(t, m))
    PROVE  Members(u, Append(networks, c))
<1>. DEFINE more == Append(networks, c)
     Ls == {m \in DOMAIN t.node : IsLeaf(t, m)}
     Lu == {m \in DOMAIN u.node : IsLeaf(u, m)}
<1>1. Lu = Ls \cup {l}
  OBVIOUS
<1>2. \A m \in Ls : NetworkOf(u, m) = NetworkOf(t, m)
  OBVIOUS
<1>3. {NetworkOf(t, m) : m \in Ls} = {networks[i] : i \in DOMAIN networks}
  BY DEF Members
<1>. HIDE DEF Ls, Lu
<1>4. {NetworkOf(u, m) : m \in Lu} = {NetworkOf(t, m) : m \in Ls} \cup {c}
  BY ONLY <1>1, <1>2, NetworkOf(u, l) = c
<1>5. {more[i] : i \in DOMAIN more} = {networks[i] : i \in DOMAIN networks} \cup {c}
  <2>1. /\ DOMAIN more = DOMAIN networks \cup {Len(networks) + 1}
        /\ \A i \in DOMAIN networks : more[i] = networks[i]
        /\ more[Len(networks) + 1] = c
    OBVIOUS
  <2>. HIDE DEF more
  <2>. QED  BY ONLY <2>1
<1>6. {NetworkOf(u, m) : m \in Lu} = {more[i] : i \in DOMAIN more}
  BY <1>3, <1>4, <1>5
<1>. QED  BY <1>6 DEF Members, Lu

(* A network that begins at a new address makes a tree of one more.        *)
LEMMA AddElementIs ==
    ASSUME NEW t, NEW rep, NEW networks \in Seq([address : Address, netmask : 1..IpBits]),
           IsTree(t, rep, networks),
           NEW address \in Address, NEW k \in 1..IpBits, NEW a, a = ConvertIPNetmask(address, k),
           \A i \in DOMAIN networks : networks[i].address # a,
           NEW u, u = CPTAddElement(t, address, k)
    PROVE  \E r : IsTree(u, r, Append(networks, [address |-> a, netmask |-> k]))
<1>. DEFINE bottom == CPTRetriveNode(t, a, t.head)
     differ == {i \in 1..IpBits : a[i] # t.node[bottom].prefix[i]}
     bit == (CHOOSE i \in differ : \A j \in differ : i <= j) - 1
     n == Climb(t, bottom, bit)
     F == Fork(t, n, bit, a, k)
     leaf == Len(t.node) + 1
     r == NewRep(t, rep, n, a)
<1>1. Shape(t, rep) /\ Lists(t, rep) /\ Leaves(t, rep) /\ Members(t, networks)
  BY DEF IsTree
<1>2. a \in Address /\ a = ConvertIPNetmask(a, k) /\ k \in 0..IpBits /\ IpBits \in Nat
  <2>1. k \in 0..IpBits /\ IpBits \in Nat
    BY IpTreeAssumption
  <2>2. a \in Address /\ Agree(a, address, k)
    BY <2>1, CutFacts
  <2>. QED  BY ONLY <2>1, <2>2, a = ConvertIPNetmask(address, k), CutFacts, address \in Address
<1>3. \A o \in DOMAIN t.node : IsLeaf(t, o) => rep[o] # a
  <2>1. SUFFICES ASSUME NEW o \in DOMAIN t.node, IsLeaf(t, o), rep[o] = a PROVE FALSE
    OBVIOUS
  <2>2. HasLeaf(t, a, t.node[o].data)
    BY <1>1, <2>1 DEF Shape, HasLeaf
  <2>3. PICK i \in DOMAIN networks : networks[i] = [address |-> a, netmask |-> t.node[o].data]
    BY <1>1, <2>2, NetworkIs DEF HasNetwork
  <2>. QED  BY <2>3
<1>4. bottom \in DOMAIN t.node /\ IsLeaf(t, bottom) /\ t.node[bottom].prefix = rep[bottom]
      /\ rep[bottom] \in Address /\ rep[bottom] # a /\ t.head # NullNode
  <2>1. t.head \in DOMAIN t.node
    BY <1>1 DEF Shape
  <2>2. bottom \in DOMAIN t.node /\ IsLeaf(t, bottom)
    BY <1>1, <1>2, <2>1, RetriveIs
  <2>3. t.node[bottom].prefix = rep[bottom]
    BY <1>1, <2>2 DEF Shape
  <2>4. rep[bottom] \in Address /\ t.head # NullNode
    BY <1>1, <2>1, <2>2, NodeFacts
  <2>. QED  BY <1>3, <2>2, <2>3, <2>4
<1>. HIDE DEF bottom
<1>5. differ # {}
  <2>1. SUFFICES ASSUME differ = {} PROVE rep[bottom] = a
    BY <1>4
  <2>2. Agree(rep[bottom], a, IpBits)
    BY <1>4, <2>1 DEF Agree
  <2>. QED  BY <1>2, <1>4, <2>2, CutFacts
<1>6. u = InsertNetmask(F, leaf, k)
  BY <1>4, <1>5 DEF CPTAddElement, Above, bottom
<1>7. Leaving(rep[bottom], a, bit)
  <2>1. differ = {i \in 1..IpBits : a[i] # rep[bottom][i]}
    BY <1>4
  <2>. HIDE DEF differ
  <2>. QED  BY <1>5, <2>1, FirstDifference
<1>. HIDE DEF differ, bit
<1>8. LeavesAbove(t, rep, n, bit, a)
  BY <1>1, <1>2, <1>7, ForkPlace DEF bottom
<1>. HIDE DEF n
<1>9. n \in DOMAIN t.node /\ bit \in 0..IpBits - 1
  BY <1>8 DEF LeavesAbove
<1>10. Made(t, n, bit, a, k, F)
  <2>1. t.node[n].netmasks = << >> \/ \E j \in 0..IpBits : t.node[n].netmasks = <<j>>
    <3>1. SUFFICES ASSUME t.node[n].netmasks # << >>
                   PROVE  \E j \in 0..IpBits : t.node[n].netmasks = <<j>>
      OBVIOUS
    <3>2. PICK j \in 1..IpBits - 1 : t.node[n].netmasks = <<j>>
      BY <1>1, <1>9, <3>1 DEF Lists, HoldsOne
    <3>3. j \in 0..IpBits
      BY <1>2
    <3>. QED  BY <3>2, <3>3
  <2>. QED  BY <1>1, <1>2, <1>9, <2>1, ForkIsMade
<1>. HIDE DEF F
<1>11. Forked(t, n, bit, a, k, F) /\ ForkedLists(t, n, bit, F)
  BY <1>1, <1>9, <1>10, ForkIsForked
<1>. HIDE DEF r
<1>12. WithoutLeaf(F, r, leaf)
  BY <1>1, <1>2, <1>3, <1>8, <1>11, ForkLists DEF r
<1>13. F.node[leaf].data = k /\ F.node[leaf].prefix = a
  BY <1>11, Zenon DEF Forked
<1>14. Shape(u, r) /\ Lists(u, r) /\ Leaves(u, r) /\ SameLeaves(F, u)
  BY <1>6, <1>12, <1>13, InsertIs
<1>15. Members(u, Append(networks, [address |-> a, netmask |-> k]))
  <2>1. /\ IsLeaf(F, leaf) /\ ~IsLeaf(F, Len(t.node) + 2)
        /\ \A m \in DOMAIN t.node : IsLeaf(F, m) <=> IsLeaf(t, m)
    BY <1>1, <1>8, <1>11, ForkShape
  <2>2. DOMAIN F.node = DOMAIN t.node \cup {leaf, Len(t.node) + 2}
    <3>1. DOMAIN F.node = 1..Len(t.node) + 2
      BY <1>11 DEF Forked
    <3>. QED  BY <1>1, <3>1, NodeFacts, SMTT(40)
  <2>3. \A m \in DOMAIN t.node : NetworkOf(F, m) = NetworkOf(t, m)
    <3>1. \A m \in DOMAIN t.node :
            F.node[m].prefix = t.node[m].prefix /\ F.node[m].data = t.node[m].data
      BY <1>11, Zenon DEF Forked
    <3>. QED  BY <3>1 DEF NetworkOf
  <2>4. NetworkOf(F, leaf) = [address |-> a, netmask |-> k]
    BY <1>13 DEF NetworkOf
  <2>5. /\ DOMAIN u.node = DOMAIN t.node \cup {leaf, Len(t.node) + 2}
        /\ IsLeaf(u, leaf) /\ ~IsLeaf(u, Len(t.node) + 2)
        /\ NetworkOf(u, leaf) = [address |-> a, netmask |-> k]
        /\ \A m \in DOMAIN t.node :
             NetworkOf(u, m) = NetworkOf(t, m) /\ (IsLeaf(u, m) <=> IsLeaf(t, m))
    BY <1>14, <2>1, <2>2, <2>3, <2>4 DEF SameLeaves
  <2>6. [address |-> a, netmask |-> k] \in [address : Address, netmask : 1..IpBits]
    BY <1>2
  <2>7. PICK c, S, f : /\ c = [address |-> a, netmask |-> k] /\ f = Len(t.node) + 2
                       /\ S = [address : Address, netmask : 1..IpBits]
    OBVIOUS
  <2>. HIDE DEF leaf
  <2>8. networks \in Seq(S) /\ c \in S
    BY <2>6, <2>7
  <2>9. /\ DOMAIN u.node = DOMAIN t.node \cup {leaf, f} /\ IsLeaf(u, leaf) /\ ~IsLeaf(u, f)
        /\ NetworkOf(u, leaf) = c
    BY ONLY <2>5, <2>7
  <2>10. Members(u, Append(networks, c))
    BY ONLY <1>1, <2>5, <2>8, <2>9, MembersGrow
  <2>. QED  BY <2>7, <2>10
<1>. QED  BY <1>14, <1>15 DEF IsTree

LEMMA TreeInvIsInductive ==
    /\ InitIpTree => TreeInv
    /\ TreeInv /\ [NextIpTree]_ipVars => TreeInv'
<1>. DEFINE S == [address : Address, netmask : 1..IpBits]
<1>1. InitIpTree => TreeInv
  BY DEF InitIpTree, TreeInv
<1>2. ASSUME TreeInv, NEW net \in Networks, TreeAddIP(net) PROVE TreeInv'
  <2>. DEFINE a == ConvertIPNetmask(net.address, net.netmask)
       k == net.netmask
       cut == [net EXCEPT !.address = ConvertIPNetmask(@, net.netmask)]
  <2>1. net.address \in Address /\ k \in 0..IpBits /\ net \in [address : Address, netmask : 0..IpBits]
        /\ a \in Address /\ a = ConvertIPNetmask(a, k) /\ IpBits \in Nat
    <3>1. net \in [address : Address, netmask : 0..IpBits] /\ IpBits \in Nat
      BY IpTreeAssumption
    <3>2. net.address \in Address /\ k \in 0..IpBits
      BY <3>1
    <3>3. a \in Address /\ Agree(a, net.address, k)
      BY <3>2, CutFacts
    <3>. QED  BY <3>1, <3>2, <3>3, CutFacts
  <2>2. cut = [address |-> a, netmask |-> k]
    BY <2>1
  <2>. HIDE DEF a, k, cut
  <2>3. CASE net.netmask = 0
    <3>1. UNCHANGED <<tree, added>>
      BY <1>2, <2>3 DEF TreeAddIP
    <3>. QED  BY <1>2, <3>1 DEF TreeInv, StartsOnce
  <2>4. CASE net.netmask # 0
    <3>1. tree' = CPTAddElement(tree, net.address, k) /\ added' = Append(added, cut)
      BY <1>2, <2>4 DEF TreeAddIP, k, cut
    <3>2. k \in 1..IpBits /\ cut \in S /\ added \in Seq(S)
      <4>1. k \in 1..IpBits
        BY <2>1, <2>4 DEF k
      <4>. QED  BY <1>2, <2>1, <2>2, <4>1 DEF TreeInv
    <3>3. added' \in Seq(S)
      BY ONLY <3>1, <3>2
    <3>4. ASSUME StartsOnce(added') PROVE \E rep : IsTree(tree', rep, added')
      <4>1. /\ Len(added) \in Nat /\ Len(added') = Len(added) + 1 /\ DOMAIN added = 1..Len(added)
            /\ \A i \in DOMAIN added : added'[i] = added[i]
            /\ added'[Len(added) + 1] = cut
        BY ONLY <3>1, <3>2
      <4>2. StartsOnce(added)
        BY <3>4, <4>1 DEF StartsOnce
      <4>3. \A i \in DOMAIN added : added[i].address # a
        <5>1. SUFFICES ASSUME NEW i \in DOMAIN added, added[i].address = a PROVE FALSE
          OBVIOUS
        <5>2. cut.address = a
          BY <2>2
        <5>3. i = Len(added) + 1
          BY <3>4, <4>1, <5>1, <5>2 DEF StartsOnce
        <5>. QED  BY <4>1, <5>3
      <4>4. CASE tree = CPTCreateRadixTree /\ added = << >>
        <5>1. tree' = CPTCreateHead(a, k)
          BY <3>1, <4>4 DEF CPTAddElement, CPTCreateRadixTree, a, k
        <5>2. PICK rep : Shape(tree', rep) /\ Lists(tree', rep) /\ Leaves(tree', rep)
          BY <2>1, <3>2, <5>1, CreateHeadIs
        <5>3. DOMAIN tree'.node = {1} /\ IsLeaf(tree', 1) /\ NetworkOf(tree', 1) = cut
          BY <2>1, <2>2, <3>2, <5>1, CreateHeadIs
        <5>4. {NetworkOf(tree', l) : l \in {m \in DOMAIN tree'.node : IsLeaf(tree', m)}} = {cut}
          BY ONLY <5>3
        <5>5. {added'[i] : i \in DOMAIN added'} = {cut}
          <6>1. added' = <<cut>>
            BY <3>1, <4>4
          <6>. QED  BY <6>1
        <5>6. Members(tree', added')
          BY ONLY <5>4, <5>5 DEF Members
        <5>. QED  BY <5>2, <5>6 DEF IsTree
      <4>5. CASE \E rep : IsTree(tree, rep, added)
        <5>1. PICK rep : IsTree(tree, rep, added)
          BY <4>5
        <5>2. a = ConvertIPNetmask(net.address, k) /\ net.address \in Address
          BY <2>1 DEF a, k
        <5>3. \E r : IsTree(tree', r, Append(added, [address |-> a, netmask |-> k]))
          BY ONLY <3>1, <3>2, <4>3, <5>1, <5>2, AddElementIs
        <5>. QED  BY <2>2, <3>1, <5>3
      <4>. QED  BY <1>2, <4>2, <4>4, <4>5 DEF TreeInv
    <3>. QED  BY <3>3, <3>4 DEF TreeInv
  <2>. QED  BY <2>3, <2>4
<1>3. ASSUME TreeInv, UNCHANGED ipVars PROVE TreeInv'
  BY <1>3 DEF TreeInv, ipVars, StartsOnce
<1>. QED  BY <1>1, <1>2, <1>3 DEF NextIpTree

(* An address matches exactly when it is in one of the networks added, for *)
(* any number of networks and addresses of any length, as long as no two   *)
(* of the networks begin at the same address (msc_tree.cc:                 *)
(* CPTAddElement, CPTFindElement).                                         *)
THEOREM AddressesAreLookedUp == SpecIpTree => []IpMatchIsExact
<1>1. TreeInv => IpMatchIsExact
  <2>1. SUFFICES ASSUME TreeInv, StartsOnce(added), NEW x \in Address
                 PROVE  CPTFindElement(tree, x) <=> \E i \in 1..Len(added) : Within(x, added[i])
    BY DEF IpMatchIsExact
  <2>2. CASE tree = CPTCreateRadixTree /\ added = << >>
    <3>1. ~CPTFindElement(tree, x)
      BY <2>2 DEF CPTFindElement, CPTCreateRadixTree
    <3>2. 1..Len(added) = {}
      BY <2>2
    <3>. QED  BY <3>1, <3>2
  <2>3. CASE \E rep : IsTree(tree, rep, added)
    <3>1. PICK rep : IsTree(tree, rep, added)
      BY <2>3
    <3>2. added \in Seq([address : Address, netmask : 1..IpBits])
      BY <2>1 DEF TreeInv
    <3>. QED  BY <3>1, <3>2, LookupIsExact
  <2>. QED  BY <2>1, <2>2, <2>3 DEF TreeInv
<1>. QED  BY <1>1, TreeInvIsInductive, PTL DEF SpecIpTree
=============================================================================
