---------------------------- MODULE MCTransaction ----------------------------
(***************************************************************************)
(* Rule sets for model checking Transaction: two rules and a marker in the *)
(* request headers phase, one rule in a later phase, taken from a pool     *)
(* that has every kind of rule and every action.                           *)
(***************************************************************************)
EXTENDS Transaction

CONSTANTS u1, m1, m2, t1   \* model values: a url, markers, a tag

A(n, x) == [name |-> n, arg |-> x]

Acts(before, block, after, disruptive) ==
    [before |-> before, block |-> block, after |-> after,
     disruptive |-> disruptive]
NoActs == Acts(<< >>, FALSE, << >>, << >>)

Lk(id, acts) == [id |-> id, multi |-> FALSE, acts |-> acts]
SecRule(ch)  == [kind |-> "SecRule", tags |-> {}, msg |-> TRUE,
                 chain |-> ch, dangling |-> FALSE]
Mark(m)      == [kind |-> "SecMarker", name |-> m]

(* Rules with one action beside or as their disruptive action.             *)
Disruptive(id, a) == SecRule(<<Lk(id, Acts(<< >>, FALSE, << >>, <<a>>))>>)
Plain(id, a)      == SecRule(<<Lk(id, Acts(<<a>>, FALSE, << >>, << >>))>>)

Deny     == A("deny", None)
Pass     == A("pass", None)
Redirect == A("redirect", u1)

(* The pool, as sequences: a configuration is a number that picks from it. *)
DisruptiveRules(id) ==
    <<Disruptive(id, Deny), Disruptive(id, Pass), Disruptive(id, Redirect),
      Disruptive(id, A("allow", "PhaseAllow")),
      Disruptive(id, A("allow", "RequestAllow")),
      Disruptive(id, A("allow", "FromNowOnAllow"))>>

ControlRules(id) ==
    <<Plain(id, A("skip", 1)), Plain(id, A("skipAfter", m1)),
      Plain(id, A("status", 401)), Plain(id, A("ctl:ruleRemoveById", {3})),
      Plain(id, A("ctl:ruleRemoveByTag", t1)),
      Plain(id, A("ctl:ruleEngine", "Disabled")),
      Plain(id, A("ctl:ruleEngine", "DetectionOnly")),
      Plain(id, A("ctl:ruleEngine", "Enabled"))>>

SpecialRules(id) ==
    <<\* block takes the default deny; the chain has a child with block and id
      SecRule(<<Lk(id, Acts(<< >>, TRUE, <<A("nolog", None)>>, << >>))>>),
      SecRule(<<Lk(id, Acts(<< >>, FALSE, << >>, <<Redirect>>)),
                Lk(2, Acts(<<A("log", None)>>, TRUE, << >>, << >>))>>),
      \* a rule that skips and denies, a tagged one, a multiMatch one
      SecRule(<<Lk(id, Acts(<<A("skipAfter", m1)>>, FALSE, << >>, <<Deny>>))>>),
      [Disruptive(id, Deny) EXCEPT !.tags = {t1}],
      [Disruptive(id, Deny) EXCEPT !.chain[1].multi = TRUE],
      \* a chain without its second rule, an action, a script
      [Disruptive(id, Deny) EXCEPT !.dangling = TRUE],
      [Plain(id, A("nolog", None)) EXCEPT !.kind = "SecAction"],
      [Disruptive(id, Deny) EXCEPT !.kind = "SecRuleScript"]>>

Pool(id) == DisruptiveRules(id) \o ControlRules(id) \o SpecialRules(id)

(* Configurations are numbered; the digits of n, in a mixed radix, pick    *)
(* from the pools.                                                         *)
Pick(s, n, weight) == s[((n \div weight) % Len(s)) + 1]

DefaultActs == Acts(<<A("log", None)>>, FALSE, << >>, <<Deny>>)

Base == [engine |-> "Enabled",
         rules |-> [p \in Phases |-> <<Mark(m1)>>],
         defaults |-> [p \in Phases |-> DefaultActs],
         removeId |-> {}, removeTag |-> {},
         posUpdate |-> [id \in 0 .. 3 |-> << >>],
         access |-> [s \in Sides |-> "True"],
         limit |-> [s \in Sides |-> 0],
         limitAction |-> [s \in Sides |-> "Reject"],
         noFilesLimit |-> 0,
         mimeTypes |-> "NotSet"]

With(b, e, headers, q, later) ==
    [b EXCEPT !.engine = e,
              !.rules[RequestHeadersPhase] = headers \o <<Mark(m1)>>,
              !.rules[q] = IF later = << >> THEN @ ELSE later \o <<Mark(m1)>>]

SecondRules == <<Disruptive(2, Deny), Disruptive(2, Pass),
                 Disruptive(2, Redirect),
                 Disruptive(2, A("allow", "FromNowOnAllow")),
                 Plain(2, A("skipAfter", m1)),
                 Plain(2, A("ctl:ruleEngine", "Enabled")),
                 SecRule(<<Lk(2, Acts(<< >>, FALSE, << >>, <<Deny>>)),
                           Lk(3, NoActs)>>)>>

LaterRules == << <<RequestBodyPhase, << >> >>,
                 <<RequestBodyPhase, <<Disruptive(3, Deny)>> >>,
                 <<RequestBodyPhase, <<Disruptive(3, Pass)>> >>,
                 <<LoggingPhase, <<Disruptive(3, Deny)>> >> >>

EngineConfigs == 0 .. 1231   \* 2 * 22 * 7 * 4 of them
EngineRuleSet(n) ==
    LET later == Pick(LaterRules, n, 308)
    IN  With(Base, Pick(<<"Enabled", "DetectionOnly">>, n, 1),
             <<Pick(Pool(1), n, 2), Pick(SecondRules, n, 44)>>,
             later[1], later[2])

(* SecRuleRemoveById/ByTag and SecRuleUpdateActionById, a default action   *)
(* list with block, and a marker nothing names.                            *)
ExceptionRuleSet(n) ==
    [With(Base, "Enabled",
          <<Pick(SpecialRules(1), n, 1), Mark(m2), Pick(SpecialRules(2), n, 8)>>,
          LoggingPhase, << >>)
       EXCEPT !.removeId = Pick(<<{}, {2}>>, n, 64),
              !.posUpdate[1] = Pick(<< << >>, <<Redirect, A("status", 500)>>,
                                       <<Block>> >>, n, 128),
              !.defaults[RequestHeadersPhase].block =
                  Pick(<<FALSE, TRUE>>, n, 9)]

(* For the bodies: limits, actions, access, processors and MIME types.     *)
BodyCtls ==
    <<Plain(1, A("ctl:requestBodyProcessor", "URLENCODED")),
      Plain(1, A("ctl:requestBodyProcessor", "JSON")),
      Plain(1, A("ctl:requestBodyAccess", "True")),
      Plain(1, A("ctl:requestBodyAccess", "False"))>>
BodyProperties ==   \* SecRequestBodyAccess, ...NoFilesLimit, MIME types
    << <<"True", 0, "NotSet">>, <<"False", 1, "Cleared">>,
       <<"True", 1, "Listed">> >>
BodyRuleSet(n) ==
    LET props == Pick(BodyProperties, n, 3) IN
    [With(Base, Pick(<<"Enabled", "DetectionOnly">>, n, 9),
          <<Pick(BodyCtls, n, 1)>>, ResponseBodyPhase, <<Disruptive(3, Pass)>>)
       EXCEPT !.rules[RequestBodyPhase] = <<Disruptive(2, Deny)>>,
              !.limit = [s \in Sides |-> 2],
              !.limitAction = [s \in Sides |->
                  Pick(<<"NotSet", "ProcessPartial", "Reject">>, n, 1)],
              !.access = [s \in Sides |-> props[1]],
              !.noFilesLimit = props[2],
              !.mimeTypes = props[3]]

(* All kinds, one after the other, for a connector that checks in time;    *)
(* bodies are sent under the last.                                         *)
BodiesFrom == 1232 + 8 * 8 * 2 * 3
PollingConfigs == 0 .. BodiesFrom + 17
PollingSending == BodiesFrom .. BodiesFrom + 17
PollingLoaded == [n \in PollingConfigs |->
    IF n \in EngineConfigs THEN EngineRuleSet(n)
    ELSE IF n < BodiesFrom THEN ExceptionRuleSet(n - 1232)
    ELSE BodyRuleSet(n - BodiesFrom)]

(* For a connector that does not check in time.                            *)
CarelessConfigs == 0 .. 22 * 14 - 1
CarelessRuleSet(n) ==
    With(Base, "Enabled", <<Pick(Pool(1), n, 1)>>, RequestBodyPhase,
         <<Pick(DisruptiveRules(2) \o SpecialRules(2), n, 22)>>)
CarelessLoaded == [n \in CarelessConfigs |-> CarelessRuleSet(n)]
=============================================================================
