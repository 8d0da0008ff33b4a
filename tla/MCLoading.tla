----------------------------- MODULE MCLoading -----------------------------
(* Files for model checking Loading.                                       *)
EXTENDS Loading

SecRuleOf(id, p, chain, disruptive) ==
    [dir |-> "rule", id |-> id, phase |-> p, chain |-> chain, disruptive |-> disruptive]

(* Two ids in two phases, a chain and its links, and what may come between.*)
RuleDirectives == {SecRuleOf(1, 0, FALSE, TRUE), SecRuleOf(2, 1, TRUE, FALSE),
                   SecRuleOf(0, 1, FALSE, FALSE), SecRuleOf(2, 0, FALSE, FALSE),
                   [dir |-> "action", id |-> 1, phase |-> 0],
                   [dir |-> "marker", id |-> 9],
                   [dir |-> "throws"]}

(* And one of everything else; two engine states, which can disagree.      *)
AllDirectives == RuleDirectives \cup
                 {[dir |-> "engine", value |-> "On"],
                  [dir |-> "engine", value |-> "DetectionOnly"],
                  [dir |-> "default", phase |-> 1],
                  [dir |-> "remove", lo |-> 2, hi |-> 7],
                  [dir |-> "remove", lo |-> 9, hi |-> 10]}
=============================================================================
