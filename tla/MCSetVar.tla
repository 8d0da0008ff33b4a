------------------------------ MODULE MCSetVar ------------------------------
(* Rules for model checking SetVar.                                        *)
EXTENDS SetVar, TLC

CONSTANTS ip, IP, user, w1, w2, Text

MCFold == (ip :> ip) @@ (IP :> ip) @@ (user :> user)

Do(op, n, a) == [op |-> op, name |-> n, arg |-> a]

Counting == <<Do("sumAndSet", ip, 1), Do("expire", ip, 1)>>

(* A rate limit: count and expire; look; forget.                           *)
CounterRules == {Counting,
                 <<Do("expire", IP, 1), Do("sumAndSet", IP, 1),
                   Do("expire", IP, 2)>>,
                 <<Do("evaluate", ip, NoValue)>>,
                 <<Do("unset", ip, NoValue)>>}

(* Every operation, on a key whose rules do not keep to a discipline.      *)
AnyRules == CounterRules \cup
            {<<Do("set", user, Text), Do("expire", user, 1)>>,
             <<Do("setToOne", user, NoValue), Do("expire", user, NoValue)>>,
             <<Do("substractAndSet", user, 1)>>,
             <<Do("macro", user, NoValue)>>}

AnyValues == -4 .. 4 \cup {Text}

(* A block that lasts for a while, and a rule that looks at it.            *)
FlagRules == {<<Do("set", ip, 1), Do("expire", ip, 1)>>,
              <<Do("evaluate", ip, NoValue)>>}
=============================================================================
