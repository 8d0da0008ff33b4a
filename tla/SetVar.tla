------------------------------- MODULE SetVar -------------------------------
(***************************************************************************)
(* The actions setvar and expirevar of rules that several workers run at   *)
(* the same time on one collection.  setvar:x=+n evaluates the variable    *)
(* and stores the sum: two calls of the collection, with a purge of what   *)
(* expired between them, and nothing that keeps other workers out.         *)
(***************************************************************************)
EXTENDS InMemoryPerProcess

CONSTANTS Rules,     \* the actions of each rule, in order
          MaxRules   \* bound: rules run, and with it the values of a counter

Operations == {"set", "setToOne", "unset", "sumAndSet", "substractAndSet",
               "expire", "evaluate", "macro"}

Actions == [op : Operations, name : Names,
            arg : Values \cup Seconds \cup {NoValue}]

(* setvar stores its argument, and 1 if it has none.  Neither the value of *)
(* an element without one nor its name in a history is a proper one.       *)
NoKey == "none"

ASSUME RulesAssumption ==
    /\ Rules \subseteq Seq(Actions)
    /\ \A r \in Rules : \A j \in DOMAIN r :
          /\ r[j].op = "set" => r[j].arg \in Values
          /\ r[j].op = "setToOne" => 1 \in Values
    /\ MaxRules \in Nat
    /\ NoValue \notin Int
    /\ NoKey \notin Keys

VARIABLES script,    \* actions the rule of each worker has left
          summing,   \* whether the worker has evaluated the variable of a sum
          started,   \* rules run
          wrote,     \* history: the key the rule of a worker stored last
          since,     \* history: what others did to that key since then
          expected,  \* history: the value if no two actions overlapped
          raced,     \* history: keys with a sum that overlapped a write
          total      \* history: all that was ever added to a key

histVars == <<wrote, since, expected, raced, total>>
allVars  == <<mapVars, script, summing, started, histVars>>

TypeOK == /\ MapTypeOK
          /\ script \in [Workers -> Seq(Actions)]
          /\ summing \in [Workers -> BOOLEAN]
          /\ started \in 0 .. MaxRules
          /\ wrote \in [Workers -> Keys \cup {NoKey}]
          /\ since \in [Workers -> SUBSET {"write", "purge"}]
          /\ expected \in [Keys -> Int]
          /\ raced \in SUBSET Keys
          /\ total \in [Keys -> Nat]

Init == /\ MapInit
        /\ script = [w \in Workers |-> << >>]
        /\ summing = [w \in Workers |-> FALSE]
        /\ started = 0
        /\ wrote = [w \in Workers |-> NoKey]
        /\ since = [w \in Workers |-> {}]
        /\ expected = [k \in Keys |-> 0]
        /\ raced = {}
        /\ total = [k \in Keys |-> 0]

-----------------------------------------------------------------------------
(* A string that does not start with a number makes stoi throw, and the    *)
(* code then goes on with 0.                                               *)
stoi(v) == IF v \in Int THEN v ELSE 0

(* The number stored under a key.                                          *)
Stored(k) == stoi(ElementOf(k).value)

(* What is added to a key whose value grows by n.                          *)
Added(n) == IF n > 0 THEN n ELSE 0

(* The action the worker is about to execute.                              *)
At(w, op) == script[w] # << >> /\ Head(script[w]).op = op
name(w)   == Head(script[w]).name
arg(w)    == Head(script[w]).arg

Next1(w) == script' = [script EXCEPT ![w] = Tail(@)]

(* What the other workers learn of a change of key k by worker w.          *)
Tell(w, k, what) ==
    [u \in Workers |->
       IF u # w /\ wrote[u] = k THEN since[u] \cup {what} ELSE since[u]]

StartRule(w) ==
    /\ Returned(w) /\ script[w] = << >>
    /\ started < MaxRules
    /\ started' = started + 1
    /\ \E r \in Rules : script' = [script EXCEPT ![w] = r]
    /\ wrote' = [wrote EXCEPT ![w] = NoKey]
    /\ since' = [since EXCEPT ![w] = {}]
    /\ UNCHANGED <<mapVars, summing, expected, raced, total>>

-----------------------------------------------------------------------------
(* SetVar::evaluate.                                                       *)

Store(w, v) ==
    /\ storeOrUpdateFirst(w, name(w), v)
    /\ Next1(w)
    /\ wrote' = [wrote EXCEPT ![w] = Fold[name(w)]]
    /\ since' = [Tell(w, Fold[name(w)], "write") EXCEPT ![w] = {}]
    /\ UNCHANGED started

setOperation(w) ==
    LET k == Fold[name(w)]
        v == IF At(w, "setToOne") THEN 1 ELSE arg(w)
    IN  /\ At(w, "set") \/ At(w, "setToOne")
        /\ Store(w, v)
        /\ expected' = [expected EXCEPT ![k] = stoi(v)]
        /\ raced' = raced \ {k}
        /\ total' = [total EXCEPT ![k] = @ + Added(stoi(v))]
        /\ UNCHANGED summing

unsetOperation(w) ==
    LET k == Fold[name(w)]
    IN  /\ At(w, "unset")
        /\ del(w, name(w))
        /\ Next1(w)
        /\ wrote' = [wrote EXCEPT ![w] = IF @ = k THEN NoKey ELSE @]
        /\ since' = Tell(w, k, "write")
        /\ expected' = [expected EXCEPT ![k] = 0]
        /\ raced' = raced \ {k}
        /\ UNCHANGED <<summing, started, total>>

(* m_variable->evaluate; what it returns is used after other workers ran.  *)
SumEvaluates(w) ==
    /\ At(w, "sumAndSet") \/ At(w, "substractAndSet")
    /\ ~summing[w]
    /\ resolveMultiMatches(w, name(w), {})
    /\ summing' = [summing EXCEPT ![w] = TRUE]
    /\ wrote' = [wrote EXCEPT ![w] = Fold[name(w)]]
    /\ since' = [since EXCEPT ![w] = {}]
    /\ UNCHANGED <<script, started, expected, raced, total>>

(* Mutant: a counter that is not there counts as 1.                        *)
MutEvaluated(w) ==
    IF got[w] = {} THEN 1 ELSE stoi((CHOOSE p \in got[w] : TRUE)[2])

(* The first value found, or 0.                                            *)
Evaluated(w) == IF got[w] = {} THEN 0 ELSE stoi((CHOOSE p \in got[w] : TRUE)[2])

SumStores(w) ==
    LET k == Fold[name(w)]
        n == IF At(w, "sumAndSet") THEN stoi(arg(w)) ELSE 0 - stoi(arg(w))
    IN  /\ summing[w]
        /\ Evaluated(w) + n \in Values
        /\ Store(w, Evaluated(w) + n)
        /\ summing' = [summing EXCEPT ![w] = FALSE]
        /\ expected' = [expected EXCEPT ![k] = @ + n]
        /\ raced' = IF since[w] = {} THEN raced ELSE raced \cup {k}
        /\ total' = [total EXCEPT ![k] = @ + Added(n)]

-----------------------------------------------------------------------------
(* ExpireVar::evaluate.                                                    *)
expireVar(w) ==
    /\ At(w, "expire") /\ arg(w) \in Seconds
    /\ setExpiryOf(w, name(w), arg(w))
    /\ Next1(w)
    /\ since' = Tell(w, Fold[name(w)], "write")
    /\ UNCHANGED <<summing, started, wrote, expected, raced, total>>

(* Seconds that are not a number, or a collection it does not know.        *)
expireVarIgnored(w) ==
    /\ At(w, "expire") /\ arg(w) \notin Seconds
    /\ Next1(w)
    /\ UNCHANGED <<mapVars, summing, started, histVars>>

-----------------------------------------------------------------------------
(* A rule whose target or whose message refers to the collection.          *)
EvaluateVariable(w) ==
    /\ \/ At(w, "evaluate") /\ resolveMultiMatches(w, name(w), {})
       \/ At(w, "macro") /\ resolveFirst(w, name(w))
    /\ Next1(w)
    /\ UNCHANGED <<summing, started, histVars>>

(* The rest of a resolve function of worker w.  What the evaluation of its *)
(* own sum erases is a count that the sum has not used.                    *)
PurgeExpired(w) ==
    LET erased == {k \in Keys : m_map[k] # << >> /\ m_map'[k] = << >>}
    IN  /\ delIfExpired(w)
        /\ expected' = [k \in Keys |-> IF k \in erased THEN 0 ELSE expected[k]]
        /\ raced' = raced \ erased
        /\ since' = [u \in Workers |->
              IF wrote[u] \in erased /\ (u = w => ~summing[w])
              THEN since[u] \cup {"purge"} ELSE since[u]]
        /\ UNCHANGED <<script, summing, started, wrote, total>>

Clock == Tick /\ UNCHANGED <<script, summing, started, histVars>>

Work(w) == \/ StartRule(w)
           \/ setOperation(w) \/ unsetOperation(w)
           \/ SumEvaluates(w) \/ SumStores(w)
           \/ expireVar(w) \/ expireVarIgnored(w)
           \/ EvaluateVariable(w) \/ PurgeExpired(w)

Next == Clock \/ \E w \in Workers : Work(w)

Spec == Init /\ [][Next]_allVars

-----------------------------------------------------------------------------
(* A counter counts every setvar that no other action of a rule overlapped *)
(* (that is, reached the same key between the two calls of the sum), in    *)
(* whatever order sums, purges and expiries follow each other: expired     *)
(* counts are never carried over into a new count.                         *)
CountsAlone == \A k \in Keys \ raced : Stored(k) = expected[k]

(* Overlapping increments may be lost, but a counter never exceeds all     *)
(* that was ever added to it.                                              *)
NeverOvercounts == \A k \in Keys : Stored(k) <= total[k]

(* When every rule that stores a key goes on to expire it, a value of that *)
(* key without an expiry time has a worker on its way to set one: no       *)
(* interleaving leaves a count behind that stays for ever.                 *)
Stores(a, k)  == /\ a.op \in {"set", "setToOne", "sumAndSet", "substractAndSet"}
                 /\ Fold[a.name] = k
Expires(a, k) == /\ a.op = "expire" /\ a.arg \in Seconds
                 /\ Fold[a.name] = k

ExpiresWhatItStores(k) ==
    \A r \in Rules : \A j \in DOMAIN r :
       Stores(r[j], k) => \E l \in DOMAIN r : l > j /\ Expires(r[l], k)

NoImmortalValue ==
    \A k \in Keys :
       /\ ExpiresWhatItStores(k)
       /\ hasValue(ElementOf(k)) /\ ~hasExpiry(ElementOf(k))
       => \E w \in Workers : \E j \in DOMAIN script[w] : Expires(script[w][j], k)

(* The rule of w sets the expiry time of the value it stored before, and   *)
(* no rule stored, removed or expired the key in between.                  *)
ExpiresOwnValue(w, k) ==
    /\ At(w, "expire") /\ script'[w] = Tail(script[w])
    /\ arg(w) \in Seconds \ {0}
    /\ wrote[w] = k /\ Fold[name(w)] = k
    /\ "write" \notin since[w]

(* setvar:x=v,expirevar:x=s, not overlapped by a setvar or expirevar of x, *)
(* leaves x with a value.                                                  *)
FlagIsRaised ==
    [][\A w \in Workers, k \in Keys :
          ExpiresOwnValue(w, k) => Visible(ElementOf(k)', now')]_allVars

(* It does when no reader purges x between the two actions either.         *)
FlagIsRaisedUnlessPurged ==
    [][\A w \in Workers, k \in Keys :
          ExpiresOwnValue(w, k) /\ since[w] = {} =>
             Visible(ElementOf(k)', now')]_allVars
=============================================================================
