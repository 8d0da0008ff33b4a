-------------------------- MODULE ComponentProofs --------------------------
(***************************************************************************)
(* Proofs about four components, one after the other: the scripts of Lua,  *)
(* the settings of rule sets, the targets of rules and the scanner.        *)
(***************************************************************************)
EXTENDS Lua, Properties, Targets, Scanner, FiniteSetTheorems, TLAPS

-----------------------------------------------------------------------------
(* Scripts: the inductive invariant.                                       *)

LuaElements == {NoText, "e"}

LuaVals == LuaValues \cup {"v", NoText, Missing}

LuaExpiries == {"none", "pending", "over"}

(* What a call tells: the text of a variable and what was done to it, a    *)
(* name that is not found, or nothing.                                     *)
LuaTexts ==
    {<< >>, UnknownName}
    \cup {<<v, l>> : v \in LuaVals, l \in {<< >>} \cup {Applied(t) : t \in LuaTransforms}}

LuaAnswers == [call : {"getvar", "getvars", "setvar"}, name : LuaNames, element : LuaElements,
               value : LuaTexts, expiry : LuaExpiries, changes : Nat]

LuaStores == [LuaNames -> [LuaElements -> [val : LuaVals, expiry : LuaExpiries]]]

LuaTypeOK ==
    /\ luaStates \in Nat /\ escaped \in Nat /\ changes \in Nat
    /\ store \in LuaStores
    /\ answers \in Seq(LuaAnswers)

(* What is not stored does not expire, and no answer is of a time to come. *)
RequestIsKept ==
    /\ \A n \in LuaNames \ StoredCollections, e \in LuaElements : store[n][e].expiry = "none"
    /\ \A i \in DOMAIN answers : answers[i].changes <= changes

(* The text told of a variable is its own.                                 *)
Shows(value, text) ==
    \/ value = << >> /\ text = NoText
    \/ Len(value) = 2 /\ value[1] = text

(* The answer to a lookup, of a variable scripts cannot write.             *)
AnswersFor(a, known) ==
    IF known THEN Shows(a.value, LuaText(store[a.name][a.element])) ELSE a.value = UnknownName

Looked(a) ==
    a.name \notin StoredCollections =>
        /\ a.call = "getvar"  => AnswersFor(a, KnownToGetvar(a.name, a.element))
        /\ a.call = "getvars" => AnswersFor(a, KnownToGetvars(a.name, a.element))

(* What was told of the request is what the collections hold.              *)
RequestAsTold == \A i \in DOMAIN answers : Looked(answers[i])

IsSet(a) == a.call = "setvar" /\ a.name \in StoredCollections /\ a.element = "e"

SetsAgain(a, b) == b.call = "setvar" /\ b.name = a.name

(* What became of an element that m.setvar wrote.                          *)
Holds(a, x) ==
    \/ x = LuaElement(a.value[1], a.expiry)
    \/ a.expiry = "pending" /\ x = LuaElement(a.value[1], "over")
    \/ a.expiry # "none" /\ x = Gone

(* The last text set is the one in the collection.                         *)
LastSetIsStored ==
    \A i \in DOMAIN answers :
        /\ IsSet(answers[i])
        /\ answers[i].name = "TX" \/ answers[i].changes = changes
        /\ \A k \in (i + 1)..Len(answers) : ~SetsAgain(answers[i], answers[k])
        => Holds(answers[i], store[answers[i].name]["e"])

SetIsText == \A i \in DOMAIN answers : answers[i].call = "setvar" => answers[i].value[1] # Missing

LuaInv ==
    /\ LuaTypeOK /\ RequestIsKept /\ RequestAsTold /\ LastSetIsStored /\ SetIsText
    /\ StatesAreClosed /\ SetIsRead

-----------------------------------------------------------------------------
(* Facts about the data.                                                   *)

(* A sequence with one more element.                                       *)
LEMMA AppendedFacts ==
    ASSUME NEW S, NEW s \in Seq(S), NEW e \in S
    PROVE  /\ Append(s, e) \in Seq(S) /\ Len(Append(s, e)) = Len(s) + 1
           /\ DOMAIN Append(s, e) = 1..(Len(s) + 1) /\ DOMAIN s = 1..Len(s)
           /\ \A i \in DOMAIN s : Append(s, e)[i] = s[i]
           /\ Append(s, e)[Len(s) + 1] = e
OBVIOUS

LEMMA SequenceFacts ==
    ASSUME NEW S, NEW s \in Seq(S)
    PROVE  DOMAIN s = 1..Len(s) /\ Len(s) \in Nat /\ \A i \in DOMAIN s : s[i] \in S
OBVIOUS

(* No text of a variable is taken for a name that is not found, and it is  *)
(* the text the script has.                                                *)
LEMMA ShownIsFound ==
    ASSUME NEW value, NEW text, Shows(value, text)
    PROVE  value # UnknownName /\ (IF value = << >> THEN NoText ELSE value[1]) = text
<1>1. value # UnknownName
    <2>1. SUFFICES ASSUME value = UnknownName
                   PROVE  FALSE
        OBVIOUS
    <2>2. Len(value) = 1
        BY <2>1 DEF UnknownName
    <2>3. value # << >>
        BY <2>2
    <2>4. Len(value) = 2
        BY ONLY <2>3, Shows(value, text) DEF Shows
    <2>. QED
        BY ONLY <2>2, <2>4
<1>2. CASE value = << >>
    <2>1. Len(value) = 0
        BY <1>2
    <2>2. ~(Len(value) = 2)
        BY ONLY <2>1
    <2>3. text = NoText
        BY ONLY <2>2, Shows(value, text) DEF Shows
    <2>. QED
        BY <1>1, <1>2, <2>3
<1>3. CASE value # << >>
    BY <1>1, <1>3 DEF Shows
<1>. QED
    BY <1>2, <1>3

(* What applyTransformations gives shows its text.                         *)
LEMMA AppliedShows ==
    ASSUME NEW text \in LuaVals, NEW list \in LuaTransforms
    PROVE  /\ Shows(applyTransformations(text, list), text)
           /\ applyTransformations(text, list) \in LuaTexts
<1>1. << >> \in LuaTexts /\ <<text, Applied(list)>> \in LuaTexts
    BY DEF LuaTexts
<1>2. Len(<<text, Applied(list)>>) = 2 /\ <<text, Applied(list)>>[1] = text
    OBVIOUS
<1>. QED
    BY <1>1, <1>2 DEF Shows, applyTransformations

LEMMA StoredFacts ==
    ASSUME LuaTypeOK, NEW n \in LuaNames, NEW e \in LuaElements
    PROVE  /\ store[n][e] \in [val : LuaVals, expiry : LuaExpiries]
           /\ LuaText(store[n][e]) \in LuaVals
BY DEF LuaTypeOK, LuaStores, LuaText, LuaVals

(* What getvar knows of a request getvars knows: Lua::getvars looks the    *)
(* name up in lists that hold those of Lua::getvar.                        *)
LEMMA KnownAgrees ==
    ASSUME NEW name, NEW element \in LuaElements, name \notin StoredCollections,
           KnownToGetvar(name, element)
    PROVE  KnownToGetvars(name, element)
<1>1. CASE element = NoText
    <2>1. name \in Singles
        BY <1>1 DEF KnownToGetvar, NoText
    <2>. QED
        BY <2>1, <1>1 DEF KnownToGetvars, NoText
<1>2. CASE element # NoText
    <2>1. name \in SharedSets
        BY <1>2 DEF KnownToGetvar, NoText
    <2>. QED
        BY <2>1 DEF KnownToGetvars, SetsOfGetvars
<1>. QED
    BY <1>1, <1>2

(* A stored collection is known with an element.                           *)
LEMMA StoredIsKnown ==
    ASSUME NEW name \in StoredCollections
    PROVE  KnownToGetvar(name, "e")
BY DEF KnownToGetvar

(* What became of an element, and what is read of it.                      *)
LEMMA HoldsAfter ==
    ASSUME NEW a, NEW x, Holds(a, x)
    PROVE  /\ Holds(a, Purged(x))
           /\ x.expiry = "pending" => Holds(a, [x EXCEPT !.expiry = "over"])
BY DEF Holds, Purged, Gone, LuaElement

LEMMA HeldIsRead ==
    ASSUME NEW a, NEW x, Holds(a, x), a.expiry \in LuaExpiries, a.value[1] # Missing
    PROVE  CASE a.expiry = "none" -> LuaText(x) = a.value[1]
             [] a.expiry = "over" -> LuaText(x) = NoText
             [] OTHER -> LuaText(x) \in {a.value[1], NoText}
<1>1. CASE a.expiry = "none"
    BY <1>1 DEF Holds, LuaText, LuaElement
<1>2. CASE a.expiry = "over"
    BY <1>2 DEF Holds, LuaText, LuaElement, Gone
<1>3. CASE a.expiry = "pending"
    BY <1>3 DEF Holds, LuaText, LuaElement, Gone
<1>. QED
    BY <1>1, <1>2, <1>3 DEF LuaExpiries

-----------------------------------------------------------------------------
(* The steps.                                                              *)

(* One more answer.                                                        *)
Tells(a) ==
    /\ a \in LuaAnswers /\ a.changes = changes /\ changes' = changes
    /\ script = "main" /\ answers' = Append(answers, a)

(* A step that leaves the states of Lua as they should be.                 *)
StatesKept == luaStates' \in Nat /\ escaped' \in Nat /\ StatesAreClosed'

LEMMA AnswersAreTyped ==
    ASSUME LuaTypeOK
    PROVE  /\ answers \in Seq(LuaAnswers) /\ DOMAIN answers = 1..Len(answers) /\ Len(answers) \in Nat
           /\ \A i \in DOMAIN answers : answers[i] \in LuaAnswers
<1>1. answers \in Seq(LuaAnswers)
    BY DEF LuaTypeOK
<1>. QED
    BY <1>1, SequenceFacts

LEMMA TellingGrows ==
    ASSUME LuaTypeOK, NEW a, Tells(a)
    PROVE  /\ answers' \in Seq(LuaAnswers) /\ Len(answers') = Len(answers) + 1
           /\ DOMAIN answers' = 1..(Len(answers) + 1) /\ DOMAIN answers = 1..Len(answers)
           /\ Len(answers) \in Nat
           /\ \A i \in DOMAIN answers : answers'[i] = answers[i]
           /\ answers'[Len(answers) + 1] = a
           /\ \A i \in DOMAIN answers' :
                  i \in DOMAIN answers \/ (i = Len(answers) + 1 /\ answers'[i] = a)
<1>1. /\ answers' \in Seq(LuaAnswers) /\ Len(answers') = Len(answers) + 1
      /\ DOMAIN answers' = 1..(Len(answers) + 1) /\ DOMAIN answers = 1..Len(answers)
      /\ Len(answers) \in Nat
      /\ \A i \in DOMAIN answers : answers'[i] = answers[i]
      /\ answers'[Len(answers) + 1] = a
    BY AnswersAreTyped, AppendedFacts DEF Tells
<1>2. \A i \in DOMAIN answers' : i \in DOMAIN answers \/ i = Len(answers) + 1
    BY ONLY <1>1
<1>. QED
    BY <1>1, <1>2

LEMMA AnsweringKeepsStates ==
    ASSUME LuaTypeOK, StatesAreClosed, NEW a, Answer(a)
    PROVE  StatesKept /\ answers' = Append(answers, a)
BY DEF LuaTypeOK, StatesAreClosed, Answer, StatesKept

LEMMA ThrowingKeepsStates ==
    ASSUME LuaTypeOK, StatesAreClosed, script = "main", NEW a, Throws(a)
    PROVE  StatesKept /\ answers' = Append(answers, a)
<1>1. luaStates = escaped + 1 /\ escaped \in Nat
    BY DEF LuaTypeOK, StatesAreClosed
<1>2. /\ script' = "idle" /\ answers' = Append(answers, a)
      /\ \/ luaStates' = luaStates - 1 /\ escaped' = escaped
         \/ luaStates' = luaStates /\ escaped' = escaped + 1
    BY DEF Throws, Ended
<1>3. luaStates' = escaped' + 0 /\ luaStates' \in Nat /\ escaped' \in Nat
    BY ONLY <1>1, <1>2
<1>. QED
    BY <1>2, <1>3 DEF StatesKept, StatesAreClosed

(* A lookup tells the text of its variable, if it knows it.                *)
LookedUp(a) ==
    /\ Tells(a) /\ StatesKept
    /\ a.call \in {"getvar", "getvars"} /\ Looked(a)
    /\ a.call = "getvar" /\ a.name \in StoredCollections /\ a.element = "e" =>
           Shows(a.value, LuaText(store[a.name]["e"]))
    /\ \/ store' = store
       \/ store' = [store EXCEPT ![a.name][a.element] = Purged(@)]

LEMMA ToldFacts ==
    ASSUME LuaTypeOK, NEW call \in {"getvar", "getvars", "setvar"},
           NEW n \in LuaNames, NEW e \in LuaElements, NEW value \in LuaTexts,
           NEW a, a = Told(call, n, e, value)
    PROVE  /\ a \in LuaAnswers /\ a.changes = changes /\ a.call = call
           /\ a.name = n /\ a.element = e /\ a.value = value
           /\ a.expiry = store[n][e].expiry
<1>1. store[n][e].expiry \in LuaExpiries
    BY StoredFacts
<1>2. changes \in Nat
    BY DEF LuaTypeOK
<1>. QED
    BY <1>1, <1>2 DEF Told, LuaAnswers

LEMMA GetvarLooks ==
    ASSUME LuaInv, NEW n \in LuaNames, NEW e \in LuaElements, NEW l \in LuaTransforms,
           getvar(n, e, l)
    PROVE  \E a : LookedUp(a)
<1>. USE DEF LuaInv
<1>1. PICK v : v = applyTransformations(LuaText(store[n][e]), l)
    OBVIOUS
<1>2. v \in LuaTexts /\ Shows(v, LuaText(store[n][e]))
    BY <1>1, AppliedShows, StoredFacts
<1>3. UnknownName \in LuaTexts
    BY DEF LuaTexts
<1>4. CASE KnownToGetvar(n, e)
    <2>1. PICK a : a = Told("getvar", n, e, v)
        OBVIOUS
    <2>2. /\ a \in LuaAnswers /\ a.changes = changes /\ a.call = "getvar"
          /\ a.name = n /\ a.element = e /\ a.value = v
        BY <2>1, <1>2, ToldFacts
    <2>3. /\ script = "main" /\ Answer(a) /\ changes' = changes
          /\ store' = [store EXCEPT ![n][e] = Purged(@)]
        BY <2>1, <1>1, <1>4 DEF getvar, MayCall
    <2>4. Looked(a)
        BY <2>2, <1>2, <1>4 DEF Looked, AnswersFor
    <2>. QED
        BY <2>2, <2>3, <2>4, <1>2, AnsweringKeepsStates DEF LookedUp, Tells
<1>5. CASE ~KnownToGetvar(n, e)
    <2>1. PICK a : a = Told("getvar", n, e, UnknownName)
        OBVIOUS
    <2>2. /\ a \in LuaAnswers /\ a.changes = changes /\ a.call = "getvar"
          /\ a.name = n /\ a.element = e /\ a.value = UnknownName
        BY <2>1, <1>3, ToldFacts
    <2>3. script = "main" /\ Throws(a) /\ changes' = changes /\ store' = store
        BY <2>1, <1>5 DEF getvar, MayCall
    <2>4. Looked(a)
        BY <2>2, <1>5 DEF Looked, AnswersFor
    <2>5. ~(n \in StoredCollections /\ e = "e")
        BY <1>5, StoredIsKnown
    <2>. QED
        BY <2>2, <2>3, <2>4, <2>5, ThrowingKeepsStates DEF LookedUp, Tells
<1>. QED
    BY <1>4, <1>5

LEMMA GetvarsLooks ==
    ASSUME LuaInv, NEW n \in LuaNames, NEW e \in LuaElements, getvars(n, e)
    PROVE  \E a : LookedUp(a)
<1>. USE DEF LuaInv
<1>1. PICK v : v = IF store[n][e].val = Missing THEN << >> ELSE <<store[n][e].val, << >>>>
    OBVIOUS
<1>2. v \in LuaTexts
    BY <1>1, StoredFacts DEF LuaTexts
<1>3. n \notin StoredCollections => Shows(v, LuaText(store[n][e]))
    <2>1. n \notin StoredCollections => store[n][e].expiry = "none"
        BY DEF RequestIsKept
    <2>2. Len(<<store[n][e].val, << >>>>) = 2
          /\ <<store[n][e].val, << >>>>[1] = store[n][e].val
        OBVIOUS
    <2>. QED
        BY <1>1, <2>1, <2>2 DEF Shows, LuaText
<1>4. UnknownName \in LuaTexts
    BY DEF LuaTexts
<1>5. CASE KnownToGetvars(n, e)
    <2>1. PICK a : a = Told("getvars", n, e, v)
        OBVIOUS
    <2>2. /\ a \in LuaAnswers /\ a.changes = changes /\ a.call = "getvars"
          /\ a.name = n /\ a.element = e /\ a.value = v
        BY <2>1, <1>2, ToldFacts
    <2>3. script = "main" /\ Answer(a) /\ changes' = changes /\ store' = store
        BY <2>1, <1>1, <1>5 DEF getvars, MayCall
    <2>4. Looked(a)
        BY <2>2, <1>3, <1>5 DEF Looked, AnswersFor
    <2>. QED
        BY <2>2, <2>3, <2>4, AnsweringKeepsStates DEF LookedUp, Tells
<1>6. CASE ~KnownToGetvars(n, e)
    <2>1. PICK a : a = Told("getvars", n, e, UnknownName)
        OBVIOUS
    <2>2. /\ a \in LuaAnswers /\ a.changes = changes /\ a.call = "getvars"
          /\ a.name = n /\ a.element = e /\ a.value = UnknownName
        BY <2>1, <1>4, ToldFacts
    <2>3. script = "main" /\ Throws(a) /\ changes' = changes /\ store' = store
        BY <2>1, <1>6 DEF getvars, MayCall
    <2>4. Looked(a)
        BY <2>2, <1>6 DEF Looked, AnswersFor
    <2>. QED
        BY <2>2, <2>3, <2>4, ThrowingKeepsStates DEF LookedUp, Tells
<1>. QED
    BY <1>5, <1>6

(* m.setvar, as the answers and the collections see it.                    *)
Stores(a) ==
    /\ Tells(a) /\ StatesKept /\ a.call = "setvar" /\ a.value[1] # Missing
    /\ store' \in LuaStores
    /\ \A n \in LuaNames : n \notin StoredCollections \/ n # a.name => store'[n] = store[n]
    /\ IsSet(a) => Holds(a, store'[a.name]["e"])

LEMMA SetvarStores ==
    ASSUME LuaInv, NEW n \in LuaNames, NEW e \in LuaElements, NEW v \in LuaValues,
           setvar(n, e, v)
    PROVE  \E a : Stores(a)
<1>. USE DEF LuaInv
<1>1. PICK t : t = <<v, << >>>>
    OBVIOUS
<1>2. t \in LuaTexts /\ t[1] = v /\ v # Missing
    BY <1>1, LuaAssumption DEF LuaTexts, LuaVals, LuaAssumption
<1>3. PICK a : a = Told("setvar", n, e, t)
    OBVIOUS
<1>4. /\ a \in LuaAnswers /\ a.changes = changes /\ a.call = "setvar"
      /\ a.name = n /\ a.element = e /\ a.value = t /\ a.expiry = store[n][e].expiry
    BY <1>2, <1>3, ToldFacts
<1>5. script = "main" /\ Answer(a) /\ changes' = changes
    BY <1>1, <1>3 DEF setvar, MayCall
<1>6. PICK x : x = Updated(store[n][e], v)
    OBVIOUS
<1>7. store' = IF Sets(n) /\ e # NoText THEN [store EXCEPT ![n][e] = x] ELSE store
    BY <1>6 DEF setvar
<1>8. store \in LuaStores
    BY DEF LuaTypeOK
<1>9. x \in [val : LuaVals, expiry : LuaExpiries] /\ x = LuaElement(v, store[n][e].expiry)
    BY <1>6, StoredFacts DEF Updated, LuaVals, LuaElement
<1>10. CASE Sets(n) /\ e # NoText
    <2>1. store' = [store EXCEPT ![n][e] = x]
        BY <1>7, <1>10
    <2>2. store' \in LuaStores
        BY <2>1, <1>8, <1>9 DEF LuaStores
    <2>3. store'[n][e] = x
        BY <2>1, <1>8 DEF LuaStores
    <2>4. \A m \in LuaNames : m \notin StoredCollections \/ m # n => store'[m] = store[m]
        BY <2>1, <1>8, <1>10 DEF LuaStores, Sets
    <2>5. IsSet(a) => Holds(a, store'[a.name]["e"])
        BY <2>3, <1>2, <1>4, <1>9 DEF IsSet, Holds
    <2>. QED
        BY <2>2, <2>4, <2>5, <1>2, <1>4, <1>5, AnsweringKeepsStates DEF Stores, Tells
<1>11. CASE ~(Sets(n) /\ e # NoText)
    <2>1. store' = store
        BY <1>7, <1>11
    <2>2. ~IsSet(a)
        BY <1>11, <1>4 DEF IsSet, Sets, NoText
    <2>. QED
        BY <2>1, <2>2, <1>2, <1>4, <1>5, <1>8, AnsweringKeepsStates DEF Stores, Tells
<1>. QED
    BY <1>10, <1>11

-----------------------------------------------------------------------------
(* The invariant, answer by answer.                                        *)

(* What was told of the request stays what it holds.                       *)
LEMMA LookedStays ==
    ASSUME \A n \in LuaNames \ StoredCollections : store'[n] = store[n],
           NEW a \in LuaAnswers, Looked(a)
    PROVE  Looked(a)'
<1>1. a.name \in LuaNames
    BY DEF LuaAnswers
<1>. QED
    BY <1>1 DEF Looked, AnswersFor

(* An answer more.                                                         *)
LEMMA AnswerKeeps ==
    ASSUME LuaInv, NEW a, Tells(a), StatesKept, store' \in LuaStores,
           \A n \in LuaNames \ StoredCollections : store'[n] = store[n],
           Looked(a), a.call = "setvar" => a.value[1] # Missing,
           \A b \in LuaAnswers :
               Holds(b, store[b.name]["e"]) /\ ~SetsAgain(b, a) => Holds(b, store'[b.name]["e"]),
           IsSet(a) => Holds(a, store'[a.name]["e"]),
           a.call = "getvar" /\ a.name \in StoredCollections /\ a.element = "e" =>
               Shows(a.value, LuaText(store[a.name]["e"]))
    PROVE  LuaInv'
<1>. USE DEF LuaInv
<1>1. a \in LuaAnswers /\ a.changes = changes /\ changes' = changes /\ changes \in Nat
    BY DEF Tells, LuaTypeOK
<1>2. /\ answers' \in Seq(LuaAnswers) /\ Len(answers') = Len(answers) + 1
      /\ DOMAIN answers' = 1..(Len(answers) + 1) /\ DOMAIN answers = 1..Len(answers)
      /\ Len(answers) \in Nat
      /\ \A i \in DOMAIN answers : answers'[i] = answers[i]
      /\ answers'[Len(answers) + 1] = a
      /\ \A i \in DOMAIN answers' :
             i \in DOMAIN answers \/ (i = Len(answers) + 1 /\ answers'[i] = a)
    BY TellingGrows
<1>3. \A i \in DOMAIN answers : answers[i] \in LuaAnswers
    BY AnswersAreTyped
<1>4. LuaTypeOK' /\ StatesAreClosed'
    BY <1>1, <1>2 DEF StatesKept, LuaTypeOK
<1>5. RequestIsKept' /\ SetIsText'
    <2>1. \A i \in DOMAIN answers' : answers'[i].changes <= changes'
        BY <1>1, <1>2 DEF RequestIsKept
    <2>2. SetIsText'
        BY <1>2 DEF SetIsText
    <2>. QED
        BY <2>1, <2>2 DEF RequestIsKept
<1>6. RequestAsTold'
    <2>1. Looked(a)'
        BY <1>1, LookedStays
    <2>2. ASSUME NEW i \in DOMAIN answers
          PROVE  Looked(answers[i])'
        <3>1. PICK b : b = answers[i]
            OBVIOUS
        <3>2. b \in LuaAnswers /\ Looked(b)
            BY <1>3, <3>1 DEF RequestAsTold
        <3>3. Looked(b)'
            BY <3>2, LookedStays
        <3>4. answers'[i] = b
            BY <3>1, <1>2
        <3>. QED
            BY <3>3, <3>4 DEF Looked, AnswersFor
    <2>3. ASSUME NEW i \in DOMAIN answers', i = Len(answers) + 1, answers'[i] = a
          PROVE  Looked(answers[i])'
        BY <2>1, <2>3 DEF Looked, AnswersFor
    <2>. QED
        BY <2>2, <2>3, <1>2 DEF RequestAsTold
<1>7. LastSetIsStored'
    <2>1. SUFFICES ASSUME NEW i \in DOMAIN answers', IsSet(answers'[i]),
                          answers'[i].name = "TX" \/ answers'[i].changes = changes',
                          \A k \in (i + 1)..Len(answers') : ~SetsAgain(answers'[i], answers'[k])
                   PROVE  Holds(answers'[i], store'[answers'[i].name]["e"])
        BY DEF LastSetIsStored, IsSet, SetsAgain, Holds
    <2>2. CASE i \in DOMAIN answers
        <3>1. answers'[i] = answers[i]
            BY <2>2, <1>2
        <3>2. \A k \in (i + 1)..Len(answers) : ~SetsAgain(answers[i], answers[k])
            BY <2>1, <2>2, <3>1, <1>2
        <3>3. Holds(answers[i], store[answers[i].name]["e"])
            BY <2>1, <2>2, <3>1, <3>2, <1>1 DEF LastSetIsStored
        <3>4. ~SetsAgain(answers[i], a)
            <4>1. Len(answers) + 1 \in (i + 1)..Len(answers')
                BY ONLY <2>2, <1>2
            <4>. QED
                BY <4>1, <2>1, <3>1, <1>2
        <3>. QED
            BY <2>2, <3>1, <3>3, <3>4, <1>3
    <2>3. CASE answers'[i] = a
        BY <2>1, <2>3
    <2>. QED
        BY <2>2, <2>3, <1>2
<1>8. SetIsRead'
    <2>1. SUFFICES ASSUME NEW i \in DOMAIN answers', NEW j \in DOMAIN answers',
                          i < j, answers'[i].call = "setvar", answers'[j].call = "getvar",
                          answers'[i].name = answers'[j].name,
                          answers'[i].name \in StoredCollections,
                          answers'[i].element = "e", answers'[j].element = "e",
                          answers'[i].name = "TX" \/ answers'[i].changes = answers'[j].changes,
                          \A k \in (i + 1)..(j - 1) :
                              ~(answers'[k].call = "setvar" /\ answers'[k].name = answers'[i].name)
                   PROVE  CASE answers'[i].expiry = "none" ->
                                   TextTold(answers'[j]) = answers'[i].value[1]
                            [] answers'[i].expiry = "over" -> TextTold(answers'[j]) = NoText
                            [] OTHER -> TextTold(answers'[j]) \in {answers'[i].value[1], NoText}
        BY Zenon DEF SetIsRead, TextTold
    <2>2. i \in DOMAIN answers /\ answers'[i] = answers[i]
        BY <2>1, <1>2
    <2>3. CASE j \in DOMAIN answers
        <3>1. answers'[j] = answers[j]
            BY <2>3, <1>2
        <3>2. \A k \in (i + 1)..(j - 1) :
                  ~(answers[k].call = "setvar" /\ answers[k].name = answers[i].name)
            BY <2>1, <2>2, <2>3, <1>2
        <3>. QED
            BY <2>1, <2>2, <2>3, <3>1, <3>2 DEF SetIsRead
    <2>4. CASE j \notin DOMAIN answers
        <3>1. j = Len(answers) + 1 /\ answers'[j] = a
            BY <2>4, <1>2
        <3>2. \A k \in (i + 1)..Len(answers) : ~SetsAgain(answers[i], answers[k])
            BY <2>1, <2>2, <3>1, <1>2 DEF SetsAgain
        <3>3. IsSet(answers[i]) /\ (answers[i].name = "TX" \/ answers[i].changes = changes)
            BY <2>1, <2>2, <3>1, <1>1 DEF IsSet
        <3>4. Holds(answers[i], store[answers[i].name]["e"])
            BY <2>2, <3>2, <3>3 DEF LastSetIsStored
        <3>5. a.call = "getvar" /\ a.name = answers[i].name /\ a.element = "e"
              /\ a.name \in StoredCollections
            BY <2>1, <2>2, <3>1
        <3>6. Shows(a.value, LuaText(store[a.name]["e"]))
            BY <3>5
        <3>7. TextTold(a) = LuaText(store[answers[i].name]["e"])
            BY <3>5, <3>6, ShownIsFound DEF TextTold
        <3>8. answers[i].expiry \in LuaExpiries /\ answers[i].value[1] # Missing
            BY <2>1, <2>2, <1>3 DEF LuaAnswers, SetIsText
        <3>9. (CASE answers[i].expiry = "none" ->
                       LuaText(store[answers[i].name]["e"]) = answers[i].value[1]
                 [] answers[i].expiry = "over" -> LuaText(store[answers[i].name]["e"]) = NoText
                 [] OTHER -> LuaText(store[answers[i].name]["e"]) \in {answers[i].value[1], NoText})
            BY <3>4, <3>8, HeldIsRead
        <3>. QED
            BY <3>1, <3>7, <3>9, <2>2
    <2>. QED
        BY <2>3, <2>4
<1>. QED
    BY <1>4, <1>5, <1>6, <1>7, <1>8

LEMMA LookupKeeps ==
    ASSUME LuaInv, NEW a, LookedUp(a)
    PROVE  LuaInv'
<1>. USE DEF LuaInv
<1>1. /\ a \in LuaAnswers /\ a.name \in LuaNames /\ a.element \in LuaElements
      /\ a.call \in {"getvar", "getvars"}
    BY DEF LookedUp, Tells, LuaAnswers
<1>2. store \in LuaStores
    BY DEF LuaTypeOK
<1>3. PICK x : x = Purged(store[a.name][a.element])
    OBVIOUS
<1>4. store' = store \/ store' = [store EXCEPT ![a.name][a.element] = x]
    BY <1>3 DEF LookedUp
<1>5. x \in [val : LuaVals, expiry : LuaExpiries]
    BY <1>1, <1>3, StoredFacts DEF Purged, Gone, LuaElement, LuaVals, LuaExpiries
<1>6. store' \in LuaStores
    <2>1. CASE store' = store
        BY <2>1, <1>2
    <2>2. CASE store' = [store EXCEPT ![a.name][a.element] = x]
        <3>1. PICK n \in LuaNames, e \in LuaElements : n = a.name /\ e = a.element
            BY <1>1
        <3>. QED
            BY <2>2, <3>1, <1>2, <1>5 DEF LuaStores
    <2>. QED
        BY <2>1, <2>2, <1>4
<1>7. \A n \in LuaNames, e \in LuaElements :
          store'[n][e] = store[n][e] \/ store'[n][e] = Purged(store[n][e])
    BY <1>1, <1>2, <1>3, <1>4 DEF LuaStores
<1>8. \A n \in LuaNames \ StoredCollections : store'[n] = store[n]
    <2>1. SUFFICES ASSUME NEW n \in LuaNames, n \notin StoredCollections
                   PROVE  store'[n] = store[n]
        OBVIOUS
    <2>2. \A e \in LuaElements : Purged(store[n][e]) = store[n][e]
        BY <2>1 DEF RequestIsKept, Purged
    <2>3. \A e \in LuaElements : store'[n][e] = store[n][e]
        BY <1>7, <2>2
    <2>. QED
        BY <1>2, <1>6, <2>3 DEF LuaStores
<1>9. \A b \in LuaAnswers : Holds(b, store[b.name]["e"]) => Holds(b, store'[b.name]["e"])
    <2>1. SUFFICES ASSUME NEW b \in LuaAnswers, Holds(b, store[b.name]["e"])
                   PROVE  Holds(b, store'[b.name]["e"])
        OBVIOUS
    <2>2. b.name \in LuaNames /\ "e" \in LuaElements
        BY DEF LuaAnswers, LuaElements
    <2>3. PICK y : y = store[b.name]["e"]
        OBVIOUS
    <2>4. store'[b.name]["e"] = y \/ store'[b.name]["e"] = Purged(y)
        BY <1>7, <2>2, <2>3
    <2>5. Holds(b, y) /\ Holds(b, Purged(y))
        BY <2>1, <2>3, HoldsAfter
    <2>. QED
        BY <2>4, <2>5
<1>. QED
    BY <1>1, <1>6, <1>8, <1>9, AnswerKeeps DEF LookedUp, IsSet

LEMMA SetKeeps ==
    ASSUME LuaInv, NEW a, Stores(a)
    PROVE  LuaInv'
<1>1. a \in LuaAnswers /\ a.call = "setvar"
    BY DEF Stores, Tells
<1>2. Looked(a)
    BY <1>1 DEF Looked
<1>3. \A n \in LuaNames \ StoredCollections : store'[n] = store[n]
    BY DEF Stores
<1>4. \A b \in LuaAnswers :
          Holds(b, store[b.name]["e"]) /\ ~SetsAgain(b, a) => Holds(b, store'[b.name]["e"])
    <2>1. SUFFICES ASSUME NEW b \in LuaAnswers, Holds(b, store[b.name]["e"]), ~SetsAgain(b, a)
                   PROVE  Holds(b, store'[b.name]["e"])
        OBVIOUS
    <2>2. b.name \in LuaNames /\ b.name # a.name
        BY <1>1, <2>1 DEF LuaAnswers, SetsAgain
    <2>3. store'[b.name] = store[b.name]
        BY <2>2 DEF Stores
    <2>. QED
        BY <2>1, <2>3
<1>. QED
    BY <1>1, <1>2, <1>3, <1>4, AnswerKeeps DEF Stores

(* A step that answers nothing: of the collections only what other threads *)
(* and the time change changes.                                            *)
LEMMA QuietKeeps ==
    ASSUME LuaInv, StatesKept, answers' = answers \/ answers' = << >>, store' \in LuaStores,
           changes' \in Nat, changes <= changes',
           \A n \in LuaNames \ StoredCollections : store'[n] = store[n],
           \A b \in LuaAnswers :
               Holds(b, store[b.name]["e"]) /\ (b.name = "TX" \/ changes' = changes)
                   => Holds(b, store'[b.name]["e"])
    PROVE  LuaInv'
<1>. USE DEF LuaInv
<1>1. /\ answers \in Seq(LuaAnswers) /\ changes \in Nat
      /\ \A i \in DOMAIN answers : answers[i] \in LuaAnswers
    BY AnswersAreTyped DEF LuaTypeOK
<1>2. LuaTypeOK' /\ StatesAreClosed'
    <2>1. CASE answers' = answers
        BY <1>1, <2>1 DEF StatesKept, LuaTypeOK
    <2>2. CASE answers' = << >>
        BY <2>2 DEF StatesKept, LuaTypeOK
    <2>. QED
        BY <2>1, <2>2
<1>3. \A n \in LuaNames \ StoredCollections, e \in LuaElements : store'[n][e].expiry = "none"
    BY DEF RequestIsKept
<1>4. CASE answers' = << >>
    <2>1. DOMAIN answers' = {}
        BY <1>4
    <2>. QED
        BY <1>2, <1>3, <2>1
        DEF RequestIsKept, RequestAsTold, LastSetIsStored, SetIsText, SetIsRead
<1>5. CASE answers' = answers
    <2>1. RequestIsKept'
        <3>1. \A i \in DOMAIN answers : answers[i].changes \in Nat /\ answers[i].changes <= changes
            BY <1>1 DEF RequestIsKept, LuaAnswers
        <3>2. \A i \in DOMAIN answers : answers[i].changes <= changes'
            BY <3>1, <1>1
        <3>. QED
            BY <1>3, <1>5, <3>2 DEF RequestIsKept
    <2>2. RequestAsTold'
        <3>1. ASSUME NEW i \in DOMAIN answers
              PROVE  Looked(answers[i])'
            <4>1. PICK b : b = answers[i]
                OBVIOUS
            <4>2. b \in LuaAnswers /\ Looked(b)
                BY <1>1, <4>1 DEF RequestAsTold
            <4>3. Looked(b)'
                BY <4>2, LookedStays
            <4>4. answers'[i] = b
                BY <4>1, <1>5
            <4>. QED
                BY <4>3, <4>4 DEF Looked, AnswersFor
        <3>. QED
            BY <3>1, <1>5 DEF RequestAsTold
    <2>3. LastSetIsStored'
        <3>1. SUFFICES ASSUME NEW i \in DOMAIN answers, IsSet(answers[i]),
                              answers[i].name = "TX" \/ answers[i].changes = changes',
                              \A k \in (i + 1)..Len(answers) : ~SetsAgain(answers[i], answers[k])
                       PROVE  Holds(answers[i], store'[answers[i].name]["e"])
            BY <1>5 DEF LastSetIsStored, IsSet, SetsAgain, Holds
        <3>2. answers[i].changes \in Nat /\ answers[i].changes <= changes
            BY <1>1 DEF RequestIsKept, LuaAnswers
        <3>3. answers[i].name = "TX" \/ (changes' = changes /\ answers[i].changes = changes)
            BY <3>1, <3>2, <1>1
        <3>4. Holds(answers[i], store[answers[i].name]["e"])
            BY <3>1, <3>3 DEF LastSetIsStored
        <3>. QED
            BY <3>3, <3>4, <1>1
    <2>4. SetIsText' /\ SetIsRead'
        BY <1>5 DEF SetIsText, SetIsRead, TextTold
    <2>. QED
        BY <1>2, <2>1, <2>2, <2>3, <2>4
<1>. QED
    BY <1>4, <1>5

(* Loading a script, starting it and its end.                              *)
LEMMA RunKeeps ==
    ASSUME LuaInv, loadScript \/ runScript \/ mainEnds \/ UNCHANGED luaVars
    PROVE  LuaInv'
<1>. USE DEF LuaInv
<1>1. store' = store /\ changes' = changes /\ (answers' = answers \/ answers' = << >>)
    BY DEF loadScript, runScript, mainEnds, Ended, luaVars
<1>2. luaStates \in Nat /\ escaped \in Nat /\ escaped' = escaped
    BY DEF LuaTypeOK, loadScript, runScript, mainEnds, luaVars
<1>3. StatesKept
    <2>1. CASE loadScript \/ UNCHANGED luaVars
        BY <2>1, <1>2 DEF loadScript, luaVars, StatesKept, StatesAreClosed
    <2>2. CASE runScript
        <3>1. script = "idle" /\ luaStates = escaped + 0
            BY <2>2 DEF runScript, StatesAreClosed
        <3>2. \/ script' = "main" /\ luaStates' = luaStates + 1
              \/ script' = "idle" /\ luaStates' = luaStates
            BY <2>2, <3>1 DEF runScript
        <3>3. CASE script' = "main" /\ luaStates' = luaStates + 1
            <4>1. luaStates' = escaped' + 1 /\ luaStates' \in Nat
                BY <1>2, <3>1, <3>3
            <4>. QED
                BY <1>2, <3>3, <4>1 DEF StatesKept, StatesAreClosed
        <3>4. CASE script' = "idle" /\ luaStates' = luaStates
            BY <1>2, <3>1, <3>4 DEF StatesKept, StatesAreClosed
        <3>. QED
            BY <3>2, <3>3, <3>4
    <2>3. CASE mainEnds
        <3>1. script = "main" /\ script' = "idle" /\ luaStates' = luaStates - 1
            BY <2>3 DEF mainEnds, Ended
        <3>2. luaStates = escaped + 1
            BY <3>1 DEF StatesAreClosed
        <3>3. luaStates' = escaped' + 0 /\ luaStates' \in Nat
            BY ONLY <1>2, <3>1, <3>2
        <3>. QED
            BY <1>2, <3>1, <3>3 DEF StatesKept, StatesAreClosed
    <2>. QED
        BY <2>1, <2>2, <2>3
<1>4. store \in LuaStores /\ changes \in Nat
    BY DEF LuaTypeOK
<1>. QED
    BY <1>1, <1>3, <1>4, QuietKeeps

LEMMA expiresKeeps ==
    ASSUME LuaInv, NEW n \in LuaNames, expires(n)
    PROVE  LuaInv'
<1>. USE DEF LuaInv
<1>1. store \in LuaStores /\ changes \in Nat /\ luaStates \in Nat /\ escaped \in Nat
    BY DEF LuaTypeOK
<1>2. PICK x : x = [store[n]["e"] EXCEPT !.expiry = "over"]
    OBVIOUS
<1>3. /\ store[n]["e"].expiry = "pending" /\ n \in StoredCollections
      /\ store' = [store EXCEPT ![n]["e"] = x]
      /\ UNCHANGED <<luaStates, script, changes, answers, escaped>>
    BY <1>2 DEF expires
<1>4. x \in [val : LuaVals, expiry : LuaExpiries]
    BY <1>2, StoredFacts DEF LuaElements, LuaExpiries
<1>5. store' \in LuaStores
    BY <1>1, <1>3, <1>4 DEF LuaStores, LuaElements
<1>6. \A m \in LuaNames \ StoredCollections : store'[m] = store[m]
    BY <1>1, <1>3 DEF LuaStores
<1>7. \A b \in LuaAnswers : Holds(b, store[b.name]["e"]) => Holds(b, store'[b.name]["e"])
    <2>1. \A m \in LuaNames : store'[m]["e"] = IF m = n THEN x ELSE store[m]["e"]
        BY <1>1, <1>3 DEF LuaStores, LuaElements
    <2>. QED
        BY <1>2, <1>3, <2>1, HoldsAfter DEF LuaAnswers
<1>8. StatesKept
    BY <1>1, <1>3 DEF StatesKept, StatesAreClosed
<1>. QED
    BY <1>1, <1>3, <1>5, <1>6, <1>7, <1>8, QuietKeeps

LEMMA othersChangeKeeps ==
    ASSUME LuaInv, NEW n \in LuaNames, othersChange(n)
    PROVE  LuaInv'
<1>. USE DEF LuaInv
<1>1. store \in LuaStores /\ changes \in Nat /\ luaStates \in Nat /\ escaped \in Nat
    BY DEF LuaTypeOK
<1>2. PICK x \in LuaStored : store' = [store EXCEPT ![n]["e"] = x]
    BY DEF othersChange
<1>3. /\ n \in StoredCollections /\ n # "TX" /\ changes' = changes + 1
      /\ UNCHANGED <<luaStates, script, answers, escaped>>
    BY DEF othersChange
<1>4. x \in [val : LuaVals, expiry : LuaExpiries]
    BY LuaAssumption DEF LuaAssumption, LuaVals, LuaExpiries
<1>5. store' \in LuaStores
    BY <1>1, <1>2, <1>4 DEF LuaStores, LuaElements
<1>6. \A m \in LuaNames : m # n => store'[m] = store[m]
    BY <1>1, <1>2 DEF LuaStores
<1>7. \A b \in LuaAnswers :
          Holds(b, store[b.name]["e"]) /\ (b.name = "TX" \/ changes' = changes)
              => Holds(b, store'[b.name]["e"])
    BY <1>1, <1>3, <1>6 DEF LuaAnswers
<1>8. StatesKept
    BY <1>1, <1>3 DEF StatesKept, StatesAreClosed
<1>9. changes' \in Nat /\ changes <= changes'
    BY <1>1, <1>3
<1>. QED
    BY <1>3, <1>5, <1>6, <1>7, <1>8, <1>9, QuietKeeps

LEMMA LuaStep ==
    ASSUME LuaInv, [NextLua]_luaVars
    PROVE  LuaInv'
<1>1. CASE loadScript \/ runScript \/ mainEnds \/ UNCHANGED luaVars
    BY <1>1, RunKeeps
<1>2. ASSUME NEW n \in LuaNames, expires(n) \/ othersChange(n)
      PROVE  LuaInv'
    BY <1>2, expiresKeeps, othersChangeKeeps
<1>3. ASSUME NEW n \in LuaNames, NEW e \in LuaElements, NEW l \in LuaTransforms, getvar(n, e, l)
      PROVE  LuaInv'
    BY <1>3, GetvarLooks, LookupKeeps
<1>4. ASSUME NEW n \in LuaNames, NEW e \in LuaElements, getvars(n, e)
      PROVE  LuaInv'
    BY <1>4, GetvarsLooks, LookupKeeps
<1>5. ASSUME NEW n \in LuaNames, NEW e \in LuaElements, NEW v \in LuaValues, setvar(n, e, v)
      PROVE  LuaInv'
    BY <1>5, SetvarStores, SetKeeps
<1>. QED
    BY <1>1, <1>2, <1>3, <1>4, <1>5 DEF NextLua, LuaElements

LEMMA LuaStarts ==
    ASSUME InitLua
    PROVE  LuaInv
<1>1. answers = << >> /\ script = "idle" /\ luaStates = 0 /\ escaped = 0 /\ changes = 0
    BY DEF InitLua
<1>2. DOMAIN answers = {} /\ answers \in Seq(LuaAnswers)
    BY <1>1
<1>3. PICK val \in {Missing, NoText, "v"}, x \in LuaStored :
          store = [n \in LuaNames |-> [e \in LuaElements |->
                      IF n \notin StoredCollections THEN LuaElement(val, "none")
                      ELSE IF e = "e" THEN x ELSE Gone]]
    BY DEF InitLua, LuaElements
<1>4. /\ LuaElement(val, "none") \in [val : LuaVals, expiry : LuaExpiries]
      /\ x \in [val : LuaVals, expiry : LuaExpiries]
      /\ Gone \in [val : LuaVals, expiry : LuaExpiries]
    BY LuaAssumption DEF LuaAssumption, LuaElement, Gone, LuaVals, LuaExpiries
<1>5. store \in LuaStores
    BY <1>3, <1>4 DEF LuaStores
<1>6. LuaTypeOK /\ StatesAreClosed
    BY <1>1, <1>2, <1>5 DEF LuaTypeOK, StatesAreClosed
<1>7. RequestIsKept
    BY <1>2, <1>3 DEF RequestIsKept, LuaElement
<1>8. RequestAsTold /\ LastSetIsStored /\ SetIsRead /\ SetIsText
    BY <1>2 DEF RequestAsTold, LastSetIsStored, SetIsRead, SetIsText
<1>. QED
    BY <1>6, <1>7, <1>8 DEF LuaInv

(* The two lookups agree because each tells the text of the variable.      *)
LEMMA LookupsAgree ==
    ASSUME LuaInv
    PROVE  GetvarsKnowsWhatGetvarKnows
<1>1. SUFFICES ASSUME NEW i \in DOMAIN answers, NEW j \in DOMAIN answers,
                      answers[i].call = "getvar", answers[j].call = "getvars",
                      answers[i].name = answers[j].name,
                      answers[i].element = answers[j].element,
                      answers[i].name \notin StoredCollections,
                      answers[i].value # UnknownName
               PROVE  /\ answers[j].value # UnknownName
                      /\ TextTold(answers[i]) = TextTold(answers[j])
    BY DEF GetvarsKnowsWhatGetvarKnows
<1>2. Looked(answers[i]) /\ Looked(answers[j])
    BY DEF LuaInv, RequestAsTold
<1>3. PICK text : text = LuaText(store[answers[i].name][answers[i].element])
    OBVIOUS
<1>4. answers[i].element \in LuaElements
    BY AnswersAreTyped DEF LuaInv, LuaAnswers
<1>5. KnownToGetvar(answers[i].name, answers[i].element) /\ Shows(answers[i].value, text)
    BY <1>1, <1>2, <1>3 DEF Looked, AnswersFor
<1>6. KnownToGetvars(answers[j].name, answers[j].element)
    BY <1>1, <1>4, <1>5, KnownAgrees
<1>7. Shows(answers[j].value, text)
    BY <1>1, <1>2, <1>3, <1>6 DEF Looked, AnswersFor
<1>8. TextTold(answers[i]) = text
    BY <1>5, ShownIsFound DEF TextTold
<1>9. answers[j].value # UnknownName /\ TextTold(answers[j]) = text
    BY <1>7, ShownIsFound DEF TextTold
<1>. QED
    BY <1>8, <1>9

(* However a script calls the library back and however it ends, Lua::run   *)
(* closes the state it opened, unless an exception passed through Lua;     *)
(* getvar and getvars tell the same text of a request; and getvar gives    *)
(* what setvar put in a stored collection, whatever other threads do to    *)
(* the rest, but for an element that expires, or that setvar found         *)
(* expired.                                                                *)
THEOREM ScriptsStayContained == SpecLua => []ScriptsAreContained
<1>1. InitLua => LuaInv
    BY LuaStarts
<1>2. LuaInv /\ [NextLua]_luaVars => LuaInv'
    BY LuaStep
<1>3. LuaInv => ScriptsAreContained
    BY LookupsAgree DEF LuaInv, ScriptsAreContained
<1>. QED
    BY <1>1, <1>2, <1>3, PTL DEF SpecLua

-----------------------------------------------------------------------------
(* The settings of a rule set: the inductive invariant.                    *)

SettingValues == Texts \cup {row.to : row \in Rows} \cup {PropertyNotSet}

TypesRecord == [set : BOOLEAN, clear : BOOLEAN, value : SUBSET MimeTypes]

OwnerSettings ==
    [value : [Tracked -> SettingValues], types : TypesRecord, components : Seq(Texts)]

FileSettings == [value : [Tracked -> SettingValues], types : TypesRecord, opens : BOOLEAN]

PropertiesTypeOK ==
    /\ reading \in Owners2 \cup {NoOwner}
    /\ props \in [Owners2 \cup {"driver"} -> OwnerSettings]
    /\ files \in [Owners2 -> Seq(FileSettings)]

(* Types that no directive set are those of no file.                       *)
UnsetTypesAreEmpty ==
    \A o \in Owners2 \cup {"driver"} :
        ~props[o].types.set => props[o].types.value = {} /\ ~props[o].types.clear

(* A rule set does not remember that a file cleared its types.             *)
ClearingIsForgotten == \A o \in Owners2 : ~props[o].types.clear

PropertiesInv ==
    /\ PropertiesTypeOK /\ UnsetTypesAreEmpty /\ ClearingIsForgotten
    /\ FirstFileWins /\ TypesSinceCleared

(* Two sequences, one after the other.                                     *)
LEMMA ConcatFacts ==
    ASSUME NEW S, NEW s \in Seq(S), NEW t \in Seq(S)
    PROVE  /\ s \o t \in Seq(S) /\ Len(s \o t) = Len(s) + Len(t)
           /\ DOMAIN (s \o t) = 1..(Len(s) + Len(t))
           /\ DOMAIN s = 1..Len(s) /\ DOMAIN t = 1..Len(t)
           /\ Len(s) \in Nat /\ Len(t) \in Nat
           /\ \A i \in DOMAIN s : i \in DOMAIN (s \o t) /\ (s \o t)[i] = s[i]
           /\ \A j \in DOMAIN t : Len(s) + j \in DOMAIN (s \o t) /\ (s \o t)[Len(s) + j] = t[j]
           /\ \A i \in DOMAIN (s \o t) :
                 i \in DOMAIN s \/ \E j \in DOMAIN t : i = Len(s) + j
<1>1. \A i \in 1..(Len(s) + Len(t)) : i \in 1..Len(s) \/ \E j \in 1..Len(t) : i = Len(s) + j
    <2>. SUFFICES ASSUME NEW i \in 1..(Len(s) + Len(t)), i \notin 1..Len(s)
                  PROVE  \E j \in 1..Len(t) : i = Len(s) + j
        OBVIOUS
    <2>1. i - Len(s) \in 1..Len(t) /\ i = Len(s) + (i - Len(s))
        OBVIOUS
    <2>. QED
        BY <2>1
<1>2. /\ s \o t \in Seq(S) /\ Len(s \o t) = Len(s) + Len(t)
      /\ DOMAIN (s \o t) = 1..(Len(s) + Len(t))
      /\ DOMAIN s = 1..Len(s) /\ DOMAIN t = 1..Len(t)
      /\ Len(s) \in Nat /\ Len(t) \in Nat
    OBVIOUS
<1>3. \A i \in DOMAIN s : i \in DOMAIN (s \o t) /\ (s \o t)[i] = s[i]
    OBVIOUS
<1>4. \A j \in DOMAIN t : Len(s) + j \in DOMAIN (s \o t) /\ (s \o t)[Len(s) + j] = t[j]
    OBVIOUS
<1>. QED
    BY <1>1, <1>2, <1>3, <1>4

(* What several files give, when more of them are read after the first.    *)
LEMMA GiversOfBoth ==
    ASSUME NEW s, NEW fs \in Seq(FileSettings), NEW gs \in Seq(FileSettings)
    PROVE  /\ \A i \in Givers(fs, s) :
                 /\ i \in Givers(fs \o gs, s) /\ i \in 1..Len(fs)
                 /\ Given((fs \o gs)[i], s) = Given(fs[i], s)
           /\ \A j \in Givers(gs, s) :
                 /\ Len(fs) + j \in Givers(fs \o gs, s) /\ j \in 1..Len(gs)
                 /\ Given((fs \o gs)[Len(fs) + j], s) = Given(gs[j], s)
           /\ \A i \in Givers(fs \o gs, s) :
                 i \in Givers(fs, s) \/ \E j \in Givers(gs, s) : i = Len(fs) + j
BY ConcatFacts DEF Givers

(* The setting of files merged after others is what MergedValue makes of   *)
(* the two.                                                                *)
LEMMA WinsMerged ==
    ASSUME NEW s, NEW v, NEW w, NEW fs \in Seq(FileSettings), NEW gs \in Seq(FileSettings),
           Wins(fs, s, v), Wins(gs, s, w)
    PROVE  Wins(fs \o gs, s, MergedValue(s, v, w))
<1>1. Len(fs) \in Nat /\ Len(gs) \in Nat
    OBVIOUS
<1>2. PICK both : both = fs \o gs
    OBVIOUS
<1>3. /\ \A i \in Givers(fs, s) :
                 /\ i \in Givers(both, s) /\ i \in 1..Len(fs)
                 /\ Given(both[i], s) = Given(fs[i], s)
      /\ \A j \in Givers(gs, s) :
                 /\ Len(fs) + j \in Givers(both, s) /\ j \in 1..Len(gs)
                 /\ Given(both[Len(fs) + j], s) = Given(gs[j], s)
      /\ \A i \in Givers(both, s) :
                 i \in Givers(fs, s) \/ \E j \in Givers(gs, s) : i = Len(fs) + j
    BY ONLY <1>2, GiversOfBoth, fs \in Seq(FileSettings), gs \in Seq(FileSettings)
<1>4. CASE Givers(fs, s) = {} /\ Givers(gs, s) = {}
    <2>1. v = PropertyNotSet /\ w = PropertyNotSet
        BY <1>4 DEF Wins
    <2>2. Givers(both, s) = {}
        BY <1>3, <1>4
    <2>. QED
        BY <1>2, <2>1, <2>2 DEF Wins, MergedValue
<1>5. CASE Givers(fs, s) # {} /\ Givers(gs, s) = {}
    <2>1. PICK i \in Givers(fs, s) :
              /\ v = Given(fs[i], s)
              /\ s \in FirstWins    => \A j \in Givers(fs, s) : i <= j
              /\ s \notin FirstWins => \A j \in Givers(fs, s) : j <= i
        BY <1>5 DEF Wins
    <2>2. MergedValue(s, v, w) = v
        BY <1>5, <2>1 DEF Wins, MergedValue, Givers
    <2>3. Givers(both, s) = Givers(fs, s) /\ Given(both[i], s) = v
        BY <1>3, <1>5, <2>1
    <2>. QED
        BY <1>2, <2>1, <2>2, <2>3 DEF Wins
<1>6. CASE Givers(fs, s) = {} /\ Givers(gs, s) # {}
    <2>1. PICK j \in Givers(gs, s) :
              /\ w = Given(gs[j], s)
              /\ s \in FirstWins    => \A k \in Givers(gs, s) : j <= k
              /\ s \notin FirstWins => \A k \in Givers(gs, s) : k <= j
        BY <1>6 DEF Wins
    <2>2. MergedValue(s, v, w) = w
        BY <1>6, <2>1 DEF Wins, MergedValue, Givers
    <2>3. Len(fs) + j \in Givers(both, s) /\ Given(both[Len(fs) + j], s) = w /\ j \in Nat
        BY <1>3, <2>1
    <2>4. \A i \in Givers(both, s) : \E k \in Givers(gs, s) : i = Len(fs) + k /\ k \in Nat
        BY <1>3, <1>6
    <2>5. s \in FirstWins => \A i \in Givers(both, s) : Len(fs) + j <= i
        BY <1>1, <2>1, <2>3, <2>4
    <2>6. s \notin FirstWins => \A i \in Givers(both, s) : i <= Len(fs) + j
        BY <1>1, <2>1, <2>3, <2>4
    <2>. QED
        BY <1>2, <2>2, <2>3, <2>5, <2>6 DEF Wins
<1>7. CASE Givers(fs, s) # {} /\ Givers(gs, s) # {}
    <2>1. PICK i \in Givers(fs, s) :
              /\ v = Given(fs[i], s)
              /\ s \in FirstWins    => \A j \in Givers(fs, s) : i <= j
        BY <1>7 DEF Wins
    <2>2. PICK j \in Givers(gs, s) :
              /\ w = Given(gs[j], s)
              /\ s \notin FirstWins => \A k \in Givers(gs, s) : k <= j
        BY <1>7 DEF Wins
    <2>3. v # PropertyNotSet /\ w # PropertyNotSet
        BY <2>1, <2>2 DEF Givers
    <2>4. CASE s \in FirstWins
        <3>1. MergedValue(s, v, w) = v /\ i \in Givers(both, s) /\ Given(both[i], s) = v
            BY <1>3, <2>1, <2>3, <2>4 DEF MergedValue
        <3>2. \A k \in Givers(both, s) : i <= k
            BY <1>1, <1>3, <2>1, <2>4
        <3>. QED
            BY <1>2, <2>4, <3>1, <3>2 DEF Wins
    <2>5. CASE s \notin FirstWins
        <3>1. /\ MergedValue(s, v, w) = w /\ Len(fs) + j \in Givers(both, s)
              /\ Given(both[Len(fs) + j], s) = w
            BY <1>3, <2>2, <2>3, <2>5 DEF MergedValue
        <3>2. \A k \in Givers(both, s) : k <= Len(fs) + j
            BY <1>1, <1>3, <2>2, <2>5
        <3>. QED
            BY <1>2, <2>5, <3>1, <3>2 DEF Wins
    <2>. QED
        BY <2>4, <2>5
<1>. QED
    BY <1>4, <1>5, <1>6, <1>7

(* Of one file a setting is the one it gives.                              *)
LEMMA WinsAlone ==
    ASSUME NEW s, NEW file \in FileSettings
    PROVE  Wins(<<file>>, s, Given(file, s))
<1>1. DOMAIN <<file>> = {1} /\ <<file>>[1] = file
    OBVIOUS
<1>2. PICK fs : fs = <<file>>
    OBVIOUS
<1>3. DOMAIN fs = {1} /\ fs[1] = file
    BY <1>1, <1>2
<1>4. Wins(fs, s, Given(file, s))
    BY ONLY <1>3 DEF Wins, Givers
<1>. QED
    BY <1>2, <1>4

(* The value a merge brings: the debug log stays out when the audit log    *)
(* cannot be opened.                                                       *)
Brought(s, from, opens) ==
    IF s \in DebugLogSettings /\ ~opens THEN PropertyNotSet ELSE from.value[s]

LEMMA MergeBrings ==
    ASSUME NEW s \in Tracked, NEW to, NEW from, NEW opens
    PROVE  mergeProperties(to, from, opens).value[s] = MergedValue(s, to.value[s], Brought(s, from, opens))
BY DEF mergeProperties, Brought, MergedValue

(* The files of another set: its debug log stays out of each of them too.  *)
LEMMA WinsAgain ==
    ASSUME NEW s, NEW from, NEW opens \in BOOLEAN, NEW fs \in Seq(FileSettings),
           NEW gs \in Seq(FileSettings), Wins(fs, s, from.value[s]),
           DOMAIN gs = DOMAIN fs,
           \A i \in DOMAIN fs : gs[i].value = fs[i].value /\ gs[i].opens = (fs[i].opens /\ opens)
    PROVE  Wins(gs, s, Brought(s, from, opens))
<1>1. CASE s \in DebugLogSettings /\ ~opens
    <2>1. \A i \in DOMAIN gs : Given(gs[i], s) = PropertyNotSet
        BY <1>1 DEF Given
    <2>2. Givers(gs, s) = {}
        BY <2>1 DEF Givers
    <2>. QED
        BY <1>1, <2>2 DEF Wins, Brought
<1>2. CASE ~(s \in DebugLogSettings /\ ~opens)
    <2>1. \A i \in DOMAIN gs : Given(gs[i], s) = Given(fs[i], s)
        BY <1>2 DEF Given
    <2>2. Givers(gs, s) = Givers(fs, s) /\ Givers(gs, s) \subseteq DOMAIN gs
        BY <2>1 DEF Givers
    <2>3. Brought(s, from, opens) = from.value[s]
        BY <1>2 DEF Brought
    <2>. QED
        BY <2>1, <2>2, <2>3 DEF Wins
<1>. QED
    BY <1>1, <1>2

(* The types of files merged after others.                                 *)
LEMMA TypesMerged ==
    ASSUME NEW fs \in Seq(FileSettings), NEW gs \in Seq(FileSettings), NEW t \in TypesRecord,
           NEW to \in TypesRecord, to.value = TypesSince(fs),
           gs # << >>, \A i \in DOMAIN gs : gs[i].types = t,
           t.clear => gs = <<gs[1]>>,
           ~t.set => t.value = {} /\ ~t.clear
    PROVE  MergedTypes(to, t).value = TypesSince(fs \o gs)
<1>1. PICK both : both = fs \o gs
    OBVIOUS
<1>2. /\ DOMAIN fs = 1..Len(fs) /\ DOMAIN gs = 1..Len(gs)
      /\ Len(fs) \in Nat /\ Len(gs) \in Nat /\ Len(gs) # 0
      /\ \A i \in DOMAIN fs : i \in DOMAIN both /\ both[i] = fs[i]
      /\ \A j \in DOMAIN gs : Len(fs) + j \in DOMAIN both /\ both[Len(fs) + j] = gs[j]
      /\ \A i \in DOMAIN both : i \in DOMAIN fs \/ \E j \in DOMAIN gs : i = Len(fs) + j
    <2>1. Len(gs) # 0
        OBVIOUS
    <2>. QED
        BY ONLY <1>1, <2>1, ConcatFacts, fs \in Seq(FileSettings), gs \in Seq(FileSettings)
<1>3. 1 \in DOMAIN gs
    BY ONLY <1>2
<1>4. CASE t.clear
    <2>1. t.set /\ gs = <<gs[1]>>
        BY <1>4
    <2>2. Len(gs) = 1
        BY ONLY <2>1
    <2>3. both[Len(fs) + 1].types.clear /\ Len(fs) + 1 \in DOMAIN both
        BY <1>2, <1>3, <1>4
    <2>4. \A i \in DOMAIN both : i <= Len(fs) + 1
        BY ONLY <1>2, <2>2
    <2>5. TypesSince(both) = {}
        BY ONLY <2>3, <2>4 DEF TypesSince
    <2>6. MergedTypes(to, t).value = {}
        BY <1>4, <2>1 DEF MergedTypes, TypesRecord
    <2>. QED
        BY <1>1, <2>5, <2>6
<1>5. CASE ~t.clear
    <2>1. MergedTypes(to, t).value = to.value \cup t.value
        BY <1>5 DEF MergedTypes, TypesRecord
    <2>2. \A j \in DOMAIN gs : both[Len(fs) + j].types = t /\ ~both[Len(fs) + j].types.clear
        BY <1>2, <1>5
    <2>3. PICK old : old = {j \in DOMAIN fs : \A k \in DOMAIN fs : j <= k => ~fs[k].types.clear}
        OBVIOUS
    <2>4. PICK new : new = {j \in DOMAIN both : \A k \in DOMAIN both : j <= k => ~both[k].types.clear}
        OBVIOUS
    <2>5. old \subseteq new
        BY <1>2, <2>2, <2>3, <2>4
    <2>6. \A j \in DOMAIN gs : Len(fs) + j \in new
        BY <1>2, <2>2, <2>4
    <2>7. \A i \in new : i \in old \/ \E j \in DOMAIN gs : i = Len(fs) + j
        BY <1>2, <2>3, <2>4
    <2>8. TypesSince(both) = UNION {both[i].types.value : i \in new}
        BY <2>4 DEF TypesSince
    <2>9. TypesSince(fs) = UNION {fs[i].types.value : i \in old}
        BY <2>3 DEF TypesSince
    <2>10. \A i \in old : both[i].types.value = fs[i].types.value
        BY <1>2, <2>3
    <2>11. \A x : x \in TypesSince(both) => x \in TypesSince(fs) \/ x \in t.value
        <3>. SUFFICES ASSUME NEW x \in TypesSince(both)
                      PROVE  x \in TypesSince(fs) \/ x \in t.value
            OBVIOUS
        <3>1. PICK i \in new : x \in both[i].types.value
            BY <2>8
        <3>2. CASE i \in old
            BY <2>9, <2>10, <3>1, <3>2
        <3>3. CASE \E j \in DOMAIN gs : i = Len(fs) + j
            BY <2>2, <3>1, <3>3
        <3>. QED
            BY <2>7, <3>2, <3>3
    <2>12. \A x : x \in TypesSince(fs) => x \in TypesSince(both)
        BY <2>5, <2>8, <2>9, <2>10
    <2>13. \A x : x \in t.value => x \in TypesSince(both)
        BY <1>3, <2>2, <2>6, <2>8
    <2>14. TypesSince(both) = TypesSince(fs) \cup t.value
        BY <2>11, <2>12, <2>13
    <2>. QED
        BY <1>1, <2>1, <2>14
<1>. QED
    BY <1>4, <1>5

-----------------------------------------------------------------------------
(* The steps.                                                              *)

(* A step that changes the driver's properties alone.                      *)
DriverChanges(p) ==
    /\ props' = [props EXCEPT !["driver"] = p]
    /\ p \in OwnerSettings
    /\ ~p.types.set => p.types.value = {} /\ ~p.types.clear
    /\ reading' \in Owners2 \cup {NoOwner}
    /\ UNCHANGED files

LEMMA DriverChangesKeep ==
    ASSUME PropertiesInv, NEW p, DriverChanges(p)
    PROVE  PropertiesInv'
<1>1. \A o \in Owners2 : props'[o] = props[o] /\ files'[o] = files[o]
    BY OwnersAssumption DEF DriverChanges, PropertiesInv, PropertiesTypeOK
<1>2. props'["driver"] = p
    BY DEF DriverChanges, PropertiesInv, PropertiesTypeOK
<1>3. PropertiesTypeOK'
    BY DEF DriverChanges, PropertiesInv, PropertiesTypeOK
<1>4. UnsetTypesAreEmpty' /\ ClearingIsForgotten'
    BY <1>1, <1>2 DEF DriverChanges, PropertiesInv, UnsetTypesAreEmpty, ClearingIsForgotten
<1>5. FirstFileWins' /\ TypesSinceCleared'
    BY <1>1 DEF PropertiesInv, FirstFileWins, TypesSinceCleared
<1>. QED
    BY <1>3, <1>4, <1>5 DEF PropertiesInv

(* What a directive changes of the driver's properties.                    *)
LEMMA ValueChanged ==
    ASSUME NEW p \in OwnerSettings, NEW s \in Tracked, NEW x \in SettingValues
    PROVE  /\ [p EXCEPT !.value[s] = x] \in OwnerSettings
           /\ [p EXCEPT !.value[s] = x].types = p.types
<1>1. PICK w : w = [p.value EXCEPT ![s] = x]
    OBVIOUS
<1>2. w \in [Tracked -> SettingValues]
    BY <1>1 DEF OwnerSettings
<1>3. [p EXCEPT !.value = w] \in OwnerSettings /\ [p EXCEPT !.value = w].types = p.types
    BY <1>2 DEF OwnerSettings
<1>4. [p EXCEPT !.value[s] = x] = [p EXCEPT !.value = w]
    BY <1>1 DEF OwnerSettings
<1>. QED
    BY <1>3, <1>4

LEMMA SettingsChanged ==
    ASSUME NEW p \in OwnerSettings
    PROVE  /\ \A t \in TypesRecord : /\ [p EXCEPT !.types = t] \in OwnerSettings
                                    /\ [p EXCEPT !.types = t].types = t
           /\ \A x \in Texts :
                 /\ [p EXCEPT !.components = Append(@, x)] \in OwnerSettings
                 /\ [p EXCEPT !.components = Append(@, x)].types = p.types
           /\ \A m \in MimeTypes :
                 LET q == [p EXCEPT !.types.set = TRUE, !.types.value = @ \cup {m}]
                 IN  q \in OwnerSettings /\ q.types.set
<1>1. ASSUME NEW t \in TypesRecord
      PROVE  [p EXCEPT !.types = t] \in OwnerSettings /\ [p EXCEPT !.types = t].types = t
    BY DEF OwnerSettings
<1>2. ASSUME NEW x \in Texts
      PROVE  /\ [p EXCEPT !.components = Append(@, x)] \in OwnerSettings
             /\ [p EXCEPT !.components = Append(@, x)].types = p.types
    <2>1. PICK c : c = Append(p.components, x)
        OBVIOUS
    <2>2. c \in Seq(Texts)
        BY <2>1 DEF OwnerSettings
    <2>3. [p EXCEPT !.components = c] \in OwnerSettings /\ [p EXCEPT !.components = c].types = p.types
        BY <2>2 DEF OwnerSettings
    <2>. QED
        BY <2>1, <2>3
<1>3. ASSUME NEW m \in MimeTypes
      PROVE  LET q == [p EXCEPT !.types.set = TRUE, !.types.value = @ \cup {m}]
             IN  q \in OwnerSettings /\ q.types.set
    <2>1. PICK t : t = [p.types EXCEPT !.set = TRUE, !.value = @ \cup {m}]
        OBVIOUS
    <2>2. t \in TypesRecord /\ t.set
        BY <2>1 DEF OwnerSettings, TypesRecord
    <2>3. [p EXCEPT !.types.set = TRUE, !.types.value = @ \cup {m}] = [p EXCEPT !.types = t]
        BY <2>1 DEF OwnerSettings, TypesRecord
    <2>. QED
        BY <1>1, <2>2, <2>3
<1>. QED
    BY <1>1, <1>2, <1>3

LEMMA ReadsKeeps ==
    ASSUME PropertiesInv,
           \/ \E o \in Owners2 : loadProperties(o)
           \/ setProperty
           \/ \E t \in MimeTypes : addMimeTypes({t})
           \/ clearMimeTypes
           \/ \E c \in Texts : addComponent(c)
    PROVE  PropertiesInv'
<1>1. /\ props["driver"] \in OwnerSettings
      /\ ~props["driver"].types.set =>
             props["driver"].types.value = {} /\ ~props["driver"].types.clear
      /\ reading \in Owners2 \cup {NoOwner}
    BY DEF PropertiesInv, PropertiesTypeOK, UnsetTypesAreEmpty
<1>2. ASSUME NEW p \in OwnerSettings, Reads(p), p.types = props["driver"].types \/ p.types.set
      PROVE  PropertiesInv'
    <2>1. ~p.types.set => p.types.value = {} /\ ~p.types.clear
        BY <1>1, <1>2
    <2>2. DriverChanges(p)
        BY <1>1, <1>2, <2>1 DEF Reads, DriverChanges
    <2>. QED
        BY <2>2, DriverChangesKeep
<1>3. CASE \E o \in Owners2 : loadProperties(o)
    <2>1. DriverChanges(NoProperties)
        BY <1>3 DEF loadProperties, DriverChanges, NoProperties, NoTypes, SettingValues,
                    OwnerSettings, TypesRecord
    <2>. QED
        BY <2>1, DriverChangesKeep
<1>4. CASE setProperty
    <2>1. PICK row \in Rows : \E x \in Texts \cup {row.to} :
              /\ row.property \in Tracked
              /\ Reads([props["driver"] EXCEPT !.value[row.property] = x])
        BY <1>4 DEF setProperty
    <2>2. PICK x \in Texts \cup {row.to} :
              /\ row.property \in Tracked
              /\ Reads([props["driver"] EXCEPT !.value[row.property] = x])
        BY <2>1
    <2>3. x \in SettingValues
        BY DEF SettingValues
    <2>4. PICK p : p = [props["driver"] EXCEPT !.value[row.property] = x]
        OBVIOUS
    <2>5. p \in OwnerSettings /\ p.types = props["driver"].types
        BY ONLY <1>1, <2>2, <2>3, <2>4, ValueChanged
    <2>. QED
        BY <1>2, <2>2, <2>4, <2>5
<1>5. ASSUME NEW m \in MimeTypes, addMimeTypes({m})
      PROVE  PropertiesInv'
    BY <1>1, <1>2, <1>5, SettingsChanged DEF addMimeTypes
<1>6. CASE clearMimeTypes
    <2>1. PICK t : t = [set |-> TRUE, clear |-> TRUE, value |-> {}]
        OBVIOUS
    <2>2. t \in TypesRecord /\ t.set
        BY <2>1 DEF TypesRecord
    <2>3. Reads([props["driver"] EXCEPT !.types = t])
        BY <1>6, <2>1 DEF clearMimeTypes
    <2>. QED
        BY <1>1, <1>2, <2>2, <2>3, SettingsChanged
<1>7. ASSUME NEW x \in Texts, addComponent(x)
      PROVE  PropertiesInv'
    BY <1>1, <1>2, <1>7, SettingsChanged DEF addComponent
<1>. QED
    BY <1>3, <1>4, <1>5, <1>6, <1>7

(* A merge: of what from has, and of the files it has it from.             *)
Merges(o, from, opens, gs) ==
    /\ o \in Owners2 /\ from \in OwnerSettings /\ gs \in Seq(FileSettings) /\ gs # << >>
    /\ props' = [props EXCEPT ![o] = mergeProperties(@, from, opens)]
    /\ files' = [files EXCEPT ![o] = @ \o gs]
    /\ \A s \in Tracked : Wins(gs, s, Brought(s, from, opens))
    /\ \A i \in DOMAIN gs : gs[i].types = from.types
    /\ from.types.clear => gs = <<gs[1]>>
    /\ ~from.types.set => from.types.value = {} /\ ~from.types.clear
    /\ reading' \in Owners2 \cup {NoOwner}

LEMMA MergedIsTyped ==
    ASSUME NEW to \in OwnerSettings, NEW from \in OwnerSettings, NEW opens,
           ~to.types.clear, ~to.types.set => to.types.value = {}
    PROVE  /\ mergeProperties(to, from, opens) \in OwnerSettings
           /\ mergeProperties(to, from, opens).types = MergedTypes(to.types, from.types)
           /\ ~MergedTypes(to.types, from.types).clear
           /\ ~MergedTypes(to.types, from.types).set => MergedTypes(to.types, from.types).value = {}
<1>1. PICK t : t = MergedTypes(to.types, from.types)
    OBVIOUS
<1>2. to.types \in TypesRecord /\ from.types \in TypesRecord
    BY DEF OwnerSettings
<1>3. t \in TypesRecord /\ ~t.clear /\ (~t.set => t.value = {})
    BY <1>1, <1>2 DEF MergedTypes, TypesRecord
<1>4. \A s \in Tracked : MergedValue(s, to.value[s], from.value[s]) \in SettingValues
                         /\ to.value[s] \in SettingValues
    BY DEF MergedValue, OwnerSettings
<1>5. to.components \o from.components \in Seq(Texts)
    BY DEF OwnerSettings
<1>6. mergeProperties(to, from, opens) \in OwnerSettings
    BY <1>1, <1>3, <1>4, <1>5 DEF mergeProperties, OwnerSettings
<1>7. mergeProperties(to, from, opens).types = t
    BY <1>1 DEF mergeProperties
<1>. QED
    BY <1>1, <1>3, <1>6, <1>7

LEMMA MergesKeeps ==
    ASSUME PropertiesInv, NEW o, NEW from, NEW opens, NEW gs, Merges(o, from, opens, gs)
    PROVE  PropertiesInv'
<1>1. /\ props \in [Owners2 \cup {"driver"} -> OwnerSettings]
      /\ files \in [Owners2 -> Seq(FileSettings)] /\ o \in Owners2
      /\ from \in OwnerSettings /\ gs \in Seq(FileSettings)
    BY DEF PropertiesInv, PropertiesTypeOK, Merges
<1>2. PICK to : to = props[o]
    OBVIOUS
<1>3. PICK fs : fs = files[o]
    OBVIOUS
<1>4. /\ to \in OwnerSettings /\ fs \in Seq(FileSettings)
      /\ ~to.types.clear /\ (~to.types.set => to.types.value = {})
    BY <1>1, <1>2, <1>3 DEF PropertiesInv, UnsetTypesAreEmpty, ClearingIsForgotten
<1>5. PICK m : m = mergeProperties(to, from, opens)
    OBVIOUS
<1>6. /\ m \in OwnerSettings /\ m.types = MergedTypes(to.types, from.types)
      /\ ~m.types.clear /\ (~m.types.set => m.types.value = {})
    BY ONLY <1>1, <1>4, <1>5, MergedIsTyped, ZenonT(60)
<1>7. props' = [props EXCEPT ![o] = m] /\ files' = [files EXCEPT ![o] = fs \o gs]
    BY <1>2, <1>3, <1>5 DEF Merges
<1>8. /\ props'[o] = m /\ files'[o] = fs \o gs
      /\ \A p \in Owners2 \cup {"driver"} : p # o => props'[p] = props[p]
      /\ \A p \in Owners2 : p # o => files'[p] = files[p]
    BY ONLY <1>1, <1>7
<1>9. PropertiesTypeOK'
    <2>1. fs \o gs \in Seq(FileSettings)
        BY <1>1, <1>4
    <2>2. /\ props' \in [Owners2 \cup {"driver"} -> OwnerSettings]
          /\ files' \in [Owners2 -> Seq(FileSettings)]
        BY ONLY <1>1, <1>6, <1>7, <2>1
    <2>. QED
        BY <2>2 DEF PropertiesTypeOK, Merges
<1>10. UnsetTypesAreEmpty' /\ ClearingIsForgotten'
    BY <1>1, <1>6, <1>8 DEF PropertiesInv, UnsetTypesAreEmpty, ClearingIsForgotten
<1>11. FirstFileWins'
    <2>1. ASSUME NEW s \in Tracked
          PROVE  Wins(fs \o gs, s, m.value[s])
        <3>1. PICK v : v = to.value[s]
            OBVIOUS
        <3>2. PICK w : w = Brought(s, from, opens)
            OBVIOUS
        <3>3. Wins(fs, s, v) /\ Wins(gs, s, w)
            BY <1>1, <1>2, <1>3, <3>1, <3>2 DEF PropertiesInv, FirstFileWins, Merges
        <3>4. m.value[s] = MergedValue(s, v, w)
            BY <1>5, <3>1, <3>2, MergeBrings
        <3>. QED
            BY ONLY <1>1, <1>4, <3>3, <3>4, WinsMerged
    <2>2. ASSUME NEW p \in Owners2, NEW s \in Tracked
          PROVE  Wins(files'[p], s, props'[p].value[s])
        <3>1. CASE p = o
            BY <1>8, <2>1, <3>1
        <3>2. CASE p # o
            BY <1>8, <3>2 DEF PropertiesInv, FirstFileWins
        <3>. QED
            BY <3>1, <3>2
    <2>. QED
        BY <2>2 DEF FirstFileWins
<1>12. TypesSinceCleared'
    <2>1. m.types.value = TypesSince(fs \o gs)
        <3>1. to.types \in TypesRecord /\ from.types \in TypesRecord
            BY <1>1, <1>4 DEF OwnerSettings
        <3>2. to.types.value = TypesSince(fs)
            BY <1>1, <1>2, <1>3 DEF PropertiesInv, TypesSinceCleared
        <3>3. /\ gs # << >> /\ \A i \in DOMAIN gs : gs[i].types = from.types
              /\ from.types.clear => gs = <<gs[1]>>
              /\ ~from.types.set => from.types.value = {} /\ ~from.types.clear
            BY DEF Merges
        <3>4. PICK u : u = to.types
            OBVIOUS
        <3>5. PICK t : t = from.types
            OBVIOUS
        <3>6. u \in TypesRecord /\ t \in TypesRecord /\ u.value = TypesSince(fs)
            BY ONLY <3>1, <3>2, <3>4, <3>5
        <3>7. /\ gs # << >> /\ \A i \in DOMAIN gs : gs[i].types = t
              /\ t.clear => gs = <<gs[1]>>
              /\ ~t.set => t.value = {} /\ ~t.clear
            BY ONLY <3>3, <3>5
        <3>8. MergedTypes(u, t).value = TypesSince(fs \o gs)
            BY ONLY <1>1, <1>4, <3>6, <3>7, TypesMerged
        <3>. QED
            BY <1>6, <3>4, <3>5, <3>8
    <2>2. \A p \in Owners2 : props'[p].types.value = TypesSince(files'[p])
        BY <1>8, <2>1 DEF PropertiesInv, TypesSinceCleared
    <2>. QED
        BY <2>2 DEF TypesSinceCleared
<1>. QED
    BY <1>9, <1>10, <1>11, <1>12 DEF PropertiesInv

LEMMA mergeDriverKeeps ==
    ASSUME PropertiesInv, mergeDriver
    PROVE  PropertiesInv'
<1>1. PICK opens \in BOOLEAN :
          /\ props' = [props EXCEPT ![reading] = mergeProperties(@, props["driver"], opens)]
          /\ files' = [files EXCEPT ![reading] =
                          Append(@, [value |-> props["driver"].value,
                                     types |-> props["driver"].types, opens |-> opens])]
    BY DEF mergeDriver
<1>2. PICK from : from = props["driver"]
    OBVIOUS
<1>3. PICK file : file = [value |-> from.value, types |-> from.types, opens |-> opens]
    OBVIOUS
<1>4. /\ from \in OwnerSettings /\ reading \in Owners2
      /\ files \in [Owners2 -> Seq(FileSettings)]
      /\ ~from.types.set => from.types.value = {} /\ ~from.types.clear
    BY <1>2 DEF PropertiesInv, PropertiesTypeOK, UnsetTypesAreEmpty, mergeDriver
<1>5. file \in FileSettings /\ file.types = from.types
    BY <1>3, <1>4 DEF OwnerSettings, FileSettings
<1>6. PICK gs : gs = <<file>>
    OBVIOUS
<1>7. gs \in Seq(FileSettings) /\ gs # << >> /\ DOMAIN gs = {1} /\ gs[1] = file
    BY <1>5, <1>6
<1>8. Append(files[reading], file) = files[reading] \o gs
    BY <1>4, <1>5, <1>6
<1>9. \A s \in Tracked : Wins(gs, s, Brought(s, from, opens))
    <2>1. SUFFICES ASSUME NEW s \in Tracked
                   PROVE  Wins(gs, s, Brought(s, from, opens))
        OBVIOUS
    <2>2. Brought(s, from, opens) = Given(file, s)
        BY <1>3 DEF Brought, Given
    <2>. QED
        BY <1>5, <1>6, <2>2, WinsAlone
<1>10. reading' \in Owners2 \cup {NoOwner}
    BY DEF mergeDriver
<1>11. Merges(reading, from, opens, gs)
    BY <1>1, <1>2, <1>3, <1>4, <1>5, <1>6, <1>7, <1>8, <1>9, <1>10 DEF Merges
<1>. QED
    BY <1>11, MergesKeeps

LEMMA mergeSetsKeeps ==
    ASSUME PropertiesInv, NEW o \in Owners2, NEW p \in Owners2, mergeSets(o, p)
    PROVE  PropertiesInv'
<1>1. PICK from : from = props[p]
    OBVIOUS
<1>2. PICK fs : fs = files[p]
    OBVIOUS
<1>3. PICK opens \in BOOLEAN :
          /\ props' = [props EXCEPT ![o] = mergeProperties(@, from, opens)]
          /\ files' = [files EXCEPT ![o] =
                          @ \o [i \in 1..Len(fs) |->
                                   [fs[i] EXCEPT !.opens = @ /\ opens, !.types = from.types]]]
    BY <1>1, <1>2 DEF mergeSets
<1>4. PICK gs : gs = [i \in 1..Len(fs) |->
                         [fs[i] EXCEPT !.opens = @ /\ opens, !.types = from.types]]
    OBVIOUS
<1>5. /\ from \in OwnerSettings /\ fs \in Seq(FileSettings) /\ fs # << >>
      /\ ~from.types.set => from.types.value = {}
      /\ ~from.types.clear /\ reading' \in Owners2 \cup {NoOwner}
    BY <1>1, <1>2 DEF PropertiesInv, PropertiesTypeOK, UnsetTypesAreEmpty, ClearingIsForgotten,
                      mergeSets
<1>6. \A i \in 1..Len(fs) :
          /\ gs[i] \in FileSettings /\ gs[i].value = fs[i].value
          /\ gs[i].opens = (fs[i].opens /\ opens) /\ gs[i].types = from.types
    <2>1. SUFFICES ASSUME NEW i \in 1..Len(fs)
                   PROVE  /\ gs[i] \in FileSettings /\ gs[i].value = fs[i].value
                          /\ gs[i].opens = (fs[i].opens /\ opens) /\ gs[i].types = from.types
        OBVIOUS
    <2>2. PICK file : file = fs[i]
        OBVIOUS
    <2>3. file \in FileSettings
        BY <1>5, <2>1, <2>2
    <2>4. PICK b : b = (file.opens /\ opens)
        OBVIOUS
    <2>5. b \in BOOLEAN /\ from.types \in TypesRecord
        BY <1>5, <2>4 DEF OwnerSettings
    <2>6. gs[i] = [file EXCEPT !.opens = b, !.types = from.types]
        BY <1>4, <2>1, <2>2, <2>4
    <2>7. /\ gs[i] \in FileSettings /\ gs[i].value = file.value
          /\ gs[i].opens = b /\ gs[i].types = from.types
        BY ONLY <2>3, <2>5, <2>6 DEF FileSettings
    <2>. QED
        BY ONLY <2>2, <2>4, <2>7
<1>7. gs \in Seq(FileSettings) /\ DOMAIN gs = DOMAIN fs /\ DOMAIN fs = 1..Len(fs) /\ gs # << >>
    <2>1. DOMAIN gs = 1..Len(fs) /\ Len(fs) \in Nat /\ DOMAIN fs = 1..Len(fs) /\ Len(fs) # 0
        <3>1. Len(fs) \in Nat /\ DOMAIN fs = 1..Len(fs) /\ Len(fs) # 0
            BY ONLY <1>5
        <3>. QED
            BY <1>4, <3>1
    <2>2. gs \in [1..Len(fs) -> FileSettings]
        BY <1>4, <1>6
    <2>3. gs \in Seq(FileSettings)
        BY <2>1, <2>2
    <2>. QED
        BY ONLY <2>1, <2>3
<1>8. \A s \in Tracked : Wins(gs, s, Brought(s, from, opens))
    <2>1. SUFFICES ASSUME NEW s \in Tracked
                   PROVE  Wins(gs, s, Brought(s, from, opens))
        OBVIOUS
    <2>2. Wins(fs, s, from.value[s])
        BY <1>1, <1>2 DEF PropertiesInv, FirstFileWins
    <2>. QED
        BY ONLY <1>3, <1>5, <1>6, <1>7, <2>2, WinsAgain
<1>9. \A i \in DOMAIN gs : gs[i].types = from.types
    BY <1>6, <1>7
<1>10. files' = [files EXCEPT ![o] = @ \o gs]
    BY <1>3, <1>4
<1>11. Merges(o, from, opens, gs)
    BY <1>3, <1>5, <1>7, <1>8, <1>9, <1>10 DEF Merges
<1>. QED
    BY <1>11, MergesKeeps

LEMMA PropertiesStart ==
    ASSUME InitProperties
    PROVE  PropertiesInv
<1>1. \A o \in Owners2 : files[o] = << >> /\ props[o] = NoProperties
    BY DEF InitProperties
<1>2. NoProperties \in OwnerSettings
    BY DEF NoProperties, NoTypes, OwnerSettings, SettingValues, TypesRecord
<1>3. PropertiesTypeOK
    BY <1>2 DEF InitProperties, PropertiesTypeOK
<1>4. UnsetTypesAreEmpty /\ ClearingIsForgotten
    BY OwnersAssumption DEF InitProperties, UnsetTypesAreEmpty, ClearingIsForgotten, NoProperties,
                            NoTypes
<1>5. FirstFileWins
    BY <1>1 DEF FirstFileWins, Wins, Givers, NoProperties
<1>6. TypesSinceCleared
    BY <1>1 DEF TypesSinceCleared, TypesSince, NoProperties, NoTypes
<1>. QED
    BY <1>3, <1>4, <1>5, <1>6 DEF PropertiesInv

LEMMA PropertiesStep ==
    ASSUME PropertiesInv, [NextProperties]_propertiesVars
    PROVE  PropertiesInv'
<1>1. CASE refuseFile \/ UNCHANGED propertiesVars
    <2>1. UNCHANGED <<props, files>> /\ reading' \in Owners2 \cup {NoOwner}
        BY <1>1 DEF refuseFile, propertiesVars, PropertiesInv, PropertiesTypeOK
    <2>. QED
        BY <2>1 DEF PropertiesInv, PropertiesTypeOK, UnsetTypesAreEmpty, ClearingIsForgotten,
                    FirstFileWins, TypesSinceCleared
<1>2. CASE mergeDriver
    BY <1>2, mergeDriverKeeps
<1>3. ASSUME NEW o \in Owners2, NEW p \in Owners2, mergeSets(o, p)
      PROVE  PropertiesInv'
    BY <1>3, mergeSetsKeeps
<1>. QED
    BY <1>1, <1>2, <1>3, ReadsKeeps DEF NextProperties

(* However files are loaded into rule sets and rule sets merged, each      *)
(* setting of a rule set is the one of the first file that gives it (the   *)
(* unicode map that of the last), and the types of bodies are those of the *)
(* files since the last one that clears them (mergeProperties).            *)
THEOREM SettingsAreOfFiles == SpecProperties => []SettingsOfFiles
<1>1. InitProperties => PropertiesInv
    BY PropertiesStart
<1>2. PropertiesInv /\ [NextProperties]_propertiesVars => PropertiesInv'
    BY PropertiesStep
<1>3. PropertiesInv => SettingsOfFiles
    BY DEF PropertiesInv, SettingsOfFiles
<1>. QED
    BY <1>1, <1>2, <1>3, PTL DEF SpecProperties

-----------------------------------------------------------------------------
(* Targets: the inductive invariant.                                       *)

(* A directive or an action names rules that have what it names.           *)
Directed(x) ==
    \/ x.by = "id" /\ x.of \in Ids
    \/ x.by = "tag" /\ x.of \in Tags
    \/ x.by = "msg" /\ x.of \in Msgs

TargetsTypeOK ==
    /\ DOMAIN lists = DOMAIN TargetRules /\ DOMAIN written = DOMAIN TargetRules
    /\ \A r \in DOMAIN TargetRules : lists[r] \in RuleLists[r] \cup {{}}
    /\ running \in DOMAIN TargetRules \cup {NoRule}
    /\ \A u \in updates : Directed(u)
    /\ \A x \in ctls : Directed(x)

(* The parser leaves a rule the variables of the list it was written with. *)
WrittenIsRead == \A r \in DOMAIN TargetRules : written[r] = variables(lists[r])

(* Between two chains nothing has matched, and before a rule is asked      *)
(* nothing was inspected.                                                  *)
MatchesAreCleaned == (running = NoRule => matched = {}) /\ (asked = {} => seen = {})

(* What a rule is to inspect, where the ctl actions are those of a.        *)
IsTarget(a, value) == (IsAdded(a, value) \/ IsLeft(a, value)) /\ ~TakesValue(a, value)

SeenWereTargets == \A s \in seen : IsTarget(s, s.value)

TargetsWereSeen ==
    \A a \in asked : \A value :
        IsTarget(a, value) => [rule |-> a.rule, value |-> value, ctls |-> a.ctls] \in seen

TargetsInv ==
    /\ TargetsTypeOK /\ WrittenIsRead /\ MatchesAreCleaned
    /\ SeenWereTargets /\ TargetsWereSeen /\ MatchedWasInspected

-----------------------------------------------------------------------------
(* Facts about targets.                                                    *)

(* Only a rule with an id of its own is named by id.                       *)
LEMMA MeantIsConcerned ==
    ASSUME NEW x, Directed(x), NEW r \in DOMAIN TargetRules
    PROVE  IsMeant(x, r) <=> Concerns(x, r)
<1>1. CASE x.by = "id"
    <2>1. x.of \in Ids /\ x.of # 0
        BY <1>1 DEF Directed, Ids
    <2>2. x.of = TargetRules[r].id => TargetRules[r].parent = NoRule
        BY <2>1, RuleAssumption DEF RuleAssumption
    <2>. QED
        BY <1>1, <2>2 DEF IsMeant, Concerns
<1>2. CASE x.by = "tag"
    BY <1>2 DEF IsMeant, Concerns
<1>3. CASE x.by = "msg"
    BY <1>3 DEF IsMeant, Concerns
<1>. QED
    BY <1>1, <1>2, <1>3 DEF Directed

LEMMA OmittedByOne ==
    ASSUME NEW ke, NEW key
    PROVE  toOmit(ke, key) <=> \E e \in ke : toOmit({e}, key)
BY DEF toOmit

(* The variables whose values the exclusions beside them omit.             *)
Omits(v) == v.col # "RULE" /\ (v.kind \in {"all", "regex"} \/ v.col \in Stored)

(* A variable gives the elements the plain one gives, but the omitted.     *)
LEMMA AnchoredRest ==
    ASSUME NEW content, NEW v, NEW w, NEW ke, v.kind = w.kind, v.name = w.name, NEW x
    PROVE  x \in AnchoredElements(content, w, ke)
               <=> /\ x \in AnchoredElements(content, v, {})
                   /\ v.kind \in {"all", "regex"} => ~toOmit(ke, x.key)
<1>1. ~toOmit({}, x.key)
    BY DEF toOmit
<1>2. CASE v.kind = "all"
    BY <1>1, <1>2 DEF AnchoredElements
<1>3. CASE v.kind = "regex"
    BY <1>1, <1>3 DEF AnchoredElements
<1>4. CASE v.kind \notin {"all", "regex"}
    BY <1>4 DEF AnchoredElements
<1>. QED
    BY <1>2, <1>3, <1>4

LEMMA StoredRest ==
    ASSUME NEW content, NEW v, NEW w, NEW ke, v.kind = w.kind, v.name = w.name, NEW x
    PROVE  x \in StoredElements(content, w, ke)
               <=> x \in StoredElements(content, v, {}) /\ ~toOmit(ke, x.key)
<1>1. CASE v.kind \in {"all", "regex"}
    BY <1>1, AnchoredRest DEF StoredElements
<1>2. CASE v.kind \notin {"all", "regex"}
    <2>1. x \in StoredElements(content, w, ke) <=>
              \E z \in content : /\ Upper[z.key] = Upper[v.name] /\ ~toOmit(ke, v.name)
                                 /\ x = [key |-> v.name, val |-> z.val]
        BY <1>2 DEF StoredElements
    <2>2. x \in StoredElements(content, v, {}) <=>
              \E z \in content : /\ Upper[z.key] = Upper[v.name]
                                 /\ x = [key |-> v.name, val |-> z.val]
        <3>1. ~toOmit({}, v.name)
            BY DEF toOmit
        <3>. QED
            BY <1>2, <3>1 DEF StoredElements
    <2>. QED
        BY <2>1, <2>2
<1>. QED
    BY <1>1, <1>2

LEMMA ElementsRest ==
    ASSUME NEW r, NEW v, NEW w, NEW ke, v.col = w.col, v.kind = w.kind, v.name = w.name, NEW x
    PROVE  x \in ElementsOf(r, w, ke)
               <=> /\ x \in ElementsOf(r, v, {})
                   /\ Omits(v) => ~toOmit(ke, x.key)
<1>1. CASE v.col \in Stored
    <2>1. v.col # "RULE"
        BY <1>1 DEF Stored
    <2>2. ElementsOf(r, v, {}) = StoredElements(request[v.col], v, {})
        BY <1>1 DEF ElementsOf, Stored
    <2>3. ElementsOf(r, w, ke) = StoredElements(request[v.col], w, ke)
        BY <1>1 DEF ElementsOf, Stored
    <2>. QED
        BY <1>1, <2>1, <2>2, <2>3, StoredRest DEF Omits
<1>2. CASE v.col = "ARGS_NAMES"
    <2>1. v.col \notin Stored /\ v.col # "RULE"
        BY <1>2 DEF Stored
    <2>2. /\ ElementsOf(r, w, ke) = Translated(AnchoredElements(request["ARGS"], w, ke))
          /\ ElementsOf(r, v, {}) = Translated(AnchoredElements(request["ARGS"], v, {}))
        BY <1>2, <2>1 DEF ElementsOf
    <2>3. x \in ElementsOf(r, w, ke) <=>
              \E y \in AnchoredElements(request["ARGS"], w, ke) : x = [key |-> y.key, val |-> y.key]
        BY <2>2 DEF Translated
    <2>4. x \in ElementsOf(r, v, {}) <=>
              \E y \in AnchoredElements(request["ARGS"], v, {}) : x = [key |-> y.key, val |-> y.key]
        BY <2>2 DEF Translated
    <2>5. \A y : y \in AnchoredElements(request["ARGS"], w, ke)
                    <=> /\ y \in AnchoredElements(request["ARGS"], v, {})
                        /\ v.kind \in {"all", "regex"} => ~toOmit(ke, y.key)
        BY AnchoredRest
    <2>. QED
        BY <2>1, <2>3, <2>4, <2>5 DEF Omits
<1>3. CASE v.col = "RULE"
    <2>1. v.col \notin Stored /\ v.col # "ARGS_NAMES"
        BY <1>3 DEF Stored
    <2>2. RuleElements(r, v) = RuleElements(r, w)
        BY DEF RuleElements
    <2>. QED
        BY <1>3, <2>1, <2>2 DEF ElementsOf, Omits
<1>4. CASE v.col \notin Stored /\ v.col # "ARGS_NAMES" /\ v.col # "RULE"
    <2>1. /\ ElementsOf(r, w, ke) = AnchoredElements(request[v.col], w, ke)
          /\ ElementsOf(r, v, {}) = AnchoredElements(request[v.col], v, {})
        BY <1>4 DEF ElementsOf
    <2>. QED
        BY <1>4, <2>1, AnchoredRest DEF Omits
<1>. QED
    BY <1>1, <1>2, <1>3, <1>4

(* A variable gives the values the plain one gives, but the omitted.       *)
LEMMA ValuesRest ==
    ASSUME NEW r, NEW v, NEW w,
           v.mod = w.mod, v.col = w.col, v.kind = w.kind, v.name = w.name, v.ke = {}, NEW value
    PROVE  value \in evaluateVariable(r, w)
               <=> /\ value \in evaluateVariable(r, v)
                   /\ v.mod # "count" /\ Omits(v) => ~toOmit(w.ke, value.key)
<1>1. CASE v.mod = "count"
    <2>1. ElementsOf(r, v, {}) = ElementsOf(r, w, {})
        <3>1. \A x : ~toOmit({}, x)
            BY DEF toOmit
        <3>2. \A x : x \in ElementsOf(r, w, {}) <=> x \in ElementsOf(r, v, {})
            BY <3>1, ElementsRest
        <3>. QED
            BY <3>2
    <2>2. fullName(v) = fullName(w)
        BY DEF fullName
    <2>3. evaluateVariable(r, v) = evaluateVariable(r, w)
        BY <1>1, <2>1, <2>2, Zenon DEF evaluateVariable
    <2>. QED
        BY <1>1, <2>3
<1>2. CASE v.mod # "count"
    <2>1. value \in evaluateVariable(r, w) <=>
              \E x \in ElementsOf(r, w, w.ke) :
                  value = [name |-> <<v.col, "key", x.key>>, key |-> x.key, val |-> x.val]
        BY <1>2 DEF evaluateVariable
    <2>2. value \in evaluateVariable(r, v) <=>
              \E x \in ElementsOf(r, v, {}) :
                  value = [name |-> <<v.col, "key", x.key>>, key |-> x.key, val |-> x.val]
        BY <1>2 DEF evaluateVariable
    <2>3. \A x : x \in ElementsOf(r, w, w.ke)
                    <=> x \in ElementsOf(r, v, {}) /\ (Omits(v) => ~toOmit(w.ke, x.key))
        BY ElementsRest
    <2>. QED
        BY <1>2, <2>1, <2>2, <2>3
<1>. QED
    BY <1>1, <1>2

(* A variable of a rule is a target of its list, with the exclusions of    *)
(* its collection.                                                         *)
Beside(list, v) == {i \in {e \in list : Excludes(e)} : i.col = v.col}

LEMMA VariableOfList ==
    ASSUME NEW list, NEW v \in variables(list)
    PROVE  \E w \in list : /\ ~Excludes(w) /\ v.mod = w.mod /\ v.col = w.col
                           /\ v.kind = w.kind /\ v.name = w.name /\ v.ke = Beside(list, w)
                           /\ \A i \in list : Excludes(i) => fullName(i) # fullName(w)
BY DEF variables, Variable, Beside

LEMMA ListedIsVariable ==
    ASSUME NEW list, NEW w \in list, ~Excludes(w),
           \A i \in list : Excludes(i) => fullName(i) # fullName(w)
    PROVE  \E v \in variables(list) :
              /\ v.mod = w.mod /\ v.col = w.col
              /\ v.kind = w.kind /\ v.name = w.name /\ v.ke = Beside(list, w)
<1>1. PICK v : v = [Variable(w) EXCEPT !.ke = Beside(list, w)]
    OBVIOUS
<1>2. v \in variables(list)
    BY <1>1 DEF variables, Beside
<1>3. /\ v.mod = w.mod /\ v.col = w.col
      /\ v.kind = w.kind /\ v.name = w.name /\ v.ke = Beside(list, w)
    BY <1>1 DEF Variable
<1>. QED
    BY <1>2, <1>3

LEMMA NamesAreOfColumns ==
    ASSUME NEW v, NEW w, fullName(v) = fullName(w)
    PROVE  v.col = w.col
<1>1. fullName(v)[1] = v.col /\ fullName(w)[1] = w.col
    BY DEF fullName
<1>. QED
    BY <1>1

(* What a target of a list gives its variable gives, but for what the      *)
(* exclusions beside it take.                                              *)
LEMMA GivenIsLeft ==
    ASSUME NEW r, NEW list, NEW v \in list, ~Excludes(v), NEW w,
           w.mod = v.mod, w.col = v.col, w.kind = v.kind, w.name = v.name, w.ke = Beside(list, v),
           \A i \in list : Excludes(i) => fullName(i) # fullName(v),
           NEW value
    PROVE  value \in evaluateVariable(r, w)
               <=> /\ value \in evaluateVariable(r, Variable(v))
                   /\ \A e \in list : ~TakesBeside(e, v, value)
<1>1. PICK plain : plain = Variable(v)
    OBVIOUS
<1>2. /\ plain.mod = v.mod /\ plain.col = v.col
      /\ plain.kind = v.kind /\ plain.name = v.name /\ plain.ke = {}
    BY <1>1 DEF Variable
<1>3. value \in evaluateVariable(r, w)
          <=> /\ value \in evaluateVariable(r, plain)
              /\ plain.mod # "count" /\ Omits(plain) => ~toOmit(w.ke, value.key)
    BY <1>2, ValuesRest
<1>4. Omits(plain) <=> Omits(v)
    BY <1>2 DEF Omits
<1>5. toOmit(w.ke, value.key)
          <=> \E e \in list : Excludes(e) /\ e.col = v.col /\ toOmit({e}, value.key)
    BY OmittedByOne DEF Beside
<1>6. (\E e \in list : TakesBeside(e, v, value))
          <=> v.mod # "count" /\ Omits(v) /\ toOmit(w.ke, value.key)
    BY <1>5 DEF TakesBeside, Omits
<1>. QED
    BY <1>1, <1>2, <1>3, <1>4, <1>6

(* What a rule inspects is what is left of its targets.                    *)
LEMMA InspectedIsTarget ==
    ASSUME TargetsTypeOK, WrittenIsRead, NEW r \in DOMAIN TargetRules, NEW a,
           a.rule = r, a.ctls = ctls, NEW value
    PROVE  value \in Inspected(r) <=> IsTarget(a, value)
<1>1. PICK exclusion : exclusion = {v \in getVariablesExceptions(r) : Excludes(v)}
    OBVIOUS
<1>2. /\ \A u \in updates : Concerns(u, r) <=> IsMeant(u, r)
      /\ \A x \in ctls : Concerns(x, r) <=> IsMeant(x, r)
    BY MeantIsConcerned DEF TargetsTypeOK
<1>3. \A e : e \in exclusion <=> \E u \in updates : IsMeant(u, r) /\ Excludes(u.var) /\ e = u.var
    BY <1>1, <1>2 DEF getVariablesExceptions
<1>4. RemovesValue(r, exclusion, value) <=> TakesValue(a, value)
    BY <1>2, <1>3 DEF RemovesValue, TakesValue
<1>5. IsAdded(a, value)
          <=> \E v \in getVariablesExceptions(r) \ exclusion : value \in evaluateVariable(r, v)
    BY <1>1, <1>2 DEF IsAdded, getVariablesExceptions
<1>6. ASSUME NEW v, NEW w, fullName(v) = fullName(w)
      PROVE  TakesTarget(a, w) <=> \/ \E e \in exclusion : fullName(e) = fullName(v)
                                   \/ \E x \in ctls : RemovesTarget(x, r, v)
    <2>1. \A x \in ctls :
              RemovesTarget(x, r, v)
                  <=> /\ IsMeant(x, r)
                      /\ \/ x.text = fullName(v)
                         \/ x.by = "id" /\ FoldedText(x.text) = FoldedText(fullName(v))
        BY <1>2 DEF RemovesTarget
    <2>. QED
        BY <1>3, <1>6, <2>1 DEF TakesTarget
<1>7. IsLeft(a, value)
          <=> \E w \in written[r] : /\ value \in evaluateVariable(r, w)
                                    /\ \A e \in exclusion : fullName(e) # fullName(w)
                                    /\ \A x \in ctls : ~RemovesTarget(x, r, w)
    <2>1. ASSUME IsLeft(a, value)
          PROVE  \E w \in written[r] : /\ value \in evaluateVariable(r, w)
                                       /\ \A e \in exclusion : fullName(e) # fullName(w)
                                       /\ \A x \in ctls : ~RemovesTarget(x, r, w)
        <3>1. PICK v \in lists[r] : /\ ~Excludes(v) /\ value \in evaluateVariable(r, Variable(v))
                                    /\ ~TakesTarget(a, v)
                                    /\ \A e \in lists[r] : ~TakesBeside(e, v, value)
            BY <2>1 DEF IsLeft
        <3>2. \A i \in lists[r] : Excludes(i) => fullName(i) # fullName(v)
            BY <3>1, NamesAreOfColumns DEF TakesBeside
        <3>3. PICK w \in variables(lists[r]) :
                  /\ w.mod = v.mod /\ w.col = v.col
                  /\ w.kind = v.kind /\ w.name = v.name /\ w.ke = Beside(lists[r], v)
            BY <3>1, <3>2, ListedIsVariable
        <3>4. value \in evaluateVariable(r, w)
                  <=> /\ value \in evaluateVariable(r, Variable(v))
                      /\ \A e \in lists[r] : ~TakesBeside(e, v, value)
            BY <3>1, <3>2, <3>3, GivenIsLeft
        <3>5. fullName(w) = fullName(v)
            BY <3>3 DEF fullName
        <3>. QED
            BY <1>6, <3>1, <3>3, <3>4, <3>5 DEF WrittenIsRead
    <2>2. ASSUME NEW w \in written[r], value \in evaluateVariable(r, w),
                 \A e \in exclusion : fullName(e) # fullName(w),
                 \A x \in ctls : ~RemovesTarget(x, r, w)
          PROVE  IsLeft(a, value)
        <3>1. PICK v \in lists[r] :
                  /\ ~Excludes(v) /\ w.mod = v.mod /\ w.col = v.col
                  /\ w.kind = v.kind /\ w.name = v.name /\ w.ke = Beside(lists[r], v)
                  /\ \A i \in lists[r] : Excludes(i) => fullName(i) # fullName(v)
            BY <2>2, VariableOfList DEF WrittenIsRead
        <3>2. value \in evaluateVariable(r, w)
                  <=> /\ value \in evaluateVariable(r, Variable(v))
                      /\ \A e \in lists[r] : ~TakesBeside(e, v, value)
            BY <3>1, GivenIsLeft
        <3>3. fullName(w) = fullName(v)
            BY <3>1 DEF fullName
        <3>4. ~TakesTarget(a, v)
            BY <1>6, <2>2, <3>3
        <3>. QED
            BY <2>2, <3>1, <3>2, <3>4 DEF IsLeft
    <2>. QED
        BY <2>1, <2>2, Zenon
<1>8. value \in UNION {evaluateVariable(r, v) : v \in getFinalVars(r)}
          <=> IsAdded(a, value) \/ IsLeft(a, value)
    <2>1. \A v : v \in getFinalVars(r)
                <=> \/ /\ v \in written[r]
                       /\ \A e \in exclusion : fullName(e) # fullName(v)
                       /\ \A x \in ctls : ~RemovesTarget(x, r, v)
                    \/ v \in getVariablesExceptions(r) \ exclusion
        BY <1>1 DEF getFinalVars
    <2>2. value \in UNION {evaluateVariable(r, v) : v \in getFinalVars(r)}
              <=> \E v \in getFinalVars(r) : value \in evaluateVariable(r, v)
        OBVIOUS
    <2>. QED
        BY <1>5, <1>7, <2>1, <2>2, Zenon
<1>. QED
    BY <1>1, <1>4, <1>8 DEF Inspected, IsTarget

(* What the rules are to inspect does not change while they are evaluated. *)
LEMMA TargetsAreFixed ==
    ASSUME UNCHANGED <<updates, request, lists>>, NEW a, NEW value
    PROVE  IsTarget(a, value)' <=> IsTarget(a, value)
BY DEF IsTarget, IsAdded, IsLeft, TakesValue, TakesTarget, evaluateVariable, ElementsOf

(* What was seen is what the property asks for.                            *)
LEMMA TargetsWereInspected ==
    ASSUME TargetsInv
    PROVE  InspectsItsTargets
BY DEF TargetsInv, InspectsItsTargets, SeenWereTargets, TargetsWereSeen, IsTarget,
       ExcludedIsNotInspected, OthersAreInspected

-----------------------------------------------------------------------------
(* The steps.                                                              *)

(* Directives are read before the first rule is asked.                     *)
LEMMA SecRuleKeeps ==
    ASSUME TargetsInv, NEW r \in DOMAIN TargetRules, SecRule(r)
    PROVE  TargetsInv'
<1>1. PICK list \in RuleLists[r] :
          /\ lists' = [lists EXCEPT ![r] = list]
          /\ written' = [written EXCEPT ![r] = variables(list)]
    BY DEF SecRule
<1>2. /\ asked' = {} /\ seen' = {} /\ running' = NoRule
      /\ UNCHANGED <<updates, ctls, matched, running>>
      /\ DOMAIN lists = DOMAIN TargetRules /\ DOMAIN written = DOMAIN TargetRules
    BY DEF SecRule, TargetsInv, TargetsTypeOK, MatchesAreCleaned
<1>3. TargetsTypeOK'
    BY <1>1, <1>2 DEF TargetsInv, TargetsTypeOK
<1>4. WrittenIsRead'
    BY <1>1, <1>2 DEF TargetsInv, WrittenIsRead
<1>5. /\ SeenWereTargets' /\ TargetsWereSeen'
      /\ MatchesAreCleaned' /\ MatchedWasInspected'
    BY <1>2 DEF TargetsInv, SeenWereTargets, TargetsWereSeen, MatchesAreCleaned, MatchedWasInspected
<1>. QED
    BY <1>3, <1>4, <1>5 DEF TargetsInv

LEMMA UpdateTargetKeeps ==
    ASSUME TargetsInv,
           NEW by, NEW whats, loadUpdateTarget(by, whats),
           \/ by = "id" /\ whats = Ids
           \/ by = "tag" /\ whats = Tags
           \/ by = "msg" /\ whats = Msgs
    PROVE  TargetsInv'
<1>1. PICK what \in whats, list \in UpdateLists :
          updates' = updates \cup {[by |-> by, of |-> what, var |-> Variable(v)] : v \in list}
    BY DEF loadUpdateTarget
<1>2. /\ asked' = {} /\ seen' = {} /\ running' = NoRule
      /\ UNCHANGED <<written, ctls, matched, running, lists>>
    BY DEF loadUpdateTarget, TargetsInv, MatchesAreCleaned
<1>3. \A u \in updates' : Directed(u)
    <2>1. \A v \in list : Directed([by |-> by, of |-> what, var |-> Variable(v)])
        BY DEF Directed
    <2>. QED
        BY <1>1, <2>1 DEF TargetsInv, TargetsTypeOK
<1>4. TargetsTypeOK' /\ WrittenIsRead'
    BY <1>2, <1>3 DEF TargetsInv, TargetsTypeOK, WrittenIsRead
<1>5. /\ SeenWereTargets' /\ TargetsWereSeen'
      /\ MatchesAreCleaned' /\ MatchedWasInspected'
    BY <1>2 DEF TargetsInv, SeenWereTargets, TargetsWereSeen, MatchesAreCleaned, MatchedWasInspected
<1>. QED
    BY <1>4, <1>5 DEF TargetsInv

(* While rules are evaluated, what a rule that is asked is to inspect and  *)
(* what it inspected stay.                                                 *)
LEMMA HistoryStays ==
    ASSUME TargetsInv, UNCHANGED <<updates, request, asked, seen, lists>>
    PROVE  SeenWereTargets' /\ TargetsWereSeen'
<1>1. \A a, value : IsTarget(a, value)' <=> IsTarget(a, value)
    BY TargetsAreFixed
<1>2. SeenWereTargets'
    BY <1>1 DEF TargetsInv, SeenWereTargets
<1>3. TargetsWereSeen'
    BY <1>1 DEF TargetsInv, TargetsWereSeen
<1>. QED
    BY <1>2, <1>3

LEMMA RemoveTargetKeeps ==
    ASSUME TargetsInv,
           NEW by, NEW whats, ruleRemoveTarget(by, whats),
           \/ by = "id" /\ whats = Ids
           \/ by = "tag" /\ whats = Tags
    PROVE  TargetsInv'
<1>1. PICK what \in whats, text \in CtlTexts :
          ctls' = ctls \cup {[by |-> by, of |-> what, text |-> text]}
    BY DEF ruleRemoveTarget
<1>2. UNCHANGED <<written, updates, request, running, asked, seen, matched, lists>>
    BY DEF ruleRemoveTarget
<1>3. Directed([by |-> by, of |-> what, text |-> text])
    BY DEF Directed
<1>4. TargetsTypeOK' /\ WrittenIsRead'
    BY <1>1, <1>2, <1>3 DEF TargetsInv, TargetsTypeOK, WrittenIsRead
<1>5. MatchesAreCleaned' /\ MatchedWasInspected'
    BY <1>2 DEF TargetsInv, MatchesAreCleaned, MatchedWasInspected
<1>. QED
    BY <1>2, <1>4, <1>5, HistoryStays DEF TargetsInv

LEMMA endRuleKeeps ==
    ASSUME TargetsInv, endRule
    PROVE  TargetsInv'
<1>1. /\ running' = NoRule /\ matched' = {}
      /\ UNCHANGED <<written, updates, request, ctls, asked, seen, lists>>
    BY DEF endRule, cleanMatchedVars
<1>2. TargetsTypeOK' /\ WrittenIsRead'
    BY <1>1 DEF TargetsInv, TargetsTypeOK, WrittenIsRead
<1>3. MatchesAreCleaned' /\ MatchedWasInspected'
    BY <1>1 DEF TargetsInv, MatchesAreCleaned, MatchedWasInspected
<1>. QED
    BY <1>1, <1>2, <1>3, HistoryStays DEF TargetsInv

LEMMA TargetsStay ==
    ASSUME TargetsInv, UNCHANGED targetsVars
    PROVE  TargetsInv'
<1>1. UNCHANGED <<written, updates, request, ctls, running, asked, seen, matched, lists>>
    BY DEF targetsVars
<1>2. TargetsTypeOK' /\ WrittenIsRead'
    BY <1>1 DEF TargetsInv, TargetsTypeOK, WrittenIsRead
<1>3. MatchesAreCleaned' /\ MatchedWasInspected'
    BY <1>1 DEF TargetsInv, MatchesAreCleaned, MatchedWasInspected
<1>. QED
    BY <1>1, <1>2, <1>3, HistoryStays DEF TargetsInv

LEMMA evaluateLinkKeeps ==
    ASSUME TargetsInv, NEW r \in DOMAIN TargetRules, evaluateLink(r)
    PROVE  TargetsInv'
<1>1. PICK values : values = Inspected(r)
    OBVIOUS
<1>2. PICK hits : hits = {v \in values : OperatorTakes(v)}
    OBVIOUS
<1>3. PICK before : before = (IF running = NoRule THEN {} ELSE seen)
    OBVIOUS
<1>4. PICK links : links = (IF running = NoRule THEN {} ELSE asked)
    OBVIOUS
<1>5. /\ asked' = links \cup {[rule |-> r, ctls |-> ctls]}
      /\ seen' = before \cup {[rule |-> r, value |-> v, ctls |-> ctls] : v \in values}
      /\ running' = IF hits = {} THEN NoRule ELSE r
      /\ hits = {} => matched' = {}
      /\ hits # {} => matched' = matched \cup {v.name : v \in hits}
      /\ UNCHANGED <<written, updates, request, ctls, lists>>
    BY <1>1, <1>2, <1>3, <1>4 DEF evaluateLink, cleanMatchedVars
<1>6. TargetsTypeOK' /\ WrittenIsRead'
    BY <1>5 DEF TargetsInv, TargetsTypeOK, WrittenIsRead
<1>7. \A a, value : IsTarget(a, value)' <=> IsTarget(a, value)
    BY <1>5, TargetsAreFixed
<1>8. PICK link : link = [rule |-> r, ctls |-> ctls]
    OBVIOUS
<1>9. link.rule = r /\ link.ctls = ctls
    BY <1>8
<1>10. \A value : value \in values <=> IsTarget(link, value)
    BY <1>1, <1>9, InspectedIsTarget DEF TargetsInv
<1>11. SeenWereTargets'
    <2>1. ASSUME NEW v \in values, NEW s, s = [rule |-> r, value |-> v, ctls |-> ctls]
          PROVE  IsTarget(s, s.value)
        <3>1. s.rule = r /\ s.value = v /\ s.ctls = ctls
            BY <2>1
        <3>. QED
            BY <1>1, <2>1, <3>1, InspectedIsTarget DEF TargetsInv
    <2>2. \A s \in before : IsTarget(s, s.value)
        BY <1>3 DEF TargetsInv, SeenWereTargets
    <2>. QED
        BY <1>5, <1>7, <2>1, <2>2 DEF SeenWereTargets
<1>12. TargetsWereSeen'
    <2>1. ASSUME NEW a \in links, NEW value, IsTarget(a, value)
          PROVE  [rule |-> a.rule, value |-> value, ctls |-> a.ctls] \in before
        BY <1>3, <1>4, <2>1 DEF TargetsInv, TargetsWereSeen
    <2>2. ASSUME NEW value, IsTarget(link, value)
          PROVE  [rule |-> link.rule, value |-> value, ctls |-> link.ctls] \in seen'
        BY <1>5, <1>9, <1>10, <2>2
    <2>. QED
        BY <1>5, <1>7, <1>8, <2>1, <2>2 DEF TargetsWereSeen
<1>13. MatchesAreCleaned'
    BY <1>5, RuleAssumption DEF RuleAssumption, MatchesAreCleaned
<1>14. MatchedWasInspected'
    <2>1. CASE hits = {}
        BY <1>5, <2>1 DEF MatchedWasInspected
    <2>2. CASE hits # {}
        <3>1. matched \subseteq {s.value.name : s \in before}
            BY <1>3 DEF TargetsInv, MatchesAreCleaned, MatchedWasInspected
        <3>2. PICK new : new = {[rule |-> r, value |-> v, ctls |-> ctls] : v \in values}
            OBVIOUS
        <3>3. {v.name : v \in hits} \subseteq {s.value.name : s \in new}
            <4>1. ASSUME NEW v \in hits
                  PROVE  \E s \in new : v.name = s.value.name
                <5>1. PICK s : s = [rule |-> r, value |-> v, ctls |-> ctls]
                    OBVIOUS
                <5>2. s \in new /\ s.value = v
                    BY <1>2, <3>2, <5>1
                <5>. QED
                    BY <5>2
            <4>. QED
                BY <4>1
        <3>4. matched' \subseteq {s.value.name : s \in before \cup new}
            BY <1>5, <2>2, <3>1, <3>3
        <3>. QED
            BY <1>5, <3>2, <3>4 DEF MatchedWasInspected
    <2>. QED
        BY <2>1, <2>2
<1>. QED
    BY <1>6, <1>11, <1>12, <1>13, <1>14 DEF TargetsInv

LEMMA TargetsStep ==
    ASSUME TargetsInv, [NextTargets]_targetsVars
    PROVE  TargetsInv'
<1>1. ASSUME NEW r \in DOMAIN TargetRules, SecRule(r) \/ evaluateLink(r)
      PROVE  TargetsInv'
    BY <1>1, SecRuleKeeps, evaluateLinkKeeps
<1>2. CASE \/ loadUpdateTarget("id", Ids)
           \/ loadUpdateTarget("tag", Tags)
           \/ loadUpdateTarget("msg", Msgs)
    BY <1>2, UpdateTargetKeeps
<1>3. CASE ruleRemoveTarget("id", Ids) \/ ruleRemoveTarget("tag", Tags)
    BY <1>3, RemoveTargetKeeps
<1>4. CASE endRule
    BY <1>4, endRuleKeeps
<1>5. CASE UNCHANGED targetsVars
    BY <1>5, TargetsStay
<1>. QED
    BY <1>1, <1>2, <1>3, <1>4, <1>5 DEF NextTargets

LEMMA TargetsStart ==
    ASSUME InitTargets
    PROVE  TargetsInv
<1>1. TargetsTypeOK /\ MatchesAreCleaned /\ MatchedWasInspected
    BY DEF InitTargets, TargetsTypeOK, MatchesAreCleaned, MatchedWasInspected
<1>2. SeenWereTargets /\ TargetsWereSeen
    BY DEF InitTargets, SeenWereTargets, TargetsWereSeen
<1>3. WrittenIsRead
    <2>1. variables({}) = {}
        BY DEF variables
    <2>. QED
        BY <2>1 DEF InitTargets, WrittenIsRead
<1>. QED
    BY <1>1, <1>2, <1>3 DEF TargetsInv

(* However targets are written, updated by directives and removed by ctl   *)
(* actions, each time a rule of a chain is asked its operator is given the *)
(* values its targets name, counts included, but for those that an         *)
(* exclusion meant for this rule takes, and no other; and MATCHED_VARS     *)
(* names values the chain inspected (RuleWithOperator::getFinalVars,       *)
(* evaluate).                                                              *)
THEOREM RulesInspectTheirTargets == SpecTargets => []InspectsItsTargets
<1>1. InitTargets => TargetsInv
    BY TargetsStart
<1>2. TargetsInv /\ [NextTargets]_targetsVars => TargetsInv'
    BY TargetsStep
<1>3. TargetsInv => InspectsItsTargets
    BY TargetsWereInspected
<1>. QED
    BY <1>1, <1>2, <1>3, PTL DEF SpecTargets

-----------------------------------------------------------------------------
(* The scanner and the parser: the inductive invariant.                    *)

(* Conditions that go back to the one they were entered from.              *)
Nested == {"EXPECTING_VAR_PARAMETER", "EXPECTING_ACTION_PREDICATE_VARIABLE"} \cup KeyStates

(* Each of them has one below it on the stack that may be its host, down   *)
(* to the first that is no such condition.                                 *)
ConditionAt(i) == IF i = 0 THEN yy_start ELSE YY_PREVIOUS_STATE[i]
HostsBelow ==
    \A i \in 0..Len(YY_PREVIOUS_STATE) :
        (\A j \in 0..i : ConditionAt(j) \in Nested) =>
            /\ i < Len(YY_PREVIOUS_STATE)
            /\ ConditionAt(i + 1) \in Hosts(ConditionAt(i))

(* How many patterns that give their text back may have led to a condition.*)
Level(s) ==
    CASE s \in ErrorStates           -> 4
      [] s = EXPECTING_ACTIONS       -> 3
      [] s \in OperationStates       -> 2
      [] s \in SetvarStates \cup NoOpStates \cup
              {"ACTION_PREDICATE_ENDS_WITH_COMMA_OR_DOUBLE_QUOTE"} -> 1
      [] OTHER                       -> 0

EatsInTime == still \in 0..Level(yy_start)

(* A position is a record of the shape At makes.                           *)
IsPlace(g) == g = At(g.at, g.of, g.quoted, g.last, g.key, g.token)

(* Where the parser may be while the scanner is in the variables of a      *)
(* directive, before or in an operator without a name, in the parameter of *)
(* one, or in the string of an action.                                     *)
InList(g, of) == g.at \in {"var", "var1", "modified", "vars", "listed"} /\ g.of \in of
InParameter(g) == g.at \in {"string", "strings"} /\ g.of \in {"operator", "refused"}
InActionString(g) == g.at \in {"string", "strings"} /\ g.of = "acts"
PastList(g) == \/ g.at = "strings" /\ g.of = "operator"
               \/ g.at = "act1" /\ g.of = "acts"
AtOperators(g) == InList(g, {"rule"}) \/ PastList(g) \/ (g.at = "op" /\ g.of = "rule")

Follows(s, g) ==
    /\ s = "TRANSACTION_TO_VARIABLE" => g.at = "var" /\ g.of \in {"rule", "target"}
    /\ s = "EXPECTING_VARIABLE" => InList(g, {"rule", "target"}) \/ PastList(g)
    /\ s \in OperatorStates \cup NoOpStates => AtOperators(g)
    /\ s \in ToParameterStates \cup ParameterStates => InParameter(g)
    /\ s \in PredicateStates \cup ContentStates \cup {"EXPECTING_ACTION_PREDICATE"} =>
          InActionString(g)

(* The condition whose text is read: the host of an element or a macro.    *)
TextOf(s, stack) ==
    CASE s = "EXPECTING_ACTION_PREDICATE_VARIABLE" -> stack[1]
      [] s = "EXPECTING_VAR_PARAMETER" ->
             IF stack[1] = "EXPECTING_ACTION_PREDICATE_VARIABLE" THEN stack[2] ELSE stack[1]
      [] OTHER -> s

(* A quotation mark instead of the element of a macro ends the string for  *)
(* the parser; then it refuses the element.                                *)
Refusing(s, stack, g) ==
    /\ s = "EXPECTING_VAR_PARAMETER" /\ stack[1] = "EXPECTING_ACTION_PREDICATE_VARIABLE"
    /\ g.at \in {"act1", "line"}

(* The static flag is set between the directive and the end of its         *)
(* targets.                                                                *)
ListStates == {"TRANSACTION_TO_VARIABLE", "EXPECTING_VARIABLE"}
FlagFollows(s, g, flag) ==
    /\ s \in ListStates => (flag = 1 <=> g.of = "target")
    /\ s \notin ListStates \cup ErrorStates => flag = 0

Followed(s, stack, g, flag) ==
    /\ Follows(TextOf(s, stack), g) \/ Refusing(s, stack, g)
    /\ FlagFollows(TextOf(s, stack), g, flag)
ParserIsFollowed ==
    parse = "running" /\ ~stale =>
        Followed(yy_start, YY_PREVIOUS_STATE, position, state_variable_from)

(* The included files that are open are the ones being read.               *)
FilesOf(seq) == {i \in 1..Len(seq) : seq[i] = "file"}
FilesOpen == parse = "running" => open = Cardinality(FilesOf(buffers))

ScannerTypeOK ==
    /\ yy_start \in StartConditions
    /\ YY_PREVIOUS_STATE \in Seq(StartConditions)
    /\ buffers \in Seq({"string", "file", "remote"})
    /\ parses \in Nat
    /\ parse \in {"idle", "running", "done", "failed"}
    /\ parse = "running" => Len(buffers) > 0 /\ buffers[1] = "string"
    /\ parse # "running" => yy_start = "INITIAL" /\ still = 0

TextsInv ==
    /\ ScannerTypeOK /\ HostsBelow /\ EatsInTime /\ FilesOpen
    /\ LocOfBuffer /\ FilesReadAreClosed

PositionInv ==
    /\ IsPlace(position)
    /\ parse # "running" => position = Line
    /\ state_variable_from \in {0, 1}
    /\ ParserIsFollowed
-----------------------------------------------------------------------------
(* Facts about the tokens: the directives of each group of productions.    *)

AuditTokens ==
    {"CONFIG_DIR_AUDIT_DIR_MOD", "CONFIG_DIR_AUDIT_DIR", "CONFIG_DIR_AUDIT_ENG",
     "CONFIG_DIR_AUDIT_FLE_MOD", "CONFIG_DIR_AUDIT_LOG2", "CONFIG_DIR_AUDIT_LOG_P",
     "CONFIG_DIR_AUDIT_LOG", "CONFIG_DIR_AUDIT_LOG_FMT", "CONFIG_DIR_AUDIT_STS",
     "CONFIG_DIR_AUDIT_PREFIX"}
UploadTokens ==
    {"CONFIG_DIR_AUDIT_TPE", "CONFIG_UPDLOAD_KEEP_FILES", "CONFIG_UPLOAD_FILE_LIMIT",
     "CONFIG_UPLOAD_FILE_MODE", "CONFIG_UPLOAD_DIR", "CONFIG_UPDLOAD_SAVE_TMP_FILES"}
EngineTokens ==
    {"CONFIG_DIR_SEC_MARKER", "CONFIG_DIR_RULE_ENG", "CONFIG_SEC_ARGUMENT_SEPARATOR",
     "CONFIG_COMPONENT_SIG", "CONFIG_SEC_WEB_APP_ID", "CONFIG_SEC_SERVER_SIG",
     "CONFIG_DIR_REQ_BODY", "CONFIG_DIR_RES_BODY", "CONFIG_CONN_ENGINE"}
RefusedTokens ==
    {"CONFIG_SEC_CACHE_TRANSFORMATIONS", "CONFIG_SEC_CHROOT_DIR", "CONFIG_SEC_HASH_KEY",
     "CONFIG_SEC_HASH_PARAM", "CONFIG_SEC_HASH_METHOD_RX", "CONFIG_SEC_HASH_METHOD_PM",
     "CONFIG_DIR_GSB_DB", "CONFIG_SEC_GUARDIAN_LOG",
     "CONFIG_SEC_DISABLE_BACKEND_COMPRESS", "CONFIG_CONTENT_INJECTION",
     "CONFIG_SEC_HASH_ENGINE", "CONFIG_SEC_INTERCEPT_ON_ERROR"}
RefusedLimitTokens ==
    {"CONFIG_SEC_CONN_R_STATE_LIMIT", "CONFIG_SEC_CONN_W_STATE_LIMIT",
     "CONFIG_SEC_SENSOR_ID", "CONFIG_SEC_RULE_PERF_TIME",
     "CONFIG_SEC_STREAM_IN_BODY_INSPECTION", "CONFIG_SEC_STREAM_OUT_BODY_INSPECTION",
     "CONFIG_SEC_RULE_INHERITANCE"}
RemoveTokens ==
    {"CONFIG_SEC_RULE_REMOVE_BY_ID", "CONFIG_SEC_RULE_REMOVE_BY_TAG",
     "CONFIG_SEC_RULE_REMOVE_BY_MSG"}
LimitTokens ==
    {"CONFIG_DIR_DEBUG_LVL", "CONFIG_DIR_DEBUG_LOG", "CONFIG_DIR_GEO_DB",
     "CONFIG_DIR_ARGS_LIMIT", "CONFIG_DIR_REQ_BODY_JSON_DEPTH_LIMIT",
     "CONFIG_DIR_REQ_BODY_LIMIT", "CONFIG_DIR_REQ_BODY_NO_FILES_LIMIT",
     "CONFIG_DIR_REQ_BODY_IN_MEMORY_LIMIT", "CONFIG_DIR_RES_BODY_LIMIT"}
LimitActionTokens ==
    {"CONFIG_DIR_REQ_BODY_LIMIT_ACTION", "CONFIG_DIR_RES_BODY_LIMIT_ACTION",
     "CONFIG_SEC_REMOTE_RULES_FAIL_ACTION", "CONFIG_DIR_PCRE_MATCH_LIMIT_RECURSION",
     "CONFIG_DIR_PCRE_MATCH_LIMIT"}
TypeTokens ==
    {"CONGIG_DIR_RESPONSE_BODY_MP", "CONGIG_DIR_RESPONSE_BODY_MP_CLEAR",
     "CONFIG_XML_PARSE_XML_INTO_ARGS", "CONGIG_DIR_SEC_TMP_DIR",
     "CONGIG_DIR_SEC_DATA_DIR", "CONGIG_DIR_SEC_ARG_SEP",
     "CONGIG_DIR_SEC_COOKIE_FORMAT", "CONFIG_SEC_COOKIEV0_SEPARATOR",
     "CONGIG_DIR_SEC_STATUS_ENGINE", "CONFIG_XML_EXTERNAL_ENTITY"}
UnicodeTokens ==
    {"CONFIG_DIR_UNICODE_MAP_FILE", "CONFIG_SEC_COLLECTION_TIMEOUT",
     "CONFIG_SEC_HTTP_BLKEY"}

DirectiveTokens ==
    AuditTokens \cup UploadTokens \cup EngineTokens \cup RefusedTokens \cup RefusedLimitTokens
    \cup RemoveTokens \cup LimitTokens \cup LimitActionTokens \cup TypeTokens \cup UnicodeTokens

ValueTokens ==
    {"", On, Off, RelevantOnly, "CONFIG_VALUE_DETC", "CONFIG_VALUE_ONLYARGS", "CONFIG_VALUE_SERIAL",
     "CONFIG_VALUE_PARALLEL", "CONFIG_VALUE_HTTPS", "CONFIG_VALUE_PROCESS_PARTIAL",
     "CONFIG_VALUE_REJECT", "CONFIG_VALUE_ABORT", "CONFIG_VALUE_WARN", "JSON", "NATIVE"}

IsRow(row, tokens) ==
    \E a \in tokens, v \in ValueTokens : \E p, q, f : row = Row(a, v, p, q, f)

LEMMA RowOfTokens ==
    ASSUME NEW tokens, NEW row, IsRow(row, tokens)
    PROVE  row.token \in tokens /\ row.value \in ValueTokens
<1>1. PICK a, v : a \in tokens /\ v \in ValueTokens /\ \E p, q, f : row = Row(a, v, p, q, f)
    BY DEF IsRow
<1> QED
    BY <1>1 DEF Row

(* Every row is of a directive of its group and of one of the values.       *)
LEMMA RowsAreRows == \A row \in Rows : row.token \in DirectiveTokens /\ row.value \in ValueTokens
<1>1. \A row \in audit_log : IsRow(row, AuditTokens)
    BY ZenonT(40) DEF audit_log, IsRow, AuditTokens, ValueTokens, Text, Number, Value, Adds,
       Ignored, Refused, Switch, OffOnly
<1>2. \A row \in audit_log_type : IsRow(row, UploadTokens)
    BY ZenonT(40) DEF audit_log_type, IsRow, UploadTokens, ValueTokens, Text, Number, Value, Adds,
       Ignored, Refused, Switch, OffOnly
<1>3. \A row \in expression_engine : IsRow(row, EngineTokens)
    BY ZenonT(40) DEF expression_engine, IsRow, EngineTokens, ValueTokens, Text, Number, Value, Adds,
       Ignored, Refused, Switch, OffOnly
<1>4. \A row \in expression_refused : IsRow(row, RefusedTokens)
    <2>1. \A t \in RefusedTokens : IsRow(Refused(t, ""), RefusedTokens)
        BY ZenonT(40) DEF IsRow, ValueTokens, Refused
    <2>2. \A t \in RefusedTokens : \A row \in OffOnly(t) : IsRow(row, RefusedTokens)
        BY ZenonT(40) DEF IsRow, ValueTokens, Ignored, Refused, OffOnly
    <2>3. /\ {"CONFIG_SEC_CACHE_TRANSFORMATIONS", "CONFIG_SEC_CHROOT_DIR", "CONFIG_SEC_HASH_KEY",
             "CONFIG_SEC_HASH_PARAM", "CONFIG_SEC_HASH_METHOD_RX", "CONFIG_SEC_HASH_METHOD_PM",
             "CONFIG_DIR_GSB_DB", "CONFIG_SEC_GUARDIAN_LOG"} \subseteq RefusedTokens
          /\ "CONFIG_SEC_DISABLE_BACKEND_COMPRESS" \in RefusedTokens
          /\ "CONFIG_CONTENT_INJECTION" \in RefusedTokens
          /\ "CONFIG_SEC_HASH_ENGINE" \in RefusedTokens
          /\ "CONFIG_SEC_INTERCEPT_ON_ERROR" \in RefusedTokens
        BY DEF RefusedTokens
    <2> QED
        BY <2>1, <2>2, <2>3, Zenon DEF expression_refused
<1>5. \A row \in expression_limits_refused : IsRow(row, RefusedLimitTokens)
    BY ZenonT(40) DEF expression_limits_refused, IsRow, RefusedLimitTokens, ValueTokens, Text, Number, Value, Adds,
       Ignored, Refused, Switch, OffOnly
<1>6. \A row \in expression_remove : IsRow(row, RemoveTokens)
    BY ZenonT(40) DEF expression_remove, IsRow, RemoveTokens, ValueTokens, Text, Number, Value, Adds,
       Ignored, Refused, Switch, OffOnly
<1>7. \A row \in expression_limits : IsRow(row, LimitTokens)
    BY ZenonT(40) DEF expression_limits, IsRow, LimitTokens, ValueTokens, Text, Number, Value, Adds,
       Ignored, Refused, Switch, OffOnly
<1>8. \A row \in expression_limit_actions : IsRow(row, LimitActionTokens)
    BY ZenonT(40) DEF expression_limit_actions, IsRow, LimitActionTokens, ValueTokens, Text, Number, Value, Adds,
       Ignored, Refused, Switch, OffOnly
<1>9. \A row \in expression_types : IsRow(row, TypeTokens)
    BY ZenonT(40) DEF expression_types, IsRow, TypeTokens, ValueTokens, Text, Number, Value, Adds,
       Ignored, Refused, Switch, OffOnly
<1>10. \A row \in expression_unicode : IsRow(row, UnicodeTokens)
    BY ZenonT(40) DEF expression_unicode, IsRow, UnicodeTokens, ValueTokens, Text, Number, Value, Adds,
       Ignored, Refused, Switch, OffOnly
<1> QED
    BY <1>1, <1>2, <1>3, <1>4, <1>5, <1>6, <1>7, <1>8, <1>9, <1>10, RowOfTokens
    DEF Rows, DirectiveTokens

-----------------------------------------------------------------------------
(* What the patterns allow.                                                *)

ListTokens == Variables \cup {"PIPE", "QUOTATION_MARK", "VAR_EXCLUSION", "VAR_COUNT"}

StayAllows(s, t) ==
    /\ t \notin UpdateTarget
    /\ s = "TRANSACTION_TO_VARIABLE" => t = ""
    /\ s = "EXPECTING_VARIABLE" => t \in ListTokens
    /\ s \in OperatorStates => t \in {"", "NOT"}
    /\ s \in NoOpStates \cup ToParameterStates \cup ParameterStates \cup PredicateStates
           \cup ContentStates \cup {"EXPECTING_ACTION_PREDICATE"} => t \in {"", TEXT}
    /\ s = "EXPECTING_ACTION_PREDICATE_VARIABLE" => t \in Variables \cup {""}
    /\ s = "EXPECTING_VAR_PARAMETER" => t \in {"", "QUOTATION_MARK"}

BeginAllows(s, t, go, back) ==
    /\ go \in StartConditions \ (Nested \cup OperatorStates)
    /\ back => Level(s) < Level(go)
    /\ s \notin ErrorStates \cup {"EXPECTING_VAR_PARAMETER"}
    /\ s \in ListStates => go = "EXPECTING_VARIABLE" \/ go \in ErrorStates
    /\ s = "EXPECTING_ACTION_PREDICATE_VARIABLE" => go \in ErrorStates
    /\ t \in UpdateTarget => go = "TRANSACTION_TO_VARIABLE"
    /\ go = "TRANSACTION_TO_VARIABLE" => s = "INITIAL" /\ t \in {"DIRECTIVE"} \cup UpdateTarget
    /\ go = "EXPECTING_VARIABLE" => s = "TRANSACTION_TO_VARIABLE" /\ t = ""
    /\ go \in NoOpStates => s \in OperatorStates /\ t = ""
    /\ go \in ToParameterStates => s \in OperatorStates /\ t \in OperatorsWithString
    /\ go \in ParameterStates => s \in ToParameterStates /\ t = ""
    /\ go = "EXPECTING_ACTION_PREDICATE" => t \in ActionsWithString
    /\ go \in PredicateStates => s = "EXPECTING_ACTION_PREDICATE" /\ t = ""
    /\ go \in ContentStates => t \in SETVAR_OPERATION

PushAllows(s, t, go, back) ==
    /\ t \in Variables \cup {""}
    /\ \/ /\ ~back /\ go \in Nested /\ s \in Hosts(go)
          /\ go = "EXPECTING_ACTION_PREDICATE_VARIABLE" => t = ""
       \/ go = "LEXING_ERROR_ACTION" /\ Level(s) = 0

PopAllows(s, t, back) ==
    /\ s \in Nested
    /\ back => s \in KeyStates
    /\ t \notin UpdateTarget
    /\ s = "EXPECTING_ACTION_PREDICATE_VARIABLE" => t = ""
    /\ s = "EXPECTING_VAR_PARAMETER" => t \in Dict

Pattern(s, t, how, go, back) ==
    [from |-> s, token |-> t, how |-> how, go |-> go, back |-> back]

Allowed(p) ==
    /\ p = Pattern(p.from, p.token, p.how, p.go, p.back)
    /\ p.from \in StartConditions
    /\ \/ p.how = "stay" /\ p.back = FALSE /\ StayAllows(p.from, p.token)
       \/ p.how = "begin" /\ BeginAllows(p.from, p.token, p.go, p.back)
       \/ p.how = "push" /\ PushAllows(p.from, p.token, p.go, p.back)
       \/ p.how = "pop" /\ PopAllows(p.from, p.token, p.back)

LEMMA StayAllowed ==
    ASSUME NEW F, NEW T, \A s \in F : s \in StartConditions,
           \A s \in F, t \in T : StayAllows(s, t), NEW p \in Stay(F, T)
    PROVE  Allowed(p)
<1>1. p.from \in F /\ p.token \in T /\ p.how = "stay" /\ p.back = FALSE
  BY DEF Stay, Patterns
<1>2. p = Pattern(p.from, p.token, p.how, p.go, p.back)
  BY DEF Pattern, Stay, Patterns
<1>. QED  BY <1>1, <1>2 DEF Allowed
LEMMA BeginAllowed ==
    ASSUME NEW F, NEW T, NEW g, \A s \in F : s \in StartConditions,
           \A s \in F, t \in T : BeginAllows(s, t, g, FALSE), NEW p \in Begin(F, T, g)
    PROVE  Allowed(p)
<1>1. p.from \in F /\ p.token \in T /\ p.how = "begin" /\ p.go = g /\ p.back = FALSE
  BY DEF Begin, Patterns
<1>2. p = Pattern(p.from, p.token, p.how, p.go, p.back)
  BY DEF Pattern, Begin, Patterns
<1>. QED  BY <1>1, <1>2 DEF Allowed
LEMMA BackBeginAllowed ==
    ASSUME NEW F, NEW T, NEW g, \A s \in F : s \in StartConditions,
           \A s \in F, t \in T : BeginAllows(s, t, g, TRUE), NEW p \in Back(Begin(F, T, g))
    PROVE  Allowed(p)
<1>1. p.from \in F /\ p.token \in T /\ p.how = "begin" /\ p.go = g /\ p.back = TRUE
  BY DEF Back, Begin, Patterns
<1>2. p = Pattern(p.from, p.token, p.how, p.go, p.back)
  BY DEF Pattern, Back, Begin, Patterns
<1>. QED  BY <1>1, <1>2 DEF Allowed
LEMMA PushAllowed ==
    ASSUME NEW F, NEW T, NEW g, \A s \in F : s \in StartConditions,
           \A s \in F, t \in T : PushAllows(s, t, g, FALSE), NEW p \in BEGINX(F, T, g)
    PROVE  Allowed(p)
<1>1. p.from \in F /\ p.token \in T /\ p.how = "push" /\ p.go = g /\ p.back = FALSE
  BY DEF BEGINX, Patterns
<1>2. p = Pattern(p.from, p.token, p.how, p.go, p.back)
  BY DEF Pattern, BEGINX, Patterns
<1>. QED  BY <1>1, <1>2 DEF Allowed
LEMMA BackPushAllowed ==
    ASSUME NEW F, NEW T, NEW g, \A s \in F : s \in StartConditions,
           \A s \in F, t \in T : PushAllows(s, t, g, TRUE), NEW p \in Back(BEGINX(F, T, g))
    PROVE  Allowed(p)
<1>1. p.from \in F /\ p.token \in T /\ p.how = "push" /\ p.go = g /\ p.back = TRUE
  BY DEF Back, BEGINX, Patterns
<1>2. p = Pattern(p.from, p.token, p.how, p.go, p.back)
  BY DEF Pattern, Back, BEGINX, Patterns
<1>. QED  BY <1>1, <1>2 DEF Allowed
LEMMA PopAllowed ==
    ASSUME NEW F, NEW T, \A s \in F : s \in StartConditions,
           \A s \in F, t \in T : PopAllows(s, t, FALSE), NEW p \in BEGIN_PREVIOUS(F, T)
    PROVE  Allowed(p)
<1>1. p.from \in F /\ p.token \in T /\ p.how = "pop" /\ p.back = FALSE
  BY DEF BEGIN_PREVIOUS, Patterns
<1>2. p = Pattern(p.from, p.token, p.how, p.go, p.back)
  BY DEF Pattern, BEGIN_PREVIOUS, Patterns
<1>. QED  BY <1>1, <1>2 DEF Allowed
LEMMA BackPopAllowed ==
    ASSUME NEW F, NEW T, \A s \in F : s \in StartConditions,
           \A s \in F, t \in T : PopAllows(s, t, TRUE), NEW p \in Back(BEGIN_PREVIOUS(F, T))
    PROVE  Allowed(p)
<1>1. p.from \in F /\ p.token \in T /\ p.how = "pop" /\ p.back = TRUE
  BY DEF Back, BEGIN_PREVIOUS, Patterns
<1>2. p = Pattern(p.from, p.token, p.how, p.go, p.back)
  BY DEF Pattern, Back, BEGIN_PREVIOUS, Patterns
<1>. QED  BY <1>1, <1>2 DEF Allowed

LEMMA ValuedActions ==
    ActionsWithValue \cap UpdateTarget = {}
BY DEF ActionsWithValue, CtlWithValue, UpdateTarget
LEMMA RowsTokens ==
    /\ \A t \in Tokens(Rows) : t \notin UpdateTarget
    /\ \A rows : rows \subseteq Rows => Tokens(rows) \subseteq Tokens(Rows)
    /\ audit_log \subseteq Rows /\ audit_log_type \subseteq Rows
    /\ expression_limits \subseteq Rows /\ expression_remove \subseteq Rows
    /\ expression_types \subseteq Rows /\ expression_refused \subseteq Rows
    /\ expression_limits_refused \subseteq Rows
<1>1. DirectiveTokens \cap UpdateTarget = {}
  BY DEF UpdateTarget, DirectiveTokens, AuditTokens, UploadTokens, EngineTokens, RefusedTokens,
     RefusedLimitTokens, RemoveTokens, LimitTokens, LimitActionTokens, TypeTokens, UnicodeTokens
<1>2. \A t \in Tokens(Rows) : t \in DirectiveTokens
  BY RowsAreRows DEF Tokens
<1>. QED  BY <1>1, <1>2 DEF Tokens, Rows

LEMMA VariablesApart ==
    Variables \cap UpdateTarget = {} /\ "" \notin Variables
BY DEF UpdateTarget, Variables, DictVariables, CollectionVariables, BodyVariables,
       PartErrorVariables, RequestVariables, ResponseVariables, RunTimeVariables,
       ArgumentVariables, PartVariables, HeaderVariables, RuleVariables, NameVariables,
       SharedCollections, OwnCollections

LEMMA VariablesAllowed ==
    ASSUME NEW V \in SUBSET Variables
    PROVE  \A p \in Stay(VariableStates, V) : Allowed(p)
<1>1. \A s \in VariableStates, t \in V : StayAllows(s, t)
  BY VariablesApart DEF VariableStates, StayAllows, ListTokens, OperatorStates, NoOpStates,
     ToParameterStates, ParameterStates, PredicateStates, ContentStates
<1>. QED  BY <1>1, StayAllowed DEF StartConditions

LEMMA NamedAllowed ==
    ASSUME NEW V \in SUBSET Variables
    PROVE  \A p \in Named(V) : Allowed(p)
<1>1. \A p \in Stay(VariableStates, V) : Allowed(p)
  BY VariablesAllowed
<1>2. \A p \in BEGINX(VariableStates, V \cap DictVariables, "EXPECTING_VAR_PARAMETER") : Allowed(p)
  BY PushAllowed DEF PushAllows, Hosts, Nested, StartConditions
<1>. QED  BY ONLY <1>1, <1>2 DEF Named

LEMMA Levels ==
    /\ \A s \in StartConditions : Level(s) \in 0..4
    /\ \A s \in StartConditions \ ErrorStates, g \in ErrorStates : Level(s) < Level(g)
    /\ \A s \in OperationStates \cup ContentStates
             \cup {"ACTION_PREDICATE_ENDS_WITH_COMMA_OR_DOUBLE_QUOTE"} :
          Level(s) < Level(EXPECTING_ACTIONS)
    /\ \A s \in SetvarStates, g \in OperationStates : Level(s) < Level(g)
    /\ \A s \in OperatorStates, g \in NoOpStates : Level(s) < Level(g)
    /\ \A s \in KeyStates : Level(s) = 0
    /\ \A s \in SetvarStates : Level(s) = 1
    /\ Level("INITIAL") = 0 /\ Level("EXPECTING_VAR_PARAMETER") = 0
    /\ Level("EXPECTING_ACTION_PREDICATE") <
          Level("ACTION_PREDICATE_ENDS_WITH_COMMA_OR_DOUBLE_QUOTE")
BY DEF Level, ActionStates, PredicateStates, VariableStates, OperatorStates, NoOpStates,
       ParameterStates, ToParameterStates, SetvarStates, OperationStates, ContentStates,
       KeyStates, ToActionStates, ErrorStates, StartConditions, EXPECTING_ACTIONS

LEMMA BackToErrorAllowed ==
    ASSUME NEW F \in SUBSET (StartConditions \ (ErrorStates \cup {"EXPECTING_VAR_PARAMETER"})),
           NEW g \in ErrorStates, F \cap ListStates \in SUBSET {"EXPECTING_VARIABLE"}
    PROVE  \A p \in Back(Begin(F, None, g)) : Allowed(p)
<1>1. \A s \in F : Level(s) < Level(g)
  BY Levels
<1>2. \A s \in F, t \in None : BeginAllows(s, t, g, TRUE)
  BY <1>1 DEF ListStates, BeginAllows, None, UpdateTarget, ErrorStates, StartConditions, Nested, KeyStates,
     OperatorStates, NoOpStates, ToParameterStates, ParameterStates, PredicateStates,
     ContentStates
<1>. QED  BY <1>2, BackBeginAllowed

LEMMA StringActionsAllowed ==
    ASSUME NEW T \in SUBSET ActionsWithString
    PROVE  \A p \in Begin(ActionStates, T, "EXPECTING_ACTION_PREDICATE") : Allowed(p)
<1>1. ActionsWithString \cap UpdateTarget = {}
  BY DEF ActionsWithString, StringActionsE, StringActionsR, UpdateTarget
<1>2. \A s \in ActionStates, t \in T : BeginAllows(s, t, "EXPECTING_ACTION_PREDICATE", FALSE)
  BY <1>1 DEF BeginAllows, ErrorStates, ActionStates, StartConditions, Nested, KeyStates,
     OperatorStates,
     ListStates, NoOpStates, ToParameterStates, ParameterStates, PredicateStates, ContentStates
<1>. QED  BY <1>2, BeginAllowed DEF StartConditions

LEMMA ParameterisedAllowed ==
    ASSUME NEW O \in SUBSET OperatorsWithString
    PROVE  \A p \in Parameterised(O) : Allowed(p)
<1>. USE DEF OperatorStates
<1>1. \A s \in OperatorStates : \A p \in Begin({s}, O, BEGIN_PARAMETER(s)) : Allowed(p)
  <2>. SUFFICES ASSUME NEW s \in OperatorStates
                PROVE  \A p \in Begin({s}, O, BEGIN_PARAMETER(s)) : Allowed(p)
    OBVIOUS
  <2>1. BEGIN_PARAMETER(s) \in ToParameterStates /\ s \in StartConditions
    BY DEF BEGIN_PARAMETER, ToParameterStates, StartConditions
  <2>2. OperatorsWithString \cap UpdateTarget = {}
    BY DEF OperatorsWithString, OperatorsValidating, OperatorsComparing, OperatorsMatching,
       UpdateTarget
  <2>3. \A t \in O : BeginAllows(s, t, BEGIN_PARAMETER(s), FALSE)
    BY <2>1, <2>2 DEF BeginAllows, ToParameterStates, StartConditions, Nested, KeyStates,
       ErrorStates, ListStates, NoOpStates, ParameterStates, PredicateStates, ContentStates
  <2>. QED  BY <2>1, <2>3, BeginAllowed
<1>. QED  BY ONLY <1>1 DEF Parameterised, Each

LEMMA AllPatternsAllowed == \A p \in AllPatterns : Allowed(p)
<1>. USE DEF ActionStates, PredicateStates, VariableStates, OperatorStates, NoOpStates,
       ParameterStates, ToParameterStates, SetvarStates, OperationStates, ContentStates,
       KeyStates, ToActionStates, ErrorStates, StartConditions, EXPECTING_ACTIONS, Nested,
       None, Dict
<1>1. \A p \in ActionPatterns1 : Allowed(p)
  <2>1. \A p \in Stay(ActionStates, ACTION_NOT_SUPPORTED \cup {"ACTION_BLOCK",
         "ACTION_CAPTURE", "ACTION_CHAIN", "ACTION_DENY", "ACTION_DROP", "ACTION_ID",
         "ACTION_LOG", "ACTION_MULTI_MATCH", "ACTION_NO_AUDIT_LOG", "ACTION_NO_LOG",
         "ACTION_PASS", "ACTION_STATUS"}) : Allowed(p)
    BY StayAllowed, ZenonT(60) DEF StayAllows, ListTokens, TEXT, UpdateTarget, ACTION_NOT_SUPPORTED
  <2>2. \A p \in Begin(ActionStates, {"ACTION_SETRSC"}, "EXPECTING_ACTION_PREDICATE") :
         Allowed(p)
    BY StringActionsAllowed DEF ActionsWithString, StringActionsE, StringActionsR
  <2>. QED  BY ONLY <2>1, <2>2 DEF ActionPatterns1
<1>2. \A p \in ActionPatterns2 : Allowed(p)
  <2>1. \A p \in Stay(ActionStates, CtlAlone \cup ActionsWithValue \cup {"ACTION_ACCURACY",
         "ACTION_ALLOW", "ACTION_AUDIT_LOG", "ACTION_EXEC"}) : Allowed(p)
    BY StayAllowed, ValuedActions DEF StayAllows, ListTokens, TEXT, UpdateTarget, CtlAlone
  <2>. QED  BY ONLY <2>1 DEF ActionPatterns2
<1>3. \A p \in ActionPatterns3 : Allowed(p)
  <2>1. \A p \in Begin(ActionStates, {"ACTION_EXPIRE_VAR", "ACTION_INITCOL", "ACTION_MSG",
         "ACTION_REDIRECT", "ACTION_SETENV", "ACTION_SETSID", "ACTION_SETUID", "ACTION_TAG"},
         "EXPECTING_ACTION_PREDICATE") : Allowed(p)
    BY StringActionsAllowed DEF ActionsWithString, StringActionsE, StringActionsR
  <2>2. \A p \in Begin(ActionStates, {"ACTION_SETVAR"}, "SETVAR_ACTION_QUOTED") : Allowed(p)
    BY BeginAllowed DEF BeginAllows, ListStates, UpdateTarget
  <2>3. \A p \in Begin(ActionStates, {"ACTION_SETVAR"}, "SETVAR_ACTION_NONQUOTED") :
         Allowed(p)
    BY BeginAllowed DEF BeginAllows, ListStates, UpdateTarget
  <2>4. \A p \in Stay(ActionStates, {"ACTION_MATURITY", "ACTION_PHASE", "ACTION_REV",
         "ACTION_SEVERITY", "ACTION_SKIP", "ACTION_SKIP_AFTER", "ACTION_VER",
         "ACTION_XMLNS"}) : Allowed(p)
    BY StayAllowed DEF StayAllows, ListTokens, TEXT, UpdateTarget
  <2>. QED  BY ONLY <2>1, <2>2, <2>3, <2>4 DEF ActionPatterns3
<1>4. \A p \in TransformationPatterns1 : Allowed(p)
  <2>1. \A p \in Stay(ActionStates, TransformationsA \cup
         {"ACTION_TRANSFORMATION_COMPRESS_WHITESPACE", "ACTION_TRANSFORMATION_NONE"}) :
         Allowed(p)
    BY StayAllowed, ZenonT(60) DEF StayAllows, ListTokens, TEXT, UpdateTarget, TransformationsA
  <2>. QED  BY ONLY <2>1 DEF TransformationPatterns1
<1>5. \A p \in TransformationPatterns2 : Allowed(p)
  <2>1. \A p \in Stay(ActionStates, TransformationsB \
         {"ACTION_TRANSFORMATION_COMPRESS_WHITESPACE", "ACTION_TRANSFORMATION_NONE"}) :
         Allowed(p)
    BY StayAllowed, ZenonT(60) DEF StayAllows, ListTokens, TEXT, UpdateTarget, TransformationsB
  <2>2. \A p \in Begin(ActionStates, {"ACTION_LOG_DATA"}, "EXPECTING_ACTION_PREDICATE") :
         Allowed(p)
    BY StringActionsAllowed DEF ActionsWithString, StringActionsE, StringActionsR
  <2>. QED  BY ONLY <2>1, <2>2 DEF TransformationPatterns2
<1>6. \A p \in ActionValuePatterns : Allowed(p)
  <2>1. \A p \in Stay(ActionStates, {On, Off, RelevantOnly, "CONFIG_VALUE_DETC",
         "CONFIG_VALUE_ONLYARGS", ""}) : Allowed(p)
    BY StayAllowed DEF StayAllows, ListTokens, TEXT, UpdateTarget, On, Off, RelevantOnly
  <2>. QED  BY ONLY <2>1 DEF ActionValuePatterns
<1>7. \A p \in ActionEndPatterns : Allowed(p)
  <2>1. \A p \in Stay({EXPECTING_ACTIONS}, {"COMMA"}) : Allowed(p)
    BY StayAllowed DEF StayAllows, ListTokens, TEXT, UpdateTarget
  <2>2. \A p \in Begin(ActionStates, None, "INITIAL") : Allowed(p)
    BY BeginAllowed DEF BeginAllows, ListStates, UpdateTarget, None
  <2>3. \A p \in Back(Begin(ActionStates, None, "LEXING_ERROR_ACTION")) : Allowed(p)
    BY BackToErrorAllowed DEF ListStates
  <2>. QED  BY ONLY <2>1, <2>2, <2>3 DEF ActionEndPatterns
<1>8. \A p \in PredicatePatterns : Allowed(p)
  <2>1. \A p \in Begin({"EXPECTING_ACTION_PREDICATE"}, None,
         "ACTION_PREDICATE_ENDS_WITH_QUOTE") : Allowed(p)
    BY BeginAllowed DEF BeginAllows, ListStates, UpdateTarget, None
  <2>2. \A p \in Begin({"EXPECTING_ACTION_PREDICATE"}, None,
         "ACTION_PREDICATE_ENDS_WITH_DOUBLE_QUOTE") : Allowed(p)
    BY BeginAllowed DEF BeginAllows, ListStates, UpdateTarget, None
  <2>3. \A p \in Back(Begin({"EXPECTING_ACTION_PREDICATE"}, None,
         "ACTION_PREDICATE_ENDS_WITH_COMMA_OR_DOUBLE_QUOTE")) : Allowed(p)
    BY BackBeginAllowed, Levels DEF BeginAllows, ListStates, UpdateTarget, None
  <2>4. \A p \in BEGIN_PREVIOUS({"EXPECTING_ACTION_PREDICATE_VARIABLE"}, None) : Allowed(p)
    BY PopAllowed DEF PopAllows, UpdateTarget, None
  <2>5. \A p \in Stay(PredicateStates, {TEXT, ""}) : Allowed(p)
    BY StayAllowed DEF StayAllows, ListTokens, TEXT, UpdateTarget
  <2>6. \A p \in Begin({"ACTION_PREDICATE_ENDS_WITH_QUOTE",
         "ACTION_PREDICATE_ENDS_WITH_DOUBLE_QUOTE"}, None, EXPECTING_ACTIONS) : Allowed(p)
    BY BeginAllowed DEF BeginAllows, ListStates, UpdateTarget, None
  <2>7. \A p \in Back(Begin({"ACTION_PREDICATE_ENDS_WITH_COMMA_OR_DOUBLE_QUOTE"}, None,
         EXPECTING_ACTIONS)) : Allowed(p)
    BY BackBeginAllowed, Levels DEF BeginAllows, ListStates, UpdateTarget, None
  <2>8. \A p \in BEGINX(PredicateStates, None, "EXPECTING_ACTION_PREDICATE_VARIABLE") :
         Allowed(p)
    BY PushAllowed DEF PushAllows, Hosts, None
  <2>9. \A p \in Back(Begin(PredicateStates, None, "LEXING_ERROR_VARIABLE")) : Allowed(p)
    BY BackToErrorAllowed DEF ListStates
  <2>. QED  BY ONLY <2>1, <2>2, <2>3, <2>4, <2>5, <2>6, <2>7, <2>8, <2>9 DEF PredicatePatterns
<1>9. \A p \in SetvarPatterns : Allowed(p)
  <2>1. \A p \in Stay(SetvarStates, {"NOT"}) : Allowed(p)
    BY StayAllowed DEF StayAllows, ListTokens, TEXT, UpdateTarget
  <2>2. \A s \in SetvarStates : \A p \in Back(Begin({s}, None, BEGIN_ACTION_OPERATION(s))) :
         Allowed(p)
    BY BackBeginAllowed, Levels DEF BeginAllows, ListStates, UpdateTarget, None,
       BEGIN_ACTION_OPERATION
  <2>3. \A s \in OperationStates : \A p \in Begin({s}, SETVAR_OPERATION,
         BEGIN_ACTION_WAITING_CONTENT(s)) : Allowed(p)
    BY BeginAllowed, ZenonT(60) DEF BeginAllows, ListStates, UpdateTarget, SETVAR_OPERATION,
       BEGIN_ACTION_WAITING_CONTENT
  <2>4. \A p \in Back(Begin({"SETVAR_ACTION_NONQUOTED_WAITING_OPERATION"} \cup ContentStates,
         None, EXPECTING_ACTIONS)) : Allowed(p)
    BY BackBeginAllowed, Levels DEF BeginAllows, ListStates, UpdateTarget, None
  <2>5. \A p \in Begin({"SETVAR_ACTION_QUOTED_WAITING_OPERATION",
         "SETVAR_ACTION_QUOTED_WAITING_CONTENT"}, None, EXPECTING_ACTIONS) : Allowed(p)
    BY BeginAllowed DEF BeginAllows, ListStates, UpdateTarget, None
  <2>6. \A p \in Back(Begin({"SETVAR_ACTION_QUOTED_WAITING_OPERATION"}, None,
         "LEXING_ERROR_ACTION")) : Allowed(p)
    BY BackToErrorAllowed DEF ListStates
  <2>7. \A p \in BEGINX(ContentStates, None, "EXPECTING_ACTION_PREDICATE_VARIABLE") :
         Allowed(p)
    BY PushAllowed DEF PushAllows, Hosts, None
  <2>8. \A p \in Stay(ContentStates, {TEXT}) : Allowed(p)
    BY StayAllowed DEF StayAllows, ListTokens, TEXT, UpdateTarget
  <2>. QED  BY ONLY <2>1, <2>2, <2>3, <2>4, <2>5, <2>6, <2>7, <2>8 DEF SetvarPatterns, Each
<1>10. \A p \in DirectivePatterns1 : Allowed(p)
  <2>1. \A p \in Stay({"INITIAL"}, Tokens(audit_log) \cup {"CONFIG_COMPONENT_SIG",
         "CONFIG_CONTENT_INJECTION", "CONFIG_DIR_AUDIT_TPE", "CONFIG_SEC_ARGUMENT_SEPARATOR",
         "CONFIG_SEC_SERVER_SIG", "CONFIG_SEC_WEB_APP_ID"}) : Allowed(p)
    BY StayAllowed, RowsTokens DEF StayAllows, ListTokens, TEXT, UpdateTarget
  <2>. QED  BY ONLY <2>1 DEF DirectivePatterns1
<1>11. \A p \in DirectivePatterns2 : Allowed(p)
  <2>1. \A p \in Stay({"INITIAL"}, Tokens(expression_limits) \cup Tokens(expression_remove)
         \cup {"CONFIG_DIR_PCRE_MATCH_LIMIT", "CONFIG_DIR_PCRE_MATCH_LIMIT_RECURSION",
         "CONFIG_DIR_REQ_BODY", "CONFIG_DIR_REQ_BODY_LIMIT_ACTION", "CONFIG_DIR_RES_BODY",
         "CONFIG_DIR_RES_BODY_LIMIT_ACTION", "CONFIG_DIR_RULE_ENG", "CONFIG_DIR_SEC_MARKER",
         "CONFIG_DIR_UNICODE_MAP_FILE"}) : Allowed(p)
    BY StayAllowed, RowsTokens DEF StayAllows, ListTokens, TEXT, UpdateTarget
  <2>. QED  BY ONLY <2>1 DEF DirectivePatterns2
<1>12. \A p \in UpdatePatterns : Allowed(p)
  <2>1. \A p \in Begin({"INITIAL"}, UpdateTarget, "TRANSACTION_TO_VARIABLE") : Allowed(p)
    BY BeginAllowed DEF BeginAllows, ListStates, UpdateTarget
  <2>2. \A p \in Begin({"INITIAL"}, {"CONFIG_SEC_RULE_UPDATE_ACTION_BY_ID"},
         "TRANSACTION_FROM_OPERATOR_TO_ACTIONS") : Allowed(p)
    BY BeginAllowed DEF BeginAllows, ListStates, UpdateTarget
  <2>. QED  BY ONLY <2>1, <2>2 DEF UpdatePatterns
<1>13. \A p \in UploadPatterns : Allowed(p)
  <2>1. \A p \in Stay({"INITIAL"}, Tokens(audit_log_type) \ {"CONFIG_DIR_AUDIT_TPE"}) :
         Allowed(p)
    BY StayAllowed, RowsTokens DEF StayAllows, ListTokens, TEXT, UpdateTarget
  <2>. QED  BY ONLY <2>1 DEF UploadPatterns
<1>14. \A p \in ValuePatterns : Allowed(p)
  <2>1. \A p \in Stay({"INITIAL"}, {On, Off, RelevantOnly, "CONFIG_VALUE_ABORT",
         "CONFIG_VALUE_DETC", "CONFIG_VALUE_HTTPS", "CONFIG_VALUE_ONLYARGS",
         "CONFIG_VALUE_PARALLEL", "CONFIG_VALUE_PROCESS_PARTIAL", "CONFIG_VALUE_REJECT",
         "CONFIG_VALUE_SERIAL", "CONFIG_VALUE_WARN"}) : Allowed(p)
    BY StayAllowed DEF StayAllows, ListTokens, TEXT, UpdateTarget, On, Off, RelevantOnly
  <2>. QED  BY ONLY <2>1 DEF ValuePatterns
<1>15. \A p \in DirectivePatterns3 : Allowed(p)
  <2>1. \A p \in Stay({"INITIAL"}, Tokens(expression_types)) : Allowed(p)
    BY StayAllowed, RowsTokens DEF StayAllows, ListTokens, TEXT, UpdateTarget
  <2>. QED  BY ONLY <2>1 DEF DirectivePatterns3
<1>16. \A p \in DirectivePatterns4 : Allowed(p)
  <2>1. \A p \in Stay({"INITIAL"}, Tokens(expression_refused) \cup
         Tokens(expression_limits_refused) \cup {"CONFIG_CONN_ENGINE"}) : Allowed(p)
    BY StayAllowed, RowsTokens DEF StayAllows, ListTokens, TEXT, UpdateTarget
  <2>2. \A p \in Begin({"INITIAL"}, {"DIRECTIVE_SECRULESCRIPT"},
         "TRANSACTION_FROM_DIRECTIVE_TO_ACTIONS") : Allowed(p)
    BY BeginAllowed DEF BeginAllows, ListStates, UpdateTarget
  <2>. QED  BY ONLY <2>1, <2>2 DEF DirectivePatterns4
<1>17. \A p \in RulePatterns : Allowed(p)
  <2>1. \A p \in Begin({"INITIAL"}, {"DIRECTIVE"}, "TRANSACTION_TO_VARIABLE") : Allowed(p)
    BY BeginAllowed DEF BeginAllows, ListStates, UpdateTarget
  <2>2. \A p \in Begin({"INITIAL"}, {"CONFIG_DIR_SEC_ACTION",
         "CONFIG_DIR_SEC_DEFAULT_ACTION"}, "TRANSACTION_FROM_DIRECTIVE_TO_ACTIONS") :
         Allowed(p)
    BY BeginAllowed DEF BeginAllows, ListStates, UpdateTarget
  <2>3. \A p \in Stay({"INITIAL"}, {"CONFIG_SEC_COLLECTION_TIMEOUT", "CONFIG_SEC_HTTP_BLKEY",
         "CONFIG_SEC_REMOTE_RULES_FAIL_ACTION"}) : Allowed(p)
    BY StayAllowed DEF StayAllows, ListTokens, TEXT, UpdateTarget
  <2>. QED  BY ONLY <2>1, <2>2, <2>3 DEF RulePatterns
<1>18. \A p \in CommentPatterns : Allowed(p)
  <2>1. \A p \in Stay({"INITIAL"}, {"", "QUOTATION_MARK", "COMMA"}) : Allowed(p)
    BY StayAllowed DEF StayAllows, ListTokens, TEXT, UpdateTarget
  <2>2. \A p \in Begin({"INITIAL"}, None, "COMMENT") : Allowed(p)
    BY BeginAllowed DEF BeginAllows, ListStates, UpdateTarget, None
  <2>. QED  BY ONLY <2>1, <2>2 DEF CommentPatterns
<1>19. \A p \in CommentEndPatterns : Allowed(p)
  <2>1. \A p \in Stay({"COMMENT"}, None) : Allowed(p)
    BY StayAllowed DEF StayAllows, ListTokens, TEXT, UpdateTarget, None
  <2>2. \A p \in Begin({"COMMENT"}, None, "INITIAL") : Allowed(p)
    BY BeginAllowed DEF BeginAllows, ListStates, UpdateTarget, None
  <2>. QED  BY ONLY <2>1, <2>2 DEF CommentEndPatterns
<1>20. \A p \in ListPatterns : Allowed(p)
  <2>1. \A p \in Begin({"TRANSACTION_TO_VARIABLE"}, None, "EXPECTING_VARIABLE") : Allowed(p)
    BY BeginAllowed DEF BeginAllows, ListStates, UpdateTarget, None
  <2>2. \A p \in Stay({"EXPECTING_VARIABLE"}, {"PIPE", "QUOTATION_MARK", "VAR_EXCLUSION",
         "VAR_COUNT"}) : Allowed(p)
    BY StayAllowed DEF StayAllows, ListTokens, TEXT, UpdateTarget
  <2>3. \A p \in Back(Begin(VariableStates, None, "LEXING_ERROR_VARIABLE")) : Allowed(p)
    BY BackToErrorAllowed DEF ListStates
  <2>. QED  BY ONLY <2>1, <2>2, <2>3 DEF ListPatterns
<1>21. \A p \in ToActionsPatterns : Allowed(p)
  <2>1. \A p \in Stay({"TRANSACTION_FROM_DIRECTIVE_TO_ACTIONS"}, None) : Allowed(p)
    BY StayAllowed DEF StayAllows, ListTokens, TEXT, UpdateTarget, None
  <2>2. \A p \in Begin({"TRANSACTION_FROM_DIRECTIVE_TO_ACTIONS"}, None, EXPECTING_ACTIONS) :
         Allowed(p)
    BY BeginAllowed DEF BeginAllows, ListStates, UpdateTarget, None
  <2>. QED  BY ONLY <2>1, <2>2 DEF ToActionsPatterns
<1>22. \A p \in VariablePatterns1 : Allowed(p)
  <2>1. \A p \in Named(BodyVariables \cup {"VARIABLE_ARGS_GET_NAMES", "VARIABLE_ARGS_NAMES",
         "VARIABLE_ARGS_POST_NAMES", "VARIABLE_MULTIPART_FILENAME",
         "VARIABLE_MULTIPART_FILENAME_CHARSET", "VARIABLE_MULTIPART_FILENAME_LANGUAGE"}) :
         Allowed(p)
    BY NamedAllowed DEF Variables, DictVariables, CollectionVariables, BodyVariables,
       PartErrorVariables, RequestVariables, ResponseVariables, RunTimeVariables,
       ArgumentVariables, PartVariables, HeaderVariables, RuleVariables, NameVariables
  <2>. QED  BY ONLY <2>1 DEF VariablePatterns1
<1>23. \A p \in VariablePatterns2 : Allowed(p)
  <2>1. \A p \in Named(PartErrorVariables \cup {"VARIABLE_MULTIPART_NAME",
         "VARIABLE_REQUEST_BASENAME", "VARIABLE_REQBODY_PROCESSOR_ERROR_MSG",
         "VARIABLE_REQUEST_BODY", "VARIABLE_REQUEST_BODY_LENGTH",
         "VARIABLE_REQUEST_FILE_NAME", "VARIABLE_REQUEST_HEADERS_NAMES",
         "VARIABLE_REQUEST_LINE", "VARIABLE_REQUEST_METHOD"}) : Allowed(p)
    BY NamedAllowed DEF Variables, DictVariables, CollectionVariables, BodyVariables,
       PartErrorVariables, RequestVariables, ResponseVariables, RunTimeVariables,
       ArgumentVariables, PartVariables, HeaderVariables, RuleVariables, NameVariables
  <2>. QED  BY ONLY <2>1 DEF VariablePatterns2
<1>24. \A p \in VariablePatterns3 : Allowed(p)
  <2>1. \A p \in Named(ArgumentVariables \cup (ResponseVariables \ {"VARIABLE_STATUS",
         "VARIABLE_STATUS_LINE"}) \cup {"VARIABLE_REQUEST_PROTOCOL", "VARIABLE_REQUEST_URI",
         "VARIABLE_REQUEST_URI_RAW", "VARIABLE_RESPONSE_BODY",
         "VARIABLE_RESPONSE_CONTENT_LENGTH", "VARIABLE_RESPONSE_CONTENT_TYPE",
         "VARIABLE_RESPONSE_HEADERS_NAMES"}) : Allowed(p)
    BY NamedAllowed DEF Variables, DictVariables, CollectionVariables, BodyVariables,
       PartErrorVariables, RequestVariables, ResponseVariables, RunTimeVariables,
       ArgumentVariables, PartVariables, HeaderVariables, RuleVariables, NameVariables
  <2>. QED  BY ONLY <2>1 DEF VariablePatterns3
<1>25. \A p \in VariablePatterns4 : Allowed(p)
  <2>1. \A p \in Named(HeaderVariables \cup (RuleVariables \ {"RUN_TIME_VAR_ENV"}) \cup
         {"VARIABLE_MATCHED_VARS", "VARIABLE_MATCHED_VARS_NAMES"}) : Allowed(p)
    BY NamedAllowed DEF Variables, DictVariables, CollectionVariables, BodyVariables,
       PartErrorVariables, RequestVariables, ResponseVariables, RunTimeVariables,
       ArgumentVariables, PartVariables, HeaderVariables, RuleVariables, NameVariables
  <2>. QED  BY ONLY <2>1 DEF VariablePatterns4
<1>26. \A p \in VariablePatterns5 : Allowed(p)
  <2>1. \A p \in Named(RunTimeVariables \cup {"RUN_TIME_VAR_ENV"}) : Allowed(p)
    BY NamedAllowed DEF Variables, DictVariables, CollectionVariables, BodyVariables,
       PartErrorVariables, RequestVariables, ResponseVariables, RunTimeVariables,
       ArgumentVariables, PartVariables, HeaderVariables, RuleVariables, NameVariables
  <2>. QED  BY ONLY <2>1 DEF VariablePatterns5
<1>27. \A p \in CollectionPatterns1 : Allowed(p)
  <2>1. \A p \in Stay(VariableStates, CollectionVariables \cup {"VARIABLE_STATUS",
         "VARIABLE_STATUS_LINE"}) : Allowed(p)
    BY VariablesAllowed DEF Variables, CollectionVariables, ResponseVariables
  <2>. QED  BY ONLY <2>1 DEF CollectionPatterns1
<1>28. \A p \in CollectionPatterns2 : Allowed(p)
  <2>1. \A s \in VariableStates \cup SetvarStates : \A p \in BEGINX({s}, CollectionVariables,
         BEGINX_(s)) : Allowed(p)
    <3>. SUFFICES ASSUME NEW s \in VariableStates \cup SetvarStates
                  PROVE  \A p \in BEGINX({s}, CollectionVariables, BEGINX_(s)) : Allowed(p)
      OBVIOUS
    <3>1. /\ BEGINX_(s) \in Nested /\ s \in Hosts(BEGINX_(s))
          /\ BEGINX_(s) # "EXPECTING_ACTION_PREDICATE_VARIABLE"
      BY DEF BEGINX_, Hosts
    <3>2. \A t \in CollectionVariables : PushAllows(s, t, BEGINX_(s), FALSE)
      BY ONLY <3>1 DEF PushAllows, Variables
    <3>3. s \in StartConditions
      OBVIOUS
    <3>. QED  BY ONLY <3>2, <3>3, PushAllowed
  <2>. QED  BY ONLY <2>1 DEF CollectionPatterns2, Each
<1>29. \A p \in KeyPatterns : Allowed(p)
  <2>1. \A s \in KeyStates : \A p \in Begin({s}, SETVAR_OPERATION,
         BEGIN_ACTION_WAITING_CONTENT(s)) : Allowed(p)
    BY BeginAllowed, ZenonT(60) DEF BeginAllows, ListStates, UpdateTarget, SETVAR_OPERATION,
       BEGIN_ACTION_WAITING_CONTENT
  <2>2. \A p \in BEGIN_PREVIOUS(KeyStates, {"DICT_ELEMENT_REGEXP", TEXT}) : Allowed(p)
    BY PopAllowed DEF PopAllows, UpdateTarget, TEXT
  <2>3. \A p \in Stay(KeyStates, {TEXT}) : Allowed(p)
    BY StayAllowed DEF StayAllows, ListTokens, TEXT, UpdateTarget
  <2>4. \A p \in Back(BEGIN_PREVIOUS(KeyStates, None)) : Allowed(p)
    BY BackPopAllowed DEF PopAllows, UpdateTarget, None
  <2>5. \A p \in Back(BEGINX(KeyStates, None, "LEXING_ERROR_ACTION")) : Allowed(p)
    BY BackPushAllowed, Levels DEF PushAllows, Hosts, None
  <2>. QED  BY ONLY <2>1, <2>2, <2>3, <2>4, <2>5 DEF KeyPatterns, Each
<1>30. \A p \in ElementPatterns : Allowed(p)
  <2>1. \A p \in BEGIN_PREVIOUS({"EXPECTING_VAR_PARAMETER"}, Dict) : Allowed(p)
    BY PopAllowed DEF PopAllows, UpdateTarget, Dict
  <2>2. \A p \in Stay({"EXPECTING_VAR_PARAMETER"}, {"QUOTATION_MARK"}) : Allowed(p)
    BY StayAllowed DEF StayAllows, ListTokens, TEXT, UpdateTarget
  <2>3. \A p \in Back(BEGINX({"EXPECTING_VAR_PARAMETER"}, None, "LEXING_ERROR_ACTION")) :
         Allowed(p)
    BY BackPushAllowed, Levels DEF PushAllows, Hosts, None
  <2>. QED  BY ONLY <2>1, <2>2, <2>3 DEF ElementPatterns
<1>31. \A p \in OperatorPatterns1 : Allowed(p)
  <2>1. \A p \in Begin(OperatorStates, OperatorsAlone,
         "TRANSACTION_FROM_OPERATOR_TO_ACTIONS") : Allowed(p)
    BY BeginAllowed, ZenonT(60) DEF BeginAllows, ListStates, UpdateTarget, OperatorsAlone
  <2>. QED  BY ONLY <2>1 DEF OperatorPatterns1
<1>32. \A p \in OperatorPatterns2 : Allowed(p)
  <2>1. \A p \in Parameterised(OperatorsComparing \cup {"OPERATOR_PM",
         "OPERATOR_PM_FROM_FILE", "OPERATOR_RBL"}) : Allowed(p)
    BY ParameterisedAllowed DEF OperatorsWithString, OperatorsValidating, OperatorsComparing,
       OperatorsMatching
  <2>. QED  BY ONLY <2>1 DEF OperatorPatterns2
<1>33. \A p \in OperatorPatterns3 : Allowed(p)
  <2>1. \A p \in Parameterised(OperatorsValidating \cup {"OPERATOR_BEGINS_WITH",
         "OPERATOR_RX", "OPERATOR_RX_GLOBAL", "OPERATOR_STR_EQ", "OPERATOR_STR_MATCH"}) :
         Allowed(p)
    BY ParameterisedAllowed DEF OperatorsWithString, OperatorsValidating, OperatorsComparing,
       OperatorsMatching
  <2>. QED  BY ONLY <2>1 DEF OperatorPatterns3
<1>34. \A p \in OperatorPatterns4 : Allowed(p)
  <2>1. \A p \in Stay(OperatorStates, {"NOT"}) : Allowed(p)
    BY StayAllowed DEF StayAllows, ListTokens, TEXT, UpdateTarget
  <2>2. \A s \in OperatorStates : \A p \in Back(Begin({s}, None, BEGIN_NO_OP_INFORMED(s))) :
         Allowed(p)
    BY BackBeginAllowed, Levels, ZenonT(60) DEF BeginAllows, ListStates, UpdateTarget, None,
       BEGIN_NO_OP_INFORMED
  <2>. QED  BY ONLY <2>1, <2>2 DEF OperatorPatterns4, Each
<1>35. \A p \in ToParameterPatterns : Allowed(p)
  <2>1. \A p \in Begin({"TRANSITION_FROM_OP_TO_EXPECTING_PARAMETER_ENDS_WITH_SPACE"}, None,
         "EXPECTING_PARAMETER_ENDS_WITH_SPACE") : Allowed(p)
    BY BeginAllowed DEF BeginAllows, ListStates, UpdateTarget, OperatorsWithString,
       OperatorsValidating, OperatorsComparing, OperatorsMatching, None
  <2>2. \A p \in Begin({"TRANSITION_FROM_OP_TO_EXPECTING_PARAMETER_ENDS_WITH_QUOTE"}, None,
         "EXPECTING_PARAMETER_ENDS_WITH_QUOTE") : Allowed(p)
    BY BeginAllowed DEF BeginAllows, ListStates, UpdateTarget, OperatorsWithString,
       OperatorsValidating, OperatorsComparing, OperatorsMatching, None
  <2>. QED  BY ONLY <2>1, <2>2 DEF ToParameterPatterns
<1>36. \A p \in NoOpPatterns : Allowed(p)
  <2>1. \A p \in Begin(NoOpStates, None, "TRANSACTION_FROM_OPERATOR_PARAMETERS_TO_ACTIONS") :
         Allowed(p)
    BY BeginAllowed DEF BeginAllows, ListStates, UpdateTarget, None
  <2>2. \A p \in Stay(NoOpStates, {TEXT}) : Allowed(p)
    BY StayAllowed DEF StayAllows, ListTokens, TEXT, UpdateTarget
  <2>3. \A p \in BEGINX(NoOpStates, None, "EXPECTING_ACTION_PREDICATE_VARIABLE") : Allowed(p)
    BY PushAllowed DEF PushAllows, Hosts, None
  <2>4. \A p \in Back(Begin(NoOpStates, None, "LEXING_ERROR")) : Allowed(p)
    BY BackToErrorAllowed DEF ListStates
  <2>. QED  BY ONLY <2>1, <2>2, <2>3, <2>4 DEF NoOpPatterns
<1>37. \A p \in ParameterPatterns : Allowed(p)
  <2>1. \A p \in Begin(ParameterStates, None,
         "TRANSACTION_FROM_OPERATOR_PARAMETERS_TO_ACTIONS") : Allowed(p)
    BY BeginAllowed DEF BeginAllows, ListStates, UpdateTarget, None
  <2>2. \A p \in Stay(ParameterStates, {TEXT}) : Allowed(p)
    BY StayAllowed DEF StayAllows, ListTokens, TEXT, UpdateTarget
  <2>3. \A p \in BEGINX(ParameterStates \cup KeyStates, None,
         "EXPECTING_ACTION_PREDICATE_VARIABLE") : Allowed(p)
    BY PushAllowed DEF PushAllows, Hosts, None
  <2>4. \A p \in Back(Begin(ParameterStates \cup KeyStates, None, "LEXING_ERROR_VARIABLE")) :
         Allowed(p)
    BY BackToErrorAllowed DEF ListStates
  <2>. QED  BY ONLY <2>1, <2>2, <2>3, <2>4 DEF ParameterPatterns
<1>38. \A p \in OnlyOnePatterns : Allowed(p)
  <2>1. \A p \in Begin(ToActionStates, None, "EXPECTING_ACTIONS_ONLY_ONE") : Allowed(p)
    BY BeginAllowed DEF BeginAllows, ListStates, UpdateTarget, None
  <2>2. \A p \in Begin(ToActionStates, None, EXPECTING_ACTIONS) : Allowed(p)
    BY BeginAllowed DEF BeginAllows, ListStates, UpdateTarget, None
  <2>. QED  BY ONLY <2>1, <2>2 DEF OnlyOnePatterns
<1>39. \A p \in BlankPatterns : Allowed(p)
  <2>1. \A p \in Stay({"INITIAL", "EXPECTING_ACTION_PREDICATE_VARIABLE"} \cup OperatorStates
         \cup KeyStates \cup ParameterStates, None) : Allowed(p)
    BY StayAllowed DEF StayAllows, ListTokens, TEXT, UpdateTarget, None
  <2>. QED  BY ONLY <2>1 DEF BlankPatterns
<1>40. \A p \in InvalidPatterns : Allowed(p)
  <2>1. \A p \in Back(Begin({"INITIAL"}, None, "LEXING_ERROR")) : Allowed(p)
    BY BackToErrorAllowed DEF ListStates
  <2>. QED  BY ONLY <2>1 DEF InvalidPatterns
<1>41. \A p \in Echo : Allowed(p)
  <2>1. \A p \in Stay(StartConditions \ ({"INITIAL", "EXPECTING_VARIABLE"} \cup ActionStates
         \cup ErrorStates \cup SetvarStates \cup OperationStates \cup ContentStates), None) :
         Allowed(p)
    BY StayAllowed DEF StayAllows, ListTokens, TEXT, UpdateTarget, None
  <2>. QED  BY ONLY <2>1 DEF Echo
<1>. QED  BY ONLY <1>1, <1>2, <1>3, <1>4, <1>5, <1>6, <1>7, <1>8, <1>9, <1>10, <1>11, <1>12,
          <1>13, <1>14, <1>15, <1>16, <1>17, <1>18, <1>19, <1>20, <1>21, <1>22, <1>23, <1>24,
          <1>25, <1>26, <1>27, <1>28, <1>29, <1>30, <1>31, <1>32, <1>33, <1>34, <1>35, <1>36,
          <1>37, <1>38, <1>39, <1>40, <1>41 DEF AllPatterns

-----------------------------------------------------------------------------
(* The tokens the parser treats alike are of one class.                    *)

Single == {"", "NOT", TEXT, "QUOTATION_MARK", "PIPE", "VAR_EXCLUSION", "VAR_COUNT", "DIRECTIVE"}
          \cup Dict
ClassTokens == ActionsAlone \cup ACTION_NOT_SUPPORTED \cup OperatorsAlone \cup WithActions
               \cup UpdateTarget \cup ActionsWithString \cup SETVAR_OPERATION
               \cup OperatorsWithString
Alike == {UpdateTarget, ActionsWithString, SETVAR_OPERATION, OperatorsWithString}

LEMMA DirectivesApart ==
    /\ Tokens(Rows) \subseteq DirectiveTokens
    /\ DirectiveTokens \cap (ClassTokens \cup Single \cup Variables \cup ActionsWithValue) = {}
<1>1. \A t \in Tokens(Rows) : t \in DirectiveTokens
  BY RowsAreRows DEF Tokens
<1>. USE DEF DirectiveTokens, AuditTokens, UploadTokens, EngineTokens, RefusedTokens,
       RefusedLimitTokens, RemoveTokens, LimitTokens, LimitActionTokens, TypeTokens, UnicodeTokens
<1>2. DirectiveTokens \cap (ClassTokens \cup Single) = {}
  BY DEF ClassTokens, ActionsAlone, ActionsA, CtlAlone, ActionsD, ActionsN, ActionsS,
       TransformationsA, TransformationsB, ACTION_NOT_SUPPORTED, OperatorsAlone, WithActions,
       UpdateTarget, ActionsWithString, StringActionsE, StringActionsR, SETVAR_OPERATION,
       OperatorsWithString, OperatorsValidating, OperatorsComparing, OperatorsMatching,
       Single, TEXT, Dict
<1>3. DirectiveTokens \cap Variables = {}
  BY DEF Variables, DictVariables, CollectionVariables, BodyVariables,
       PartErrorVariables, RequestVariables, ResponseVariables, RunTimeVariables,
       ArgumentVariables, PartVariables, HeaderVariables, RuleVariables, NameVariables,
       SharedCollections, OwnCollections
<1>4. DirectiveTokens \cap ActionsWithValue = {}
  BY DEF ActionsWithValue, CtlWithValue
<1>. QED  BY ONLY <1>1, <1>2, <1>3, <1>4

LEMMA VariablesForeign == Variables \cap (ClassTokens \cup Single \cup ActionsWithValue) = {}
<1>1. Variables \cap (ClassTokens \cup Single) = {}
  BY DEF Variables, DictVariables, CollectionVariables, BodyVariables,
       PartErrorVariables, RequestVariables, ResponseVariables, RunTimeVariables,
       ArgumentVariables, PartVariables, HeaderVariables, RuleVariables, NameVariables,
       SharedCollections, OwnCollections,
       ClassTokens, ActionsAlone, ActionsA, CtlAlone, ActionsD, ActionsN, ActionsS,
       TransformationsA, TransformationsB, ACTION_NOT_SUPPORTED, OperatorsAlone, WithActions,
       UpdateTarget, ActionsWithString, StringActionsE, StringActionsR, SETVAR_OPERATION,
       OperatorsWithString, OperatorsValidating, OperatorsComparing, OperatorsMatching,
       Single, TEXT, Dict
<1>2. Variables \cap ActionsWithValue = {}
  BY DEF Variables, DictVariables, CollectionVariables, BodyVariables,
       PartErrorVariables, RequestVariables, ResponseVariables, RunTimeVariables,
       ArgumentVariables, PartVariables, HeaderVariables, RuleVariables, NameVariables,
       SharedCollections, OwnCollections,
       ActionsWithValue, CtlWithValue
<1>. QED  BY ONLY <1>1, <1>2

LEMMA ValuedForeign == ActionsWithValue \cap (ClassTokens \cup Single) = {}
<1>1. ActionsWithValue \subseteq
          {"ACTION_CTL_AUDIT_ENGINE", "ACTION_CTL_FORCE_REQ_BODY_VAR",
           "ACTION_CTL_PARSE_XML_INTO_ARGS", "ACTION_CTL_REQUEST_BODY_ACCESS",
           "ACTION_CTL_RULE_ENGINE"}
  BY DEF ActionsWithValue, CtlWithValue
<1>2. {"ACTION_CTL_AUDIT_ENGINE", "ACTION_CTL_FORCE_REQ_BODY_VAR",
       "ACTION_CTL_PARSE_XML_INTO_ARGS", "ACTION_CTL_REQUEST_BODY_ACCESS",
       "ACTION_CTL_RULE_ENGINE"} \cap (ClassTokens \cup Single) = {}
  BY DEF ClassTokens, ActionsAlone, ActionsA, CtlAlone, ActionsD, ActionsN, ActionsS,
       TransformationsA, TransformationsB, ACTION_NOT_SUPPORTED, OperatorsAlone, WithActions,
       UpdateTarget, ActionsWithString, StringActionsE, StringActionsR, SETVAR_OPERATION,
       OperatorsWithString, OperatorsValidating, OperatorsComparing, OperatorsMatching,
       Single, TEXT, Dict
<1>. QED  BY ONLY <1>1, <1>2

LEMMA TokensApart ==
    /\ (ActionsAlone \cup ACTION_NOT_SUPPORTED \cup OperatorsAlone \cup WithActions) \cap
           (UpdateTarget \cup ActionsWithString \cup SETVAR_OPERATION
            \cup OperatorsWithString \cup Single) = {}
    /\ OPERATOR_NOT_SUPPORTED \subseteq OperatorsWithString
    /\ OperatorsWithString \cap (UpdateTarget \cup ActionsWithString \cup SETVAR_OPERATION
                                 \cup Single) = {}
    /\ ActionsWithString \cap (UpdateTarget \cup SETVAR_OPERATION \cup Single) = {}
    /\ SETVAR_OPERATION \cap (UpdateTarget \cup Single) = {}
    /\ UpdateTarget \cap Single = {}
<1>. USE DEF UpdateTarget, ActionsWithString, StringActionsE,
       StringActionsR, SETVAR_OPERATION, OperatorsWithString, OperatorsValidating,
       OperatorsComparing, OperatorsMatching, Single, TEXT, Dict
<1>1. (ActionsAlone \cup ACTION_NOT_SUPPORTED) \cap
           (UpdateTarget \cup ActionsWithString \cup SETVAR_OPERATION
            \cup OperatorsWithString \cup Single) = {}
  BY DEF ActionsAlone, ActionsA, CtlAlone, ActionsD, ActionsN, ActionsS, TransformationsA,
       TransformationsB, ACTION_NOT_SUPPORTED
<1>2. (OperatorsAlone \cup WithActions) \cap
           (UpdateTarget \cup ActionsWithString \cup SETVAR_OPERATION
            \cup OperatorsWithString \cup Single) = {}
  BY DEF OperatorsAlone, WithActions
<1>3. OPERATOR_NOT_SUPPORTED \subseteq OperatorsWithString
  BY DEF OPERATOR_NOT_SUPPORTED
<1>4. /\ OperatorsWithString \cap (UpdateTarget \cup ActionsWithString \cup SETVAR_OPERATION
                                   \cup Single) = {}
      /\ ActionsWithString \cap (UpdateTarget \cup SETVAR_OPERATION \cup Single) = {}
      /\ SETVAR_OPERATION \cap (UpdateTarget \cup Single) = {} /\ UpdateTarget \cap Single = {}
  OBVIOUS
<1>. QED  BY <1>1, <1>2, <1>3, <1>4

LEMMA ClassesApart ==
    /\ \A c \in Classes : c \cap Single = {} /\ c \subseteq ClassTokens
    /\ \A c \in Classes, a \in Alike : c \cap a = {} \/ c \subseteq a
    /\ \A a \in Alike : \A t \in a : \E c \in Classes : t \in c
<1>. DEFINE Script == {"CONFIG_DIR_SEC_ACTION", "CONFIG_DIR_SEC_DEFAULT_ACTION",
                       "DIRECTIVE_SECRULESCRIPT"}
<1>1. Script \subseteq WithActions
  BY DEF WithActions
<1>. HIDE DEF Script
<1>2. Classes = {ActionsAlone \ ACTION_NOT_SUPPORTED, ACTION_NOT_SUPPORTED, ActionsWithString,
            OperatorsAlone, OPERATOR_NOT_SUPPORTED, OperatorsWithString \ OPERATOR_NOT_SUPPORTED,
            UpdateTarget, SETVAR_OPERATION, Script}
  BY DEF Classes, Script
<1>5. \A c \in Classes : c \cap Single = {} /\ c \subseteq ClassTokens
  BY <1>1, <1>2, TokensApart DEF ClassTokens
<1>6. \A c \in Classes, a \in Alike : c \cap a = {} \/ c \subseteq a
  BY <1>1, <1>2, TokensApart DEF Alike
<1>7. \A a \in Alike : \A t \in a : \E c \in Classes : t \in c
  BY <1>2, TokensApart DEF Alike
<1>. QED  BY ONLY <1>5, <1>6, <1>7

LEMMA ClassKept ==
    ASSUME NEW t, \E c \in Classes : t \in c
    PROVE  \E c \in Classes :
               t \in c /\ (CHOOSE u \in CHOOSE d \in Classes : t \in d : TRUE) \in c
<1>. DEFINE d == CHOOSE c \in Classes : t \in c
<1>1. d \in Classes /\ t \in d
  OBVIOUS
<1>2. (CHOOSE u \in d : TRUE) \in d
  BY <1>1
<1>. QED  BY <1>1, <1>2

LEMMA OneOfSingle == \A t \in Single : OneOf(t) = t
<1>. SUFFICES ASSUME NEW t \in Single PROVE OneOf(t) = t
  OBVIOUS
<1>1. t \notin Variables /\ t \notin Tokens(Rows) /\ t \notin ActionsWithValue
  BY DirectivesApart, VariablesForeign, ValuedForeign
<1>2. ~ \E c \in Classes : t \in c
  BY ClassesApart
<1>. QED  BY ONLY <1>1, <1>2, SMT DEF OneOf

LEMMA OneOfVariables == \A t \in Variables : OneOf(t) \in Variables
<1>. SUFFICES ASSUME NEW t \in Variables PROVE OneOf(t) \in Variables
  OBVIOUS
<1>1. t \notin Tokens(Rows) /\ t \notin ActionsWithValue /\ ~ \E c \in Classes : t \in c
  BY DirectivesApart, VariablesForeign, ClassesApart
<1>2. OneOf(t) = CHOOSE u \in Variables : Kind(u) = Kind(t)
  BY ONLY <1>1, t \in Variables DEF OneOf
<1>. QED  BY <1>2

LEMMA OneOfAlike == \A a \in Alike : \A t \in a : OneOf(t) \in a
<1>. SUFFICES ASSUME NEW a \in Alike, NEW t \in a PROVE OneOf(t) \in a
  OBVIOUS
<1>1. t \notin Variables /\ t \notin Tokens(Rows) /\ t \notin ActionsWithValue
  BY DirectivesApart, VariablesForeign, ValuedForeign DEF Alike, ClassTokens
<1>2. \E c \in Classes : t \in c
  BY ClassesApart
<1>3. OneOf(t) = CHOOSE u \in CHOOSE c \in Classes : t \in c : TRUE
  BY ONLY <1>1, <1>2 DEF OneOf
<1>. QED  BY <1>2, <1>3, ClassKept, ClassesApart, ZenonT(60)

LEMMA OneOfUpdate == \A t : t \notin UpdateTarget => OneOf(t) \notin UpdateTarget
<1>. SUFFICES ASSUME NEW t, t \notin UpdateTarget PROVE OneOf(t) \notin UpdateTarget
  OBVIOUS
<1>1. CASE t \in Variables
  BY <1>1, OneOfVariables, VariablesForeign DEF ClassTokens
<1>2. CASE t \notin Variables /\ t \in Tokens(Rows)
  <2>1. OneOf(t) = CHOOSE u \in Tokens(Rows) : Takes(u) = Takes(t)
    <3>1. t \notin ActionsWithValue /\ ~ \E c \in Classes : t \in c
      BY <1>2, DirectivesApart, ClassesApart
    <3>. QED  BY ONLY <1>2, <3>1 DEF OneOf
  <2>2. OneOf(t) \in Tokens(Rows)
    BY ONLY <1>2, <2>1
  <2>. QED  BY <2>2, DirectivesApart DEF ClassTokens
<1>3. CASE t \notin Variables \cup Tokens(Rows) /\ t \in ActionsWithValue
  <2>1. OneOf(t) = CHOOSE u \in ActionsWithValue : Values(u) = Values(t)
    <3>1. ~ \E c \in Classes : t \in c
      BY <1>3, ValuedForeign, ClassesApart
    <3>. QED  BY ONLY <1>3, <3>1 DEF OneOf
  <2>2. OneOf(t) \in ActionsWithValue
    BY ONLY <1>3, <2>1
  <2>. QED  BY <2>2, ValuedForeign DEF ClassTokens
<1>4. CASE /\ t \notin Variables \cup Tokens(Rows) \cup ActionsWithValue
           /\ \E c \in Classes : t \in c
  <2>1. OneOf(t) = CHOOSE u \in CHOOSE c \in Classes : t \in c : TRUE
    BY ONLY <1>4 DEF OneOf
  <2>2. \E c \in Classes :
            t \in c /\ (CHOOSE u \in CHOOSE d \in Classes : t \in d : TRUE) \in c
    BY <1>4, ClassKept
  <2>3. PICK c \in Classes : t \in c /\ OneOf(t) \in c
    BY <2>1, <2>2
  <2>. QED  BY <2>3, ClassesApart DEF Alike
<1>5. CASE /\ t \notin Variables \cup Tokens(Rows) \cup ActionsWithValue
           /\ ~ \E c \in Classes : t \in c
  BY <1>5 DEF OneOf
<1>. QED  BY ONLY <1>1, <1>2, <1>3, <1>4, <1>5

LEMMA PatternsOfAllowed ==
    \A s \in StartConditions : \A p \in PatternsOf[s] : p.from = s /\ Allowed(p)
<1>. SUFFICES ASSUME NEW s \in StartConditions, NEW p \in PatternsOf[s]
              PROVE  p.from = s /\ Allowed(p)
  OBVIOUS
<1>1. PICK q \in AllPatterns : q.from = s /\ p = [q EXCEPT !.token = OneOf(@)]
  BY DEF PatternsOf
<1>2. Allowed(q)
  BY AllPatternsAllowed
<1>3. p = Pattern(s, OneOf(q.token), q.how, q.go, q.back)
  BY <1>1, <1>2 DEF Allowed, Pattern
<1>. DEFINE t == q.token
            u == OneOf(q.token)
<1>4. /\ p.from = s /\ p.token = u /\ p.how = q.how /\ p.go = q.go /\ p.back = q.back
      /\ p = Pattern(p.from, p.token, p.how, p.go, p.back)
  BY <1>3 DEF Pattern
<1>5. /\ t \in Single => u = t
      /\ t \in Variables => u \in Variables
      /\ \A a \in {UpdateTarget, ActionsWithString, SETVAR_OPERATION, OperatorsWithString} : t \in a => u \in a
      /\ t \notin UpdateTarget => u \notin UpdateTarget
  BY OneOfSingle, OneOfVariables, OneOfAlike, OneOfUpdate DEF Alike
<1>. HIDE DEF t, u
<1>6. CASE q.how = "stay" /\ q.back = FALSE /\ StayAllows(s, t)
  <2>1. StayAllows(s, u)
    BY <1>5, <1>6 DEF StayAllows, ListTokens, Single
  <2>. QED  BY <1>1, <1>2, <1>4, <1>6, <2>1 DEF Allowed
<1>7. CASE q.how = "begin" /\ BeginAllows(s, t, q.go, q.back)
  <2>1. BeginAllows(s, u, q.go, q.back)
    BY <1>5, <1>7 DEF BeginAllows, Single
  <2>. QED  BY <1>1, <1>2, <1>4, <1>7, <2>1 DEF Allowed
<1>8. CASE q.how = "push" /\ PushAllows(s, t, q.go, q.back)
  <2>1. PushAllows(s, u, q.go, q.back)
    BY <1>5, <1>8 DEF PushAllows, Single
  <2>. QED  BY <1>1, <1>2, <1>4, <1>8, <2>1 DEF Allowed
<1>9. CASE q.how = "pop" /\ PopAllows(s, t, q.back)
  <2>1. PopAllows(s, u, q.back)
    BY <1>5, <1>9 DEF PopAllows, Single
  <2>. QED  BY <1>1, <1>2, <1>4, <1>9, <2>1 DEF Allowed
<1>. QED  BY <1>1, <1>2, <1>6, <1>7, <1>8, <1>9 DEF Allowed, t

-----------------------------------------------------------------------------
(* The files open.                                                         *)

LEMMA FilesOfFinite ==
    ASSUME NEW seq, Len(seq) \in Nat
    PROVE  IsFiniteSet(FilesOf(seq)) /\ Cardinality(FilesOf(seq)) \in Nat
<1>1. IsFiniteSet(1..Len(seq))
  BY FS_Interval
<1>2. IsFiniteSet(FilesOf(seq))
  BY <1>1, FS_Subset DEF FilesOf
<1>. QED  BY <1>2, FS_CardinalityType

LEMMA FilesOfText ==
    ASSUME NEW seq \in Seq({"string", "file", "remote"}), Len(seq) = 1, seq[1] = "string"
    PROVE  Cardinality(FilesOf(seq)) = 0
<1>1. FilesOf(seq) = {}
  BY DEF FilesOf
<1>. QED  BY <1>1, FS_EmptySet

LEMMA FilesOfPushed ==
    ASSUME NEW seq \in Seq({"string", "file", "remote"}), NEW n \in Nat
    PROVE  /\ Pushed(seq, "file", n) \in Seq({"string", "file", "remote"})
           /\ Cardinality(FilesOf(Pushed(seq, "file", n))) = Cardinality(FilesOf(seq)) + n
           /\ Len(seq) > 0 =>
                 Len(Pushed(seq, "file", n)) > 0 /\ Pushed(seq, "file", n)[1] = seq[1]
<1>. DEFINE more == [i \in 1..n |-> "file"]
            long == Pushed(seq, "file", n)
<1>1. more \in Seq({"string", "file", "remote"}) /\ Len(more) = n
  OBVIOUS
<1>2. /\ long \in Seq({"string", "file", "remote"}) /\ Len(long) = Len(seq) + n
      /\ \A i \in 1..Len(seq) : long[i] = seq[i]
      /\ \A i \in (Len(seq) + 1)..(Len(seq) + n) : long[i] = "file"
  BY <1>1 DEF Pushed
<1>. HIDE DEF long
<1>3. FilesOf(long) = FilesOf(seq) \cup ((Len(seq) + 1)..(Len(seq) + n))
  BY <1>2 DEF FilesOf
<1>4. FilesOf(seq) \cap ((Len(seq) + 1)..(Len(seq) + n)) = {}
  BY DEF FilesOf
<1>5. IsFiniteSet(FilesOf(seq)) /\ Cardinality(FilesOf(seq)) \in Nat
  BY FilesOfFinite
<1>6. /\ IsFiniteSet((Len(seq) + 1)..(Len(seq) + n))
      /\ Cardinality((Len(seq) + 1)..(Len(seq) + n)) = n
  <2>1. Len(seq) + 1 \in Int /\ Len(seq) + n \in Int
    OBVIOUS
  <2>. QED  BY <2>1, FS_Interval
<1>7. Cardinality(FilesOf(long)) = Cardinality(FilesOf(seq)) + n - Cardinality({})
  BY <1>3, <1>4, <1>5, <1>6, FS_Union
<1>8. Cardinality(FilesOf(long)) = Cardinality(FilesOf(seq)) + n
  BY <1>5, <1>7, FS_EmptySet
<1>. QED  BY <1>2, <1>8 DEF long

LEMMA FilesOfRemote ==
    ASSUME NEW seq \in Seq({"string", "file", "remote"})
    PROVE  FilesOf(Append(seq, "remote")) = FilesOf(seq)
BY DEF FilesOf

LEMMA FilesWithoutLast ==
    ASSUME NEW seq \in Seq({"string", "file", "remote"}), Len(seq) > 1
    PROVE  /\ WithoutLast(seq) \in Seq({"string", "file", "remote"})
           /\ Len(WithoutLast(seq)) > 0 /\ WithoutLast(seq)[1] = seq[1]
           /\ Cardinality(FilesOf(WithoutLast(seq))) =
                  IF seq[Len(seq)] = "file" THEN Cardinality(FilesOf(seq)) - 1
                                            ELSE Cardinality(FilesOf(seq))
<1>. DEFINE short == WithoutLast(seq)
<1>1. /\ short \in Seq({"string", "file", "remote"}) /\ Len(short) = Len(seq) - 1
      /\ \A i \in 1..(Len(seq) - 1) : short[i] = seq[i]
  BY DEF WithoutLast
<1>. HIDE DEF short
<1>2. IsFiniteSet(FilesOf(seq)) /\ Cardinality(FilesOf(seq)) \in Nat
  BY FilesOfFinite
<1>3. CASE seq[Len(seq)] = "file"
  <2>1. FilesOf(short) = FilesOf(seq) \ {Len(seq)} /\ Len(seq) \in FilesOf(seq)
    BY <1>1, <1>3 DEF FilesOf
  <2>2. Cardinality(FilesOf(short)) = Cardinality(FilesOf(seq)) - 1
    BY <2>1, <1>2, FS_RemoveElement
  <2>. QED  BY <1>1, <1>3, <2>2 DEF short
<1>4. CASE seq[Len(seq)] # "file"
  <2>1. FilesOf(short) = FilesOf(seq)
    BY <1>1, <1>4 DEF FilesOf
  <2>. QED  BY <1>1, <1>4, <2>1 DEF short
<1>. QED  BY <1>3, <1>4

-----------------------------------------------------------------------------
(* Texts are read to their end: the invariant.                             *)

LEMMA HostsOfOthers ==
    ASSUME yy_start' \notin Nested, YY_PREVIOUS_STATE' \in Seq(StartConditions)
    PROVE  HostsBelow'
<1>. SUFFICES ASSUME NEW i \in 0..Len(YY_PREVIOUS_STATE'),
                     \A j \in 0..i : ConditionAt(j)' \in Nested
              PROVE  FALSE
  BY DEF HostsBelow, Nested, KeyStates
<1>1. 0 \in 0..i
  OBVIOUS
<1>2. ConditionAt(0)' = yy_start'
  BY DEF ConditionAt
<1>. QED  BY <1>1, <1>2

LEMMA TextsEndParse ==
    ASSUME TextsInv, NEW r \in {"done", "failed"}, EndParse(r),
           YY_PREVIOUS_STATE' \in Seq(StartConditions), r = "done" => open' = 0
    PROVE  TextsInv'
<1>1. ScannerTypeOK'
  BY DEF TextsInv, ScannerTypeOK, EndParse, StartConditions
<1>2. HostsBelow'
  BY HostsOfOthers DEF EndParse, Nested, KeyStates
<1>3. EatsInTime'
  BY Levels DEF EatsInTime, EndParse
<1>4. FilesOpen' /\ LocOfBuffer' /\ FilesReadAreClosed'
  BY DEF FilesOpen, LocOfBuffer, FilesReadAreClosed, EndParse
<1>. QED  BY <1>1, <1>2, <1>3, <1>4 DEF TextsInv

LEMMA TextsInit == ASSUME InitScanner PROVE TextsInv
<1>1. ScannerTypeOK
  BY DEF InitScanner, ScannerTypeOK, StartConditions
<1>2. HostsBelow
  BY DEF InitScanner, HostsBelow, ConditionAt, Nested, KeyStates
<1>3. EatsInTime
  BY Levels DEF EatsInTime, InitScanner
<1>4. FilesOpen /\ LocOfBuffer /\ FilesReadAreClosed
  BY DEF FilesOpen, LocOfBuffer, FilesReadAreClosed, InitScanner
<1>. QED  BY <1>1, <1>2, <1>3, <1>4 DEF TextsInv

(* Where the start condition and the stack stay as they are.               *)
LEMMA HostsStay ==
    ASSUME HostsBelow, UNCHANGED <<yy_start, YY_PREVIOUS_STATE>>
    PROVE  HostsBelow'
BY DEF HostsBelow, ConditionAt

LEMMA TextsScanBegin == ASSUME TextsInv, scan_begin PROVE TextsInv'
<1>1. ScannerTypeOK'
  BY ScannerAssumption DEF TextsInv, ScannerTypeOK, scan_begin
<1>2. HostsBelow'
  BY HostsStay DEF TextsInv, scan_begin
<1>3. EatsInTime'
  BY DEF TextsInv, EatsInTime, scan_begin
<1>4. FilesOpen'
  <2>1. /\ <<"string">> \in Seq({"string", "file", "remote"}) /\ Len(<<"string">>) = 1
        /\ <<"string">>[1] = "string"
    OBVIOUS
  <2>2. Cardinality(FilesOf(<<"string">>)) = 0
    BY <2>1, FilesOfText
  <2>. QED  BY <2>2 DEF FilesOpen, scan_begin
<1>5. LocOfBuffer' /\ FilesReadAreClosed'
  BY DEF LocOfBuffer, FilesReadAreClosed, scan_begin
<1>. QED  BY <1>1, <1>2, <1>3, <1>4, <1>5 DEF TextsInv

LEMMA TextsEndOfVariables == ASSUME TextsInv, EndOfVariables PROVE TextsInv'
<1>1. yy_start' \in OperatorStates \cup {"INITIAL"}
  BY DEF EndOfVariables
<1>2. ScannerTypeOK'
  BY <1>1 DEF TextsInv, ScannerTypeOK, EndOfVariables, StartConditions
<1>3. HostsBelow'
  <2>1. yy_start' \notin Nested
    BY <1>1 DEF OperatorStates, Nested, KeyStates
  <2>. QED  BY <2>1, <1>2, HostsOfOthers DEF ScannerTypeOK
<1>4. EatsInTime'
  BY <1>2, Levels DEF EatsInTime, EndOfVariables, ScannerTypeOK
<1>5. FilesOpen' /\ LocOfBuffer' /\ FilesReadAreClosed'
  BY DEF TextsInv, FilesOpen, LocOfBuffer, FilesReadAreClosed, EndOfVariables
<1>. QED  BY <1>2, <1>3, <1>4, <1>5 DEF TextsInv

LEMMA TextsLexingError == ASSUME TextsInv, LexingError PROVE TextsInv'
BY TextsEndParse DEF TextsInv, ScannerTypeOK, LexingError

LEMMA TextsEndOfBuffer == ASSUME TextsInv, EndOfBuffer PROVE TextsInv'
<1>1. CASE Len(buffers) > 1
  <2>1. ScannerTypeOK'
    BY <1>1, FilesWithoutLast DEF TextsInv, ScannerTypeOK, EndOfBuffer
  <2>2. HostsBelow'
    BY <1>1, HostsStay DEF TextsInv, EndOfBuffer
  <2>3. EatsInTime'
    BY <1>1, Levels DEF TextsInv, ScannerTypeOK, EatsInTime, EndOfBuffer
  <2>4. FilesOpen'
    BY <1>1, FilesWithoutLast DEF TextsInv, ScannerTypeOK, FilesOpen, EndOfBuffer, Closed
  <2>5. LocOfBuffer' /\ FilesReadAreClosed'
    BY <1>1 DEF TextsInv, LocOfBuffer, FilesReadAreClosed, EndOfBuffer
  <2>. QED  BY <2>1, <2>2, <2>3, <2>4, <2>5 DEF TextsInv
<1>2. CASE ~(Len(buffers) > 1)
  <2>0. parse = "running"
    BY DEF EndOfBuffer
  <2>1. Len(buffers) \in Nat /\ Len(buffers) > 0 /\ buffers[1] = "string"
    BY <2>0 DEF TextsInv, ScannerTypeOK
  <2>4. Len(buffers) = 1 /\ buffers[1] = "string"
    BY <1>2, <2>1
  <2>2. open' = 0
    BY <2>4, FilesOfText DEF TextsInv, ScannerTypeOK, FilesOpen, EndOfBuffer, Closed
  <2>3. EndParse("done") \/ EndParse("failed")
    BY <1>2 DEF EndOfBuffer
  <2>5. YY_PREVIOUS_STATE' \in Seq(StartConditions)
    BY DEF TextsInv, ScannerTypeOK, EndOfBuffer
  <2>. QED  BY <2>2, <2>3, <2>5, TextsEndParse
<1>. QED  BY <1>1, <1>2

LEMMA TextsInclude == ASSUME TextsInv, Include PROVE TextsInv'
<1>1. PICK n \in 0..(MaxTexts - parses - Len(buffers)) : \E opened \in 0..n :
        \/ /\ opened = n
           /\ buffers' = Pushed(buffers, "file", n)
           /\ locs' = Pushed(locs, "file", n)
           /\ open' = open + n
           /\ still' = 0
           /\ UNCHANGED <<yy_start, position, abort, parse, parses, stale>>
        \/ /\ opened < n \/ n = 0
           /\ open' = open + opened
           /\ EndParse("failed")
  BY DEF Include
<1>2. YY_PREVIOUS_STATE' \in Seq(StartConditions)
  BY DEF TextsInv, ScannerTypeOK, Include
<1>3. CASE EndParse("failed")
  BY <1>2, <1>3, TextsEndParse
<1>4. CASE /\ buffers' = Pushed(buffers, "file", n)
           /\ locs' = Pushed(locs, "file", n)
           /\ open' = open + n
           /\ still' = 0
           /\ UNCHANGED <<yy_start, position, abort, parse, parses, stale>>
  <2>0. n \in Nat
    BY ScannerAssumption DEF TextsInv, ScannerTypeOK
  <2>1. ScannerTypeOK'
    BY <1>4, <2>0, FilesOfPushed DEF TextsInv, ScannerTypeOK, Include
  <2>2. HostsBelow'
    BY <1>4, HostsStay DEF TextsInv, Include
  <2>3. EatsInTime'
    BY <1>4, Levels DEF TextsInv, ScannerTypeOK, EatsInTime
  <2>4. FilesOpen'
    BY <1>4, <2>0, FilesOfPushed DEF TextsInv, ScannerTypeOK, FilesOpen
  <2>5. LocOfBuffer' /\ FilesReadAreClosed'
    BY <1>4 DEF TextsInv, LocOfBuffer, FilesReadAreClosed, Include
  <2>. QED  BY <2>1, <2>2, <2>3, <2>4, <2>5 DEF TextsInv
<1>. QED  BY <1>1, <1>3, <1>4

LEMMA TextsSecRemoteRules == ASSUME TextsInv, SecRemoteRules PROVE TextsInv'
<1>1. YY_PREVIOUS_STATE' \in Seq(StartConditions)
  BY DEF TextsInv, ScannerTypeOK, SecRemoteRules
<1>2. CASE EndParse("failed")
  BY <1>1, <1>2, TextsEndParse
<1>3. CASE /\ buffers' = Append(buffers, "remote") /\ locs' = Append(locs, "remote")
           /\ still' = 0
           /\ UNCHANGED <<yy_start, position, abort, parse, parses, stale>>
  <2>1. ScannerTypeOK'
    BY <1>3 DEF TextsInv, ScannerTypeOK, SecRemoteRules
  <2>2. HostsBelow'
    BY <1>3, HostsStay DEF TextsInv, SecRemoteRules
  <2>3. EatsInTime'
    BY <1>3, Levels, SMTT(40) DEF TextsInv, ScannerTypeOK, EatsInTime
  <2>4. FilesOpen'
    BY <1>3, FilesOfRemote DEF TextsInv, ScannerTypeOK, FilesOpen, SecRemoteRules
  <2>5. LocOfBuffer' /\ FilesReadAreClosed'
    BY <1>3 DEF TextsInv, LocOfBuffer, FilesReadAreClosed, SecRemoteRules
  <2>. QED  BY <2>1, <2>2, <2>3, <2>4, <2>5 DEF TextsInv
<1>. QED  BY <1>2, <1>3 DEF SecRemoteRules

LEMMA HostsPushed ==
    ASSUME HostsBelow, YY_PREVIOUS_STATE \in Seq(StartConditions), yy_start \in StartConditions,
           YY_PREVIOUS_STATE' = <<yy_start>> \o YY_PREVIOUS_STATE,
           yy_start' \in Nested => yy_start \in Hosts(yy_start')
    PROVE  HostsBelow'
<1>1. /\ Len(YY_PREVIOUS_STATE') = Len(YY_PREVIOUS_STATE) + 1
      /\ YY_PREVIOUS_STATE'[1] = yy_start
      /\ \A i \in 1..Len(YY_PREVIOUS_STATE) : YY_PREVIOUS_STATE'[i + 1] = YY_PREVIOUS_STATE[i]
  OBVIOUS
<1>2. ConditionAt(0)' = yy_start'
  BY DEF ConditionAt
<1>3. \A i \in 0..Len(YY_PREVIOUS_STATE) : ConditionAt(i + 1)' = ConditionAt(i)
  BY <1>1 DEF ConditionAt
<1>. SUFFICES ASSUME NEW i \in 0..Len(YY_PREVIOUS_STATE'),
                     \A j \in 0..i : ConditionAt(j)' \in Nested
              PROVE  /\ i < Len(YY_PREVIOUS_STATE')
                     /\ ConditionAt(i + 1)' \in Hosts(ConditionAt(i)')
  BY DEF HostsBelow, Nested, KeyStates, Hosts
<1>4. CASE i = 0
  BY <1>1, <1>2, <1>3, <1>4 DEF ConditionAt
<1>5. CASE i # 0
  <2>1. i - 1 \in 0..Len(YY_PREVIOUS_STATE) /\ (i - 1) + 1 = i
    BY <1>1, <1>5
  <2>2. \A j \in 0..(i - 1) : ConditionAt(j) \in Nested
    <3>. SUFFICES ASSUME NEW j \in 0..(i - 1) PROVE ConditionAt(j) \in Nested
      OBVIOUS
    <3>1. j + 1 \in 0..i /\ j \in 0..Len(YY_PREVIOUS_STATE)
      BY <2>1
    <3>. QED  BY <3>1, <1>3
  <2>3. i - 1 < Len(YY_PREVIOUS_STATE) /\ ConditionAt(i) \in Hosts(ConditionAt(i - 1))
    BY <2>1, <2>2 DEF HostsBelow
  <2>4. ConditionAt(i)' = ConditionAt(i - 1) /\ ConditionAt(i + 1)' = ConditionAt(i)
    BY <2>1, <2>3, <1>3
  <2>. QED  BY <1>1, <2>1, <2>3, <2>4
<1>. QED  BY <1>4, <1>5

LEMMA HostsPopped ==
    ASSUME HostsBelow, YY_PREVIOUS_STATE \in Seq(StartConditions), yy_start \in Nested,
           Len(YY_PREVIOUS_STATE) > 0,
           YY_PREVIOUS_STATE' = Tail(YY_PREVIOUS_STATE), yy_start' = YY_PREVIOUS_STATE[1]
    PROVE  HostsBelow'
<1>1. /\ Len(YY_PREVIOUS_STATE') = Len(YY_PREVIOUS_STATE) - 1
      /\ \A i \in 1..(Len(YY_PREVIOUS_STATE) - 1) : YY_PREVIOUS_STATE'[i] = YY_PREVIOUS_STATE[i + 1]
  OBVIOUS
<1>2. ConditionAt(0) = yy_start
  BY DEF ConditionAt
<1>3. \A i \in 0..Len(YY_PREVIOUS_STATE') : ConditionAt(i)' = ConditionAt(i + 1)
  BY <1>1 DEF ConditionAt
<1>. SUFFICES ASSUME NEW i \in 0..Len(YY_PREVIOUS_STATE'),
                     \A j \in 0..i : ConditionAt(j)' \in Nested
              PROVE  /\ i < Len(YY_PREVIOUS_STATE')
                     /\ ConditionAt(i + 1)' \in Hosts(ConditionAt(i)')
  BY DEF HostsBelow, Nested, KeyStates, Hosts
<1>4. \A j \in 0..(i + 1) : ConditionAt(j) \in Nested
  <2>. SUFFICES ASSUME NEW j \in 0..(i + 1) PROVE ConditionAt(j) \in Nested
    OBVIOUS
  <2>1. CASE j = 0
    BY <2>1, <1>2
  <2>2. CASE j # 0
    <3>1. j - 1 \in 0..i /\ j - 1 \in 0..Len(YY_PREVIOUS_STATE') /\ (j - 1) + 1 = j
      BY <2>2, <1>1
    <3>. QED  BY <3>1, <1>3
  <2>. QED  BY <2>1, <2>2
<1>5. i + 1 < Len(YY_PREVIOUS_STATE) /\ ConditionAt(i + 2) \in Hosts(ConditionAt(i + 1))
  <2>1. i + 1 \in 0..Len(YY_PREVIOUS_STATE) /\ (i + 1) + 1 = i + 2
    BY <1>1
  <2>. QED  BY <2>1, <1>4 DEF HostsBelow
<1>6. ConditionAt(i)' = ConditionAt(i + 1) /\ ConditionAt(i + 1)' = ConditionAt(i + 2)
  <2>1. i + 1 \in 0..Len(YY_PREVIOUS_STATE') /\ (i + 1) + 1 = i + 2
    BY <1>1, <1>5
  <2>. QED  BY <2>1, <1>3
<1>. QED  BY <1>1, <1>5, <1>6

LEMMA TextsScan == ASSUME TextsInv, Scan PROVE TextsInv'
<1>0. /\ parse = "running" /\ yy_start \in StartConditions
      /\ YY_PREVIOUS_STATE \in Seq(StartConditions)
      /\ HostsBelow /\ EatsInTime
  BY DEF TextsInv, ScannerTypeOK, Scan
<1>. DEFINE Next(p) == IF p.token = "" THEN position ELSE Shift(position, p.token)
            Goes(p) == CASE p.how = "stay" -> yy_start
                         [] p.how = "pop"  -> Head(YY_PREVIOUS_STATE)
                         [] OTHER          -> p.go
<1>1. PICK p \in PatternsOf[yy_start] :
        /\ YY_PREVIOUS_STATE' = Stack(p)
        /\ \/ /\ yy_start' = Goes(p)
              /\ still' = IF p.back THEN still + 1 ELSE 0
              /\ UNCHANGED <<buffers, locs, parse, parses, stale>>
           \/ EndParse("failed")
        /\ UNCHANGED open
  BY DEF Scan
<1>2. p.from = yy_start /\ Allowed(p)
  BY <1>0, PatternsOfAllowed
<1>3. HostsBelow /\ yy_start \in Nested =>
         /\ Len(YY_PREVIOUS_STATE) > 0
         /\ YY_PREVIOUS_STATE[1] \in Hosts(yy_start)
  BY <1>0 DEF HostsBelow, ConditionAt
<1>4. Stack(p) \in Seq(StartConditions)
  <2>1. <<p.from>> \o YY_PREVIOUS_STATE \in Seq(StartConditions)
    BY <1>0, <1>2
  <2>2. CASE p.how = "pop"
    <3>1. yy_start \in Nested
      BY <1>2, <2>2 DEF Allowed, PopAllows
    <3>2. Tail(YY_PREVIOUS_STATE) \in Seq(StartConditions)
      BY <1>0, <1>3, <3>1
    <3>. QED  BY <2>2, <3>2 DEF Stack
  <2>3. CASE p.how # "pop"
    BY <1>0, <2>1, <2>3 DEF Stack
  <2>. QED  BY <2>2, <2>3
<1>5. CASE EndParse("failed")
  BY <1>1, <1>4, <1>5, TextsEndParse
<1>6. CASE /\ yy_start' = Goes(p)
           /\ still' = IF p.back THEN still + 1 ELSE 0
           /\ UNCHANGED <<buffers, locs, parse, parses, stale>>
  <2>1. FilesOpen' /\ LocOfBuffer' /\ FilesReadAreClosed'
    BY <1>1, <1>6 DEF TextsInv, FilesOpen, LocOfBuffer, FilesReadAreClosed
  <2>2. yy_start' \in StartConditions => ScannerTypeOK'
    BY <1>0, <1>1, <1>4, <1>6 DEF TextsInv, ScannerTypeOK
  <2>3. still \in 0..Level(yy_start)
    BY <1>0 DEF EatsInTime
  <2>4. CASE p.how = "stay"
    <3>1. yy_start' = yy_start /\ YY_PREVIOUS_STATE' = YY_PREVIOUS_STATE /\ still' = 0
      BY <1>1, <1>2, <1>6, <2>4 DEF Stack, Allowed
    <3>. QED  BY <1>0, <2>1, <2>2, <3>1, Levels, HostsStay DEF TextsInv, EatsInTime
  <2>5. CASE p.how = "begin"
    <3>1. yy_start' = p.go /\ BeginAllows(yy_start, p.token, p.go, p.back)
      BY <1>1, <1>2, <1>6, <2>5 DEF Allowed
    <3>2. yy_start' \in StartConditions \ Nested
      BY <3>1 DEF BeginAllows
    <3>3. EatsInTime'
      <4>1. Level(yy_start) \in 0..4 /\ Level(p.go) \in 0..4
        BY <1>0, <3>1, <3>2, Levels
      <4>2. CASE p.back
        <5>1. Level(yy_start) < Level(p.go)
          BY <3>1, <4>2 DEF BeginAllows
        <5>. QED  BY <1>6, <2>3, <3>1, <4>1, <4>2, <5>1 DEF EatsInTime
      <4>3. CASE ~p.back
        BY <1>6, <3>1, <4>1, <4>3 DEF EatsInTime
      <4>. QED  BY <4>2, <4>3
    <3>. QED  BY <1>1, <1>4, <2>1, <2>2, <3>2, <3>3, HostsOfOthers DEF TextsInv
  <2>6. CASE p.how = "push"
    <3>1. yy_start' = p.go /\ PushAllows(yy_start, p.token, p.go, p.back)
      BY <1>1, <1>2, <1>6, <2>6 DEF Allowed
    <3>2. YY_PREVIOUS_STATE' = <<yy_start>> \o YY_PREVIOUS_STATE
      BY <1>1, <1>2, <2>6 DEF Stack
    <3>3. yy_start' \in StartConditions
      BY <3>1 DEF PushAllows, Nested, KeyStates, StartConditions, VariableStates, ErrorStates
    <3>4. EatsInTime'
      <4>1. Level(yy_start) \in 0..4 /\ Level(p.go) \in 0..4
        BY <1>0, <3>1, <3>3, Levels
      <4>2. CASE p.back
        <5>1. p.go = "LEXING_ERROR_ACTION" /\ Level(yy_start) = 0
          BY <3>1, <4>2 DEF PushAllows
        <5>2. Level(p.go) > 0
          BY <5>1, Levels DEF StartConditions, ErrorStates
        <5>. QED  BY <1>6, <2>3, <3>1, <4>1, <4>2, <5>1, <5>2 DEF EatsInTime
      <4>3. CASE ~p.back
        BY <1>6, <3>1, <4>1, <4>3 DEF EatsInTime
      <4>. QED  BY <4>2, <4>3
    <3>5. HostsBelow'
      <4>1. yy_start' \in Nested => yy_start \in Hosts(yy_start')
        BY <3>1 DEF PushAllows, Nested, KeyStates
      <4>. QED  BY <1>0, <3>2, <4>1, HostsPushed
    <3>. QED  BY <2>1, <2>2, <3>3, <3>4, <3>5 DEF TextsInv
  <2>7. CASE p.how = "pop"
    <3>1. PopAllows(yy_start, p.token, p.back)
      BY <1>2, <2>7 DEF Allowed
    <3>2. /\ yy_start \in Nested /\ Len(YY_PREVIOUS_STATE) > 0
          /\ YY_PREVIOUS_STATE[1] \in Hosts(yy_start)
      BY <1>0, <1>3, <3>1 DEF PopAllows
    <3>6. YY_PREVIOUS_STATE' = Tail(YY_PREVIOUS_STATE) /\ yy_start' = Head(YY_PREVIOUS_STATE)
      BY <1>1, <1>6, <2>7 DEF Stack
    <3>3. /\ yy_start' \in StartConditions /\ yy_start' \in Hosts(yy_start)
          /\ yy_start' = YY_PREVIOUS_STATE[1]
      BY <1>0, <3>2, <3>6
    <3>4. EatsInTime'
      <4>1. CASE ~p.back
        BY <1>6, <3>3, <4>1, Levels DEF EatsInTime
      <4>2. CASE p.back
        <5>1. yy_start \in KeyStates
          BY <3>1, <4>2 DEF PopAllows
        <5>2. Level(yy_start) = 0 /\ Level(yy_start') = 1
          BY <3>3, <5>1, Levels DEF Hosts, KeyStates, SetvarStates
        <5>. QED  BY <1>6, <2>3, <4>2, <5>2 DEF EatsInTime
      <4>. QED  BY <4>1, <4>2
    <3>5. HostsBelow'
      BY <1>0, <3>2, <3>3, <3>6, HostsPopped
    <3>. QED  BY <2>1, <2>2, <3>3, <3>4, <3>5 DEF TextsInv
  <2>. QED  BY <1>2, <2>4, <2>5, <2>6, <2>7 DEF Allowed
<1>. QED  BY <1>1, <1>5, <1>6

-----------------------------------------------------------------------------
(* Where a token leads.                                                    *)

Foreign == Variables \cup OperatorsWithString \cup SETVAR_OPERATION \cup (Single \ {"", "DIRECTIVE"})
Ends == {"END", "DIRECTIVE", "COMMA", "ACTION_SETVAR"}

LEMMA ForeignTokens ==
    \A t \in Foreign :
        /\ t \notin Ends \cup UpdateTarget \cup WithActions \cup ActionsAlone \cup OperatorsAlone
                  \cup ActionsWithString \cup ActionsWithValue
        /\ RowsOf(t) = {}
<1>1. Foreign \cap (UpdateTarget \cup WithActions \cup ActionsAlone \cup OperatorsAlone
                   \cup ActionsWithString \cup ActionsWithValue) = {}
  BY VariablesForeign, TokensApart, ValuedForeign DEF Foreign, ClassTokens
<1>2. Variables \cap Ends = {}
  BY DEF Ends, Variables, DictVariables, CollectionVariables, BodyVariables,
       PartErrorVariables, RequestVariables, ResponseVariables, RunTimeVariables,
       ArgumentVariables, PartVariables, HeaderVariables, RuleVariables, NameVariables,
       SharedCollections, OwnCollections
<1>3. (OperatorsWithString \cup SETVAR_OPERATION \cup (Single \ {"", "DIRECTIVE"})) \cap Ends = {}
  BY DEF Ends, OperatorsWithString, OperatorsValidating, OperatorsComparing, OperatorsMatching,
         SETVAR_OPERATION, Single, TEXT, Dict
<1>4. Foreign \cap DirectiveTokens = {}
  BY DirectivesApart DEF Foreign, ClassTokens
<1>5. \A t \in Foreign : RowsOf(t) = {}
  BY <1>4, RowsAreRows DEF RowsOf
<1>. QED  BY ONLY <1>1, <1>2, <1>3, <1>5 DEF Foreign

LEMMA ForeignErrors ==
    \A t \in Foreign :
        /\ AtLine(t) = Error
        /\ \A q : AtAction(q, t) = Error
        /\ AfterOperator(t) = IF t = "QUOTATION_MARK" THEN Place("act1", "acts", TRUE) ELSE Error
        /\ \A q : AfterAction(q, t) = IF t = "QUOTATION_MARK" /\ q THEN Line ELSE Error
<1>. SUFFICES ASSUME NEW t \in Foreign
              PROVE  /\ AtLine(t) = Error
                     /\ \A q : AtAction(q, t) = Error
                     /\ AfterOperator(t) = IF t = "QUOTATION_MARK"
                                             THEN Place("act1", "acts", TRUE) ELSE Error
                     /\ \A q : AfterAction(q, t) = IF t = "QUOTATION_MARK" /\ q THEN Line ELSE Error
  OBVIOUS
<1>0. /\ t # "END" /\ t # "DIRECTIVE" /\ t # "COMMA" /\ t # "ACTION_SETVAR"
      /\ t \notin UpdateTarget /\ t \notin WithActions /\ t \notin ActionsAlone
      /\ t \notin ActionsWithString /\ t \notin ActionsWithValue /\ RowsOf(t) = {}
  BY ForeignTokens DEF Ends
<1>1. AtLine(t) = Error
  BY ONLY <1>0 DEF AtLine
<1>2. \A q : AtAction(q, t) = Error
  BY ONLY <1>0 DEF AtAction
<1>3. AfterOperator(t) = IF t = "QUOTATION_MARK" THEN Place("act1", "acts", TRUE) ELSE Error
  BY ONLY <1>1, <1>2 DEF AfterOperator
<1>4. \A q : AfterAction(q, t) = IF t = "QUOTATION_MARK" /\ q THEN Line ELSE Error
  BY ONLY <1>0, <1>1 DEF AfterAction
<1>. QED  BY ONLY <1>1, <1>2, <1>3, <1>4

LEMMA AtIs ==
    \A at, of, q, l, k, v : /\ IsPlace(At(at, of, q, l, k, v))
                           /\ At(at, of, q, l, k, v).at = at
                           /\ At(at, of, q, l, k, v).of = of
BY DEF IsPlace, At
LEMMA PlaceIs ==
    \A at, of, q : /\ IsPlace(Place(at, of, q))
                  /\ Place(at, of, q).at = at /\ Place(at, of, q).of = of
BY DEF Place, IsPlace, At
LEMMA NamedPlaces ==
    /\ IsPlace(Line) /\ Line.at = "line" /\ Line.of = ""
    /\ IsPlace(Error) /\ IsPlace(Accept) /\ Error.at = "error"
BY DEF Line, Error, Accept, IsPlace, At

LEMMA WithPlace ==
    ASSUME NEW g, IsPlace(g), NEW t
    PROVE  IsPlace(With(g, t)) /\ With(g, t).at = g.at /\ With(g, t).of = g.of
<1>. DEFINE l == IF t \in Variables THEN Kind(t) ELSE ""
            k == g.key \/ t \notin Dict
<1>1. With(g, t) = [g EXCEPT !.last = l, !.key = k]
  BY DEF With
<1>2. g = At(g.at, g.of, g.quoted, g.last, g.key, g.token)
  BY DEF IsPlace
<1>. HIDE DEF l, k
<1>3. With(g, t) = At(g.at, g.of, g.quoted, l, k, g.token)
  BY <1>1, <1>2 DEF At
<1>. QED  BY <1>3, AtIs

LEMMA AtStringPlace ==
    ASSUME NEW g, IsPlace(g), NEW t
    PROVE  /\ IsPlace(AtString(g, t))
           /\ t \notin Variables \cup {TEXT} => AtString(g, t) = Error
           /\ t \in Variables \cup {TEXT} =>
                 AtString(g, t).at = "strings" /\ AtString(g, t).of = g.of
<1>. DEFINE h == [g EXCEPT !.at = "strings"]
<1>1. IsPlace(h) /\ h.at = "strings" /\ h.of = g.of
  BY DEF IsPlace, At
<1>2. IsPlace(With(h, t)) /\ With(h, t).at = "strings" /\ With(h, t).of = g.of
  BY <1>1, WithPlace
<1>. QED  BY <1>2, NamedPlaces DEF AtString

LEMMA AtActionPlace == \A q, t : IsPlace(AtAction(q, t))
BY AtIs, PlaceIs, NamedPlaces DEF AtAction
LEMMA AtLinePlace == \A t : IsPlace(AtLine(t))
BY AtIs, PlaceIs, NamedPlaces DEF AtLine
LEMMA AfterActionPlace == \A q, t : IsPlace(AfterAction(q, t))
BY AtIs, PlaceIs, NamedPlaces, AtLinePlace DEF AfterAction
LEMMA AfterOperatorPlace == \A t : IsPlace(AfterOperator(t))
BY AtIs, PlaceIs, NamedPlaces, AtLinePlace, AtActionPlace DEF AfterOperator
LEMMA AtOperatorPlace == \A t : IsPlace(AtOperator(t))
BY AtIs, PlaceIs, NamedPlaces, AtStringPlace DEF AtOperator
LEMMA AfterVariablesPlace == \A of, t : IsPlace(AfterVariables(of, t))
BY AtIs, PlaceIs, NamedPlaces, AtLinePlace, AtOperatorPlace DEF AfterVariables
LEMMA AtValuePlace == \A g, t : IsPlace(AtValue(g, t))
BY AtIs, PlaceIs, NamedPlaces DEF AtValue
LEMMA AtVariablePlace == \A g, t : IsPlace(AtVariable(g, t))
BY AtIs, PlaceIs, NamedPlaces DEF AtVariable
LEMMA AtVariablesPlace == \A g, t : IsPlace(g) => IsPlace(AtVariables(g, t))
BY AtIs, PlaceIs, NamedPlaces, WithPlace, AfterVariablesPlace DEF AtVariables
LEMMA AtStringsPlace == \A g, t : IsPlace(g) => IsPlace(AtStrings(g, t))
BY AtIs, PlaceIs, NamedPlaces, WithPlace, AfterOperatorPlace, AfterActionPlace DEF AtStrings
LEMMA AtSetvarPlace == \A g, t : IsPlace(g) => IsPlace(AtSetvar(g, t))
BY AtIs, PlaceIs, NamedPlaces, WithPlace, AfterActionPlace DEF AtSetvar

LEMMA ShiftPlace == \A g, t : IsPlace(g) => IsPlace(Shift(g, t))
BY AtIs, PlaceIs, NamedPlaces, AtLinePlace, AtValuePlace, AtVariablePlace, AtVariablesPlace, AfterVariablesPlace,
   AtOperatorPlace, AfterOperatorPlace, AtStringPlace, AtStringsPlace, AtActionPlace,
   AfterActionPlace, AtSetvarPlace DEF Shift

-----------------------------------------------------------------------------
(* The tokens that start a directive with variables, the string of an      *)
(* action, or what setvar does.                                            *)

Starters == {"DIRECTIVE"} \cup UpdateTarget
Opening == Starters \cup ActionsWithString \cup SETVAR_OPERATION
Pieces == Variables \cup Dict \cup {TEXT}
Marks == {"PIPE", "QUOTATION_MARK", "VAR_EXCLUSION", "VAR_COUNT", "NOT", "COMMA", ""}
CtlValues == {On, Off, RelevantOnly, "CONFIG_VALUE_ONLYARGS", "CONFIG_VALUE_DETC"}

LEMMA OpeningTokens ==
    \A t \in Opening :
        /\ t \notin Pieces \cup Marks \cup OperatorsWithString \cup OperatorsAlone
                  \cup OPERATOR_NOT_SUPPORTED \cup ActionsAlone \cup ActionsWithValue
        /\ t \notin ValueTokens \cup CtlValues /\ t # "END" /\ t # "ACTION_SETVAR"
        /\ RowsOf(t) = {}
<1>1. Opening \cap (Variables \cup ActionsWithValue) = {}
  BY VariablesForeign, ValuedForeign DEF Opening, Starters, ClassTokens, Single
<1>2. Opening \cap (OperatorsWithString \cup OperatorsAlone \cup OPERATOR_NOT_SUPPORTED
                    \cup ActionsAlone) = {}
  BY TokensApart DEF Opening, Starters, Single
<1>3. Opening \cap (Dict \cup {TEXT} \cup Marks \cup ValueTokens \cup CtlValues
                    \cup {"END", "ACTION_SETVAR"}) = {}
  BY DEF Opening, Starters, UpdateTarget, ActionsWithString, StringActionsE, StringActionsR,
         SETVAR_OPERATION, Dict, TEXT, Marks, ValueTokens, CtlValues, On, Off, RelevantOnly
<1>4. Opening \cap DirectiveTokens = {}
  BY DirectivesApart DEF Opening, Starters, ClassTokens, Single
<1>5. \A t \in Opening : RowsOf(t) = {}
  BY <1>4, RowsAreRows DEF RowsOf
<1>. QED  BY ONLY <1>1, <1>2, <1>3, <1>5 DEF Pieces

LEMMA OpeningPlaces ==
    \A t \in Opening :
        /\ \A g : AtValue(g, t) = Error
        /\ \A g : AtVariable(g, t) = Error
        /\ \A g : ~Belongs(g, t)
        /\ \A g : AtString(g, t) = Error
        /\ AtOperator(t) = Error
        /\ \A x : <<x, t>> \notin CtlWithValue
<1>. SUFFICES ASSUME NEW t \in Opening
              PROVE  /\ \A g : AtValue(g, t) = Error
                     /\ \A g : AtVariable(g, t) = Error
                     /\ \A g : ~Belongs(g, t)
                     /\ \A g : AtString(g, t) = Error
                     /\ AtOperator(t) = Error
                     /\ \A x : <<x, t>> \notin CtlWithValue
  OBVIOUS
<1>0. /\ t \notin Variables /\ t \notin Dict /\ t # TEXT
      /\ t # "PIPE" /\ t # "QUOTATION_MARK" /\ t # "VAR_EXCLUSION" /\ t # "VAR_COUNT"
      /\ t \notin OperatorsWithString /\ t \notin OperatorsAlone /\ t \notin OPERATOR_NOT_SUPPORTED
      /\ t \notin ValueTokens /\ t \notin CtlValues
  BY OpeningTokens DEF Pieces, Marks
<1>1. \A g : AtValue(g, t) = Error
  BY <1>0, RowsAreRows DEF AtValue, RowsOf
<1>2. \A g : AtVariable(g, t) = Error
  BY ONLY <1>0 DEF AtVariable
<1>3. \A g : ~Belongs(g, t)
  BY ONLY <1>0 DEF Belongs
<1>4. \A g : AtString(g, t) = Error
  BY ONLY <1>0 DEF AtString
<1>5. AtOperator(t) = Error
  BY ONLY <1>0, <1>4 DEF AtOperator
<1>6. \A x : <<x, t>> \notin CtlWithValue
  BY <1>0 DEF CtlWithValue, CtlValues
<1>. QED  BY ONLY <1>1, <1>2, <1>3, <1>4, <1>5, <1>6

LEMMA ShiftStarter ==
    ASSUME NEW g, NEW t \in Starters
    PROVE  Shift(g, t) \in {Error, AtLine(t)}
<1>0. t \in Opening
  BY DEF Opening
<1>1. /\ t # "PIPE" /\ t # "QUOTATION_MARK" /\ t # "NOT" /\ t # "COMMA" /\ t # "ACTION_SETVAR"
      /\ t \notin Variables /\ t \notin ActionsAlone /\ t \notin ActionsWithString
      /\ t \notin ActionsWithValue /\ t \notin SETVAR_OPERATION
  <2>1. t \notin ActionsWithString /\ t \notin SETVAR_OPERATION
    BY TokensApart DEF Starters, Single
  <2>. QED  BY <1>0, <2>1, OpeningTokens DEF Marks, Pieces
<1>2. /\ AtValue(g, t) = Error /\ AtVariable(g, t) = Error /\ ~Belongs(g, t)
      /\ AtString(g, t) = Error /\ AtOperator(t) = Error /\ <<g.token, t>> \notin CtlWithValue
  BY <1>0, OpeningPlaces
<1>3. \A q : AtAction(q, t) = Error
  BY ONLY <1>1 DEF AtAction
<1>4. \A q : AfterAction(q, t) \in {Error, AtLine(t)}
  BY ONLY <1>1 DEF AfterAction
<1>5. AfterOperator(t) = AtLine(t)
  BY ONLY <1>1, <1>3 DEF AfterOperator
<1>6. \A of : AfterVariables(of, t) \in {Error, AtLine(t)}
  BY ONLY <1>1, <1>2 DEF AfterVariables
<1>7. AtVariables(g, t) \in {Error, AtLine(t)}
  BY ONLY <1>1, <1>2, <1>6 DEF AtVariables
<1>8. AtStrings(g, t) \in {Error, AtLine(t)}
  BY ONLY <1>1, <1>2, <1>4, <1>5 DEF AtStrings
<1>9. AtSetvar(g, t) \in {Error, AtLine(t)}
  BY ONLY <1>1, <1>2, <1>4 DEF AtSetvar
<1>. QED
  BY ONLY <1>1, <1>2, <1>3, <1>4, <1>5, <1>6, <1>7, <1>8, <1>9 DEF Shift

LEMMA AtLineStarter ==
    /\ AtLine("DIRECTIVE") = Place("var", "rule", FALSE)
    /\ \A t \in UpdateTarget : AtLine(t) = Place("var", "target", FALSE)
BY DEF AtLine, UpdateTarget

LEMMA ShiftStringAction ==
    ASSUME NEW g, NEW t \in ActionsWithString
    PROVE  Shift(g, t) = Error \/ \E q : Shift(g, t) = Place("string", "acts", q)
<1>. DEFINE Good(x) == x = Error \/ \E q : x = Place("string", "acts", q)
<1>0. t \in Opening
  BY DEF Opening
<1>1. /\ t # "PIPE" /\ t # "QUOTATION_MARK" /\ t # "NOT" /\ t # "COMMA" /\ t # "ACTION_SETVAR"
      /\ t \notin Variables /\ t \notin ActionsAlone
      /\ t \notin ActionsWithValue /\ t \notin SETVAR_OPERATION
  <2>1. t \notin SETVAR_OPERATION
    BY TokensApart
  <2>. QED  BY <1>0, <2>1, OpeningTokens DEF Marks, Pieces
<1>2. /\ AtValue(g, t) = Error /\ AtVariable(g, t) = Error /\ ~Belongs(g, t)
      /\ AtString(g, t) = Error /\ AtOperator(t) = Error /\ <<g.token, t>> \notin CtlWithValue
  BY <1>0, OpeningPlaces
<1>3. AtLine(t) = Error
  <2>1. /\ t # "END" /\ t # "DIRECTIVE" /\ t \notin UpdateTarget /\ t \notin WithActions
        /\ RowsOf(t) = {}
    BY <1>0, OpeningTokens, TokensApart DEF Single
  <2>. QED  BY ONLY <2>1 DEF AtLine
<1>4. \A q : AtAction(q, t) = Place("string", "acts", q)
  BY <1>1 DEF AtAction
<1>5. \A q : AfterAction(q, t) = Error
  BY ONLY <1>1, <1>3 DEF AfterAction
<1>6. Good(AfterOperator(t))
  BY ONLY <1>1, <1>3, <1>4 DEF AfterOperator
<1>7. \A of : AfterVariables(of, t) = Error
  BY ONLY <1>1, <1>2, <1>3 DEF AfterVariables
<1>8. AtVariables(g, t) = Error
  BY ONLY <1>1, <1>2, <1>7 DEF AtVariables
<1>9. Good(AtStrings(g, t))
  BY ONLY <1>1, <1>2, <1>5, <1>6 DEF AtStrings
<1>10. AtSetvar(g, t) = Error
  BY ONLY <1>1, <1>2, <1>5 DEF AtSetvar
<1>11. Good(AtAction(g.quoted, t))
  BY <1>4
<1>. HIDE DEF Good
<1>12. Good(Error) /\ Good(Shift(g, t))
  <2>1. Good(Error)
    BY DEF Good
  <2>. QED
    BY ONLY <2>1, <1>1, <1>2, <1>3, <1>5, <1>6, <1>7, <1>8, <1>9, <1>10, <1>11 DEF Shift
<1>. QED  BY ONLY <1>12 DEF Good

LEMMA ShiftOperation ==
    ASSUME NEW g, NEW t \in SETVAR_OPERATION
    PROVE  Shift(g, t) = Error \/ Shift(g, t) = Place("string", "acts", g.quoted)
<1>0. t \in Opening /\ t \in Foreign /\ t # "QUOTATION_MARK"
  BY DEF Opening, Foreign, SETVAR_OPERATION
<1>1. t # "PIPE" /\ t # "NOT" /\ t \notin Variables
  BY <1>0, OpeningTokens DEF Marks, Pieces
<1>2. /\ AtValue(g, t) = Error /\ AtVariable(g, t) = Error /\ ~Belongs(g, t)
      /\ AtString(g, t) = Error /\ AtOperator(t) = Error /\ <<g.token, t>> \notin CtlWithValue
  BY <1>0, OpeningPlaces
<1>3. /\ AtLine(t) = Error /\ AfterOperator(t) = Error
      /\ \A q : AtAction(q, t) = Error /\ AfterAction(q, t) = Error
  BY <1>0, ForeignErrors
<1>4. \A of : AfterVariables(of, t) = Error
  BY ONLY <1>1, <1>2, <1>3 DEF AfterVariables
<1>5. AtVariables(g, t) = Error
  BY ONLY <1>0, <1>1, <1>2, <1>4 DEF AtVariables
<1>6. AtStrings(g, t) = Error
  BY ONLY <1>1, <1>2, <1>3 DEF AtStrings
<1>7. AtSetvar(g, t) \in {Error, Place("string", "acts", g.quoted)}
  BY ONLY <1>1, <1>2, <1>3, t \in SETVAR_OPERATION DEF AtSetvar
<1>. QED  BY ONLY <1>0, <1>2, <1>3, <1>4, <1>5, <1>6, <1>7 DEF Shift

LEMMA ListPlaces ==
    ASSUME NEW of, of \in {"rule", "target"}, NEW x
    PROVE  /\ (\E q : x = Place("var1", of, q)) => InList(x, {of}) /\ x.of = of
           /\ (\E q : x = Place("modified", of, q)) => InList(x, {of}) /\ x.of = of
           /\ (\E q, k : x = At("vars", of, q, k, FALSE, "")) => InList(x, {of}) /\ x.of = of
           /\ x = Place("listed", of, FALSE) => InList(x, {of}) /\ x.of = of
<1>1. ASSUME NEW q, x = Place("var1", of, q) PROVE InList(x, {of}) /\ x.of = of
  BY <1>1 DEF InList, Place, At
<1>2. ASSUME NEW q, x = Place("modified", of, q) PROVE InList(x, {of}) /\ x.of = of
  BY <1>2 DEF InList, Place, At
<1>3. ASSUME NEW q, NEW k, x = At("vars", of, q, k, FALSE, "") PROVE InList(x, {of}) /\ x.of = of
  BY <1>3 DEF InList, At
<1>4. ASSUME x = Place("listed", of, FALSE) PROVE InList(x, {of}) /\ x.of = of
  BY <1>4 DEF InList, Place, At
<1>. QED  BY ONLY <1>1, <1>2, <1>3, <1>4

LEMMA InLists ==
    ASSUME NEW x, NEW of, of \in {"rule", "target"}, InList(x, {of})
    PROVE  InList(x, {"rule", "target"}) /\ (of = "rule" => InList(x, {"rule"}))
BY DEF InList

LEMMA ActionPlaces ==
    ASSUME NEW x, x = Place("act1", "acts", TRUE)
    PROVE  PastList(x) /\ x.at = "act1" /\ x.of = "acts"
BY DEF PastList, Place, At

-----------------------------------------------------------------------------
(* The tokens of lists, operators and strings.                             *)

LEMMA PieceTokens ==
    \A t \in Foreign :
        /\ t \in Variables => t \notin Dict /\ t \notin Single /\ t \notin OperatorsWithString
        /\ t \in Single => t \notin Variables /\ t \notin OperatorsWithString
                           /\ t \notin SETVAR_OPERATION
        /\ t \in OperatorsWithString => t \notin Variables /\ t \notin Single
        /\ t \notin OperatorsAlone
BY ForeignTokens, VariablesForeign, TokensApart DEF ClassTokens, Single

LEMMA AtOperatorForeign ==
    ASSUME NEW t \in Foreign
    PROVE  /\ t \in OperatorsWithString =>
                 AtOperator(t) \in {Place("string", "refused", FALSE),
                                    Place("string", "operator", FALSE)}
           /\ t \in Variables \cup {TEXT} =>
                 AtOperator(t).at = "strings" /\ AtOperator(t).of = "operator"
           /\ t \notin OperatorsWithString \cup Variables \cup {TEXT} => AtOperator(t) = Error
<1>1. /\ t \notin OperatorsAlone /\ OPERATOR_NOT_SUPPORTED \subseteq OperatorsWithString
      /\ t \in Variables \cup {TEXT} => t \notin OperatorsWithString
  BY PieceTokens, TokensApart DEF Single
<1>2. t \in OperatorsWithString =>
          AtOperator(t) \in {Place("string", "refused", FALSE), Place("string", "operator", FALSE)}
  BY ONLY <1>1 DEF AtOperator
<1>3. t \notin OperatorsWithString => AtOperator(t) = AtString(Place("string", "operator", FALSE), t)
  BY ONLY <1>1 DEF AtOperator
<1>. DEFINE s == Place("string", "operator", FALSE)
<1>4. IsPlace(s) /\ s.of = "operator"
  BY PlaceIs
<1>5. /\ t \notin Variables \cup {TEXT} => AtString(s, t) = Error
      /\ t \in Variables \cup {TEXT} =>
                 AtString(s, t).at = "strings" /\ AtString(s, t).of = "operator"
  BY <1>4, AtStringPlace
<1>. QED  BY ONLY <1>1, <1>2, <1>3, <1>5

(* In the variables of a rule or of an update.                             *)
LEMMA ShiftList ==
    ASSUME NEW g, IsPlace(g), InList(g, {"rule", "target"}) \/ PastList(g),
           NEW t \in ListTokens \cup Dict
    PROVE  \/ Shift(g, t) = Error
           \/ /\ InList(Shift(g, t), {"rule", "target"}) \/ PastList(Shift(g, t))
              /\ Shift(g, t).of = "target" <=> g.of = "target"
<1>. DEFINE x == Shift(g, t)
<1>0. /\ t \in Foreign /\ t # "NOT" /\ t \notin OperatorsWithString
      /\ t \notin {TEXT} /\ t # "COMMA"
  <2>1. t \in Foreign /\ t # "NOT" /\ t # TEXT /\ t # "COMMA"
    BY VariablesForeign, ForeignTokens
       DEF ListTokens, Foreign, Single, ClassTokens, Dict, TEXT, Ends
  <2>2. t \in Variables \/ t \in Single
    BY DEF ListTokens, Single
  <2>. QED  BY <2>1, <2>2, PieceTokens
<1>1. /\ AtLine(t) = Error
      /\ \A q : AtAction(q, t) = Error
      /\ AfterOperator(t) = IF t = "QUOTATION_MARK" THEN Place("act1", "acts", TRUE) ELSE Error
  BY <1>0, ForeignErrors
<1>2. /\ t \in Variables => AtOperator(t).at = "strings" /\ AtOperator(t).of = "operator"
      /\ t \notin Variables => AtOperator(t) = Error
  BY <1>0, AtOperatorForeign
<1>3. With(g, t).at = g.at /\ With(g, t).of = g.of
  BY WithPlace
<1>4. CASE g.at \in {"var", "var1", "modified"} /\ g.of \in {"rule", "target"}
  <2>1. x = AtVariable(g, t)
    BY ONLY <1>4 DEF Shift
  <2>2. \/ x = Error
        \/ \E q : x = Place("var1", g.of, q)
        \/ \E q : x = Place("modified", g.of, q)
        \/ \E q, k : x = At("vars", g.of, q, k, FALSE, "")
    BY ONLY <2>1 DEF AtVariable
  <2>3. CASE \E q : x = Place("var1", g.of, q)
    BY ONLY ListPlaces, InLists, <1>4, <2>3
  <2>4. CASE \E q : x = Place("modified", g.of, q)
    BY ONLY ListPlaces, InLists, <1>4, <2>4
  <2>5. CASE \E q, k : x = At("vars", g.of, q, k, FALSE, "")
    BY ONLY ListPlaces, InLists, <1>4, <2>5
  <2>. QED  BY <2>2, <2>3, <2>4, <2>5
<1>5. CASE g.at = "listed" /\ g.of \in {"rule", "target"}
  <2>1. x = AfterVariables(g.of, t)
    BY ONLY <1>5 DEF Shift
  <2>2. g.of = "target" => x = Error
    BY ONLY <1>1, <2>1 DEF AfterVariables
  <2>3. g.of = "rule" => x = AtOperator(t)
    BY ONLY <1>0, <2>1 DEF AfterVariables
  <2>. QED  BY ONLY <1>2, <1>5, <2>2, <2>3 DEF PastList
<1>6. CASE g.at = "vars" /\ g.of \in {"rule", "target"}
  <2>1. x = AtVariables(g, t)
    BY ONLY <1>6 DEF Shift
  <2>2. AfterVariables(g.of, t) = IF g.of = "target" THEN Error ELSE AtOperator(t)
    BY ONLY <1>0, <1>1 DEF AfterVariables
  <2>3. \/ x = With(g, t) \/ x = Place("var1", g.of, g.quoted) \/ x = Place("listed", g.of, FALSE)
        \/ x = Error \/ (g.of = "rule" /\ x = AtOperator(t))
    BY ONLY <1>6, <2>1, <2>2 DEF AtVariables
  <2>4. CASE x = With(g, t)
    BY <1>3, <1>6, <2>4 DEF InList
  <2>5. CASE x = Place("var1", g.of, g.quoted)
    BY ONLY ListPlaces, InLists, <1>6, <2>5
  <2>6. CASE x = Place("listed", g.of, FALSE)
    BY ONLY ListPlaces, InLists, <1>6, <2>6
  <2>7. CASE x = Error \/ (g.of = "rule" /\ x = AtOperator(t))
    BY ONLY <1>2, <1>6, <2>7 DEF PastList
  <2>. QED  BY ONLY <2>3, <2>4, <2>5, <2>6, <2>7
<1>7. CASE g.at = "strings" /\ g.of = "operator"
  <2>1. x = AtStrings(g, t)
    BY ONLY <1>7 DEF Shift
  <2>2. x = With(g, t) \/ x = Error \/ x = Place("act1", "acts", TRUE)
    BY ONLY <1>1, <1>7, <2>1 DEF AtStrings
  <2>3. CASE x = With(g, t)
    BY <1>3, <1>7, <2>3 DEF PastList
  <2>4. CASE x = Place("act1", "acts", TRUE)
    BY ONLY ActionPlaces, <1>7, <2>4
  <2>. QED  BY <2>2, <2>3, <2>4
<1>8. CASE g.at = "act1" /\ g.of = "acts"
  <2>1. x = AtAction(g.quoted, t)
    BY ONLY <1>8 DEF Shift
  <2>. QED  BY <1>1, <2>1
<1>. QED  BY <1>4, <1>5, <1>6, <1>7, <1>8 DEF InList, PastList

(* Before or in an operator without a name.                                *)
LEMMA ShiftOperators ==
    ASSUME NEW g, IsPlace(g), AtOperators(g),
           NEW t \in Pieces \cup {"NOT", "QUOTATION_MARK"}
    PROVE  Shift(g, t) = Error \/ AtOperators(Shift(g, t))
<1>. DEFINE x == Shift(g, t)
<1>0. /\ t \in Foreign /\ t \notin OperatorsWithString
      /\ t # "VAR_EXCLUSION" /\ t # "VAR_COUNT" /\ t # "PIPE"
      /\ t = "NOT" => t \notin Variables \cup {TEXT}
  <2>1. t \in Foreign /\ t # "VAR_EXCLUSION" /\ t # "VAR_COUNT" /\ t # "PIPE"
    BY VariablesForeign DEF Foreign, Pieces, Single, TEXT, Dict
  <2>2. t \in Variables \/ t \in Single
    BY DEF Pieces, Single
  <2>3. t = "NOT" => t \notin Variables \cup {TEXT}
    BY VariablesForeign DEF Single, TEXT
  <2>. QED  BY <2>1, <2>2, <2>3, PieceTokens
<1>1. /\ AtLine(t) = Error
      /\ \A q : AtAction(q, t) = Error
      /\ AfterOperator(t) = IF t = "QUOTATION_MARK" THEN Place("act1", "acts", TRUE) ELSE Error
  BY <1>0, ForeignErrors
<1>2. /\ t \in Variables \cup {TEXT} => AtOperator(t).at = "strings" /\ AtOperator(t).of = "operator"
      /\ t \notin Variables \cup {TEXT} => AtOperator(t) = Error
  BY <1>0, AtOperatorForeign
<1>3. With(g, t).at = g.at /\ With(g, t).of = g.of
  BY WithPlace
<1>9. AfterVariables("rule", t) = Error \/ AtOperators(AfterVariables("rule", t))
  <2>1. AfterVariables("rule", t) = IF t = "NOT" THEN Place("op", "rule", FALSE) ELSE AtOperator(t)
    BY DEF AfterVariables
  <2>2. CASE t = "NOT"
    <3>1. AfterVariables("rule", t) = Place("op", "rule", FALSE)
      BY <2>1, <2>2
    <3>2. AtOperators(Place("op", "rule", FALSE))
      BY DEF AtOperators, Place, At
    <3>. QED  BY ONLY <3>1, <3>2
  <2>3. CASE t # "NOT"
    BY ONLY <1>2, <2>1, <2>3 DEF AtOperators, PastList
  <2>. QED  BY <2>2, <2>3
<1>4. CASE g.at \in {"var", "var1", "modified"} /\ g.of = "rule"
  <2>1. x = AtVariable(g, t)
    BY ONLY <1>4 DEF Shift
  <2>2. \/ x = Error \/ \E q : x = Place("var1", g.of, q)
        \/ \E q, k : x = At("vars", g.of, q, k, FALSE, "")
    BY ONLY <1>0, <2>1 DEF AtVariable
  <2>3. CASE \E q : x = Place("var1", g.of, q)
    BY ONLY ListPlaces, InLists, <1>4, <2>3 DEF AtOperators
  <2>4. CASE \E q, k : x = At("vars", g.of, q, k, FALSE, "")
    BY ONLY ListPlaces, InLists, <1>4, <2>4 DEF AtOperators
  <2>. QED  BY <2>2, <2>3, <2>4
<1>5. CASE g.at = "listed" /\ g.of = "rule"
  <2>1. x = AfterVariables(g.of, t)
    BY ONLY <1>5 DEF Shift
  <2>. QED  BY ONLY <1>5, <1>9, <2>1
<1>6. CASE g.at = "vars" /\ g.of = "rule"
  <2>1. x = AtVariables(g, t)
    BY ONLY <1>6 DEF Shift
  <2>2. \/ x = With(g, t) \/ x = Place("listed", g.of, FALSE)
        \/ x = Error \/ x = AfterVariables("rule", t)
    BY ONLY <1>0, <1>6, <2>1 DEF AtVariables
  <2>3. CASE x = With(g, t)
    BY <1>3, <1>6, <2>3 DEF AtOperators, InList
  <2>4. CASE x = Place("listed", g.of, FALSE)
    BY ONLY ListPlaces, InLists, <1>6, <2>4 DEF AtOperators
  <2>. QED  BY ONLY <1>9, <2>2, <2>3, <2>4
<1>7. CASE g.at = "strings" /\ g.of = "operator"
  <2>1. x = AtStrings(g, t)
    BY ONLY <1>7 DEF Shift
  <2>2. x = With(g, t) \/ x = Error \/ x = Place("act1", "acts", TRUE)
    BY ONLY <1>1, <1>7, <2>1 DEF AtStrings
  <2>3. CASE x = With(g, t)
    BY <1>3, <1>7, <2>3 DEF AtOperators, PastList
  <2>4. CASE x = Place("act1", "acts", TRUE)
    BY ONLY ActionPlaces, <1>7, <2>4 DEF AtOperators
  <2>. QED  BY <2>2, <2>3, <2>4
<1>8. CASE g.at = "act1" /\ g.of = "acts"
  <2>1. x = AtAction(g.quoted, t)
    BY ONLY <1>8 DEF Shift
  <2>. QED  BY <1>1, <2>1
<1>10. CASE g.at = "op" /\ g.of = "rule"
  <2>1. x = AtOperator(t)
    BY ONLY <1>10 DEF Shift
  <2>. QED  BY ONLY <1>2, <2>1 DEF AtOperators, PastList
<1>. QED  BY <1>4, <1>5, <1>6, <1>7, <1>8, <1>10 DEF AtOperators, InList, PastList

(* The name of an operator.                                                *)
LEMMA ShiftOperator ==
    ASSUME NEW g, IsPlace(g), AtOperators(g), NEW t \in OperatorsWithString
    PROVE  Shift(g, t) = Error \/ InParameter(Shift(g, t))
<1>. DEFINE x == Shift(g, t)
<1>0. /\ t \in Foreign /\ t \notin Variables \cup Dict \cup {TEXT}
      /\ t # "VAR_EXCLUSION" /\ t # "VAR_COUNT" /\ t # "PIPE" /\ t # "NOT" /\ t # "QUOTATION_MARK"
  BY VariablesForeign, TokensApart DEF Foreign, Single, ClassTokens
<1>1. AtLine(t) = Error /\ AfterOperator(t) = Error /\ \A q : AtAction(q, t) = Error
  BY <1>0, ForeignErrors
<1>2. AtOperator(t) \in {Place("string", "refused", FALSE), Place("string", "operator", FALSE)}
  BY <1>0, AtOperatorForeign
<1>3. InParameter(AtOperator(t))
  <2>1. /\ InParameter(Place("string", "refused", FALSE))
        /\ InParameter(Place("string", "operator", FALSE))
    BY DEF InParameter, Place, At
  <2>. QED  BY ONLY <1>2, <2>1
<1>4. ~Belongs(g, t) /\ AtVariable(g, t) = Error /\ AfterVariables("rule", t) = AtOperator(t)
  BY ONLY <1>0 DEF Belongs, AtVariable, AfterVariables
<1>5. CASE g.at \in {"var", "var1", "modified"}
  BY ONLY <1>4, <1>5 DEF Shift
<1>6. CASE g.at = "listed" /\ g.of = "rule"
  BY ONLY <1>3, <1>4, <1>6 DEF Shift
<1>7. CASE g.at = "vars" /\ g.of = "rule"
  <2>1. x = AtVariables(g, t)
    BY ONLY <1>7 DEF Shift
  <2>2. x = Error \/ x = AtOperator(t)
    BY ONLY <1>0, <1>4, <1>7, <2>1 DEF AtVariables
  <2>. QED  BY ONLY <1>3, <2>2
<1>8. CASE g.at = "strings" /\ g.of = "operator"
  <2>1. x = AtStrings(g, t)
    BY ONLY <1>8 DEF Shift
  <2>. QED  BY ONLY <1>1, <1>4, <1>8, <2>1 DEF AtStrings
<1>9. CASE g.at = "act1"
  BY ONLY <1>1, <1>9 DEF Shift
<1>10. CASE g.at = "op"
  BY ONLY <1>3, <1>10 DEF Shift
<1>. QED  BY <1>5, <1>6, <1>7, <1>8, <1>9, <1>10 DEF AtOperators, InList, PastList

(* A quotation mark ends a string.                                         *)
EndsString(t, g) == t = "QUOTATION_MARK" /\ g.at \in {"act1", "line"}

(* In the parameter of an operator.                                        *)
LEMMA ShiftParameter ==
    ASSUME NEW g, IsPlace(g), InParameter(g), NEW t \in Pieces \cup {"QUOTATION_MARK"}
    PROVE  \/ Shift(g, t) = Error \/ InParameter(Shift(g, t))
           \/ EndsString(t, Shift(g, t))
<1>. DEFINE x == Shift(g, t)
<1>0. t \in Foreign
  BY VariablesForeign DEF Foreign, Pieces, Single, TEXT, Dict
<1>1. AfterOperator(t) = IF t = "QUOTATION_MARK" THEN Place("act1", "acts", TRUE) ELSE Error
  BY <1>0, ForeignErrors
<1>2. With(g, t).at = g.at /\ With(g, t).of = g.of
  BY WithPlace
<1>3. AtString(g, t) = Error \/ (AtString(g, t).at = "strings" /\ AtString(g, t).of = g.of)
  BY AtStringPlace
<1>4. CASE g.at = "string"
  <2>1. x = AtString(g, t)
    BY ONLY <1>4 DEF Shift
  <2>. QED  BY <1>3, <2>1 DEF InParameter
<1>5. CASE g.at = "strings"
  <2>1. x = AtStrings(g, t)
    BY ONLY <1>5 DEF Shift
  <2>2. x = With(g, t) \/ x = Error \/ (t = "QUOTATION_MARK" /\ x = Place("act1", "acts", TRUE))
    BY <1>1, <2>1 DEF AtStrings, InParameter
  <2>3. CASE x = With(g, t)
    BY <1>2, <1>5, <2>3 DEF InParameter
  <2>4. CASE t = "QUOTATION_MARK" /\ x = Place("act1", "acts", TRUE)
    BY ONLY ActionPlaces, <2>4 DEF EndsString
  <2>. QED  BY <2>2, <2>3, <2>4
<1>. QED  BY <1>4, <1>5 DEF InParameter

(* In the string of an action.                                             *)
LEMMA ShiftActionString ==
    ASSUME NEW g, IsPlace(g), InActionString(g), NEW t \in Pieces \cup {"QUOTATION_MARK"}
    PROVE  \/ Shift(g, t) = Error \/ InActionString(Shift(g, t))
           \/ EndsString(t, Shift(g, t))
<1>. DEFINE x == Shift(g, t)
<1>0. t \in Foreign
  BY VariablesForeign DEF Foreign, Pieces, Single, TEXT, Dict
<1>1. AfterAction(g.quoted, t) = IF t = "QUOTATION_MARK" /\ g.quoted THEN Line ELSE Error
  BY <1>0, ForeignErrors
<1>2. With(g, t).at = g.at /\ With(g, t).of = g.of
  BY WithPlace
<1>3. AtString(g, t) = Error \/ (AtString(g, t).at = "strings" /\ AtString(g, t).of = g.of)
  BY AtStringPlace
<1>4. CASE g.at = "string"
  <2>1. x = AtString(g, t)
    BY ONLY <1>4 DEF Shift
  <2>. QED  BY <1>3, <2>1 DEF InActionString
<1>5. CASE g.at = "strings"
  <2>1. x = AtStrings(g, t)
    BY ONLY <1>5 DEF Shift
  <2>2. x = With(g, t) \/ x = Error \/ (t = "QUOTATION_MARK" /\ x = Line)
    BY <1>1, <2>1 DEF AtStrings, InActionString
  <2>. QED  BY <1>2, <1>5, <2>2, NamedPlaces DEF InActionString, EndsString
<1>. QED  BY <1>4, <1>5 DEF InActionString

(* Once a quotation mark has ended the string of a macro.                  *)
LEMMA ShiftRefused ==
    ASSUME NEW g, g.at \in {"act1", "line"}, NEW t \in Dict \cup {"QUOTATION_MARK"}
    PROVE  Shift(g, t) = Error
<1>1. t \in Foreign
  BY DEF Foreign, Single, Dict
<1>2. AtLine(t) = Error /\ AtAction(g.quoted, t) = Error
  BY <1>1, ForeignErrors
<1>. QED  BY ONLY <1>2, g.at \in {"act1", "line"} DEF Shift

-----------------------------------------------------------------------------
(* The parser is followed through every pattern.                           *)

(* The conditions whose text may hold a macro.                            *)
Carriers == Hosts("EXPECTING_ACTION_PREDICATE_VARIABLE")

(* What lies below a condition that goes back.                             *)
Hosted(s, stack) ==
    /\ s \in Nested => Len(stack) > 0 /\ stack[1] \in Hosts(s)
    /\ s = "EXPECTING_VAR_PARAMETER" /\ stack[1] = "EXPECTING_ACTION_PREDICATE_VARIABLE" =>
          Len(stack) > 1 /\ stack[2] \in Carriers

LEMMA TextsAre ==
    /\ Carriers = PredicateStates \cup ContentStates \cup KeyStates \cup NoOpStates \cup ParameterStates
    /\ Carriers \cap (ListStates \cup ErrorStates \cup OperatorStates \cup ToParameterStates
                   \cup {"EXPECTING_ACTION_PREDICATE", "EXPECTING_ACTION_PREDICATE_VARIABLE",
                         "EXPECTING_VAR_PARAMETER"}) = {}
    /\ KeyStates \cap (PredicateStates \cup ContentStates \cup NoOpStates \cup ParameterStates
                       \cup OperatorStates \cup ToParameterStates) = {}
    /\ NoOpStates \cap (PredicateStates \cup ContentStates \cup ParameterStates) = {}
    /\ ParameterStates \cap (PredicateStates \cup ContentStates) = {}
<1>. USE DEF PredicateStates, ContentStates, KeyStates, NoOpStates, ParameterStates,
       ListStates, ErrorStates, OperatorStates, ToParameterStates
<1>1. Carriers = PredicateStates \cup ContentStates \cup KeyStates \cup NoOpStates \cup ParameterStates
  BY DEF Carriers, Hosts
<1>2. Carriers \cap (ListStates \cup ErrorStates \cup OperatorStates \cup ToParameterStates
                   \cup {"EXPECTING_ACTION_PREDICATE", "EXPECTING_ACTION_PREDICATE_VARIABLE",
                         "EXPECTING_VAR_PARAMETER"}) = {}
  BY <1>1
<1>. QED  BY <1>1, <1>2

LEMMA TextOfText ==
    ASSUME NEW s \in StartConditions, NEW stack
    PROVE  /\ s \notin {"EXPECTING_ACTION_PREDICATE_VARIABLE", "EXPECTING_VAR_PARAMETER"} =>
                 TextOf(s, stack) = s
           /\ s \in Carriers \cup ListStates \cup OperatorStates => TextOf(s, stack) = s
           /\ s = "EXPECTING_ACTION_PREDICATE_VARIABLE" => TextOf(s, stack) = stack[1]
           /\ s = "EXPECTING_VAR_PARAMETER" =>
                 TextOf(s, stack) = IF stack[1] = "EXPECTING_ACTION_PREDICATE_VARIABLE"
                                      THEN stack[2] ELSE stack[1]
           /\ s # "EXPECTING_VAR_PARAMETER" => \A g : ~Refusing(s, stack, g)
BY TextsAre DEF TextOf, Refusing, ListStates, OperatorStates

(* A condition that says nothing of the parser.                            *)
Silent == StartConditions \
    (ListStates \cup OperatorStates \cup NoOpStates \cup ToParameterStates \cup ParameterStates
     \cup PredicateStates \cup ContentStates
     \cup {"EXPECTING_ACTION_PREDICATE", "EXPECTING_ACTION_PREDICATE_VARIABLE",
           "EXPECTING_VAR_PARAMETER"})

LEMMA SilentFollows == \A s \in Silent : \A g : Follows(s, g)
BY DEF Silent, Follows, ListStates

LEMMA FollowsList ==
    ASSUME NEW g, IsPlace(g), NEW t \in ListTokens \cup Dict, NEW flag,
           Follows("EXPECTING_VARIABLE", g), FlagFollows("EXPECTING_VARIABLE", g, flag),
           Shift(g, t) # Error
    PROVE  /\ Follows("EXPECTING_VARIABLE", Shift(g, t))
           /\ FlagFollows("EXPECTING_VARIABLE", Shift(g, t), flag)
<1>. DEFINE s == "EXPECTING_VARIABLE"
            x == Shift(g, t)
<1>0. /\ s \in ListStates /\ s # "TRANSACTION_TO_VARIABLE"
      /\ s \notin OperatorStates \cup NoOpStates \cup ToParameterStates \cup ParameterStates
             \cup PredicateStates \cup ContentStates \cup {"EXPECTING_ACTION_PREDICATE"}
  BY DEF ListStates, OperatorStates, NoOpStates, ToParameterStates, ParameterStates,
         PredicateStates, ContentStates
<1>1. InList(g, {"rule", "target"}) \/ PastList(g)
  BY DEF Follows
<1>2. flag = 1 <=> g.of = "target"
  BY <1>0 DEF FlagFollows
<1>3. /\ InList(x, {"rule", "target"}) \/ PastList(x)
      /\ x.of = "target" <=> g.of = "target"
  BY <1>1, ShiftList
<1>. HIDE DEF x, s
<1>4. Follows(s, x)
  BY ONLY <1>0, <1>3 DEF Follows
<1>5. FlagFollows(s, x, flag)
  BY ONLY <1>0, <1>2, <1>3 DEF FlagFollows
<1>. QED  BY <1>4, <1>5 DEF x, s

(* A piece of a string.                                                    *)
LEMMA FollowsText ==
    ASSUME NEW s \in Carriers, NEW g, IsPlace(g), NEW t \in Pieces \cup {"QUOTATION_MARK"},
           Follows(s, g), Shift(g, t) # Error
    PROVE  \/ Follows(s, Shift(g, t))
           \/ EndsString(t, Shift(g, t))
<1>. DEFINE x == Shift(g, t)
<1>0. s \notin ListStates
  BY TextsAre
<1>1. CASE s \in KeyStates
  <2>1. s \in Silent
    BY <1>1, TextsAre DEF Silent, StartConditions
  <2>. QED  BY <2>1, SilentFollows
<1>2. CASE s \in NoOpStates
  <2>1. AtOperators(g)
    BY <1>2 DEF Follows
  <2>2. AtOperators(x)
    BY <2>1, ShiftOperators
  <2>3. /\ s \notin ToParameterStates \cup ParameterStates
        /\ s \notin PredicateStates \cup ContentStates \cup {"EXPECTING_ACTION_PREDICATE"}
    BY <1>2, TextsAre
  <2>. HIDE DEF x
  <2>4. Follows(s, x)
    BY ONLY <1>0, <2>2, <2>3 DEF Follows, ListStates
  <2>. QED  BY <2>4 DEF x
<1>3. CASE s \in ParameterStates
  <2>1. InParameter(g)
    BY <1>3 DEF Follows
  <2>2. InParameter(x) \/ EndsString(t, x)
    BY <2>1, ShiftParameter
  <2>3. /\ s \notin OperatorStates \cup NoOpStates
        /\ s \notin PredicateStates \cup ContentStates \cup {"EXPECTING_ACTION_PREDICATE"}
    BY <1>3, TextsAre
  <2>. HIDE DEF x
  <2>4. InParameter(x) => Follows(s, x)
    BY ONLY <1>0, <2>3 DEF Follows, ListStates
  <2>. QED  BY <2>2, <2>4 DEF x
<1>4. CASE s \in PredicateStates \cup ContentStates
  <2>1. InActionString(g)
    BY <1>4 DEF Follows
  <2>2. InActionString(x) \/ EndsString(t, x)
    BY <2>1, ShiftActionString
  <2>3. s \notin OperatorStates \cup NoOpStates /\ s \notin ToParameterStates \cup ParameterStates
    BY <1>4, TextsAre
  <2>. HIDE DEF x
  <2>4. InActionString(x) => Follows(s, x)
    BY ONLY <1>0, <2>3 DEF Follows, ListStates
  <2>. QED  BY <2>2, <2>4 DEF x
<1>. QED  BY <1>1, <1>2, <1>3, <1>4, TextsAre

LEMMA FlagOfText ==
    ASSUME NEW s \in StartConditions \ ListStates, NEW g, NEW h, NEW flag, FlagFollows(s, g, flag)
    PROVE  FlagFollows(s, h, flag)
BY DEF FlagFollows

LEMMA FollowedStay ==
    ASSUME NEW s \in StartConditions, NEW stack, Hosted(s, stack),
           NEW g, IsPlace(g), NEW flag, Followed(s, stack, g, flag),
           NEW t, t # "", StayAllows(s, t), Shift(g, t) # Error
    PROVE  Followed(s, stack, Shift(g, t), flag)
<1>. DEFINE x == Shift(g, t)
<1>1. CASE s = "TRANSACTION_TO_VARIABLE"
  BY <1>1 DEF StayAllows
<1>2. CASE s = "EXPECTING_VARIABLE"
  <2>1. t \in ListTokens /\ TextOf(s, stack) = s /\ ~Refusing(s, stack, g)
    BY <1>2, TextOfText, ZenonT(60) DEF StayAllows, ListStates
  <2>. QED  BY <1>2, <2>1, FollowsList DEF Followed
<1>3. CASE s \in OperatorStates
  <2>1. t = "NOT" /\ TextOf(s, stack) = s /\ ~Refusing(s, stack, g) /\ s \notin ListStates
    BY <1>3, TextOfText DEF StayAllows, OperatorStates, ListStates
  <2>2. AtOperators(g)
    BY <1>3, <2>1 DEF Followed, Follows
  <2>3. AtOperators(x)
    BY <2>1, <2>2, ShiftOperators
  <2>4. /\ s \notin ToParameterStates \cup ParameterStates
        /\ s \notin PredicateStates \cup ContentStates \cup {"EXPECTING_ACTION_PREDICATE"}
    BY <1>3 DEF OperatorStates, ToParameterStates, ParameterStates, PredicateStates, ContentStates
  <2>. HIDE DEF x
  <2>5. Follows(s, x)
    BY ONLY <2>1, <2>3, <2>4 DEF Follows, ListStates
  <2>. QED  BY <2>1, <2>5, FlagOfText DEF Followed, x
<1>4. CASE s \in Carriers \ KeyStates
  <2>1. /\ t = TEXT /\ TextOf(s, stack) = s /\ ~Refusing(s, stack, g) /\ s \notin ListStates
        /\ t \in Pieces /\ t # "QUOTATION_MARK"
    BY <1>4, TextsAre, TextOfText DEF StayAllows, TEXT, Pieces
  <2>2. Follows(s, x)
    BY <1>4, <2>1, FollowsText DEF Followed, EndsString
  <2>. QED  BY <2>1, <2>2, FlagOfText DEF Followed
<1>5. CASE s \in ToParameterStates
  <2>1. /\ t = TEXT /\ TextOf(s, stack) = s /\ ~Refusing(s, stack, g) /\ s \notin ListStates
        /\ t \in Pieces /\ t # "QUOTATION_MARK"
    BY <1>5, TextOfText DEF StayAllows, TEXT, Pieces, ToParameterStates, ListStates
  <2>2. InParameter(g)
    BY <1>5, <2>1 DEF Followed, Follows
  <2>3. InParameter(x)
    BY <2>1, <2>2, ShiftParameter DEF EndsString
  <2>4. /\ s \notin OperatorStates \cup NoOpStates
        /\ s \notin PredicateStates \cup ContentStates \cup {"EXPECTING_ACTION_PREDICATE"}
    BY <1>5 DEF OperatorStates, ToParameterStates, NoOpStates, PredicateStates, ContentStates
  <2>. HIDE DEF x
  <2>5. Follows(s, x)
    BY ONLY <2>1, <2>3, <2>4 DEF Follows, ListStates
  <2>. QED  BY <2>1, <2>5, FlagOfText DEF Followed, x
<1>6. CASE s = "EXPECTING_ACTION_PREDICATE"
  <2>1. /\ t = TEXT /\ TextOf(s, stack) = s /\ ~Refusing(s, stack, g) /\ s \notin ListStates
        /\ t \in Pieces /\ t # "QUOTATION_MARK"
    BY <1>6, TextOfText DEF StayAllows, TEXT, Pieces, ListStates
  <2>2. InActionString(g)
    BY <1>6, <2>1 DEF Followed, Follows
  <2>3. InActionString(x)
    BY <2>1, <2>2, ShiftActionString DEF EndsString
  <2>4. s \notin OperatorStates \cup NoOpStates /\ s \notin ToParameterStates \cup ParameterStates
    BY <1>6 DEF OperatorStates, ToParameterStates, NoOpStates, ParameterStates
  <2>. HIDE DEF x
  <2>5. Follows(s, x)
    BY ONLY <2>1, <2>3, <2>4 DEF Follows, ListStates
  <2>. QED  BY <2>1, <2>5, FlagOfText DEF Followed, x
<1>7. CASE s = "EXPECTING_ACTION_PREDICATE_VARIABLE"
  <2>1. t \in Variables
    BY <1>7 DEF StayAllows
  <2>2. t \in Pieces /\ t # "QUOTATION_MARK"
    BY <2>1, VariablesForeign DEF Pieces, Single
  <2>3. stack[1] \in Carriers /\ TextOf(s, stack) = stack[1] /\ ~Refusing(s, stack, g)
    BY <1>7, TextOfText DEF Hosted, Carriers, Nested
  <2>4. Follows(stack[1], x)
    BY <2>2, <2>3, FollowsText DEF Followed, EndsString
  <2>5. stack[1] \in StartConditions \ ListStates
    BY <2>3, TextsAre DEF StartConditions
  <2>. QED  BY <2>3, <2>4, <2>5, FlagOfText DEF Followed
<1>8. CASE s = "EXPECTING_VAR_PARAMETER"
  <2>1. t = "QUOTATION_MARK" /\ stack[1] \in VariableStates
    BY <1>8 DEF StayAllows, Hosted, Hosts, Nested
  <2>2. CASE stack[1] = "EXPECTING_VARIABLE"
    <3>1. TextOf(s, stack) = "EXPECTING_VARIABLE" /\ ~Refusing(s, stack, g) /\ t \in ListTokens
      BY <1>8, <2>1, <2>2, TextOfText DEF Refusing, ListTokens
    <3>. QED  BY <3>1, FollowsList DEF Followed
  <2>3. CASE stack[1] = "EXPECTING_ACTION_PREDICATE_VARIABLE"
    <3>1. stack[2] \in Carriers /\ TextOf(s, stack) = stack[2]
      BY <1>8, <2>3, TextOfText DEF Hosted
    <3>2. stack[2] \in StartConditions \ ListStates
      BY <3>1, TextsAre DEF StartConditions
    <3>3. ~Refusing(s, stack, g)
      BY <2>1, ShiftRefused DEF Refusing
    <3>4. Follows(stack[2], x) \/ EndsString(t, x)
      BY <2>1, <3>1, <3>3, FollowsText DEF Followed
    <3>5. EndsString(t, x) => Refusing(s, stack, x)
      BY <1>8, <2>3 DEF EndsString, Refusing
    <3>. QED  BY <3>1, <3>2, <3>4, <3>5, FlagOfText DEF Followed
  <2>. QED  BY <2>1, <2>2, <2>3 DEF VariableStates
<1>9. CASE s \in Silent \cup KeyStates
  <2>1. /\ TextOf(s, stack) = s /\ ~Refusing(s, stack, g) /\ s \notin ListStates /\ s \in Silent
    BY <1>9, TextsAre, TextOfText DEF Silent
  <2>. QED  BY <2>1, SilentFollows, FlagOfText DEF Followed
<1>. QED
  BY ONLY <1>1, <1>2, <1>3, <1>4, <1>5, <1>6, <1>7, <1>8, <1>9, TextsAre, s \in StartConditions
  DEF Silent, ListStates

LEMMA StartPlaces ==
    ASSUME NEW x, NEW q
    PROVE  /\ x = Place("var", "rule", FALSE) => x.at = "var" /\ x.of = "rule"
           /\ x = Place("var", "target", FALSE) => x.at = "var" /\ x.of = "target"
           /\ x = Place("string", "acts", q) => InActionString(x)
<1>1. ASSUME x = Place("var", "rule", FALSE) PROVE x.at = "var" /\ x.of = "rule"
  BY <1>1 DEF Place, At
<1>2. ASSUME x = Place("var", "target", FALSE) PROVE x.at = "var" /\ x.of = "target"
  BY <1>2 DEF Place, At
<1>3. ASSUME x = Place("string", "acts", q) PROVE InActionString(x)
  BY <1>3 DEF InActionString, Place, At
<1>. QED  BY ONLY <1>1, <1>2, <1>3

LEMMA FollowedBegin ==
    ASSUME NEW s \in StartConditions, NEW stack,
           NEW g, IsPlace(g), NEW flag, Followed(s, stack, g, flag),
           NEW t, NEW go, NEW back, BeginAllows(s, t, go, back),
           NEW x, x # Error, x = IF t = "" THEN g ELSE Shift(g, t)
    PROVE  Followed(go, stack, x, IF t \in UpdateTarget THEN 1 ELSE flag)
<1>. DEFINE f == IF t \in UpdateTarget THEN 1 ELSE flag
<1>0. /\ go \in StartConditions \ Nested /\ s \in StartConditions \ ErrorStates
      /\ s # "EXPECTING_VAR_PARAMETER"
  BY DEF BeginAllows
<1>1. TextOf(go, stack) = go
  BY <1>0, TextOfText DEF Nested
<1>2. "" \notin UpdateTarget /\ "DIRECTIVE" \notin UpdateTarget
  BY DEF UpdateTarget
<1>3. go \notin ErrorStates => s # "EXPECTING_ACTION_PREDICATE_VARIABLE"
  BY DEF BeginAllows
<1>4. go \notin ErrorStates => Follows(s, g) /\ FlagFollows(s, g, flag)
  BY <1>0, <1>3, TextOfText DEF Followed
<1>5. CASE go \in ErrorStates
  <2>1. go \in Silent
    BY <1>0, <1>5 DEF Silent, ErrorStates, ListStates, OperatorStates, NoOpStates,
       ToParameterStates, ParameterStates, PredicateStates, ContentStates
  <2>2. FlagFollows(go, x, f)
    BY <1>5 DEF FlagFollows, ErrorStates, ListStates
  <2>. QED  BY <1>1, <2>1, <2>2, SilentFollows DEF Followed
<1>6. CASE go = "TRANSACTION_TO_VARIABLE"
  <2>1. s = "INITIAL" /\ t \in Starters
    BY <1>6 DEF BeginAllows, Starters
  <2>2. flag = 0
    BY <1>4, <1>6, <2>1 DEF FlagFollows, ListStates, ErrorStates
  <2>3. x = AtLine(t)
    <3>1. t # ""
      BY <2>1 DEF Starters, UpdateTarget
    <3>. QED  BY <2>1, <3>1, ShiftStarter
  <2>4. CASE t = "DIRECTIVE"
    <3>1. x = Place("var", "rule", FALSE) /\ f = 0
      BY <1>2, <2>2, <2>3, <2>4, AtLineStarter
    <3>2. x.at = "var" /\ x.of = "rule"
      BY ONLY <3>1, StartPlaces
    <3>. HIDE DEF f
    <3>4. f = 0
      BY <3>1
    <3>5. FlagFollows(go, x, f)
      BY ONLY <1>6, <3>2, <3>4 DEF FlagFollows, ListStates
    <3>6. Follows(go, x)
      BY ONLY <1>6, <3>2 DEF Follows, ListStates, OperatorStates, NoOpStates,
         ToParameterStates, ParameterStates, PredicateStates, ContentStates
    <3>. QED  BY <1>1, <3>5, <3>6 DEF Followed, f
  <2>5. CASE t \in UpdateTarget
    <3>1. x = Place("var", "target", FALSE) /\ f = 1
      BY <1>2, <2>2, <2>3, <2>5, AtLineStarter
    <3>2. x.at = "var" /\ x.of = "target"
      BY ONLY <3>1, StartPlaces
    <3>. HIDE DEF f
    <3>3. Follows(go, x) /\ FlagFollows(go, x, f)
      BY ONLY <1>6, <3>1, <3>2 DEF Follows, FlagFollows, ListStates, OperatorStates, NoOpStates,
         ToParameterStates, ParameterStates, PredicateStates, ContentStates
    <3>. QED  BY <1>1, <3>3 DEF Followed, f
  <2>. QED  BY <2>1, <2>4, <2>5 DEF Starters
<1>7. CASE go = "EXPECTING_VARIABLE"
  <2>1. s = "TRANSACTION_TO_VARIABLE" /\ t = ""
    BY <1>7 DEF BeginAllows
  <2>2. x = g /\ f = flag
    BY <1>2, <2>1
  <2>3. g.at = "var" /\ g.of \in {"rule", "target"} /\ (flag = 1 <=> g.of = "target")
    BY <1>4, <1>7, <2>1 DEF Follows, FlagFollows, ListStates, ErrorStates
  <2>4. Follows(go, x) /\ FlagFollows(go, x, f)
    BY ONLY <1>7, <2>2, <2>3 DEF Follows, InList, FlagFollows, ListStates, OperatorStates, NoOpStates,
         ToParameterStates, ParameterStates, PredicateStates, ContentStates
  <2>. QED  BY <1>1, <2>4 DEF Followed
<1>8. ASSUME go \notin ListStates \cup ErrorStates
      PROVE  f = 0 /\ FlagFollows(go, x, f)
  <2>1. s \notin ListStates \cup ErrorStates /\ t \notin UpdateTarget
    BY <1>8 DEF BeginAllows, ListStates
  <2>2. flag = 0
    BY <1>4, <1>8, <2>1 DEF FlagFollows
  <2>. QED  BY <1>8, <2>1, <2>2 DEF FlagFollows
<1>9. CASE go \in NoOpStates
  <2>1. s \in OperatorStates /\ x = g
    BY <1>9 DEF BeginAllows
  <2>2. go \notin ListStates \cup ErrorStates
    BY <1>9 DEF NoOpStates, ListStates, ErrorStates
  <2>3. AtOperators(x)
    BY <1>4, <2>1, <2>2 DEF Follows
  <2>4. Follows(go, x)
    BY ONLY <1>9, <2>3 DEF Follows, NoOpStates, ToParameterStates, ParameterStates,
       PredicateStates, ContentStates
  <2>. QED  BY <1>1, <1>8, <2>2, <2>4 DEF Followed
<1>10. CASE go \in ToParameterStates
  <2>1. s \in OperatorStates /\ t \in OperatorsWithString
    BY <1>10 DEF BeginAllows
  <2>2. go \notin ListStates \cup ErrorStates
    BY <1>10 DEF ToParameterStates, ListStates, ErrorStates
  <2>3. AtOperators(g)
    BY <1>4, <2>1, <2>2 DEF Follows
  <2>4. t # ""
    BY <2>1, TokensApart DEF Single
  <2>5. InParameter(x)
    BY <2>1, <2>3, <2>4, ShiftOperator
  <2>6. Follows(go, x)
    BY ONLY <1>10, <2>5 DEF Follows, OperatorStates, NoOpStates, ToParameterStates,
       PredicateStates, ContentStates
  <2>. QED  BY <1>1, <1>8, <2>2, <2>6 DEF Followed
<1>11. CASE go \in ParameterStates
  <2>1. s \in ToParameterStates /\ x = g
    BY <1>11 DEF BeginAllows
  <2>2. go \notin ListStates \cup ErrorStates
    BY <1>11 DEF ParameterStates, ListStates, ErrorStates
  <2>3. InParameter(x)
    BY <1>4, <2>1, <2>2 DEF Follows
  <2>6. Follows(go, x)
    BY ONLY <1>11, <2>3 DEF Follows, OperatorStates, NoOpStates, ParameterStates,
       PredicateStates, ContentStates
  <2>. QED  BY <1>1, <1>8, <2>2, <2>6 DEF Followed
<1>12. ASSUME go \in PredicateStates \cup ContentStates \cup {"EXPECTING_ACTION_PREDICATE"},
              InActionString(x)
       PROVE  Followed(go, stack, x, f)
  <2>1. go \notin ListStates \cup ErrorStates
    BY <1>12 DEF PredicateStates, ContentStates, ListStates, ErrorStates
  <2>2. Follows(go, x)
    BY ONLY <1>12 DEF Follows, OperatorStates, NoOpStates, ToParameterStates, ParameterStates,
       PredicateStates, ContentStates
  <2>. QED  BY <1>1, <1>8, <2>1, <2>2 DEF Followed
<1>13. CASE go = "EXPECTING_ACTION_PREDICATE"
  <2>1. t \in ActionsWithString
    BY <1>13 DEF BeginAllows
  <2>2. t # ""
    BY <2>1, TokensApart DEF Single
  <2>3. \E q : x = Place("string", "acts", q)
    BY <2>1, <2>2, ShiftStringAction
  <2>4. InActionString(x)
    BY ONLY <2>3, StartPlaces
  <2>. QED  BY <1>12, <1>13, <2>4
<1>14. CASE go \in PredicateStates
  <2>1. s = "EXPECTING_ACTION_PREDICATE" /\ x = g
    BY <1>14 DEF BeginAllows
  <2>2. go \notin ErrorStates
    BY <1>14 DEF PredicateStates, ErrorStates
  <2>3. InActionString(x)
    BY <1>4, <2>1, <2>2 DEF Follows
  <2>. QED  BY <1>12, <1>14, <2>3
<1>15. CASE go \in ContentStates
  <2>1. t \in SETVAR_OPERATION
    BY <1>15 DEF BeginAllows
  <2>2. t # ""
    BY <2>1, TokensApart DEF Single
  <2>3. x = Place("string", "acts", g.quoted)
    BY <2>1, <2>2, ShiftOperation
  <2>4. InActionString(x)
    BY ONLY <2>3, StartPlaces
  <2>. QED  BY <1>12, <1>15, <2>4
<1>16. CASE go \in Silent \ ErrorStates
  <2>1. go \notin ListStates \cup ErrorStates
    BY <1>16 DEF Silent
  <2>. QED  BY <1>1, <1>8, <1>16, <2>1, SilentFollows DEF Followed
<1>17. go \notin OperatorStates
  BY DEF BeginAllows
<1>. QED
  BY <1>0, <1>5, <1>6, <1>7, <1>9, <1>10, <1>11, <1>13, <1>14, <1>15, <1>16, <1>17
  DEF Silent, ListStates, Nested

LEMMA FollowedPush ==
    ASSUME NEW s \in StartConditions, NEW stack \in Seq(StartConditions), Hosted(s, stack),
           NEW g, IsPlace(g), NEW flag, Followed(s, stack, g, flag),
           NEW t, NEW go, NEW back, PushAllows(s, t, go, back),
           NEW x, x # Error, x = IF t = "" THEN g ELSE Shift(g, t)
    PROVE  Followed(go, <<s>> \o stack, x, flag)
<1>. DEFINE st == <<s>> \o stack
<1>0. st[1] = s /\ (Len(stack) > 0 => st[2] = stack[1])
  <2>1. st[1] = s /\ \A i \in 1..Len(stack) : st[i + 1] = stack[i]
    BY ONLY stack \in Seq(StartConditions)
  <2>2. Len(stack) > 0 => 1 \in 1..Len(stack) /\ 1 + 1 = 2
    BY ONLY stack \in Seq(StartConditions)
  <2>. HIDE DEF st
  <2>. QED  BY ONLY <2>1, <2>2
<1>. HIDE DEF st
<1>1. CASE go = "LEXING_ERROR_ACTION"
  <2>1. go \in Silent /\ go \in StartConditions
    BY <1>1 DEF Silent, StartConditions, ErrorStates, ListStates, OperatorStates, NoOpStates,
       ToParameterStates, ParameterStates, PredicateStates, ContentStates
  <2>2. FlagFollows(go, x, flag)
    BY <1>1 DEF FlagFollows, ErrorStates, ListStates
  <2>3. TextOf(go, st) = go
    BY <1>1, <2>1, TextOfText
  <2>. QED  BY <2>1, <2>2, <2>3, SilentFollows DEF Followed, st
<1>2. CASE go \in KeyStates
  <2>1. s \in SetvarStates
    BY <1>2 DEF PushAllows, Hosts, KeyStates, SetvarStates
  <2>2. /\ s \notin ListStates \cup ErrorStates
        /\ s \notin {"EXPECTING_ACTION_PREDICATE_VARIABLE", "EXPECTING_VAR_PARAMETER"}
    BY <2>1 DEF SetvarStates, ListStates, ErrorStates
  <2>3. flag = 0
    <3>1. TextOf(s, stack) = s
      BY <2>2, TextOfText
    <3>. QED  BY <2>2, <3>1 DEF Followed, FlagFollows
  <2>4. /\ go \in StartConditions /\ go \in Silent /\ go \notin ListStates \cup ErrorStates
        /\ go \in Carriers
    BY <1>2, TextsAre DEF Silent, StartConditions
  <2>5. TextOf(go, st) = go
    BY <2>4, TextOfText
  <2>. QED  BY <2>3, <2>4, <2>5, SilentFollows DEF Followed, FlagFollows, st
<1>3. CASE go = "EXPECTING_VAR_PARAMETER" /\ s = "EXPECTING_VARIABLE"
  <2>1. TextOf(go, st) = s /\ TextOf(s, stack) = s /\ ~Refusing(s, stack, g)
    BY <1>0, <1>3, TextOfText, ZenonT(60) DEF ListStates, StartConditions
  <2>2. Follows(s, g) /\ FlagFollows(s, g, flag)
    BY <2>1 DEF Followed
  <2>3. t \in Variables \/ t = ""
    BY DEF PushAllows
  <2>4. Follows(s, x) /\ FlagFollows(s, x, flag)
    BY <1>3, <2>2, <2>3, FollowsList DEF ListTokens
  <2>. QED  BY <2>1, <2>4 DEF Followed, st
<1>4. CASE go = "EXPECTING_VAR_PARAMETER" /\ s = "EXPECTING_ACTION_PREDICATE_VARIABLE"
  <2>1. stack[1] \in Carriers /\ Len(stack) > 0
    BY <1>4 DEF Hosted, Nested, Carriers
  <2>2. TextOf(go, st) = stack[1] /\ TextOf(s, stack) = stack[1] /\ ~Refusing(s, stack, g)
    BY <1>0, <1>4, <2>1, TextOfText DEF StartConditions
  <2>3. stack[1] \in StartConditions \ ListStates
    BY <2>1, TextsAre DEF StartConditions
  <2>4. t # "" => t \in Pieces /\ t # "QUOTATION_MARK"
    BY VariablesForeign DEF PushAllows, Pieces, Single
  <2>5. Follows(stack[1], x)
    BY <2>1, <2>2, <2>4, FollowsText DEF Followed, EndsString
  <2>. QED  BY <2>2, <2>3, <2>5, FlagOfText DEF Followed, st
<1>5. CASE go = "EXPECTING_ACTION_PREDICATE_VARIABLE"
  <2>1. s \in Carriers /\ t = ""
    BY <1>5 DEF PushAllows, Carriers
  <2>2. TextOf(go, st) = s /\ TextOf(s, stack) = s /\ ~Refusing(s, stack, g)
    BY <1>0, <1>5, <2>1, TextsAre, TextOfText DEF StartConditions, VariableStates
  <2>. QED  BY <2>1, <2>2 DEF Followed, st
<1>. QED
  <2>1. go = "EXPECTING_VAR_PARAMETER" => s \in VariableStates
    BY DEF PushAllows, Hosts
  <2>. QED  BY <1>1, <1>2, <1>3, <1>4, <1>5, <2>1 DEF PushAllows, Nested, VariableStates

LEMMA FollowedPop ==
    ASSUME NEW s \in StartConditions, NEW stack \in Seq(StartConditions), Hosted(s, stack),
           NEW g, IsPlace(g), NEW flag, Followed(s, stack, g, flag),
           NEW t, NEW back, PopAllows(s, t, back),
           NEW x, x # Error, x = IF t = "" THEN g ELSE Shift(g, t)
    PROVE  Followed(stack[1], Tail(stack), x, flag)
<1>. DEFINE go == stack[1]
            st == Tail(stack)
<1>0. s \in Nested /\ Len(stack) > 0 /\ go \in Hosts(s) /\ go \in StartConditions
  <2>1. s \in Nested
    BY DEF PopAllows
  <2>2. Len(stack) > 0 /\ stack[1] \in Hosts(s)
    BY <2>1 DEF Hosted
  <2>3. stack[1] \in StartConditions
    BY ONLY <2>2, stack \in Seq(StartConditions)
  <2>. QED  BY <2>1, <2>2, <2>3
<1>1. Len(stack) > 1 => st[1] = stack[2]
  <2>1. Len(stack) > 1 => \A i \in 1..(Len(stack) - 1) : st[i] = stack[i + 1]
    BY ONLY stack \in Seq(StartConditions)
  <2>2. Len(stack) > 1 => 1 \in 1..(Len(stack) - 1) /\ 1 + 1 = 2
    BY ONLY stack \in Seq(StartConditions)
  <2>. HIDE DEF st
  <2>. QED  BY ONLY <2>1, <2>2
<1>. HIDE DEF st, go
<1>2. CASE s \in KeyStates
  <2>1. go \in SetvarStates
    BY <1>0, <1>2 DEF Hosts, KeyStates, SetvarStates
  <2>2. s \in Carriers /\ s \notin ListStates \cup ErrorStates
    BY <1>2, TextsAre
  <2>3. flag = 0
    BY <2>2, TextOfText DEF Followed, FlagFollows
  <2>4. /\ go \in Silent /\ go \notin ListStates \cup ErrorStates
        /\ go \notin {"EXPECTING_ACTION_PREDICATE_VARIABLE", "EXPECTING_VAR_PARAMETER"}
    BY <1>0, <2>1 DEF Silent, SetvarStates, ErrorStates, ListStates, OperatorStates, NoOpStates,
       ToParameterStates, ParameterStates, PredicateStates, ContentStates
  <2>5. TextOf(go, st) = go
    BY <1>0, <2>4, TextOfText
  <2>. QED  BY <2>3, <2>4, <2>5, SilentFollows DEF Followed, FlagFollows, st, go
<1>3. CASE s = "EXPECTING_ACTION_PREDICATE_VARIABLE"
  <2>1. go \in Carriers /\ x = g
    BY <1>0, <1>3 DEF PopAllows, Carriers
  <2>2. TextOf(go, st) = go /\ TextOf(s, stack) = go /\ ~Refusing(s, stack, g)
    BY <1>0, <1>3, <2>1, TextOfText DEF go
  <2>. QED  BY <2>1, <2>2 DEF Followed, st, go
<1>4. CASE s = "EXPECTING_VAR_PARAMETER" /\ go = "EXPECTING_VARIABLE"
  <2>1. t \in Dict /\ t # ""
    BY <1>4 DEF PopAllows, Dict
  <2>2. /\ TextOf(go, st) = "EXPECTING_VARIABLE" /\ TextOf(s, stack) = "EXPECTING_VARIABLE"
        /\ ~Refusing(s, stack, g)
    BY <1>0, <1>4, TextOfText DEF go, Refusing
  <2>3. Follows("EXPECTING_VARIABLE", x) /\ FlagFollows("EXPECTING_VARIABLE", x, flag)
    BY <2>1, <2>2, FollowsList DEF Followed
  <2>. QED  BY <2>2, <2>3 DEF Followed, st, go
<1>5. CASE s = "EXPECTING_VAR_PARAMETER" /\ go = "EXPECTING_ACTION_PREDICATE_VARIABLE"
  <2>1. t \in Dict /\ t # ""
    BY <1>5 DEF PopAllows, Dict
  <2>2. t \in Pieces /\ t # "QUOTATION_MARK"
    BY <2>1 DEF Pieces, Dict
  <2>3. stack[2] \in Carriers /\ Len(stack) > 1
    BY <1>5 DEF Hosted, go
  <2>4. TextOf(go, st) = stack[2] /\ TextOf(s, stack) = stack[2]
    BY <1>0, <1>1, <1>5, <2>3, TextOfText DEF go
  <2>8. Shift(g, t) # Error /\ t \in Dict \cup {"QUOTATION_MARK"}
    BY <2>1
  <2>5. ~Refusing(s, stack, g)
    BY ONLY <2>8, ShiftRefused DEF Refusing
  <2>6. Follows(stack[2], x)
    BY <2>1, <2>2, <2>3, <2>4, <2>5, FollowsText DEF Followed, EndsString
  <2>7. stack[2] \in StartConditions \ ListStates
    BY <2>3, TextsAre DEF StartConditions
  <2>. QED  BY <2>4, <2>6, <2>7, FlagOfText DEF Followed, st, go
<1>. QED
  <2>1. s = "EXPECTING_VAR_PARAMETER" => go \in VariableStates
    BY <1>0 DEF Hosts
  <2>. QED  BY <1>0, <1>2, <1>3, <1>4, <1>5, <2>1 DEF Nested, VariableStates

-----------------------------------------------------------------------------
(* The parser is followed: every step.                                     *)

LEMMA PositionInit == ASSUME InitScanner PROVE PositionInv
BY NamedPlaces DEF InitScanner, PositionInv, ParserIsFollowed

LEMMA PositionEndParse ==
    ASSUME NEW r \in {"done", "failed"}, EndParse(r), state_variable_from' \in {0, 1}
    PROVE  PositionInv'
<1>1. parse' # "running" /\ position' = Line
  BY DEF EndParse
<1>2. ParserIsFollowed'
  BY <1>1 DEF ParserIsFollowed
<1>3. IsPlace(position')
  BY <1>1, NamedPlaces
<1>4. IsPlace(position)'
  BY <1>3 DEF IsPlace
<1>. QED  BY <1>1, <1>2, <1>4 DEF PositionInv

LEMMA PositionStays ==
    ASSUME PositionInv,
           UNCHANGED <<position, parse, stale, yy_start, YY_PREVIOUS_STATE, state_variable_from>>
    PROVE  PositionInv'
BY DEF PositionInv, ParserIsFollowed, IsPlace

LEMMA PositionScanBegin == ASSUME TextsInv, PositionInv, scan_begin PROVE PositionInv'
<1>1. /\ IsPlace(position) /\ position' = position /\ position = Line
      /\ yy_start' = yy_start /\ YY_PREVIOUS_STATE' = YY_PREVIOUS_STATE
      /\ state_variable_from' = state_variable_from /\ state_variable_from \in {0, 1}
      /\ parse' = "running" /\ (stale' <=> state_variable_from = 1)
  BY DEF PositionInv, scan_begin
<1>2. yy_start = "INITIAL"
  BY DEF TextsInv, ScannerTypeOK, scan_begin
<1>3. "INITIAL" \in Silent /\ "INITIAL" \in StartConditions /\ "INITIAL" \notin ListStates \cup ErrorStates
  BY DEF Silent, StartConditions, ErrorStates, ListStates, OperatorStates, NoOpStates,
       ToParameterStates, ParameterStates, PredicateStates, ContentStates
<1>4. TextOf(yy_start, YY_PREVIOUS_STATE) = "INITIAL"
  BY <1>2, <1>3, TextOfText
<1>5. state_variable_from = 0 => Followed(yy_start, YY_PREVIOUS_STATE, position, state_variable_from)
  BY <1>3, <1>4, SilentFollows DEF Followed, FlagFollows
<1>6. ~stale' => state_variable_from = 0
  BY <1>1
<1>7. ParserIsFollowed'
  BY <1>1, <1>5, <1>6 DEF ParserIsFollowed
<1>8. IsPlace(position)'
  BY <1>1 DEF IsPlace
<1>. QED  BY <1>1, <1>7, <1>8 DEF PositionInv

LEMMA PositionEndOfVariables == ASSUME TextsInv, PositionInv, EndOfVariables PROVE PositionInv'
<1>1. /\ IsPlace(position) /\ position' = position /\ parse = "running" /\ parse' = parse
      /\ YY_PREVIOUS_STATE' = YY_PREVIOUS_STATE /\ state_variable_from' = 0 /\ stale' = stale
      /\ yy_start = "EXPECTING_VARIABLE" /\ yy_start \in StartConditions
      /\ yy_start' \in IF state_variable_from = 0 THEN OperatorStates ELSE {"INITIAL"}
      /\ state_variable_from \in {0, 1}
  BY DEF PositionInv, TextsInv, ScannerTypeOK, EndOfVariables
<1>2. yy_start' \in StartConditions \ (ListStates \cup ErrorStates
                        \cup {"EXPECTING_ACTION_PREDICATE_VARIABLE", "EXPECTING_VAR_PARAMETER"})
  BY <1>1 DEF StartConditions, ListStates, ErrorStates, OperatorStates
<1>3. TextOf(yy_start', YY_PREVIOUS_STATE') = yy_start'
  BY <1>2, TextOfText
<1>4. FlagFollows(yy_start', position, 0)
  BY <1>2 DEF FlagFollows
<1>5. ASSUME ~stale PROVE Follows(yy_start', position)
  <2>1. /\ TextOf(yy_start, YY_PREVIOUS_STATE) = yy_start
        /\ ~Refusing(yy_start, YY_PREVIOUS_STATE, position)
    BY <1>1, TextOfText DEF ListStates
  <2>2. Follows(yy_start, position) /\ FlagFollows(yy_start, position, state_variable_from)
    BY <1>1, <1>5, <2>1 DEF PositionInv, ParserIsFollowed, Followed
  <2>3. CASE state_variable_from = 0
    <3>1. position.of # "target"
      BY <1>1, <2>2, <2>3 DEF FlagFollows, ListStates
    <3>2. InList(position, {"rule", "target"}) \/ PastList(position)
      BY <1>1, <2>2 DEF Follows
    <3>3. AtOperators(position)
      BY ONLY <3>1, <3>2 DEF AtOperators, InList
    <3>4. yy_start' \in OperatorStates
      BY <1>1, <2>3
    <3>5. /\ yy_start' \notin ListStates \cup ToParameterStates \cup ParameterStates
          /\ yy_start' \notin PredicateStates \cup ContentStates \cup {"EXPECTING_ACTION_PREDICATE"}
      BY <3>4 DEF ListStates, OperatorStates, ToParameterStates, ParameterStates,
         PredicateStates, ContentStates
    <3>. QED  BY ONLY <3>3, <3>5 DEF Follows, ListStates
  <2>4. CASE state_variable_from # 0
    <3>1. yy_start' = "INITIAL"
      BY <1>1, <2>4
    <3>2. yy_start' \in Silent
      BY <3>1 DEF Silent, StartConditions, ListStates, OperatorStates, NoOpStates,
       ToParameterStates, ParameterStates, PredicateStates, ContentStates
    <3>. QED  BY <3>2, SilentFollows
  <2>. QED  BY <2>3, <2>4
<1>6. ~stale => Followed(yy_start', YY_PREVIOUS_STATE', position, 0)
  BY <1>3, <1>4, <1>5 DEF Followed
<1>7. ParserIsFollowed'
  BY <1>1, <1>6 DEF ParserIsFollowed
<1>8. IsPlace(position)'
  BY <1>1 DEF IsPlace
<1>. QED  BY <1>1, <1>7, <1>8 DEF PositionInv

LEMMA HostsAreHosted ==
    ASSUME TextsInv
    PROVE  Hosted(yy_start, YY_PREVIOUS_STATE)
<1>1. YY_PREVIOUS_STATE \in Seq(StartConditions) /\ HostsBelow
  BY DEF TextsInv, ScannerTypeOK
<1>2. Len(YY_PREVIOUS_STATE) \in Nat
  BY <1>1
<1>3. ASSUME yy_start \in Nested
      PROVE  Len(YY_PREVIOUS_STATE) > 0 /\ YY_PREVIOUS_STATE[1] \in Hosts(yy_start)
  BY <1>1, <1>2, <1>3 DEF HostsBelow, ConditionAt
<1>4. ASSUME yy_start = "EXPECTING_VAR_PARAMETER",
             YY_PREVIOUS_STATE[1] = "EXPECTING_ACTION_PREDICATE_VARIABLE"
      PROVE  Len(YY_PREVIOUS_STATE) > 1 /\ YY_PREVIOUS_STATE[2] \in Carriers
  <2>1. yy_start \in Nested /\ YY_PREVIOUS_STATE[1] \in Nested
    BY <1>4 DEF Nested
  <2>2. 1 \in 0..Len(YY_PREVIOUS_STATE)
    BY <1>2, <1>3, <2>1
  <2>3. \A j \in 0..1 : ConditionAt(j) \in Nested
    BY <2>1 DEF ConditionAt
  <2>4. 1 < Len(YY_PREVIOUS_STATE) /\ ConditionAt(1 + 1) \in Hosts(ConditionAt(1))
    BY <1>1, <2>2, <2>3 DEF HostsBelow
  <2>5. ConditionAt(1) = YY_PREVIOUS_STATE[1] /\ ConditionAt(1 + 1) = YY_PREVIOUS_STATE[2]
    BY DEF ConditionAt
  <2>. QED  BY <1>2, <1>4, <2>4, <2>5 DEF Carriers
<1>. QED  BY <1>3, <1>4 DEF Hosted

LEMMA PositionScan == ASSUME TextsInv, PositionInv, Scan PROVE PositionInv'
<1>0. /\ parse = "running" /\ yy_start \in StartConditions
      /\ YY_PREVIOUS_STATE \in Seq(StartConditions)
      /\ IsPlace(position) /\ state_variable_from \in {0, 1}
  BY DEF TextsInv, PositionInv, ScannerTypeOK, Scan
<1>. DEFINE After(p) == IF p.token = "" THEN position ELSE Shift(position, p.token)
            Goes(p) == CASE p.how = "stay" -> yy_start
                         [] p.how = "pop"  -> Head(YY_PREVIOUS_STATE)
                         [] OTHER          -> p.go
            Flag(p) == IF p.token \in UpdateTarget THEN 1 ELSE state_variable_from
<1>1. PICK p \in PatternsOf[yy_start] :
        /\ YY_PREVIOUS_STATE' = Stack(p)
        /\ state_variable_from' = Flag(p)
        /\ \/ /\ After(p) # Error
              /\ yy_start' = Goes(p)
              /\ position' = After(p)
              /\ UNCHANGED <<parse, stale>>
           \/ EndParse("failed")
  BY DEF Scan
<1>2. p.from = yy_start /\ Allowed(p)
  BY <1>0, PatternsOfAllowed
<1>3. state_variable_from' \in {0, 1}
  BY <1>0, <1>1
<1>4. CASE EndParse("failed")
  BY <1>3, <1>4, PositionEndParse
<1>5. CASE /\ After(p) # Error
           /\ yy_start' = Goes(p)
           /\ position' = After(p)
           /\ UNCHANGED <<parse, stale>>
  <2>. DEFINE x == After(p)
              t == p.token
  <2>0. x # Error /\ x = (IF t = "" THEN position ELSE Shift(position, t)) /\ position' = x
    BY <1>5
  <2>1. IsPlace(x)
    BY <1>0, <2>0, ShiftPlace
  <2>2. IsPlace(position)'
    BY <2>0, <2>1 DEF IsPlace
  <2>3. Hosted(yy_start, YY_PREVIOUS_STATE)
    BY HostsAreHosted
  <2>4. ASSUME ~stale PROVE Followed(yy_start', YY_PREVIOUS_STATE', x, state_variable_from')
    <3>. HIDE DEF x, t
    <3>1. Followed(yy_start, YY_PREVIOUS_STATE, position, state_variable_from)
      BY <1>0, <2>4 DEF PositionInv, ParserIsFollowed
    <3>2. CASE p.how = "stay"
      <4>1. /\ yy_start' = yy_start /\ YY_PREVIOUS_STATE' = YY_PREVIOUS_STATE
            /\ StayAllows(yy_start, t) /\ state_variable_from' = state_variable_from
        BY <1>1, <1>2, <1>5, <3>2 DEF Stack, Allowed, StayAllows, t
      <4>2. CASE t = ""
        BY <2>0, <3>1, <4>1, <4>2
      <4>3. CASE t # ""
        <5>1. x = Shift(position, t)
          BY <2>0, <4>3
        <5>2. Followed(yy_start, YY_PREVIOUS_STATE, x, state_variable_from)
          BY <1>0, <2>0, <2>3, <3>1, <4>1, <4>3, <5>1, FollowedStay
        <5>. QED  BY <4>1, <5>2
      <4>. QED  BY <4>2, <4>3
    <3>3. CASE p.how = "begin"
      <4>1. /\ yy_start' = p.go /\ YY_PREVIOUS_STATE' = YY_PREVIOUS_STATE
            /\ BeginAllows(yy_start, t, p.go, p.back)
            /\ state_variable_from' = IF t \in UpdateTarget THEN 1 ELSE state_variable_from
        BY <1>1, <1>2, <1>5, <3>3 DEF Stack, Allowed, t
      <4>2. Followed(p.go, YY_PREVIOUS_STATE, x,
                     IF t \in UpdateTarget THEN 1 ELSE state_variable_from)
        BY <1>0, <2>0, <3>1, <4>1, FollowedBegin
      <4>. QED  BY <4>1, <4>2
    <3>4. CASE p.how = "push"
      <4>1. /\ yy_start' = p.go /\ YY_PREVIOUS_STATE' = <<yy_start>> \o YY_PREVIOUS_STATE
            /\ PushAllows(yy_start, t, p.go, p.back)
        BY <1>1, <1>2, <1>5, <3>4 DEF Stack, Allowed, t
      <4>2. t \notin UpdateTarget
        BY <4>1, VariablesForeign, TokensApart DEF PushAllows, ClassTokens, Single
      <4>3. state_variable_from' = state_variable_from
        BY <1>1, <4>2 DEF t
      <4>4. Followed(p.go, <<yy_start>> \o YY_PREVIOUS_STATE, x, state_variable_from)
        BY <1>0, <2>0, <2>3, <3>1, <4>1, FollowedPush
      <4>. QED  BY <4>1, <4>3, <4>4
    <3>5. CASE p.how = "pop"
      <4>1. /\ yy_start' = Head(YY_PREVIOUS_STATE) /\ YY_PREVIOUS_STATE' = Tail(YY_PREVIOUS_STATE)
            /\ PopAllows(yy_start, t, p.back)
        BY <1>1, <1>2, <1>5, <3>5 DEF Stack, Allowed, t
      <4>2. yy_start' = YY_PREVIOUS_STATE[1]
        <5>1. Len(YY_PREVIOUS_STATE) > 0
          BY <2>3, <4>1 DEF Hosted, PopAllows
        <5>. QED  BY ONLY <1>0, <4>1, <5>1
      <4>3. state_variable_from' = state_variable_from
        BY <1>1, <4>1 DEF t, PopAllows
      <4>4. Followed(YY_PREVIOUS_STATE[1], Tail(YY_PREVIOUS_STATE), x, state_variable_from)
        BY <1>0, <2>0, <2>3, <3>1, <4>1, FollowedPop
      <4>. QED  BY <4>1, <4>2, <4>3, <4>4
    <3>. QED  BY <1>2, <3>2, <3>3, <3>4, <3>5 DEF Allowed
  <2>5. ParserIsFollowed'
    BY <1>5, <2>0, <2>4 DEF ParserIsFollowed
  <2>. QED  BY <1>0, <1>3, <1>5, <2>2, <2>5 DEF PositionInv
<1>. QED  BY <1>1, <1>4, <1>5

LEMMA PositionOfBuffers ==
    ASSUME TextsInv, PositionInv, EndOfBuffer \/ Include \/ SecRemoteRules \/ LexingError
    PROVE  PositionInv'
<1>1. /\ state_variable_from' = state_variable_from /\ state_variable_from \in {0, 1}
      /\ YY_PREVIOUS_STATE' = YY_PREVIOUS_STATE
  BY DEF PositionInv, EndOfBuffer, Include, SecRemoteRules, LexingError
<1>2. EndParse("done") \/ EndParse("failed") \/ UNCHANGED <<yy_start, position, parse, stale>>
  BY DEF EndOfBuffer, Include, SecRemoteRules, LexingError
<1>. QED  BY <1>1, <1>2, PositionEndParse, PositionStays

-----------------------------------------------------------------------------
(* The scanner: the theorems.                                              *)

LEMMA TextsNext == ASSUME TextsInv, [NextScanner]_scannerVars PROVE TextsInv'
<1>1. CASE UNCHANGED scannerVars
  <2>1. ScannerTypeOK' /\ EatsInTime' /\ FilesOpen' /\ LocOfBuffer' /\ FilesReadAreClosed'
    BY <1>1 DEF scannerVars, TextsInv, ScannerTypeOK, EatsInTime, FilesOpen, LocOfBuffer,
       FilesReadAreClosed
  <2>2. HostsBelow'
    BY <1>1, HostsStay DEF scannerVars, TextsInv
  <2>. QED  BY <2>1, <2>2 DEF TextsInv
<1>. QED
  BY <1>1, TextsScanBegin, TextsScan, TextsEndOfVariables, TextsLexingError, TextsEndOfBuffer,
     TextsInclude, TextsSecRemoteRules DEF NextScanner

LEMMA PositionNext == ASSUME TextsInv, PositionInv, [NextScanner]_scannerVars PROVE PositionInv'
<1>1. CASE UNCHANGED scannerVars
  BY <1>1, PositionStays DEF scannerVars
<1>. QED
  BY <1>1, PositionScanBegin, PositionScan, PositionEndOfVariables, PositionOfBuffers
  DEF NextScanner

(* Every text is read to its end, and left as it was entered: no chain of  *)
(* patterns that give their text back (yyless(0)) is longer than four, the *)
(* location names the text read, and a parse that succeeds has closed      *)
(* every file it included.                                                 *)
THEOREM TextsAreReadToTheEnd == SpecScanner => []TextsAreRead
<1>1. InitScanner => TextsInv
  BY TextsInit
<1>2. TextsInv /\ [NextScanner]_scannerVars => TextsInv'
  BY TextsNext
<1>3. TextsInv => TextsAreRead
  <2>. SUFFICES ASSUME TextsInv PROVE AlwaysEats
    BY DEF TextsInv, TextsAreRead
  <2>1. Level(yy_start) \in 0..4 /\ still \in 0..Level(yy_start)
    BY Levels DEF TextsInv, ScannerTypeOK, EatsInTime
  <2>. QED  BY ONLY <2>1 DEF AlwaysEats
<1>. QED  BY <1>1, <1>2, <1>3, PTL DEF SpecScanner

(* The start condition and the stack of previous ones follow the parser:   *)
(* the flag of yylex tells the targets of an update, BEGIN_PREVIOUS goes   *)
(* back to the text it was left from, and an operator, a parameter or a    *)
(* string is scanned only where the parser is in one, for any number of    *)
(* texts read one after the other.  The first and the last of these are    *)
(* not claimed of a text that begins with the flag set by an earlier one,  *)
(* where they fail (RulesAreReadOn).                                       *)
THEOREM ScannerKeepsUp == SpecScanner => []ScannerFollowsParser
<1>1. InitScanner => TextsInv /\ PositionInv
  BY TextsInit, PositionInit
<1>2. TextsInv /\ PositionInv /\ [NextScanner]_scannerVars => TextsInv' /\ PositionInv'
  BY TextsNext, PositionNext
<1>3. TextsInv /\ PositionInv => ScannerFollowsParser
  <2>. SUFFICES ASSUME TextsInv, PositionInv PROVE ScannerFollowsParser
    OBVIOUS
  <2>0. yy_start \in StartConditions /\ YY_PREVIOUS_STATE \in Seq(StartConditions)
    BY DEF TextsInv, ScannerTypeOK
  <2>1. HostOnTop
    <3>1. Hosted(yy_start, YY_PREVIOUS_STATE)
      BY HostsAreHosted
    <3>2. ASSUME yy_start \in Nested
          PROVE  YY_PREVIOUS_STATE # << >> /\ Head(YY_PREVIOUS_STATE) \in Hosts(yy_start)
      <4>1. Len(YY_PREVIOUS_STATE) > 0 /\ YY_PREVIOUS_STATE[1] \in Hosts(yy_start)
        BY <3>1, <3>2 DEF Hosted
      <4>. QED  BY ONLY <2>0, <4>1
    <3>. QED  BY <3>2 DEF HostOnTop, Nested
  <2>2. ASSUME parse = "running", ~stale,
               yy_start \notin {"EXPECTING_ACTION_PREDICATE_VARIABLE", "EXPECTING_VAR_PARAMETER"}
        PROVE  /\ Follows(yy_start, position)
               /\ FlagFollows(yy_start, position, state_variable_from)
    BY <2>0, <2>2, TextOfText DEF PositionInv, ParserIsFollowed, Followed
  <2>3. TargetsKnown
    <3>. SUFFICES ASSUME parse = "running", ~stale, yy_start = "EXPECTING_VARIABLE"
                  PROVE  state_variable_from = 1 <=> position.of = "target"
      BY DEF TargetsKnown
    <3>. QED  BY <2>2 DEF FlagFollows, ListStates
  <2>4. InStep
    <3>. SUFFICES ASSUME parse = "running", ~stale
                  PROVE  InStep
      BY DEF InStep
    <3>1. CASE yy_start \in OperatorStates \cup NoOpStates
      <4>1. AtOperators(position)
        BY <2>2, <3>1 DEF Follows, OperatorStates, NoOpStates
      <4>2. position.of # "target" /\ ~(position.at \in {"string", "strings"} /\ position.of = "acts")
        BY ONLY <4>1 DEF AtOperators, InList, PastList
      <4>3. /\ yy_start \notin ToParameterStates \cup ParameterStates
            /\ yy_start \notin PredicateStates \cup ContentStates
        BY <3>1 DEF OperatorStates, NoOpStates, ToParameterStates, ParameterStates,
           PredicateStates, ContentStates
      <4>. QED  BY ONLY <4>2, <4>3 DEF InStep
    <3>2. CASE yy_start = "EXPECTING_VARIABLE"
      <4>1. InList(position, {"rule", "target"}) \/ PastList(position)
        BY <2>2, <3>2 DEF Follows
      <4>2. ~(position.at \in {"string", "strings"} /\ position.of = "acts")
        BY ONLY <4>1 DEF InList, PastList
      <4>. QED  BY ONLY <3>2, <4>2 DEF InStep, OperatorStates, NoOpStates, ToParameterStates,
                ParameterStates, PredicateStates, ContentStates
    <3>3. CASE yy_start \in ToParameterStates \cup ParameterStates
      <4>1. InParameter(position)
        BY <2>2, <3>3 DEF Follows, ToParameterStates, ParameterStates
      <4>2. /\ yy_start \notin {"EXPECTING_VARIABLE"} \cup OperatorStates \cup NoOpStates
            /\ yy_start \notin PredicateStates \cup ContentStates
        BY <3>3 DEF OperatorStates, NoOpStates, ToParameterStates, ParameterStates,
           PredicateStates, ContentStates
      <4>. QED  BY ONLY <4>1, <4>2 DEF InStep, InParameter
    <3>4. CASE yy_start \in PredicateStates \cup ContentStates
      <4>1. InActionString(position)
        BY <2>2, <3>4 DEF Follows, PredicateStates, ContentStates
      <4>2. /\ yy_start \notin {"EXPECTING_VARIABLE"} \cup OperatorStates \cup NoOpStates
            /\ yy_start \notin ToParameterStates \cup ParameterStates
        BY <3>4 DEF OperatorStates, NoOpStates, ToParameterStates, ParameterStates,
           PredicateStates, ContentStates
      <4>. QED  BY ONLY <4>1, <4>2 DEF InStep, InActionString
    <3>. QED  BY <3>1, <3>2, <3>3, <3>4 DEF InStep
  <2>. QED  BY <2>1, <2>3, <2>4 DEF ScannerFollowsParser
<1>. QED  BY <1>1, <1>2, <1>3, PTL DEF SpecScanner
=============================================================================
