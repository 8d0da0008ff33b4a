----------------------------- MODULE BodyProofs -----------------------------
(***************************************************************************)
(* What the rules see of a request body: the arguments of JSON, XML and    *)
(* forms, and the parts and the flags of multipart bodies.                 *)
(***************************************************************************)
EXTENDS BodyArguments, Multipart, WellFoundedInduction, TLAPS

-----------------------------------------------------------------------------
(* Facts about sequences.                                                  *)

(* A sequence with one more element.                                       *)
LEMMA AppendedFacts ==
    ASSUME NEW S, NEW s \in Seq(S), NEW e \in S
    PROVE  /\ Append(s, e) \in Seq(S) /\ Len(Append(s, e)) = Len(s) + 1
           /\ DOMAIN Append(s, e) = 1..(Len(s) + 1) /\ DOMAIN s = 1..Len(s)
           /\ \A i \in DOMAIN s : Append(s, e)[i] = s[i]
           /\ Append(s, e)[Len(s) + 1] = e /\ Append(s, e) # << >>
OBVIOUS

LEMMA SequenceFacts ==
    ASSUME NEW S, NEW s \in Seq(S)
    PROVE  DOMAIN s = 1..Len(s) /\ Len(s) \in Nat /\ \A i \in DOMAIN s : s[i] \in S
OBVIOUS

(* Two sequences, one after the other.                                     *)
LEMMA ConcatFacts ==
    ASSUME NEW S, NEW s \in Seq(S), NEW t \in Seq(S)
    PROVE  /\ s \o t \in Seq(S) /\ Len(s \o t) = Len(s) + Len(t)
           /\ DOMAIN (s \o t) = 1..(Len(s) + Len(t))
           /\ DOMAIN s = 1..Len(s) /\ DOMAIN t = 1..Len(t)
           /\ Len(s) \in Nat /\ Len(t) \in Nat
           /\ \A i \in DOMAIN s : i \in DOMAIN (s \o t) /\ (s \o t)[i] = s[i]
           /\ \A j \in DOMAIN t : Len(s) + j \in DOMAIN (s \o t) /\ (s \o t)[Len(s) + j] = t[j]
           /\ \A i \in DOMAIN (s \o t) :
                 i \in DOMAIN s \/ \E j \in DOMAIN t : i = Len(s) + j
<1>1. \A i \in 1..(Len(s) + Len(t)) : i \in 1..Len(s) \/ \E j \in 1..Len(t) : i = Len(s) + j
    <2>. SUFFICES ASSUME NEW i \in 1..(Len(s) + Len(t)), i \notin 1..Len(s)
                  PROVE  \E j \in 1..Len(t) : i = Len(s) + j
        OBVIOUS
    <2>1. i - Len(s) \in 1..Len(t) /\ i = Len(s) + (i - Len(s))
        OBVIOUS
    <2>. QED
        BY <2>1
<1>2. /\ s \o t \in Seq(S) /\ Len(s \o t) = Len(s) + Len(t)
      /\ DOMAIN (s \o t) = 1..(Len(s) + Len(t))
      /\ DOMAIN s = 1..Len(s) /\ DOMAIN t = 1..Len(t)
      /\ Len(s) \in Nat /\ Len(t) \in Nat
    OBVIOUS
<1>3. \A i \in DOMAIN s : i \in DOMAIN (s \o t) /\ (s \o t)[i] = s[i]
    OBVIOUS
<1>4. \A j \in DOMAIN t : Len(s) + j \in DOMAIN (s \o t) /\ (s \o t)[Len(s) + j] = t[j]
    OBVIOUS
<1>. QED
    BY <1>1, <1>2, <1>3, <1>4

-----------------------------------------------------------------------------
(* Request bodies as arguments.  Values and names are of many shapes: of a *)
(* sequence of them it is enough that it is one.                           *)

IsSequence(s) == \E S : s \in Seq(S)

LEMMA SequencesGrow ==
    ASSUME NEW s, IsSequence(s), NEW e
    PROVE  /\ IsSequence(Append(s, e)) /\ Len(s) \in Nat /\ Len(Append(s, e)) = Len(s) + 1
           /\ DOMAIN s = 1..Len(s)
           /\ \A i \in 1..Len(s) : Append(s, e)[i] = s[i]
           /\ Append(s, e)[Len(s) + 1] = e
<1>1. PICK S : s \in Seq(S)
    BY DEF IsSequence
<1>2. PICK T : T = S \cup {e}
    OBVIOUS
<1>3. s \in Seq(T) /\ e \in T
    BY <1>1, <1>2
<1> QED
    BY <1>3 DEF IsSequence

(* The open containers of a JSON document, as it has them and as the       *)
(* reader does.                                                            *)
OpenContainers == [kind : {"map", "array"}, key : Keys, keyRead : BOOLEAN, elements : Nat]
JsonContainers == [kind : {"map", "array"}, name : Keys \cup {"json", EmptyKey}, counter : Nat]

BodyTypeOK ==
    /\ format \in [kind : {"json", "xml", "urlencoded"}, mode : {"Off", "On", "OnlyArgs"},
                   broken : BOOLEAN, maxDepth : Nat, argLimit : Nat, events : Nat]
    /\ report \in [over : BOOLEAN, error : BOOLEAN, urlencoded : BOOLEAN]
    /\ IsSequence(args) /\ IsSequence(leaves)

(* Once an argument is left out, all that follow are; and a body that is   *)
(* not a form is given up, with an error.                                  *)
LeftOutIsTold ==
    /\ Len(args) <= Len(leaves)
    /\ \A i \in 1..Len(args) : args[i] = leaves[i]
    /\ Len(args) < Len(leaves) =>
          /\ Len(args) >= format.argLimit
          /\ format.kind # "urlencoded" => report.over /\ report.error

(* Of a JSON document, the reader has the containers that are open, each   *)
(* with the name its place gives it and the elements it had so far, and    *)
(* the key that waits for its value.                                       *)
JsonIsFollowed ==
    format.kind = "json" =>
        /\ place \in Seq(OpenContainers)
        /\ reader \in [containers : Seq(JsonContainers), key : Keys, depth : Nat]
        /\ Len(reader.containers) = Len(place) /\ reader.depth = Len(place)
        /\ \A i \in 1..Len(place) :
              /\ reader.containers[i].kind = place[i].kind
              /\ reader.containers[i].name = Label(i)
              /\ place[i].kind = "array" =>
                    reader.containers[i].counter = place[i].elements /\ ~place[i].keyRead
        /\ reader.key = IF place # << >> /\ Top(place).keyRead THEN Top(place).key ELSE ""
        /\ Len(place) > format.maxDepth => report.over /\ report.error

(* Of an XML document, the reader has the elements that are open, whether  *)
(* they are leaves, the path of them, and the text of a leaf.              *)
OpenElements == [name : Keys, text : Seq({"v1", "v2"}), leaf : BOOLEAN]
Pieces == Keys \cup {"xml.", "."}

PathOf(elements, path) ==
    /\ Len(path) = IF elements = << >> THEN 1 ELSE 2 * Len(elements)
    /\ path[1] = "xml."
    /\ \A i \in 1..Len(elements) : path[2 * i] = elements[i].name
    /\ \A i \in 1..Len(elements) : i > 1 => path[2 * i - 1] = "."

XmlIsFollowed ==
    format.kind = "xml" =>
        /\ place \in Seq(OpenElements)
        /\ reader \in [nodes : Seq(BOOLEAN), currpath : Seq(Pieces),
                       currval : Seq({"v1", "v2"}), isSet : BOOLEAN]
        /\ Len(reader.nodes) = Len(place)
        /\ \A i \in 1..Len(place) : reader.nodes[i] = ~place[i].leaf
        /\ \A i \in 1..Len(place) : i # Len(place) => ~place[i].leaf
        /\ PathOf(place, reader.currpath)
        /\ place # << >> /\ Top(place).leaf =>
              reader.currval = Top(place).text /\ (reader.isSet \/ Top(place).text = << >>)

BodyInv == BodyTypeOK /\ LeftOutIsTold /\ JsonIsFollowed /\ XmlIsFollowed

-----------------------------------------------------------------------------
LEMMA GoesOn ==
    ASSUME BodyInv, Goes
    PROVE  /\ format' \in [kind : {"json", "xml", "urlencoded"}, mode : {"Off", "On", "OnlyArgs"},
                           broken : BOOLEAN, maxDepth : Nat, argLimit : Nat, events : Nat]
           /\ format'.kind = format.kind /\ format'.argLimit = format.argLimit
           /\ format'.maxDepth = format.maxDepth
           /\ ~report.over
    BY DEF BodyInv, BodyTypeOK, Goes

(* The report of a body that goes on or is given up.                       *)
ReportStays == UNCHANGED report \/ \E error \in BOOLEAN : Report(error)

LEMMA ReportIsTyped ==
    ASSUME BodyInv, ReportStays
    PROVE  report' \in [over : BOOLEAN, error : BOOLEAN, urlencoded : BOOLEAN]
    BY DEF BodyInv, BodyTypeOK, ReportStays, Report

(* Nothing is an argument in this step.                                    *)
LEMMA NoArgument ==
    ASSUME BodyInv, Goes, ReportStays, UNCHANGED <<args, leaves>>
    PROVE  (BodyTypeOK /\ LeftOutIsTold)'
<1>1. BodyTypeOK'
    BY GoesOn, ReportIsTyped DEF BodyInv, BodyTypeOK
<1>2. LeftOutIsTold'
    BY GoesOn DEF BodyInv, LeftOutIsTold
<1> QED
    BY <1>1, <1>2

(* A value of the document is an argument, or it is over the limit: that   *)
(* ends what is not a form.                                                *)
TakesValue(name, value) ==
    /\ addArgument(name, value)
    /\ leaves' = Append(leaves, [name |-> name, value |-> value])
    /\ format.kind # "urlencoded" =>
          IF TakesArgument THEN UNCHANGED report ELSE Report(TRUE)

LEMMA OneArgument ==
    ASSUME BodyInv, Goes, NEW name, NEW value, TakesValue(name, value),
           report' \in [over : BOOLEAN, error : BOOLEAN, urlencoded : BOOLEAN]
    PROVE  (BodyTypeOK /\ LeftOutIsTold)'
<1>1. PICK a : a = [name |-> name, value |-> value]
    OBVIOUS
<1>2. /\ leaves' = Append(leaves, a)
      /\ args' = IF Len(args) < format.argLimit THEN Append(args, a) ELSE args
    BY <1>1 DEF TakesValue, addArgument, TakesArgument
<1>3. IsSequence(args) /\ IsSequence(leaves) /\ format.argLimit \in Nat
    BY DEF BodyInv, BodyTypeOK
<1>4. IsSequence(args') /\ IsSequence(leaves')
    BY <1>2, <1>3, SequencesGrow
<1>5. /\ Len(args) \in Nat /\ Len(leaves) \in Nat /\ Len(leaves') = Len(leaves) + 1
      /\ \A i \in 1..Len(leaves) : leaves'[i] = leaves[i]
      /\ leaves'[Len(leaves) + 1] = a
    BY <1>2, <1>3, SequencesGrow
<1>6. BodyTypeOK'
    BY <1>4, GoesOn DEF BodyTypeOK
<1>7. CASE Len(args) < format.argLimit
    <2>1. Len(args) = Len(leaves)
        BY <1>5, <1>7, GoesOn DEF BodyInv, LeftOutIsTold
    <2>2. /\ Len(args') = Len(args) + 1
          /\ \A i \in 1..Len(args) : args'[i] = args[i]
          /\ args'[Len(args) + 1] = a
        BY <1>2, <1>3, <1>7, SequencesGrow
    <2>3. \A i \in 1..Len(args) : args[i] = leaves[i]
        BY DEF BodyInv, LeftOutIsTold
    <2>4. \A i \in 1..(Len(args) + 1) : args'[i] = leaves'[i]
        BY <1>5, <2>1, <2>2, <2>3
    <2>5. Len(args') = Len(leaves')
        BY <1>5, <2>1, <2>2
    <2>6. Len(args') \in Nat
        BY <1>5, <2>2
    <2> QED
        BY ONLY <1>6, <2>2, <2>4, <2>5, <2>6 DEF LeftOutIsTold
<1>8. CASE ~(Len(args) < format.argLimit)
    <2>1. args' = args /\ Len(args) >= format.argLimit
        BY <1>2, <1>3, <1>5, <1>8
    <2>2. /\ Len(args) <= Len(leaves)
          /\ \A i \in 1..Len(args) : args[i] = leaves[i]
        BY DEF BodyInv, LeftOutIsTold
    <2>3. format.kind # "urlencoded" => report'.over /\ report'.error
        BY <1>8 DEF TakesValue, TakesArgument, Report, BodyInv, BodyTypeOK
    <2>4. \A i \in 1..Len(args) : args'[i] = leaves'[i]
        BY <1>5, <2>1, <2>2
    <2>5. Len(args') <= Len(leaves') /\ Len(args') >= format'.argLimit
        BY <1>5, <2>1, <2>2, GoesOn
    <2> QED
        BY <1>6, <2>1, <2>3, <2>4, <2>5, GoesOn DEF LeftOutIsTold
<1> QED
    BY <1>7, <1>8

-----------------------------------------------------------------------------
(* JSON.                                                                   *)

LEMMA JsonPlaces ==
    ASSUME BodyInv, format.kind = "json"
    PROVE  /\ place \in Seq(OpenContainers) /\ reader.containers \in Seq(JsonContainers)
           /\ Len(place) \in Nat /\ DOMAIN place = 1..Len(place)
           /\ DOMAIN reader.containers = 1..Len(place) /\ Len(reader.containers) = Len(place)
           /\ \A i \in 1..Len(place) : place[i] \in OpenContainers
           /\ \A i \in 1..Len(place) : reader.containers[i] \in JsonContainers
           /\ place = << >> <=> Len(place) = 0
           /\ reader.containers = << >> <=> place = << >>
           /\ reader.key \in Keys
<1>1. /\ place \in Seq(OpenContainers)
      /\ reader \in [containers : Seq(JsonContainers), key : Keys, depth : Nat]
      /\ Len(reader.containers) = Len(place)
    BY DEF BodyInv, JsonIsFollowed
<1>2. PICK cs \in Seq(JsonContainers) : cs = reader.containers
    BY <1>1
<1>3. /\ Len(place) \in Nat /\ DOMAIN place = 1..Len(place)
      /\ \A i \in 1..Len(place) : place[i] \in OpenContainers
      /\ place = << >> <=> Len(place) = 0
    BY ONLY <1>1
<1>4. /\ DOMAIN cs = 1..Len(cs) /\ \A i \in 1..Len(cs) : cs[i] \in JsonContainers
      /\ cs = << >> <=> Len(cs) = 0
    OBVIOUS
<1>5. reader.key \in Keys
    BY <1>1
<1> QED
    BY ONLY <1>1, <1>2, <1>3, <1>4, <1>5

LEMMA JsonTops ==
    ASSUME BodyInv, format.kind = "json", place # << >>
    PROVE  /\ Len(place) \in 1..Len(place)
           /\ Top(place) = place[Len(place)] /\ Top(place) \in OpenContainers
           /\ Top(reader.containers) = reader.containers[Len(place)]
           /\ Top(reader.containers) \in JsonContainers
           /\ Top(reader.containers).kind = Top(place).kind
           /\ Top(reader.containers).name = Label(Len(place))
           /\ Top(place).kind = "array" =>
                 Top(reader.containers).counter = Top(place).elements /\ ~Top(place).keyRead
<1>1. Len(place) \in 1..Len(place)
    BY JsonPlaces
<1> QED
    BY <1>1, JsonPlaces DEF Top, BodyInv, JsonIsFollowed

LEMMA JsonArrays ==
    ASSUME BodyInv, format.kind = "json"
    PROVE  InArray <=> place # << >> /\ Top(place).kind = "array"
    BY JsonPlaces, JsonTops DEF InArray

(* The name of what follows is the one of its place.                       *)
LEMMA CurrentKeyIsLabel ==
    ASSUME BodyInv, format.kind = "json", ValueMayFollow
    PROVE  /\ getCurrentKey = Label(Len(place) + 1)
           /\ getCurrentKey \in Keys \cup {"json", EmptyKey}
           /\ KeyAfter = ""
<1>1. reader.key = IF place # << >> /\ Top(place).keyRead THEN Top(place).key ELSE ""
    BY DEF BodyInv, JsonIsFollowed
<1>2. CASE place = << >>
    <2>1. Len(place) + 1 = 1 /\ reader.containers = << >>
        BY <1>2, JsonPlaces
    <2> QED
        BY <1>1, <1>2, <2>1 DEF getCurrentKey, KeyAfter, Label
<1>3. CASE place # << >>
    <2>1. Len(place) + 1 # 1 /\ (Len(place) + 1) - 1 = Len(place)
        BY <1>3, JsonPlaces
    <2>2. reader.containers # << >>
        BY <1>3, JsonPlaces
    <2>3. Label(Len(place) + 1) = IF Top(place).kind = "array" THEN ""
                                  ELSE IF Top(place).key = "" THEN EmptyKey ELSE Top(place).key
        BY <2>1 DEF Label, Top
    <2>4. Top(place).kind = "array" \/ Top(place).keyRead
        BY <1>3 DEF ValueMayFollow
    <2>5. reader.key = IF Top(place).kind = "array" THEN "" ELSE Top(place).key
        BY <1>1, <1>3, <2>4, JsonTops
    <2>6. Top(place).key \in Keys
        BY <1>3, JsonTops DEF OpenContainers
    <2>7. getCurrentKey = Label(Len(place) + 1)
        BY <1>3, <2>2, <2>3, <2>5, JsonArrays DEF getCurrentKey
    <2>8. Label(Len(place) + 1) \in Keys \cup {EmptyKey}
        BY <2>3, <2>6, ArgumentsAssumption
    <2>9. KeyAfter = ""
        BY <2>2 DEF KeyAfter
    <2> QED
        BY <2>7, <2>8, <2>9
<1> QED
    BY <1>2, <1>3

(* The path the reader has is the one of the document.                     *)
LEMMA JsonNameIsTrue ==
    ASSUME BodyInv, format.kind = "json", ValueMayFollow
    PROVE  JsonPath \o (IF InArray THEN << >> ELSE <<getCurrentKey>>) = TrueName
<1>1. \A i \in 1..Len(place) :
          Piece(reader.containers[i])
            = IF place[i].kind = "array" THEN <<Label(i), ".array_", place[i].elements>>
              ELSE <<Label(i), ".">>
    BY DEF BodyInv, JsonIsFollowed, Piece
<1>2. JsonPath = [i \in DOMAIN place |->
                     IF place[i].kind = "array" THEN <<Label(i), ".array_", place[i].elements>>
                     ELSE <<Label(i), ".">>]
    BY <1>1, JsonPlaces DEF JsonPath
<1>3. (IF InArray THEN << >> ELSE <<getCurrentKey>>)
        = IF place # << >> /\ Top(place).kind = "array" THEN << >> ELSE <<Label(Len(place) + 1)>>
    BY CurrentKeyIsLabel, JsonArrays
<1> QED
    BY <1>2, <1>3 DEF TrueName

(* A value is read: the counter and the key that waited are as the         *)
(* document has them.  cs and p are what is open, without what ended.      *)
AreMatched(cs, p) ==
    /\ p \in Seq(OpenContainers) /\ cs \in Seq(JsonContainers) /\ Len(cs) = Len(p)
    /\ \A i \in 1..Len(p) :
          /\ cs[i].kind = p[i].kind
          /\ p[i].kind = "array" => cs[i].counter = p[i].elements /\ ~p[i].keyRead

LEMMA CountedIsMatched ==
    ASSUME NEW cs, NEW p, AreMatched(cs, p)
    PROVE  /\ AreMatched(Counted(cs), AfterValue(p))
           /\ Len(AfterValue(p)) = Len(p)
           /\ \A i \in 1..Len(p) : /\ Counted(cs)[i].name = cs[i].name
                                   /\ AfterValue(p)[i].kind = p[i].kind
                                   /\ AfterValue(p)[i].key = p[i].key
           /\ p # << >> => ~Top(AfterValue(p)).keyRead
<1>1. PICK n \in Nat : n = Len(p) /\ n = Len(cs) /\ DOMAIN p = 1..n /\ DOMAIN cs = 1..n
    BY DEF AreMatched
<1>2. CASE n = 0
    <2>1. p = << >> /\ cs = << >>
        BY <1>1, <1>2 DEF AreMatched
    <2> QED
        BY <1>1, <1>2, <2>1 DEF AfterValue, Counted
<1>3. CASE n # 0
    <2>1. p # << >> /\ cs # << >> /\ n \in 1..n
        BY <1>1, <1>3
    <2>2. PICK c \in JsonContainers : c = cs[n]
        BY <1>1, <2>1 DEF AreMatched
    <2>3. PICK o \in OpenContainers : o = p[n]
        BY <1>1, <2>1 DEF AreMatched
    <2>4. PICK c2 : c2 = IF c.kind = "array" THEN [c EXCEPT !.counter = @ + 1] ELSE c
        OBVIOUS
    <2>5. PICK o2 : o2 = [[o EXCEPT !.keyRead = FALSE] EXCEPT !.elements = @ + 1]
        OBVIOUS
    <2>6. /\ c2 \in JsonContainers /\ c2.kind = c.kind /\ c2.name = c.name
          /\ c.kind = "array" => c2.counter = c.counter + 1
        BY <2>4 DEF JsonContainers
    <2>7. /\ o2 \in OpenContainers /\ o2.kind = o.kind /\ o2.key = o.key
          /\ o2.elements = o.elements + 1
          /\ o2.keyRead = FALSE
        <3>1. PICK o1 : o1 = [o EXCEPT !.keyRead = FALSE]
            OBVIOUS
        <3>2. /\ o1 \in OpenContainers /\ o1.kind = o.kind /\ o1.key = o.key
              /\ o1.elements = o.elements /\ o1.keyRead = FALSE
            BY <3>1 DEF OpenContainers
        <3>3. PICK w \in Nat : w = o1.elements + 1
            BY <3>2 DEF OpenContainers
        <3>4. o2 = [o1 EXCEPT !.elements = w]
            BY <2>5, <3>1, <3>3
        <3> QED
            BY <3>2, <3>3, <3>4 DEF OpenContainers
    <2>8. Counted(cs) = [cs EXCEPT ![n] = c2]
        <3>1. CASE c.kind = "array"
            BY <1>1, <2>1, <2>2, <2>4, <3>1 DEF Counted, Top
        <3>2. CASE c.kind # "array"
            <4>1. Counted(cs) = cs /\ c2 = cs[n]
                BY <1>1, <2>1, <2>2, <2>4, <3>2 DEF Counted, Top
            <4>2. cs \in Seq(JsonContainers)
                BY DEF AreMatched
            <4> QED
                BY ONLY <1>1, <2>1, <4>1, <4>2
        <3> QED
            BY <3>1, <3>2
    <2>9. AfterValue(p) = [p EXCEPT ![n] = o2]
        BY <1>1, <2>1, <2>3, <2>5 DEF AfterValue
    <2>10. PICK ds : ds = [cs EXCEPT ![n] = c2]
        OBVIOUS
    <2>11. PICK q : q = [p EXCEPT ![n] = o2]
        OBVIOUS
    <2>12. /\ ds \in Seq(JsonContainers) /\ Len(ds) = n
           /\ \A i \in 1..n : ds[i] = IF i = n THEN c2 ELSE cs[i]
        <3>1. cs \in Seq(JsonContainers)
            BY DEF AreMatched
        <3> QED
            BY ONLY <1>1, <2>1, <2>6, <2>10, <3>1
    <2>13. /\ q \in Seq(OpenContainers) /\ Len(q) = n
           /\ \A i \in 1..n : q[i] = IF i = n THEN o2 ELSE p[i]
        <3>1. p \in Seq(OpenContainers)
            BY DEF AreMatched
        <3> QED
            BY ONLY <1>1, <2>1, <2>7, <2>11, <3>1
    <2>14. /\ c.kind = o.kind
           /\ o.kind = "array" => c.counter = o.elements
           /\ \A i \in 1..n : /\ cs[i].kind = p[i].kind
                              /\ p[i].kind = "array" => cs[i].counter = p[i].elements /\ ~p[i].keyRead
        BY <1>1, <2>1, <2>2, <2>3 DEF AreMatched
    <2>15. AreMatched(ds, q)
        <3>1. ASSUME NEW i \in 1..n
              PROVE  /\ ds[i].kind = q[i].kind
                     /\ q[i].kind = "array" => ds[i].counter = q[i].elements /\ ~q[i].keyRead
            <4>1. CASE i = n
                BY <2>6, <2>7, <2>12, <2>13, <2>14, <4>1
            <4>2. CASE i # n
                BY <2>12, <2>13, <2>14, <4>2
            <4> QED
                BY <4>1, <4>2
        <3> QED
            BY <2>12, <2>13, <3>1 DEF AreMatched
    <2>16. \A i \in 1..n : ds[i].name = cs[i].name /\ q[i].kind = p[i].kind /\ q[i].key = p[i].key
        BY <2>2, <2>3, <2>6, <2>7, <2>12, <2>13
    <2>17. ~Top(q).keyRead
        BY <2>1, <2>7, <2>13 DEF Top
    <2> QED
        BY <1>1, <2>8, <2>9, <2>10, <2>11, <2>13, <2>15, <2>16, <2>17
<1> QED
    BY <1>2, <1>3

LEMMA LabelsStay ==
    ASSUME NEW n \in Nat,
           \A i \in 1..n : place'[i].kind = place[i].kind /\ place'[i].key = place[i].key
    PROVE  \A i \in 1..(n + 1) : Label(i)' = Label(i)
<1>1. ASSUME NEW i \in 1..(n + 1)
      PROVE  Label(i)' = Label(i)
    <2>1. CASE i = 1
        BY <2>1 DEF Label
    <2>2. CASE i # 1
        <3>1. i - 1 \in 1..n
            BY <2>2
        <3> QED
            BY <2>2, <3>1 DEF Label
    <2> QED
        BY <2>1, <2>2
<1> QED
    BY <1>1

JsonReader(cs, key, depth) == [containers |-> cs, key |-> key, depth |-> depth]

LEMMA JsonReaderFacts ==
    ASSUME NEW cs, NEW key, NEW depth, NEW r, r = JsonReader(cs, key, depth)
    PROVE  r.containers = cs /\ r.key = key /\ r.depth = depth
    BY DEF JsonReader

LEMMA KeyChanged ==
    ASSUME NEW cs, NEW key, NEW depth, NEW r, r = JsonReader(cs, key, depth), NEW x
    PROVE  [r EXCEPT !.key = x] = JsonReader(cs, x, depth)
    BY DEF JsonReader

LEMMA ContainersChanged ==
    ASSUME NEW cs, NEW key, NEW depth, NEW r, r = JsonReader(cs, key, depth), NEW x
    PROVE  [r EXCEPT !.containers = x] = JsonReader(x, key, depth)
    BY DEF JsonReader

LEMMA DepthChanged ==
    ASSUME NEW cs, NEW key, NEW depth, NEW r, r = JsonReader(cs, key, depth), NEW d
    PROVE  [r EXCEPT !.depth = d] = JsonReader(cs, key, d)
    BY DEF JsonReader

LEMMA JsonFollows ==
    ASSUME BodyInv, Goes, format.kind = "json", NEW cs, NEW p, NEW key, AreMatched(cs, p),
           reader' = JsonReader(cs, key, Len(p)), place' = p,
           \A i \in 1..Len(p) : cs[i].name = Label(i)',
           key \in Keys, key = IF p # << >> /\ Top(p).keyRead THEN Top(p).key ELSE "",
           Len(p) > format.maxDepth => report'.over /\ report'.error
    PROVE  (JsonIsFollowed /\ XmlIsFollowed)'
<1>1. /\ reader'.containers = cs /\ reader'.key = key /\ reader'.depth = Len(p)
      /\ format'.kind = "json" /\ format'.maxDepth = format.maxDepth
    BY GoesOn DEF JsonReader
<1>2. Len(p) \in Nat
    <2>1. p \in Seq(OpenContainers)
        BY DEF AreMatched
    <2> QED
        BY ONLY <2>1
<1>3. reader' \in [containers : Seq(JsonContainers), key : Keys, depth : Nat]
    BY <1>2 DEF AreMatched, JsonReader
<1>4. \A i \in 1..Len(p) :
          /\ cs[i].kind = p[i].kind /\ cs[i].name = Label(i)'
          /\ p[i].kind = "array" => cs[i].counter = p[i].elements /\ ~p[i].keyRead
    BY DEF AreMatched
<1>5. JsonIsFollowed'
    <2>1. p \in Seq(OpenContainers) /\ Len(cs) = Len(p)
        BY DEF AreMatched
    <2>2. reader'.key = IF place' # << >> /\ Top(place').keyRead THEN Top(place').key ELSE ""
        BY <1>1
    <2>3. /\ Len(reader'.containers) = Len(place') /\ reader'.depth = Len(place')
          /\ Len(place') > format'.maxDepth => report'.over /\ report'.error
        BY <1>1, <2>1
    <2>4. \A i \in 1..Len(place') :
              /\ reader'.containers[i].kind = place'[i].kind
              /\ reader'.containers[i].name = Label(i)'
              /\ place'[i].kind = "array" =>
                    reader'.containers[i].counter = place'[i].elements /\ ~place'[i].keyRead
        BY <1>1, <1>4, ZenonT(60)
    <2>5. (Top(place))' = Top(place')
        BY DEF Top
    <2> QED
        BY ONLY <1>3, <2>1, <2>2, <2>3, <2>4, <2>5, place' = p DEF JsonIsFollowed
<1>6. XmlIsFollowed'
    BY <1>1 DEF XmlIsFollowed
<1> QED
    BY <1>5, <1>6

LEMMA JsonIsMatched ==
    ASSUME BodyInv, format.kind = "json"
    PROVE  /\ AreMatched(reader.containers, place)
           /\ \A i \in 1..Len(place) : reader.containers[i].name = Label(i)
           /\ reader = JsonReader(reader.containers, reader.key, Len(place))
           /\ reader.key = IF place # << >> /\ Top(place).keyRead THEN Top(place).key ELSE ""
           /\ ~report.over => ~(Len(place) > format.maxDepth)
    BY DEF BodyInv, JsonIsFollowed, AreMatched, JsonReader

LEMMA yajl_map_keyKeeps ==
    ASSUME BodyInv, NEW k \in Keys, yajl_map_key(k)
    PROVE  BodyInv'
<1>1. /\ Goes /\ format.kind = "json" /\ place # << >> /\ Top(place).kind = "map"
      /\ UNCHANGED <<args, leaves, report>> /\ reader' = [reader EXCEPT !.key = k]
    BY DEF yajl_map_key
<1>2. (BodyTypeOK /\ LeftOutIsTold)'
    BY <1>1, NoArgument DEF ReportStays
<1>3. PICK n \in Nat : n = Len(place) /\ n \in 1..n
    BY <1>1, JsonTops, JsonPlaces
<1>4. PICK o \in OpenContainers : o = place[n] /\ o.kind = "map"
    BY <1>1, <1>3, JsonTops
<1>5. PICK o2 : o2 = [[o EXCEPT !.key = k] EXCEPT !.keyRead = TRUE]
    OBVIOUS
<1>6. o2 \in OpenContainers /\ o2.kind = "map" /\ o2.key = k /\ o2.keyRead = TRUE
    BY <1>4, <1>5 DEF OpenContainers
<1>7. PICK p : p = [place EXCEPT ![n] = o2]
    OBVIOUS
<1>8. place' = p
    BY <1>3, <1>4, <1>5, <1>7 DEF yajl_map_key
<1>9. /\ p \in Seq(OpenContainers) /\ Len(p) = n /\ p # << >>
      /\ \A i \in 1..n : p[i] = IF i = n THEN o2 ELSE place[i]
    <2>1. place \in Seq(OpenContainers)
        BY <1>1, JsonPlaces
    <2> QED
        BY ONLY <1>3, <1>6, <1>7, <2>1
<1>10. AreMatched(reader.containers, p)
    <2>1. AreMatched(reader.containers, place)
        BY <1>1, JsonIsMatched
    <2> QED
        BY ONLY <1>3, <1>4, <1>6, <1>9, <2>1 DEF AreMatched
<1>11. \A i \in 1..n : Label(i)' = Label(i)
    <2>1. n - 1 \in Nat /\ (n - 1) + 1 = n
        BY <1>3
    <2>2. \A i \in 1..(n - 1) : i \in 1..n /\ i # n
        BY <1>3
    <2>3. \A i \in 1..(n - 1) : place'[i].kind = place[i].kind /\ place'[i].key = place[i].key
        BY <1>8, <1>9, <2>2
    <2>4. \A i \in 1..((n - 1) + 1) : Label(i)' = Label(i)
        BY ONLY <2>1, <2>3, LabelsStay
    <2> QED
        BY ONLY <2>1, <2>4
<1>12. Top(p) = o2
    BY <1>3, <1>9 DEF Top
<1>13. reader' = JsonReader(reader.containers, k, Len(p))
    <2>1. reader = JsonReader(reader.containers, reader.key, n)
        BY <1>1, <1>3, JsonIsMatched
    <2> QED
        BY ONLY <1>1, <1>9, <2>1, KeyChanged
<1>14. /\ \A i \in 1..Len(p) : reader.containers[i].name = Label(i)'
       /\ k = IF p # << >> /\ Top(p).keyRead THEN Top(p).key ELSE ""
       /\ Len(p) > format.maxDepth => report'.over /\ report'.error
    <2>1. \A i \in 1..n : reader.containers[i].name = Label(i)
        BY <1>1, <1>3, JsonIsMatched
    <2>2. k = IF p # << >> /\ Top(p).keyRead THEN Top(p).key ELSE ""
        BY <1>6, <1>9, <1>12
    <2>3. ~(n > format.maxDepth)
        BY <1>1, <1>3, GoesOn, JsonIsMatched
    <2> QED
        BY <1>9, <1>11, <2>1, <2>2, <2>3
<1>15. (JsonIsFollowed /\ XmlIsFollowed)'
    BY ONLY <1>1, <1>8, <1>10, <1>13, <1>14, BodyInv, k \in Keys, JsonFollows
<1> QED
    BY <1>2, <1>15 DEF BodyInv

LEMMA yajl_scalarKeeps ==
    ASSUME BodyInv, NEW v, yajl_scalar(v)
    PROVE  BodyInv'
<1>1. /\ Goes /\ format.kind = "json" /\ ValueMayFollow
      /\ addArgument(JsonPath \o (IF InArray THEN << >> ELSE <<getCurrentKey>>), v)
      /\ leaves' = Append(leaves, [name |-> TrueName, value |-> v])
      /\ place' = AfterValue(place)
      /\ IF TakesArgument THEN UNCHANGED report ELSE Report(TRUE)
    BY DEF yajl_scalar
<1>2. (BodyTypeOK /\ LeftOutIsTold)'
    <2>1. TakesValue(TrueName, v)
        BY <1>1, JsonNameIsTrue DEF TakesValue
    <2>2. ReportStays
        BY <1>1 DEF ReportStays
    <2> QED
        BY <1>1, <2>1, <2>2, ReportIsTyped, OneArgument
<1>3. PICK cs : cs = Counted(reader.containers)
    OBVIOUS
<1>4. PICK p : p = AfterValue(place)
    OBVIOUS
<1>5. /\ AreMatched(cs, p) /\ Len(p) = Len(place)
      /\ \A i \in 1..Len(place) : /\ cs[i].name = reader.containers[i].name
                                  /\ p[i].kind = place[i].kind /\ p[i].key = place[i].key
      /\ place # << >> => ~Top(p).keyRead
    <2>1. AreMatched(reader.containers, place)
        BY <1>1, JsonIsMatched
    <2> QED
        BY ONLY <1>3, <1>4, <2>1, CountedIsMatched
<1>6. Len(place) \in Nat /\ (p # << >> => place # << >>)
    BY <1>1, <1>4, JsonPlaces DEF AfterValue
<1>7. \A i \in 1..Len(place) : Label(i)' = Label(i)
    <2>1. \A i \in 1..(Len(place) + 1) : Label(i)' = Label(i)
        BY ONLY <1>1, <1>4, <1>5, <1>6, LabelsStay
    <2> QED
        BY <1>6, <2>1
<1>8. reader' = JsonReader(cs, "", Len(p))
    <2>1. reader = JsonReader(reader.containers, reader.key, Len(p))
        BY <1>1, <1>5, JsonIsMatched
    <2>2. PICK none : none = ""
        OBVIOUS
    <2>3. CASE InArray
        <3>1. reader.key = none
            BY <1>1, <2>2, <2>3, JsonArrays, JsonTops, JsonIsMatched
        <3>2. reader' = [reader EXCEPT !.containers = cs]
            BY <1>3, <2>3 DEF yajl_scalar
        <3>3. reader' = JsonReader(cs, none, Len(p))
            BY ONLY <2>1, <3>1, <3>2, ContainersChanged
        <3> QED
            BY <2>2, <3>3
    <2>4. CASE ~InArray
        <3>1. cs = reader.containers
            BY <1>3, <2>4 DEF Counted, InArray
        <3>2. reader' = [reader EXCEPT !.key = none]
            BY <1>1, <2>2, <2>4, CurrentKeyIsLabel DEF yajl_scalar
        <3>3. reader' = JsonReader(cs, none, Len(p))
            BY ONLY <2>1, <3>1, <3>2, KeyChanged
        <3> QED
            BY <2>2, <3>3
    <2> QED
        BY <2>3, <2>4
<1>9. /\ \A i \in 1..Len(p) : cs[i].name = Label(i)'
      /\ "" = IF p # << >> /\ Top(p).keyRead THEN Top(p).key ELSE ""
      /\ Len(p) > format.maxDepth => report'.over /\ report'.error
    <2>1. \A i \in 1..Len(place) : reader.containers[i].name = Label(i)
        BY <1>1, JsonIsMatched
    <2>2. ~(Len(place) > format.maxDepth)
        BY <1>1, GoesOn, JsonIsMatched
    <2> QED
        BY <1>5, <1>6, <1>7, <2>1, <2>2
<1>10. (JsonIsFollowed /\ XmlIsFollowed)'
    BY ONLY <1>1, <1>4, <1>5, <1>8, <1>9, BodyInv, JsonFollows, ArgumentsAssumption
<1> QED
    BY <1>2, <1>10 DEF BodyInv

LEMMA yajl_startKeeps ==
    ASSUME BodyInv, NEW kind \in {"map", "array"}, yajl_start(kind)
    PROVE  BodyInv'
<1>1. /\ Goes /\ format.kind = "json" /\ ValueMayFollow /\ UNCHANGED <<args, leaves>>
      /\ IF TooDeep(reader.depth + 1) THEN Report(TRUE) ELSE UNCHANGED report
    BY DEF yajl_start
<1>2. (BodyTypeOK /\ LeftOutIsTold)'
    BY <1>1, NoArgument DEF ReportStays
<1>3. PICK n \in Nat : n = Len(place)
    BY <1>1, JsonPlaces
<1>4. PICK c : c = [kind |-> kind, name |-> getCurrentKey, counter |-> 0]
    OBVIOUS
<1>5. PICK o : o = [kind |-> kind, key |-> "", keyRead |-> FALSE, elements |-> 0]
    OBVIOUS
<1>6. c \in JsonContainers /\ o \in OpenContainers /\ c.name = Label(n + 1)
    BY <1>1, <1>3, <1>4, <1>5, CurrentKeyIsLabel, ArgumentsAssumption
       DEF JsonContainers, OpenContainers
<1>7. PICK cs : cs = Append(reader.containers, c)
    OBVIOUS
<1>8. PICK p : p = Append(place, o)
    OBVIOUS
<1>9. /\ cs \in Seq(JsonContainers) /\ Len(cs) = n + 1 /\ cs[n + 1] = c
      /\ \A i \in 1..n : cs[i] = reader.containers[i]
    <2>1. reader.containers \in Seq(JsonContainers) /\ Len(reader.containers) = n
        BY <1>1, <1>3, JsonPlaces
    <2> QED
        BY ONLY <1>6, <1>7, <2>1, AppendedFacts
<1>10. /\ p \in Seq(OpenContainers) /\ Len(p) = n + 1 /\ p[n + 1] = o
       /\ \A i \in 1..n : p[i] = place[i]
    <2>1. place \in Seq(OpenContainers)
        BY <1>1, JsonPlaces
    <2> QED
        BY ONLY <1>3, <1>6, <1>8, <2>1, AppendedFacts
<1>11. AreMatched(cs, p)
    <2>1. \A i \in 1..n :
              /\ reader.containers[i].kind = place[i].kind
              /\ place[i].kind = "array" =>
                    reader.containers[i].counter = place[i].elements /\ ~place[i].keyRead
        BY <1>1, <1>3, JsonIsMatched DEF AreMatched
    <2>2. \A i \in 1..(n + 1) : i = n + 1 \/ i \in 1..n
        OBVIOUS
    <2>3. c.kind = o.kind /\ c.counter = o.elements /\ ~o.keyRead
        BY <1>4, <1>5
    <2>4. ASSUME NEW i \in 1..(n + 1)
          PROVE  /\ cs[i].kind = p[i].kind
                 /\ p[i].kind = "array" => cs[i].counter = p[i].elements /\ ~p[i].keyRead
        BY <1>9, <1>10, <2>1, <2>2, <2>3
    <2> QED
        BY <1>9, <1>10, <2>4 DEF AreMatched
<1>12. place' = p
    BY <1>5, <1>8 DEF yajl_start
<1>13. \A i \in 1..(n + 1) : Label(i)' = Label(i)
    BY ONLY <1>3, <1>10, <1>12, LabelsStay
<1>14. \A i \in 1..Len(p) : cs[i].name = Label(i)'
    <2>1. \A i \in 1..n : cs[i].name = Label(i)
        BY <1>1, <1>3, <1>9, JsonIsMatched
    <2> QED
        BY <1>6, <1>9, <1>10, <1>13, <2>1
<1>15. reader.depth = n
    BY <1>1, <1>3 DEF BodyInv, JsonIsFollowed
<1>16. reader' = JsonReader(cs, "", Len(p))
    BY <1>1, <1>4, <1>7, <1>10, <1>15, CurrentKeyIsLabel DEF yajl_start, JsonReader
<1>17. Len(p) > format.maxDepth => report'.over /\ report'.error
    BY <1>1, <1>10, <1>15 DEF TooDeep, Report, BodyInv, BodyTypeOK
<1>18. "" = IF p # << >> /\ Top(p).keyRead THEN Top(p).key ELSE ""
    <2>1. Top(p) = o
        BY <1>10 DEF Top
    <2>2. o.keyRead = FALSE
        BY <1>5
    <2> QED
        BY <2>1, <2>2
<1>19. (JsonIsFollowed /\ XmlIsFollowed)'
    BY ONLY <1>1, <1>11, <1>12, <1>14, <1>16, <1>17, <1>18, BodyInv, JsonFollows,
            ArgumentsAssumption
<1> QED
    BY <1>2, <1>19 DEF BodyInv

LEMMA ShutFacts ==
    ASSUME NEW S, NEW s \in Seq(S), s # << >>
    PROVE  /\ Shut(s) \in Seq(S) /\ Len(Shut(s)) = Len(s) - 1 /\ Len(s) - 1 \in Nat
           /\ \A i \in 1..(Len(s) - 1) : Shut(s)[i] = s[i]
<1>1. PICK n \in Nat : n = Len(s) /\ n # 0
    OBVIOUS
<1>2. n - 1 \in Nat /\ (n - 1) - 1 + 1 = n - 1
    BY <1>1
<1>3. Shut(s) = [i \in 1..(n - 1) |-> s[i]]
    BY <1>1, <1>2 DEF Shut
<1>4. \A i \in 1..(n - 1) : s[i] \in S
    BY <1>1
<1>5. Shut(s) \in Seq(S) /\ Len(Shut(s)) = n - 1
    BY <1>2, <1>3, <1>4
<1> QED
    BY <1>1, <1>2, <1>3, <1>5

LEMMA yajl_endKeeps ==
    ASSUME BodyInv, yajl_end
    PROVE  BodyInv'
<1>1. /\ Goes /\ format.kind = "json" /\ place # << >> /\ ~Top(place).keyRead
      /\ UNCHANGED <<args, leaves, report>> /\ place' = AfterValue(Shut(place))
    BY DEF yajl_end
<1>2. (BodyTypeOK /\ LeftOutIsTold)'
    BY <1>1, NoArgument DEF ReportStays
<1>3. PICK n \in Nat : n = Len(place) - 1 /\ n + 1 = Len(place)
    <2>1. PICK m \in Nat : m = Len(place) /\ m # 0
        BY <1>1, JsonPlaces
    <2>2. m - 1 \in Nat /\ (m - 1) + 1 = m
        BY <2>1
    <2> QED
        BY <2>1, <2>2
<1>4. PICK ds : ds = Shut(reader.containers)
    OBVIOUS
<1>5. PICK q : q = Shut(place)
    OBVIOUS
<1>6. /\ ds \in Seq(JsonContainers) /\ Len(ds) = n
      /\ \A i \in 1..n : ds[i] = reader.containers[i]
    <2>1. /\ reader.containers \in Seq(JsonContainers) /\ reader.containers # << >>
          /\ Len(reader.containers) - 1 = n
        BY <1>1, <1>3, JsonPlaces
    <2> QED
        BY ONLY <1>4, <2>1, ShutFacts
<1>7. /\ q \in Seq(OpenContainers) /\ Len(q) = n
      /\ \A i \in 1..n : q[i] = place[i]
    <2>1. place \in Seq(OpenContainers)
        BY <1>1, JsonPlaces
    <2> QED
        BY ONLY <1>1, <1>3, <1>5, <2>1, ShutFacts
<1>8. \A i \in 1..n : i \in 1..Len(place)
    BY <1>3
<1>9. AreMatched(ds, q)
    <2>1. AreMatched(reader.containers, place)
        BY <1>1, JsonIsMatched
    <2> QED
        BY ONLY <1>6, <1>7, <1>8, <2>1 DEF AreMatched
<1>10. PICK cs : cs = Counted(ds)
    OBVIOUS
<1>11. PICK p : p = AfterValue(q)
    OBVIOUS
<1>12. /\ AreMatched(cs, p) /\ Len(p) = n
       /\ \A i \in 1..n : /\ cs[i].name = ds[i].name
                          /\ p[i].kind = q[i].kind /\ p[i].key = q[i].key
       /\ q # << >> => ~Top(p).keyRead
    BY ONLY <1>7, <1>9, <1>10, <1>11, CountedIsMatched
<1>13. place' = p
    BY <1>1, <1>5, <1>11
<1>14. \A i \in 1..n : Label(i)' = Label(i)
    <2>1. \A i \in 1..n : place'[i].kind = place[i].kind /\ place'[i].key = place[i].key
        BY <1>7, <1>12, <1>13
    <2>2. \A i \in 1..(n + 1) : Label(i)' = Label(i)
        BY ONLY <2>1, n \in Nat, LabelsStay
    <2> QED
        BY <2>2
<1>15. \A i \in 1..Len(p) : cs[i].name = Label(i)'
    BY <1>1, <1>6, <1>8, <1>12, <1>14, JsonIsMatched
<1>16. reader' = JsonReader(cs, "", Len(p))
    <2>1. PICK m \in Nat : m = n + 1 /\ m - 1 = n
        OBVIOUS
    <2>2. PICK none : none = ""
        OBVIOUS
    <2>3. reader = JsonReader(reader.containers, none, m)
        BY <1>1, <1>3, <2>1, <2>2, JsonIsMatched
    <2>4. reader.depth = m
        BY ONLY <2>3, JsonReaderFacts
    <2>5. reader' = [reader EXCEPT !.containers = cs, !.depth = n]
        BY <1>4, <1>10, <2>1, <2>4 DEF yajl_end, AfterContainer
    <2>6. PICK between : between = [reader EXCEPT !.containers = cs]
        OBVIOUS
    <2>7. between = JsonReader(cs, none, m)
        BY ONLY <2>3, <2>6, ContainersChanged
    <2>8. reader' = [between EXCEPT !.depth = n]
        BY ONLY <2>5, <2>6, Zenon
    <2>9. reader' = JsonReader(cs, none, n)
        BY ONLY <2>7, <2>8, DepthChanged
    <2> QED
        BY <1>12, <2>2, <2>9
<1>17. "" = IF p # << >> /\ Top(p).keyRead THEN Top(p).key ELSE ""
    <2>1. p # << >> => q # << >>
        BY <1>11 DEF AfterValue
    <2> QED
        BY <1>12, <2>1
<1>18. Len(p) > format.maxDepth => report'.over /\ report'.error
    <2>1. ~(n + 1 > format.maxDepth) /\ format.maxDepth \in Nat
        BY <1>1, <1>3, GoesOn, JsonIsMatched DEF BodyInv, BodyTypeOK
    <2> QED
        BY <1>12, <2>1
<1>19. (JsonIsFollowed /\ XmlIsFollowed)'
    BY ONLY <1>1, <1>12, <1>13, <1>15, <1>16, <1>17, <1>18, BodyInv, JsonFollows,
            ArgumentsAssumption
<1> QED
    BY <1>2, <1>19 DEF BodyInv

-----------------------------------------------------------------------------
(* XML.                                                                    *)

XmlReader(nodes, path, value, set) ==
    [nodes |-> nodes, currpath |-> path, currval |-> value, isSet |-> set]

LEMMA XmlFollows ==
    ASSUME BodyInv, Goes, format.kind = "xml",
           NEW p \in Seq(OpenElements), NEW nodes \in Seq(BOOLEAN), NEW path \in Seq(Pieces),
           NEW value \in Seq({"v1", "v2"}), NEW set \in BOOLEAN,
           reader' = XmlReader(nodes, path, value, set), place' = p,
           Len(nodes) = Len(p), \A i \in 1..Len(p) : nodes[i] = ~p[i].leaf,
           \A i \in 1..Len(p) : i # Len(p) => ~p[i].leaf, PathOf(p, path),
           p # << >> /\ Top(p).leaf => value = Top(p).text /\ (set \/ Top(p).text = << >>)
    PROVE  (JsonIsFollowed /\ XmlIsFollowed)'
<1>1. /\ reader'.nodes = nodes /\ reader'.currpath = path /\ reader'.currval = value
      /\ reader'.isSet = set /\ format'.kind = "xml"
    BY GoesOn DEF XmlReader
<1>2. reader' \in [nodes : Seq(BOOLEAN), currpath : Seq(Pieces),
                   currval : Seq({"v1", "v2"}), isSet : BOOLEAN]
    BY DEF XmlReader
<1>3. JsonIsFollowed'
    BY <1>1 DEF JsonIsFollowed
<1>4. PathOf(place, reader.currpath)'
    BY <1>1 DEF PathOf
<1>5. (place # << >> /\ Top(place).leaf =>
         reader.currval = Top(place).text /\ (reader.isSet \/ Top(place).text = << >>))'
    BY <1>1 DEF Top
<1>6. XmlIsFollowed'
    BY <1>1, <1>2, <1>4, <1>5 DEF XmlIsFollowed
<1> QED
    BY <1>3, <1>6

LEMMA XmlPlaces ==
    ASSUME BodyInv, format.kind = "xml"
    PROVE  \E nodes \in Seq(BOOLEAN), path \in Seq(Pieces), value \in Seq({"v1", "v2"}),
              set \in BOOLEAN :
               /\ reader = XmlReader(nodes, path, value, set)
               /\ reader.nodes = nodes /\ reader.currpath = path /\ reader.currval = value
               /\ reader.isSet = set
               /\ place \in Seq(OpenElements) /\ Len(nodes) = Len(place)
               /\ \A i \in 1..Len(place) : nodes[i] = ~place[i].leaf
               /\ \A i \in 1..Len(place) : i # Len(place) => ~place[i].leaf
               /\ PathOf(place, path)
               /\ place # << >> /\ Top(place).leaf =>
                     value = Top(place).text /\ (set \/ Top(place).text = << >>)
<1>1. XmlIsFollowed
    BY DEF BodyInv
<1>2. PICK r \in [nodes : Seq(BOOLEAN), currpath : Seq(Pieces),
                  currval : Seq({"v1", "v2"}), isSet : BOOLEAN] : r = reader
    BY <1>1 DEF XmlIsFollowed
<1>3. r = XmlReader(r.nodes, r.currpath, r.currval, r.isSet)
    BY DEF XmlReader
<1>4. /\ r.nodes \in Seq(BOOLEAN) /\ r.currpath \in Seq(Pieces)
      /\ r.currval \in Seq({"v1", "v2"}) /\ r.isSet \in BOOLEAN
    OBVIOUS
<1> QED
    BY <1>1, <1>2, <1>3, <1>4 DEF XmlIsFollowed

LEMMA OneConcat ==
    ASSUME NEW S, NEW s \in Seq(S), NEW a \in S
    PROVE  /\ s \o <<a>> \in Seq(S) /\ Len(s \o <<a>>) = Len(s) + 1
           /\ \A j \in 1..Len(s) : (s \o <<a>>)[j] = s[j]
           /\ (s \o <<a>>)[Len(s) + 1] = a
    OBVIOUS

LEMMA TwoConcat ==
    ASSUME NEW S, NEW s \in Seq(S), NEW a \in S, NEW b \in S
    PROVE  /\ s \o <<a, b>> \in Seq(S) /\ Len(s \o <<a, b>>) = Len(s) + 2
           /\ \A j \in 1..Len(s) : (s \o <<a, b>>)[j] = s[j]
           /\ (s \o <<a, b>>)[Len(s) + 1] = a /\ (s \o <<a, b>>)[Len(s) + 2] = b
<1>1. <<a, b>> \in Seq(S) /\ Len(<<a, b>>) = 2 /\ <<a, b>>[1] = a /\ <<a, b>>[2] = b
    OBVIOUS
<1>2. PICK t \in Seq(S) : t = <<a, b>> /\ Len(t) = 2 /\ t[1] = a /\ t[2] = b
    BY <1>1
<1>3. /\ s \o t \in Seq(S) /\ Len(s \o t) = Len(s) + Len(t)
      /\ \A j \in 1..Len(s) : (s \o t)[j] = s[j]
    OBVIOUS
<1>4. \A j \in 1..Len(t) : (s \o t)[Len(s) + j] = t[j]
    OBVIOUS
<1>5. (s \o t)[Len(s) + 1] = t[1] /\ (s \o t)[Len(s) + 2] = t[2]
    BY <1>2, <1>4
<1> QED
    BY <1>2, <1>3, <1>5

LEMMA HeadConcat ==
    ASSUME NEW S, NEW s \in Seq(S), NEW a \in S
    PROVE  /\ <<a>> \o s \in Seq(S) /\ Len(<<a>> \o s) = Len(s) + 1
           /\ (<<a>> \o s)[1] = a
           /\ \A j \in 1..Len(s) : (<<a>> \o s)[j + 1] = s[j]
    OBVIOUS

(* The path grows by a name, with a dot before it when it is not the first. *)
LEMMA PathGrows ==
    ASSUME NEW p \in Seq(OpenElements), NEW q \in Seq(OpenElements), NEW path \in Seq(Pieces),
           PathOf(p, path), NEW name \in Keys, Len(q) = Len(p) + 1, q[Len(p) + 1].name = name,
           \A i \in 1..Len(p) : q[i].name = p[i].name
    PROVE  LET more == path \o (IF p # << >> THEN <<".", name>> ELSE <<name>>)
           IN  more \in Seq(Pieces) /\ PathOf(q, more)
<1>1. PICK n \in Nat : n = Len(p) /\ (p = << >> <=> n = 0)
    OBVIOUS
<1>2. q # << >> /\ Len(q) = n + 1
    BY <1>1
<1>3. CASE n = 0
    <2>1. PICK more : more = path \o <<name>>
        OBVIOUS
    <2>2. Len(path) = 1 /\ path[1] = "xml."
        BY <1>1, <1>3 DEF PathOf
    <2>3. name \in Pieces
        BY DEF Pieces
    <2>4. more \in Seq(Pieces) /\ Len(more) = 2 /\ more[1] = "xml." /\ more[2] = name
        <3>1. /\ more \in Seq(Pieces) /\ Len(more) = Len(path) + 1
              /\ \A k \in 1..Len(path) : more[k] = path[k]
              /\ more[Len(path) + 1] = name
            BY ONLY <2>1, <2>3, path \in Seq(Pieces), OneConcat
        <3>2. 1 \in 1..Len(path) /\ Len(path) + 1 = 2
            BY <2>2
        <3> QED
            BY <2>2, <3>1, <3>2
    <2>5. Len(q) = 1 /\ q[1].name = name
        BY <1>1, <1>2, <1>3
    <2>6. PathOf(q, more)
        BY <1>2, <2>4, <2>5 DEF PathOf
    <2> QED
        BY <1>1, <1>3, <2>1, <2>4, <2>6
<1>4. CASE n # 0
    <2>1. PICK more : more = path \o <<".", name>>
        OBVIOUS
    <2>2. /\ Len(path) = 2 * n /\ path[1] = "xml."
          /\ \A i \in 1..n : path[2 * i] = p[i].name
          /\ \A i \in 1..n : i > 1 => path[2 * i - 1] = "."
        BY <1>1, <1>4 DEF PathOf
    <2>3. PICK dot \in Pieces : dot = "." /\ name \in Pieces
        BY DEF Pieces
    <2>4. /\ more \in Seq(Pieces) /\ Len(more) = 2 * n + 2
          /\ \A j \in 1..(2 * n) : more[j] = path[j]
          /\ more[2 * n + 1] = "." /\ more[2 * n + 2] = name
        <3>1. PICK m \in Nat : m = 2 * n /\ Len(path) = m
            BY <2>2
        <3>2. more = path \o <<dot, name>>
            BY <2>1, <2>3
        <3>3. /\ more \in Seq(Pieces) /\ Len(more) = Len(path) + 2
              /\ \A j \in 1..Len(path) : more[j] = path[j]
              /\ more[Len(path) + 1] = dot /\ more[Len(path) + 2] = name
            BY ONLY <2>3, <3>2, path \in Seq(Pieces), TwoConcat
        <3> QED
            BY ONLY <2>3, <3>1, <3>3
    <2>5. ASSUME NEW i \in 1..(n + 1)
          PROVE  more[2 * i] = q[i].name /\ (i > 1 => more[2 * i - 1] = ".")
        <3>1. CASE i = n + 1
            <4>1. 2 * i = 2 * n + 2 /\ 2 * i - 1 = 2 * n + 1
                BY <3>1
            <4> QED
                BY <1>1, <2>4, <3>1, <4>1
        <3>2. CASE i # n + 1
            <4>1. i \in 1..n /\ 2 * i \in 1..(2 * n) /\ 2 * i - 1 \in 1..(2 * n)
                BY <3>2
            <4> QED
                BY <1>1, <2>2, <2>4, <4>1
        <3> QED
            BY <3>1, <3>2
    <2>6. more[1] = "xml."
        <3>1. 1 \in 1..(2 * n)
            BY <1>4
        <3> QED
            BY <2>2, <2>4, <3>1
    <2>7. Len(more) = 2 * Len(q)
        <3>1. 2 * (n + 1) = 2 * n + 2
            OBVIOUS
        <3> QED
            BY ONLY <1>2, <2>4, <3>1
    <2>8. PathOf(q, more)
        BY <1>2, <2>5, <2>6, <2>7 DEF PathOf
    <2> QED
        BY <1>1, <1>4, <2>1, <2>4, <2>8
<1> QED
    BY <1>3, <1>4

(* The path is cut back to that of the elements that stay open.            *)
LEMMA PathShrinks ==
    ASSUME NEW p \in Seq(OpenElements), p # << >>, NEW path \in Seq(Pieces), PathOf(p, path)
    PROVE  LET last == Len(path) - (IF Len(p) > 1 THEN 2 ELSE 1)
           IN  /\ SubSeq(path, 1, last) \in Seq(Pieces)
               /\ PathOf(Shut(p), SubSeq(path, 1, last))
<1>1. PICK n \in Nat : n = Len(p) - 1 /\ Len(p) = n + 1
    <2>1. PICK m \in Nat : m = Len(p) /\ m # 0
        OBVIOUS
    <2>2. m - 1 \in Nat /\ (m - 1) + 1 = m
        BY <2>1
    <2> QED
        BY <2>1, <2>2
<1>2. PICK last \in Nat : last = Len(path) - (IF Len(p) > 1 THEN 2 ELSE 1) /\ last >= 1
                          /\ last = IF n = 0 THEN 1 ELSE 2 * n
    <2>1. Len(path) = 2 * (n + 1)
        BY <1>1 DEF PathOf
    <2>2. CASE n = 0
        BY <1>1, <2>1, <2>2
    <2>3. CASE n # 0
        <3>1. 2 * n \in Nat /\ 2 * (n + 1) - 2 = 2 * n /\ n + 1 > 1 /\ 2 * n >= 1
            BY <2>3
        <3> QED
            BY <1>1, <2>1, <2>3, <3>1
    <2> QED
        BY <2>2, <2>3
<1>3. PICK cut : cut = SubSeq(path, 1, last)
    OBVIOUS
<1>4. last <= Len(path)
    <2>1. Len(path) = 2 * (n + 1)
        BY <1>1 DEF PathOf
    <2> QED
        BY <1>2, <2>1
<1>5. cut \in Seq(Pieces) /\ Len(cut) = last /\ \A j \in 1..last : cut[j] = path[j]
    BY ONLY <1>2, <1>3, <1>4, path \in Seq(Pieces)
<1>6. PICK q : q = Shut(p)
    OBVIOUS
<1>7. q \in Seq(OpenElements) /\ Len(q) = n /\ \A i \in 1..n : q[i] = p[i]
    BY ONLY <1>1, <1>6, p \in Seq(OpenElements), p # << >>, ShutFacts
<1>8. q = << >> <=> n = 0
    BY <1>7
<1>9. cut[1] = "xml."
    BY <1>2, <1>5 DEF PathOf
<1>10. ASSUME NEW i \in 1..n
       PROVE  cut[2 * i] = q[i].name /\ (i > 1 => cut[2 * i - 1] = ".")
    <2>1. i \in 1..Len(p) /\ 2 * i \in 1..last /\ 2 * i - 1 \in 1..last
        BY <1>1, <1>2
    <2> QED
        BY <1>5, <1>7, <2>1 DEF PathOf
<1>11. PathOf(q, cut)
    BY <1>2, <1>5, <1>7, <1>8, <1>9, <1>10 DEF PathOf
<1> QED
    BY <1>2, <1>3, <1>5, <1>6, <1>11

(* The path the reader has is the name of the place.                       *)
LEMMA Halves ==
    ASSUME NEW j \in Nat, j >= 1
    PROVE  \E i \in Nat : \/ j = 2 * i - 1 /\ j % 2 = 1 /\ (j + 1) \div 2 = i
                          \/ j = 2 * i /\ j % 2 = 0
    OBVIOUS

LEMMA XmlNameIsTrue ==
    ASSUME place \in Seq(OpenElements), place # << >>, NEW path \in Seq(Pieces),
           PathOf(place, path)
    PROVE  path = XmlName
<1>1. PICK n \in Nat : n = Len(place) /\ n # 0
    OBVIOUS
<1>2. PICK m \in Nat : m = 2 * n - 1
    <2>1. 2 * n - 1 \in Nat
        BY <1>1
    <2> QED
        BY <2>1
<1>3. PICK f : f = [i \in 1..m |-> IF i % 2 = 0 THEN "." ELSE place[(i + 1) \div 2].name]
    OBVIOUS
<1>4. \A j \in 1..m : f[j] = path[j + 1] /\ f[j] \in Pieces
    <2>1. SUFFICES ASSUME NEW j \in 1..m
                   PROVE  f[j] = path[j + 1] /\ path[j + 1] \in Pieces
        OBVIOUS
    <2>2. PICK i \in Nat : \/ j = 2 * i - 1 /\ j % 2 = 1 /\ (j + 1) \div 2 = i
                           \/ j = 2 * i /\ j % 2 = 0
        BY Halves
    <2>3. Len(path) = 2 * n
        BY <1>1 DEF PathOf
    <2>4. path[j + 1] \in Pieces
        <3>1. j + 1 \in 1..Len(path)
            BY <1>2, <2>3
        <3> QED
            BY <3>1
    <2>5. CASE j = 2 * i - 1 /\ j % 2 = 1 /\ (j + 1) \div 2 = i
        <3>1. f[j] = place[i].name
            BY <1>3, <2>5
        <3>2. i \in 1..Len(place) /\ j + 1 = 2 * i
            BY <1>1, <1>2, <2>5
        <3>3. path[j + 1] = place[i].name
            BY <3>2 DEF PathOf
        <3> QED
            BY <2>4, <3>1, <3>3
    <2>6. CASE j = 2 * i /\ j % 2 = 0
        <3>1. f[j] = "."
            BY <1>3, <2>6
        <3>2. i + 1 \in 1..Len(place) /\ i + 1 > 1 /\ j + 1 = 2 * (i + 1) - 1
            BY <1>1, <1>2, <2>6
        <3>3. path[j + 1] = "."
            BY <3>2 DEF PathOf
        <3> QED
            BY <2>4, <3>1, <3>3
    <2> QED
        BY <2>2, <2>5, <2>6
<1>5. f \in Seq(Pieces) /\ Len(f) = m
    BY <1>3, <1>4
<1>6. PICK first \in Pieces : first = "xml."
    BY DEF Pieces
<1>7. PICK g : g = <<first>> \o f
    OBVIOUS
<1>8. /\ g \in Seq(Pieces) /\ Len(g) = m + 1 /\ g[1] = first
      /\ \A j \in 1..m : g[j + 1] = f[j]
    BY ONLY <1>5, <1>6, <1>7, HeadConcat
<1>9. Len(path) = m + 1 /\ path[1] = "xml."
    BY <1>1, <1>2 DEF PathOf
<1>10. ASSUME NEW k \in 1..(m + 1)
       PROVE  g[k] = path[k]
    <2>1. CASE k = 1
        BY <1>6, <1>8, <1>9, <2>1
    <2>2. CASE k # 1
        <3>1. k - 1 \in 1..m /\ (k - 1) + 1 = k
            BY <2>2
        <3> QED
            BY <1>4, <1>8, <3>1
    <2> QED
        BY <2>1, <2>2
<1>11. g = path
    BY ONLY <1>8, <1>9, <1>10, path \in Seq(Pieces)
<1>12. g = XmlName
    BY <1>1, <1>2, <1>3, <1>6, <1>7 DEF XmlName
<1> QED
    BY <1>11, <1>12

LEMMA ReplacedFacts ==
    ASSUME NEW S, NEW s \in Seq(S), NEW n \in 1..Len(s), NEW e \in S
    PROVE  /\ [s EXCEPT ![n] = e] \in Seq(S) /\ Len([s EXCEPT ![n] = e]) = Len(s)
           /\ \A i \in 1..Len(s) : [s EXCEPT ![n] = e][i] = IF i = n THEN e ELSE s[i]
    OBVIOUS

LEMMA onStartElementKeeps ==
    ASSUME BodyInv, NEW name \in Keys, onStartElement(name)
    PROVE  BodyInv'
<1>1. /\ Goes /\ format.kind = "xml" /\ UNCHANGED <<args, leaves, report>>
    BY DEF onStartElement
<1>2. (BodyTypeOK /\ LeftOutIsTold)'
    BY <1>1, NoArgument DEF ReportStays
<1>3. PICK nodes \in Seq(BOOLEAN), path \in Seq(Pieces), value \in Seq({"v1", "v2"}),
           set \in BOOLEAN :
          /\ reader.nodes = nodes /\ reader.currpath = path
          /\ place \in Seq(OpenElements) /\ Len(nodes) = Len(place)
          /\ \A i \in 1..Len(place) : nodes[i] = ~place[i].leaf
          /\ \A i \in 1..Len(place) : i # Len(place) => ~place[i].leaf
          /\ PathOf(place, path)
    BY <1>1, XmlPlaces
<1>4. PICK n \in Nat : n = Len(place) /\ (place = << >> <=> n = 0) /\ (nodes = << >> <=> n = 0)
    BY <1>3
<1>5. PICK o : o = [name |-> name, text |-> << >>, leaf |-> TRUE]
    OBVIOUS
<1>6. o \in OpenElements /\ o.name = name /\ o.leaf = TRUE /\ o.text = << >>
    BY <1>5 DEF OpenElements
<1>7. PICK outer : outer = IF n # 0 THEN [place EXCEPT ![n].leaf = FALSE] ELSE place
    OBVIOUS
<1>8. /\ outer \in Seq(OpenElements) /\ Len(outer) = n
      /\ \A i \in 1..n : outer[i].name = place[i].name /\ outer[i].leaf = FALSE
    <2>1. CASE n = 0
        BY <1>3, <1>4, <1>7, <2>1
    <2>2. CASE n # 0
        <3>1. n \in 1..n
            BY <2>2
        <3>2. PICK e \in OpenElements : e = place[n]
            BY <1>3, <1>4, <3>1
        <3>3. PICK e2 : e2 = [e EXCEPT !.leaf = FALSE]
            OBVIOUS
        <3>4. e2 \in OpenElements /\ e2.name = e.name /\ e2.leaf = FALSE
            BY <3>3 DEF OpenElements
        <3>5. outer = [place EXCEPT ![n] = e2]
            BY <1>7, <2>2, <3>2, <3>3
        <3>6. /\ outer \in Seq(OpenElements) /\ Len(outer) = n
              /\ \A i \in 1..n : outer[i] = IF i = n THEN e2 ELSE place[i]
            BY ONLY <1>3, <1>4, <3>1, <3>4, <3>5
        <3>7. \A i \in 1..n : i # n => place[i].leaf = FALSE
            <4>1. \A i \in 1..n : place[i].leaf \in BOOLEAN
                <5>1. \A i \in 1..n : place[i] \in OpenElements
                    BY <1>3, <1>4
                <5> QED
                    BY <5>1 DEF OpenElements
            <4> QED
                BY <1>3, <1>4, <4>1
        <3> QED
            BY <3>2, <3>4, <3>6, <3>7
    <2> QED
        BY <2>1, <2>2
<1>9. PICK p : p = Append(outer, o)
    OBVIOUS
<1>10. /\ p \in Seq(OpenElements) /\ Len(p) = n + 1 /\ p[n + 1] = o
       /\ \A i \in 1..n : p[i] = outer[i]
    BY ONLY <1>6, <1>8, <1>9, AppendedFacts
<1>11. PICK marked : marked = IF n # 0 THEN [nodes EXCEPT ![n] = TRUE] ELSE << >>
    OBVIOUS
<1>12. marked \in Seq(BOOLEAN) /\ Len(marked) = n /\ \A i \in 1..n : marked[i] = TRUE
    <2>1. CASE n = 0
        BY <1>11, <2>1
    <2>2. CASE n # 0
        <3>1. PICK yes \in BOOLEAN : yes = TRUE
            OBVIOUS
        <3>2. marked = [nodes EXCEPT ![n] = yes]
            BY <1>11, <2>2, <3>1
        <3>3. /\ marked \in Seq(BOOLEAN) /\ Len(marked) = n
              /\ \A i \in 1..n : marked[i] = IF i = n THEN yes ELSE nodes[i]
            <4>1. n = Len(nodes) /\ n \in 1..Len(nodes)
                BY <1>3, <1>4, <2>2
            <4>2. /\ marked \in Seq(BOOLEAN) /\ Len(marked) = Len(nodes)
                  /\ \A i \in 1..Len(nodes) : marked[i] = IF i = n THEN yes ELSE nodes[i]
                BY ONLY <3>2, <4>1, nodes \in Seq(BOOLEAN), yes \in BOOLEAN, ReplacedFacts
            <4> QED
                BY ONLY <4>1, <4>2
        <3>4. \A i \in 1..n : i # n => nodes[i] = TRUE
            BY <1>3, <1>4
        <3> QED
            BY <3>1, <3>3, <3>4
    <2> QED
        BY <2>1, <2>2
<1>13. PICK newNodes : newNodes = Append(marked, FALSE)
    OBVIOUS
<1>14. /\ newNodes \in Seq(BOOLEAN) /\ Len(newNodes) = n + 1 /\ newNodes[n + 1] = FALSE
       /\ \A i \in 1..n : newNodes[i] = TRUE
    BY ONLY <1>12, <1>13
<1>15. PICK more : more = path \o (IF n # 0 THEN <<".", name>> ELSE <<name>>)
    OBVIOUS
<1>16. more \in Seq(Pieces) /\ PathOf(p, more)
    <2>1. Len(p) = Len(place) + 1 /\ p[Len(place) + 1].name = name
        BY <1>4, <1>6, <1>10
    <2>2. \A i \in 1..Len(place) : p[i].name = place[i].name
        BY <1>4, <1>8, <1>10
    <2>3. more = path \o (IF place # << >> THEN <<".", name>> ELSE <<name>>)
        BY <1>4, <1>15
    <2> QED
        BY ONLY <1>3, <1>10, <2>1, <2>2, <2>3, PathGrows, path \in Seq(Pieces), name \in Keys
<1>17. place' = p
    BY <1>3, <1>4, <1>5, <1>7, <1>9 DEF onStartElement
<1>18. reader' = XmlReader(newNodes, more, << >>, FALSE)
    BY <1>3, <1>4, <1>11, <1>13, <1>15 DEF onStartElement, XmlReader
<1>19. \A i \in 1..Len(p) : newNodes[i] = ~p[i].leaf
    <2>1. ASSUME NEW i \in 1..(n + 1)
          PROVE  newNodes[i] = ~p[i].leaf
        <3>1. CASE i = n + 1
            BY <1>6, <1>10, <1>14, <3>1
        <3>2. CASE i # n + 1
            <4>1. i \in 1..n
                BY <3>2
            <4> QED
                BY <1>8, <1>10, <1>14, <4>1
        <3> QED
            BY <3>1, <3>2
    <2> QED
        BY <1>10, <2>1
<1>20. \A i \in 1..Len(p) : i # Len(p) => ~p[i].leaf
    BY <1>8, <1>10
<1>21. Top(p) = o
    BY <1>10 DEF Top
<1>22. (JsonIsFollowed /\ XmlIsFollowed)'
    <2>1. << >> \in Seq({"v1", "v2"}) /\ FALSE \in BOOLEAN /\ Len(newNodes) = Len(p)
        BY <1>10, <1>14
    <2>2. << >> = Top(p).text
        BY <1>6, <1>21
    <2> QED
        BY ONLY <1>1, <1>10, <1>14, <1>16, <1>17, <1>18, <1>19, <1>20, <2>1, <2>2, BodyInv,
                XmlFollows
<1> QED
    BY <1>2, <1>22 DEF BodyInv

LEMMA onCharactersKeeps ==
    ASSUME BodyInv, NEW content \in {"v1", "v2"}, onCharacters(content)
    PROVE  BodyInv'
<1>1. /\ Goes /\ format.kind = "xml" /\ UNCHANGED <<args, leaves, report>>
      /\ reader.nodes # << >>
    BY DEF onCharacters
<1>2. (BodyTypeOK /\ LeftOutIsTold)'
    BY <1>1, NoArgument DEF ReportStays
<1>3. PICK nodes \in Seq(BOOLEAN), path \in Seq(Pieces), value \in Seq({"v1", "v2"}),
           set \in BOOLEAN :
          /\ reader = XmlReader(nodes, path, value, set)
          /\ reader.nodes = nodes /\ reader.currval = value /\ reader.isSet = set
          /\ place \in Seq(OpenElements) /\ Len(nodes) = Len(place)
          /\ \A i \in 1..Len(place) : nodes[i] = ~place[i].leaf
          /\ \A i \in 1..Len(place) : i # Len(place) => ~place[i].leaf
          /\ PathOf(place, path)
          /\ place # << >> /\ Top(place).leaf =>
                value = Top(place).text /\ (set \/ Top(place).text = << >>)
    BY <1>1, XmlPlaces
<1>4. PICK n \in Nat : n = Len(place) /\ n \in 1..n /\ place # << >>
    <2>1. Len(nodes) # 0
        BY <1>1, <1>3
    <2> QED
        BY <1>3, <2>1
<1>5. PICK e \in OpenElements : e = place[n] /\ Top(place) = e
    BY <1>3, <1>4 DEF Top
<1>6. PICK text \in Seq({"v1", "v2"}) : text = Append(e.text, content)
    <2>1. Append(e.text, content) \in Seq({"v1", "v2"})
        BY DEF OpenElements
    <2> QED
        BY <2>1
<1>7. PICK e2 : e2 = [e EXCEPT !.text = text]
    OBVIOUS
<1>8. e2 \in OpenElements /\ e2.name = e.name /\ e2.leaf = e.leaf /\ e2.text = text
    BY <1>7 DEF OpenElements
<1>9. PICK p : p = [place EXCEPT ![n] = e2]
    OBVIOUS
<1>10. /\ p \in Seq(OpenElements) /\ Len(p) = n /\ p # << >>
       /\ \A i \in 1..n : p[i] = IF i = n THEN e2 ELSE place[i]
    BY ONLY <1>3, <1>4, <1>8, <1>9
<1>11. place' = p
    BY <1>4, <1>5, <1>6, <1>7, <1>9 DEF onCharacters
<1>12. PICK new \in Seq({"v1", "v2"}) : new = NewValue(content)
    <2>1. NewValue(content) = IF set THEN Append(value, content) ELSE <<content>>
        BY <1>3 DEF NewValue
    <2>2. Append(value, content) \in Seq({"v1", "v2"}) /\ <<content>> \in Seq({"v1", "v2"})
        OBVIOUS
    <2> QED
        BY <2>1, <2>2
<1>13. reader' = XmlReader(nodes, path, new, TRUE)
    <2>1. reader' = [reader EXCEPT !.currval = new, !.isSet = TRUE]
        BY <1>12 DEF onCharacters
    <2> QED
        BY <1>3, <2>1 DEF XmlReader
<1>14. e.leaf => new = text
    <2>1. ASSUME e.leaf
          PROVE  new = text
        <3>1. value = e.text /\ (set \/ e.text = << >>)
            BY <1>3, <1>4, <1>5, <2>1
        <3>2. new = IF set THEN Append(value, content) ELSE <<content>>
            BY <1>3, <1>12 DEF NewValue
        <3>3. Append(<< >>, content) = <<content>>
            OBVIOUS
        <3> QED
            BY <1>6, <3>1, <3>2, <3>3
    <2> QED
        BY <2>1
<1>15. Top(p) = e2
    BY <1>4, <1>10 DEF Top
<1>16. \A i \in 1..Len(p) : p[i].name = place[i].name /\ p[i].leaf = place[i].leaf
    BY <1>4, <1>5, <1>8, <1>10
<1>17. PathOf(p, path)
    BY <1>3, <1>4, <1>10, <1>16 DEF PathOf
<1>18. (JsonIsFollowed /\ XmlIsFollowed)'
    <2>1. \A i \in 1..Len(p) : nodes[i] = ~p[i].leaf
        BY <1>3, <1>4, <1>10, <1>16
    <2>2. \A i \in 1..Len(p) : i # Len(p) => ~p[i].leaf
        BY <1>3, <1>4, <1>10, <1>16
    <2>3. Top(p).leaf => new = Top(p).text
        BY <1>8, <1>14, <1>15
    <2>4. Len(nodes) = Len(p) /\ TRUE \in BOOLEAN
        BY <1>3, <1>4, <1>10
    <2> QED
        BY ONLY <1>1, <1>10, <1>11, <1>13, <1>17, <2>1, <2>2, <2>3, <2>4, BodyInv,
                path \in Seq(Pieces), nodes \in Seq(BOOLEAN), new \in Seq({"v1", "v2"}), XmlFollows
<1> QED
    BY <1>2, <1>18 DEF BodyInv

LEMMA onEndElementKeeps ==
    ASSUME BodyInv, onEndElement
    PROVE  BodyInv'
<1>1. Goes /\ format.kind = "xml" /\ reader.nodes # << >>
    BY DEF onEndElement
<1>2. PICK nodes \in Seq(BOOLEAN), path \in Seq(Pieces), value \in Seq({"v1", "v2"}),
           set \in BOOLEAN :
          /\ reader.nodes = nodes /\ reader.currpath = path /\ reader.currval = value
          /\ place \in Seq(OpenElements) /\ Len(nodes) = Len(place)
          /\ \A i \in 1..Len(place) : nodes[i] = ~place[i].leaf
          /\ \A i \in 1..Len(place) : i # Len(place) => ~place[i].leaf
          /\ PathOf(place, path)
          /\ place # << >> /\ Top(place).leaf => value = Top(place).text
    BY <1>1, XmlPlaces
<1>3. PICK m \in Nat : m = Len(place) /\ m \in 1..m /\ place # << >> /\ nodes # << >>
    <2>1. Len(nodes) # 0
        BY <1>1, <1>2
    <2> QED
        BY <1>2, <2>1
<1>4. PICK leaf \in BOOLEAN : leaf = Top(place).leaf /\ leaf = ~Top(nodes)
    <2>1. Top(place) = place[m] /\ Top(nodes) = nodes[m] /\ place[m] \in OpenElements
          /\ nodes[m] \in BOOLEAN
        BY <1>2, <1>3 DEF Top
    <2>2. nodes[m] = ~place[m].leaf /\ place[m].leaf \in BOOLEAN
        BY <1>2, <1>3, <2>1 DEF OpenElements
    <2> QED
        BY <2>1, <2>2
<1>5. /\ IF leaf THEN addArgument(path, value) ELSE UNCHANGED args
      /\ IF leaf /\ ~TakesArgument THEN Report(TRUE) ELSE UNCHANGED report
      /\ leaves' = IF leaf THEN Append(leaves, [name |-> XmlName, value |-> Top(place).text])
                   ELSE leaves
      /\ place' = Shut(place)
    BY <1>2, <1>4 DEF onEndElement
<1>6. (BodyTypeOK /\ LeftOutIsTold)'
    <2>1. ReportStays
        BY <1>5 DEF ReportStays
    <2>2. CASE leaf
        <3>1. path = XmlName
            BY <1>2, <1>3, XmlNameIsTrue
        <3>2. TakesValue(XmlName, Top(place).text)
            BY <1>2, <1>3, <1>4, <1>5, <2>2, <3>1 DEF TakesValue
        <3> QED
            BY <1>1, <2>1, <3>2, ReportIsTyped, OneArgument
    <2>3. CASE ~leaf
        BY <1>1, <1>5, <2>1, <2>3, NoArgument
    <2> QED
        BY <2>2, <2>3
<1>7. PICK n \in Nat : n = m - 1 /\ m = n + 1
    BY <1>3
<1>8. PICK p : p = Shut(place)
    OBVIOUS
<1>9. p \in Seq(OpenElements) /\ Len(p) = n /\ \A i \in 1..n : p[i] = place[i]
    BY ONLY <1>2, <1>3, <1>7, <1>8, ShutFacts
<1>10. PICK rest : rest = Shut(nodes)
    OBVIOUS
<1>11. rest \in Seq(BOOLEAN) /\ Len(rest) = n /\ \A i \in 1..n : rest[i] = nodes[i]
    BY ONLY <1>2, <1>3, <1>7, <1>10, nodes \in Seq(BOOLEAN), ShutFacts
<1>12. PICK cut : cut = SubSeq(path, 1, Len(path) - (IF Len(place) > 1 THEN 2 ELSE 1))
    OBVIOUS
<1>13. cut \in Seq(Pieces) /\ PathOf(p, cut)
    BY ONLY <1>2, <1>3, <1>8, <1>12, path \in Seq(Pieces), PathShrinks
<1>14. reader' = XmlReader(rest, cut, << >>, FALSE)
    BY <1>2, <1>10, <1>12 DEF onEndElement, XmlReader
<1>15. \A i \in 1..n : i \in 1..Len(place) /\ i # Len(place)
    BY <1>3, <1>7
<1>16. \A i \in 1..Len(p) : rest[i] = ~p[i].leaf
    BY <1>2, <1>9, <1>11, <1>15
<1>17. \A i \in 1..Len(p) : ~p[i].leaf
    BY <1>2, <1>9, <1>15
<1>18. p # << >> => ~Top(p).leaf
    <2>1. p # << >> => n \in 1..n
        BY <1>9
    <2> QED
        BY <1>9, <1>17, <2>1 DEF Top
<1>19. (JsonIsFollowed /\ XmlIsFollowed)'
    <2>1. << >> \in Seq({"v1", "v2"}) /\ FALSE \in BOOLEAN /\ Len(rest) = Len(p)
        BY <1>9, <1>11
    <2>2. place' = p
        BY <1>5, <1>8
    <2> QED
        BY ONLY <1>1, <1>9, <1>11, <1>13, <1>14, <1>16, <1>17, <1>18, <2>1, <2>2, BodyInv,
                XmlFollows
<1> QED
    BY <1>6, <1>19 DEF BodyInv

-----------------------------------------------------------------------------
LEMMA extractArgumentsKeeps ==
    ASSUME BodyInv, NEW k, NEW badKey \in BOOLEAN, NEW badValue \in BOOLEAN,
           extractArguments(k, badKey, badValue)
    PROVE  BodyInv'
<1>1. /\ Goes /\ format.kind = "urlencoded"
      /\ report' = [report EXCEPT !.urlencoded = @ \/ badValue]
    BY DEF extractArguments
<1>2. TakesValue(<<k>>, << >>)
    BY <1>1 DEF extractArguments, TakesValue
<1>3. report' \in [over : BOOLEAN, error : BOOLEAN, urlencoded : BOOLEAN]
    <2>1. PICK r \in [over : BOOLEAN, error : BOOLEAN, urlencoded : BOOLEAN] : r = report
        BY DEF BodyInv, BodyTypeOK
    <2>2. PICK w \in BOOLEAN : w = (r.urlencoded \/ badValue)
        OBVIOUS
    <2>3. report' = [r EXCEPT !.urlencoded = w]
        BY <1>1, <2>1, <2>2
    <2> QED
        BY <2>3
<1>4. (BodyTypeOK /\ LeftOutIsTold)'
    BY <1>1, <1>2, <1>3, OneArgument
<1>5. (JsonIsFollowed /\ XmlIsFollowed)'
    BY <1>1, GoesOn DEF JsonIsFollowed, XmlIsFollowed
<1> QED
    BY <1>4, <1>5 DEF BodyInv

LEMMA CompleteKeeps ==
    ASSUME BodyInv, Complete
    PROVE  BodyInv'
<1>1. ~report.over /\ UNCHANGED <<format, reader, args, place, leaves>>
    BY DEF Complete
<1>2. BodyTypeOK'
    <2>1. PICK w \in BOOLEAN : w = (format.kind # "urlencoded" /\ format.broken)
        BY DEF BodyInv, BodyTypeOK
    <2>2. report' = [report EXCEPT !.over = TRUE, !.error = w]
        BY <2>1 DEF Complete, Report
    <2> QED
        BY <1>1, <2>2 DEF BodyInv, BodyTypeOK
<1>3. LeftOutIsTold'
    BY <1>1 DEF BodyInv, LeftOutIsTold
<1>4. JsonIsFollowed'
    <2>1. \A i : Label(i)' = Label(i)
        BY <1>1 DEF Label
    <2>2. (Top(place))' = Top(place)
        BY <1>1 DEF Top
    <2> QED
        BY <1>1, <2>1, <2>2 DEF BodyInv, JsonIsFollowed
<1>5. XmlIsFollowed'
    BY <1>1 DEF BodyInv, XmlIsFollowed, PathOf, Top
<1> QED
    BY <1>2, <1>3, <1>4, <1>5 DEF BodyInv

LEMMA BodyStarts == InitArguments => BodyInv
<1> SUFFICES ASSUME InitArguments
             PROVE  BodyInv
    OBVIOUS
<1>1. /\ format \in Formats /\ args = << >> /\ place = << >> /\ leaves = << >>
      /\ report = NoReport
      /\ format.kind = "json" => reader = NewJson
      /\ format.kind = "xml" => reader = NewXml
    BY DEF InitArguments
<1>2. IsSequence(<< >>)
    <2>1. << >> \in Seq({})
        OBVIOUS
    <2> QED
        BY <2>1 DEF IsSequence
<1>3. BodyTypeOK
    <2>1. PICK f \in Formats : f = format
        BY <1>1
    <2>2. MaxDepths \subseteq Nat /\ ArgLimits \subseteq Nat
        BY ArgumentsAssumption
    <2>3. f \in [kind : {"json", "xml", "urlencoded"}, mode : {"Off", "On", "OnlyArgs"},
                broken : BOOLEAN, maxDepth : Nat, argLimit : Nat, events : Nat]
        <3>1. PICK zero \in Nat : zero = 0
            OBVIOUS
        <3>2. /\ f.kind \in {"json", "xml", "urlencoded"} /\ f.mode \in {"Off", "On", "OnlyArgs"}
              /\ f.broken \in BOOLEAN /\ f.maxDepth \in MaxDepths \cup {zero}
              /\ f.argLimit \in ArgLimits /\ f.events = zero
              /\ f = [kind |-> f.kind, mode |-> f.mode, broken |-> f.broken,
                      maxDepth |-> f.maxDepth, argLimit |-> f.argLimit, events |-> f.events]
            <4>1. CASE f \in [kind : {"json"}, mode : {"Off"}, broken : BOOLEAN,
                              maxDepth : MaxDepths, argLimit : ArgLimits, events : {zero}]
                BY <4>1
            <4>2. CASE f \in [kind : {"xml"}, mode : {"Off", "On", "OnlyArgs"}, broken : BOOLEAN,
                              maxDepth : {zero}, argLimit : ArgLimits, events : {zero}]
                BY <4>2
            <4>3. CASE f \in [kind : {"urlencoded"}, mode : {"Off"}, broken : {FALSE},
                              maxDepth : {zero}, argLimit : ArgLimits, events : {zero}]
                BY <4>3
            <4> QED
                BY <3>1, <4>1, <4>2, <4>3 DEF Formats
        <3>3. f.maxDepth \in Nat /\ f.argLimit \in Nat /\ f.events \in Nat
            BY <2>2, <3>2
        <3> QED
            BY ONLY <3>2, <3>3
    <2>4. report \in [over : BOOLEAN, error : BOOLEAN, urlencoded : BOOLEAN]
        BY <1>1 DEF NoReport
    <2> QED
        BY <1>1, <1>2, <2>1, <2>3, <2>4 DEF BodyTypeOK
<1>4. LeftOutIsTold
    BY <1>1 DEF LeftOutIsTold
<1>5. JsonIsFollowed
    <2>1. ASSUME format.kind = "json"
          PROVE  /\ reader \in [containers : Seq(JsonContainers), key : Keys, depth : Nat]
                 /\ reader.containers = << >> /\ reader.depth = 0 /\ reader.key = ""
        <3>1. PICK none \in Keys : none = ""
            BY ArgumentsAssumption
        <3>2. reader = [containers |-> << >>, key |-> none, depth |-> 0]
            BY <1>1, <2>1, <3>1 DEF NewJson
        <3>3. << >> \in Seq(JsonContainers) /\ 0 \in Nat
            OBVIOUS
        <3>4. /\ reader \in [containers : Seq(JsonContainers), key : Keys, depth : Nat]
              /\ reader.containers = << >> /\ reader.depth = 0 /\ reader.key = none
            BY ONLY <3>2, <3>3, none \in Keys
        <3> QED
            BY <3>1, <3>4
    <2>2. << >> \in Seq(OpenContainers) /\ Len(<< >>) = 0 /\ 1..0 = {}
        OBVIOUS
    <2>3. ~(0 > format.maxDepth)
        BY <1>3 DEF BodyTypeOK
    <2> QED
        BY <1>1, <2>1, <2>2, <2>3 DEF JsonIsFollowed
<1>6. XmlIsFollowed
    <2>1. ASSUME format.kind = "xml"
          PROVE  /\ reader \in [nodes : Seq(BOOLEAN), currpath : Seq(Pieces),
                                currval : Seq({"v1", "v2"}), isSet : BOOLEAN]
                 /\ reader.nodes = << >> /\ reader.currpath = <<"xml.">>
        <3>1. PICK first \in Pieces : first = "xml."
            BY DEF Pieces
        <3>2. PICK path : path = <<first>> /\ path \in Seq(Pieces)
            <4>1. <<first>> \in Seq(Pieces)
                OBVIOUS
            <4>2. PICK path : path = <<first>>
                OBVIOUS
            <4> QED
                BY ONLY <4>1, <4>2
        <3>3. PICK no \in BOOLEAN : no = FALSE
            OBVIOUS
        <3>4. reader = [nodes |-> << >>, currpath |-> path, currval |-> << >>, isSet |-> no]
            BY <1>1, <2>1, <3>1, <3>2, <3>3 DEF NewXml
        <3>5. << >> \in Seq(BOOLEAN) /\ << >> \in Seq({"v1", "v2"})
            OBVIOUS
        <3>6. /\ reader \in [nodes : Seq(BOOLEAN), currpath : Seq(Pieces),
                             currval : Seq({"v1", "v2"}), isSet : BOOLEAN]
              /\ reader.nodes = << >> /\ reader.currpath = path
            BY ONLY <3>2, <3>4, <3>5, no \in BOOLEAN
        <3> QED
            BY <3>1, <3>2, <3>6
    <2>2. PathOf(<< >>, <<"xml.">>)
        BY DEF PathOf
    <2>3. << >> \in Seq(OpenElements) /\ Len(<< >>) = 0 /\ 1..0 = {}
        OBVIOUS
    <2> QED
        BY <1>1, <2>1, <2>2, <2>3 DEF XmlIsFollowed
<1> QED
    BY <1>3, <1>4, <1>5, <1>6 DEF BodyInv

LEMMA BodyStep == BodyInv /\ [NextArguments]_argumentsVars => BodyInv'
<1> SUFFICES ASSUME BodyInv, [NextArguments]_argumentsVars
             PROVE  BodyInv'
    OBVIOUS
<1>1. CASE UNCHANGED argumentsVars
    <2>1. UNCHANGED <<format, reader, args, place, leaves, report>>
        BY <1>1 DEF argumentsVars
    <2>2. \A i : Label(i)' = Label(i)
        BY <2>1 DEF Label
    <2>3. (Top(place))' = Top(place)
        BY <2>1 DEF Top
    <2>4. (BodyTypeOK /\ LeftOutIsTold)'
        BY <2>1 DEF BodyInv, BodyTypeOK, LeftOutIsTold
    <2>5. JsonIsFollowed'
        BY <2>1, <2>2, <2>3 DEF BodyInv, JsonIsFollowed
    <2>6. XmlIsFollowed'
        BY <2>1 DEF BodyInv, XmlIsFollowed, PathOf, Top
    <2> QED
        BY <2>4, <2>5, <2>6 DEF BodyInv
<1>2. ASSUME NEW k \in Keys, yajl_map_key(k)
      PROVE  BodyInv'
    BY <1>2, yajl_map_keyKeeps
<1>3. ASSUME NEW k \in Keys, onStartElement(k)
      PROVE  BodyInv'
    BY <1>3, onStartElementKeeps
<1>4. ASSUME NEW v \in {"v1", "v2"}, yajl_scalar(v)
      PROVE  BodyInv'
    BY <1>4, yajl_scalarKeeps
<1>5. ASSUME NEW v \in {"v1", "v2"}, onCharacters(v)
      PROVE  BodyInv'
    BY <1>5, onCharactersKeeps
<1>6. ASSUME NEW kind \in {"map", "array"}, yajl_start(kind)
      PROVE  BodyInv'
    BY <1>6, yajl_startKeeps
<1>7. CASE yajl_end
    BY <1>7, yajl_endKeeps
<1>8. CASE onEndElement
    BY <1>8, onEndElementKeeps
<1>9. ASSUME NEW k \in Keys, NEW badKey \in BOOLEAN, NEW badValue \in BOOLEAN,
             extractArguments(k, badKey, badValue)
      PROVE  BodyInv'
    BY <1>9, extractArgumentsKeeps
<1>10. CASE Complete
    BY <1>10, CompleteKeeps
<1> QED
    BY <1>1, <1>2, <1>3, <1>4, <1>5, <1>6, <1>7, <1>8, <1>9, <1>10 DEF NextArguments

LEMMA BodyIsWhole == BodyInv => ArgumentsAreWhole
<1> SUFFICES ASSUME BodyInv
             PROVE  ArgumentsAreWhole
    OBVIOUS
<1>1. DOMAIN args = 1..Len(args) /\ Len(args) \in Nat /\ Len(leaves) \in Nat
    BY SequencesGrow DEF BodyInv, BodyTypeOK
<1>2. ArgumentsAreTheLeaves
    BY <1>1 DEF BodyInv, LeftOutIsTold, ArgumentsAreTheLeaves
<1>3. LimitsAreTold
    <2>1. format.kind # "urlencoded" /\ Len(args) < Len(leaves) => report.error
        BY DEF BodyInv, LeftOutIsTold
    <2>2. Len(args) <= Len(leaves)
        BY DEF BodyInv, LeftOutIsTold
    <2>3. format.kind = "json" /\ Len(place) > format.maxDepth => report.error
        BY DEF BodyInv, JsonIsFollowed
    <2> QED
        BY <1>1, <2>1, <2>2, <2>3 DEF LimitsAreTold
<1> QED
    BY <1>2, <1>3 DEF ArgumentsAreWhole

(* Of JSON, XML and forms of any depth, with any keys and whatever limits: *)
(* the counters of the arrays, the key that waits for its value and the    *)
(* path of the open elements, which json.cc and xml.cc change in separate  *)
(* callbacks, give every value the name its place in the document has; the *)
(* arguments are the first values of the document, and a JSON or XML body  *)
(* of which one is left out or that is too deep has its error.             *)
THEOREM BodiesBecomeArguments == SpecArguments => []ArgumentsAreWhole
<1>1. InitArguments => BodyInv
    BY BodyStarts
<1>2. BodyInv /\ [NextArguments]_argumentsVars => BodyInv'
    BY BodyStep
<1>3. BodyInv => ArgumentsAreWhole
    BY BodyIsWhole
<1> QED
    BY <1>1, <1>2, <1>3, PTL DEF SpecArguments

-----------------------------------------------------------------------------
(* Induction, in the form of sets of numbers.                              *)
LEMMA LessIsRelated == \A x, y \in Nat : x < y => <<x, y>> \in OpToRel(<, Nat)
BY DEF OpToRel

LEMMA NatSetInduction ==
    ASSUME NEW S, 0 \in S, \A n \in Nat : n \in S => n + 1 \in S
    PROVE  Nat \subseteq S
<1> DEFINE T == Nat \ S
<1>1. SUFFICES ASSUME T # {} PROVE FALSE  OBVIOUS
<1>2. PICK x \in T : \A y \in T : ~(<<y, x>> \in OpToRel(<, Nat))
    <2> DEFINE R == OpToRel(<, Nat)
    <2>1. IsWellFoundedOn(R, Nat)  BY NatLessThanWellFounded
    <2>2. T \subseteq Nat  OBVIOUS
    <2> HIDE DEF R, T
    <2> QED  BY ONLY <1>1, <2>1, <2>2, WFMin DEF R
<1>3. x - 1 \in Nat /\ x - 1 < x /\ (x - 1) + 1 = x
    <2>1. x \in Nat /\ x # 0  OBVIOUS
    <2> QED  BY <2>1
<1>4. x - 1 \in T  BY <1>3
<1> QED  BY <1>2, <1>3, <1>4, LessIsRelated

-----------------------------------------------------------------------------
(* Multipart bodies.  A part is read into the parser; its data is held back *)
(* by one line end, which is given to it when more data follows.           *)
DataPieces == {"text", "crlf", "lf"}

PartHeaders == {"disposition", "header"}

MultipartFlags ==
    {"crlf_line", "lf_line", "boundary_quoted", "boundary_whitespace", "missing_semicolon", "error",
     "duplicate_part_header", "invalid_quoting", "invalid_part", "header_folding",
     "invalid_header_folding", "file_limit_exceeded", "data_before", "data_after"}

PartRecords ==
    [type : {"form", "file"}, name : BOOLEAN, filename : BOOLEAN, filenameStar : BOOLEAN,
     headers : Seq(PartHeaders), lastHeader : PartHeaders \cup {""},
     lastLine : PartHeaders \cup {""}, headerLines : Seq(PartHeaders), params : Seq(STRING),
     value : Seq(DataPieces), file : Nat, size : Nat, sent : Seq(DataPieces)]

ParserRecords ==
    [stage : {"reading", "read", "done", "gone", "over"}, mpp : PartRecords \cup {NoPart},
     state : {"headers", "data"}, dataRead : BOOLEAN, reserve : Seq(DataPieces),
     lastEnd : Ends \cup {"start"}, count : Nat, nfiles : Nat, noFiles : Nat,
     complete : BOOLEAN, seen : BOOLEAN, unmatched : Nat, flags : SUBSET MultipartFlags,
     error : BOOLEAN]

FileRecords == [open : BOOLEAN, content : Seq(DataPieces), delete : BOOLEAN, onDisk : BOOLEAN]

MultipartTypeOK ==
    /\ conf \in Confs
    /\ mp \in ParserRecords
    /\ parts \in Seq(PartRecords)
    /\ tmpFiles \in Seq(FileRecords)
    /\ body \in [lines : Nat, afterFlaw : Nat, boundaries : Nat]

(* What is kept of a part, with what is held back, is what was sent; and   *)
(* what is held back is its last line end, if it ends with one.            *)
Held(kept, reserve, sent) ==
    /\ kept \o reserve = sent
    /\ \/ \E e \in {"crlf", "lf"} : reserve = <<e>>
       \/ reserve = << >> /\ (sent = << >> \/ sent[Len(sent)] = "text")

FileExceeded == "file_limit_exceeded"

(* The data of a file: what was written, unless the limit on the number of *)
(* files was met.                                                          *)
FileHeld(p, reserve, flags) ==
    \/ FileExceeded \in flags
    \/ p.file = 0 /\ (Extracts => p.sent = << >> /\ reserve = << >> /\ p.size = 0)
    \/ /\ p.file # 0
       /\ Held(tmpFiles[p.file].content, reserve, p.sent)
       /\ p.size = Len(tmpFiles[p.file].content)

(* The part that is being read.                                            *)
OpenPart(m) ==
    /\ m.count > 0 /\ m.seen /\ ~m.complete
    /\ m.state = "headers" =>
          /\ ~m.dataRead /\ m.mpp.file = 0 /\ m.mpp.size = 0
          /\ m.mpp.sent = << >> /\ m.mpp.value = << >> /\ m.reserve = << >>
    /\ m.state = "data" => m.mpp.name /\ m.mpp.headers # << >>
    /\ m.dataRead => m.mpp.sent # << >>
    /\ m.mpp.type = "form" => m.mpp.file = 0 /\ Held(m.mpp.value, m.reserve, m.mpp.sent)
    /\ m.mpp.type = "file" => FileHeld(m.mpp, m.reserve, m.flags)
    /\ m.mpp.file # 0 =>
          Extracts /\ m.mpp.file \in DOMAIN tmpFiles /\ \A i \in DOMAIN parts : parts[i].file # m.mpp.file

PartIsOpen == mp.stage = "reading" /\ mp.mpp.type # "none" => OpenPart(mp)

(* The parts that are complete.                                            *)
PartIsWhole(p, flags) ==
    /\ p.type = "form" => p.file = 0 /\ p.value = WithoutLastEnd(p.sent)
    /\ p.file # 0 =>
          /\ p.type = "file" /\ p.file \in DOMAIN tmpFiles
          /\ \/ FileExceeded \in flags
             \/ /\ tmpFiles[p.file].content = WithoutLastEnd(p.sent)
                /\ p.size = Len(tmpFiles[p.file].content)

PartsWere == \A i \in DOMAIN parts : PartIsWhole(parts[i], mp.flags)

(* As long as nothing was in doubt, each boundary began a part.            *)
Clean(m) == ~m.error /\ ~Strict(m.flags)

PartsBegun(m) == IF m.mpp.type = "none" THEN 0 ELSE 1

EachIsPart ==
    Clean(mp) /\ mp.stage = "reading" =>
        /\ Len(parts) + PartsBegun(mp) = body.boundaries
        /\ \A i \in DOMAIN parts : parts[i].headers # << >> /\ parts[i].sent # << >>

StoppedIsTold == mp.stage = "read" => ~Clean(mp) \/ conf.ct = "empty"

(* What the rules are told, and when the files go.                         *)
PartsAreTold ==
    /\ mp.stage \in {"reading", "read"} => ~told.set
    /\ told.set => told.vars = << >> \/ told.vars = [i \in DOMAIN parts |-> VariablesOfPart(parts[i])]

FilesAreMarked ==
    mp.stage = "gone" /\ ~conf.keep =>
        \A f \in DOMAIN tmpFiles : OfPart(f) => tmpFiles[f].delete

MultipartInv ==
    /\ MultipartTypeOK /\ PartIsOpen /\ PartsWere /\ EachIsPart /\ StoppedIsTold
    /\ PartsAreTold /\ FilesAreMarked /\ TemporaryFilesGo /\ DoubtsAreFlagged

-----------------------------------------------------------------------------
(* What the line that is held back means for what was kept.                *)
LEMMA HeldBack ==
    ASSUME NEW kept \in Seq(DataPieces), NEW reserve \in Seq(DataPieces),
           NEW sent \in Seq(DataPieces), Held(kept, reserve, sent)
    PROVE  kept = WithoutLastEnd(sent)
<1>1. CASE \E e \in {"crlf", "lf"} : reserve = <<e>>
    <2>1. PICK e \in {"crlf", "lf"} : reserve = <<e>>
        BY <1>1
    <2>2. /\ sent = kept \o <<e>>
        BY <2>1 DEF Held
    <2>3. Len(sent) = Len(kept) + 1 /\ sent[Len(sent)] = e /\ sent # << >>
        BY <2>2
    <2>4. SubSeq(sent, 1, Len(sent) - 1) = kept
        BY <2>2
    <2>5. e \in Ends
        BY DEF Ends
    <2> QED
        BY <2>3, <2>4, <2>5 DEF WithoutLastEnd
<1>2. CASE reserve = << >> /\ (sent = << >> \/ sent[Len(sent)] = "text")
    <2>1. sent = kept
        BY <1>2 DEF Held
    <2>2. ~(sent # << >> /\ sent[Len(sent)] \in Ends)
        BY <1>2 DEF Ends
    <2> QED
        BY <2>1, <2>2 DEF WithoutLastEnd
<1> QED
    BY <1>1, <1>2 DEF Held

(* More data: what was held back is given to the part.                     *)
LEMMA HeldNext ==
    ASSUME NEW kept \in Seq(DataPieces), NEW reserve \in Seq(DataPieces),
           NEW sent \in Seq(DataPieces), Held(kept, reserve, sent), NEW line \in BodyLines
    PROVE  LET data == LineData(line)
               end  == LineEnd(line)
           IN  /\ data \in Seq(DataPieces) /\ end \in Seq(DataPieces)
               /\ reserve \o data \in Seq(DataPieces)
               /\ kept \o (reserve \o data) \in Seq(DataPieces)
               /\ sent \o data \o end \in Seq(DataPieces)
               /\ sent \o data \o end # << >>
               /\ Held(kept \o (reserve \o data), end, sent \o data \o end)
<1> DEFINE data == LineData(line)
           end == LineEnd(line)
<1>1. /\ line \in [text : STRING, params : Seq(STRING), end : Ends]
      /\ line.text = "empty" => line.end # "full"
    BY MultipartAssumption
<1>2. /\ data \in Seq(DataPieces)
      /\ \/ data = << >> /\ line.text = "empty"
         \/ \E e \in DataPieces : e = "text" /\ data = <<e>>
    <2>1. PICK text \in DataPieces : text = "text"
        BY DEF DataPieces
    <2>2. data = IF line.text = "empty" THEN << >> ELSE <<text>>
        BY <2>1 DEF LineData
    <2>3. <<text>> \in Seq(DataPieces)
        OBVIOUS
    <2> HIDE DEF data
    <2> QED
        BY <2>1, <2>2, <2>3
<1>3. /\ end \in Seq(DataPieces)
      /\ \/ end = << >> /\ line.end = "full"
         \/ \E e \in {"crlf", "lf"} : end = <<e>>
    <2>1. CASE line.end = "full"
        BY <2>1 DEF LineEnd
    <2>2. CASE line.end # "full"
        <3>1. line.end \in {"crlf", "lf"}
            BY <1>1, <2>2 DEF Ends
        <3>2. PICK e \in {"crlf", "lf"} : line.end = e
            BY <3>1
        <3>3. end = <<e>>
            BY <2>2, <3>2 DEF LineEnd
        <3>4. e \in DataPieces
            BY DEF DataPieces
        <3> HIDE DEF end
        <3> QED
            BY <3>3, <3>4
    <2> QED
        BY <2>1, <2>2
<1>4. data # << >> \/ end # << >>
    <2> HIDE DEF data, end
    <2>1. (\E e : data = <<e>>) => data # << >>
        OBVIOUS
    <2>2. (\E e : end = <<e>>) => end # << >>
        OBVIOUS
    <2> QED
        BY <1>1, <1>2, <1>3, <2>1, <2>2
<1> HIDE DEF data, end
<1>5. (kept \o (reserve \o data)) \o end = sent \o data \o end
    <2>1. kept \o (reserve \o data) = (kept \o reserve) \o data
        BY <1>2
    <2> QED
        BY <2>1 DEF Held
<1>6. ASSUME end = << >>
      PROVE  (sent \o data \o end)[Len(sent \o data \o end)] = "text"
    <2>1. PICK e : e = "text" /\ data = <<e>>
        BY <1>2, <1>4, <1>6
    <2>2. (sent \o <<e>>)[Len(sent \o <<e>>)] = e
        OBVIOUS
    <2>3. sent \o data \o end = sent \o <<e>>
        BY <2>1, <1>6
    <2> QED
        BY <2>1, <2>2, <2>3
<1>7. sent \o data \o end # << >>
    BY <1>2, <1>3, <1>4
<1>8. Held(kept \o (reserve \o data), end, sent \o data \o end)
    BY <1>3, <1>5, <1>6 DEF Held
<1>9. /\ reserve \o data \in Seq(DataPieces) /\ sent \o data \o end \in Seq(DataPieces)
      /\ kept \o (reserve \o data) \in Seq(DataPieces)
    BY <1>2, <1>3
<1> QED
    BY <1>2, <1>3, <1>7, <1>8, <1>9 DEF data, end

(* The parameters of a header are read one after the other.                *)
ReadersOf == [rc : BOOLEAN, name : BOOLEAN, filename : BOOLEAN, filenameStar : BOOLEAN,
              flags : SUBSET MultipartFlags]

LEMMA ParameterIsRead ==
    ASSUME NEW s \in ReadersOf, NEW param
    PROVE  /\ ReadParameter(s, param) \in ReadersOf
           /\ s.flags \subseteq ReadParameter(s, param).flags
<1> DEFINE bad(f) == [s EXCEPT !.rc = FALSE, !.flags = @ \cup f]
<1>1. ASSUME NEW f \in SUBSET MultipartFlags
      PROVE  bad(f) \in ReadersOf /\ s.flags \subseteq bad(f).flags
    BY DEF ReadersOf
<1>2. ASSUME NEW f \in SUBSET MultipartFlags, NEW g \in SUBSET MultipartFlags
      PROVE  f \cup g \in SUBSET MultipartFlags
    OBVIOUS
<1> DEFINE q == IF param = "name" THEN {} ELSE {"invalid_quoting"}
<1>3. /\ q \in SUBSET MultipartFlags /\ {"duplicate_part_header"} \in SUBSET MultipartFlags
      /\ {"invalid_quoting"} \in SUBSET MultipartFlags /\ {"invalid_part"} \in SUBSET MultipartFlags
      /\ {} \in SUBSET MultipartFlags
    BY DEF MultipartFlags
<1>4. /\ [s EXCEPT !.name = TRUE, !.flags = @ \cup q] \in ReadersOf
      /\ s.flags \subseteq [s EXCEPT !.name = TRUE, !.flags = @ \cup q].flags
    BY <1>3 DEF ReadersOf
<1>5. /\ [s EXCEPT !.filename = TRUE] \in ReadersOf
      /\ s.flags = [s EXCEPT !.filename = TRUE].flags
    BY DEF ReadersOf
<1>6. ASSUME NEW f \in SUBSET MultipartFlags
      PROVE  /\ [s EXCEPT !.filenameStar = TRUE, !.flags = @ \cup f] \in ReadersOf
             /\ s.flags \subseteq [s EXCEPT !.filenameStar = TRUE, !.flags = @ \cup f].flags
    BY DEF ReadersOf
<1>7. CASE ~s.rc
    BY <1>7 DEF ReadParameter
<1>8. CASE s.rc /\ (param = "name" \/ param = "nameInQuotes")
    <2>1. ReadParameter(s, param) = IF s.name THEN bad(q \cup {"duplicate_part_header"})
                                    ELSE [s EXCEPT !.name = TRUE, !.flags = @ \cup q]
        BY <1>8 DEF ReadParameter
    <2>2. q \cup {"duplicate_part_header"} \in SUBSET MultipartFlags
        BY <1>3
    <2> HIDE DEF bad, q
    <2> QED
        BY <1>1, <1>4, <2>1, <2>2
<1>9. CASE s.rc /\ param \in {"filename", "filename ="}
    <2>1. ReadParameter(s, param) = IF s.filename THEN bad({"duplicate_part_header"})
                                    ELSE [s EXCEPT !.filename = TRUE]
        BY <1>9 DEF ReadParameter
    <2> HIDE DEF bad
    <2> QED
        BY <1>1, <1>3, <1>5, <2>1
<1>10. CASE s.rc /\ param \in {"filename*", "filename*%"}
    <2>1. PICK f : f = IF param = "filename*" THEN {} ELSE {"invalid_part"}
        OBVIOUS
    <2>2. ReadParameter(s, param) = IF s.filenameStar THEN bad({"duplicate_part_header"})
                                    ELSE [s EXCEPT !.filenameStar = TRUE, !.flags = @ \cup f]
        BY <1>10, <2>1 DEF ReadParameter
    <2>3. f \in SUBSET MultipartFlags
        BY <2>1, <1>3
    <2> HIDE DEF bad
    <2> QED
        BY <1>1, <1>3, <1>6, <2>2, <2>3
<1>11. CASE /\ s.rc
            /\ param \notin {"name", "nameInQuotes", "filename", "filename =", "filename*", "filename*%"}
    <2>1. ReadParameter(s, param) = bad({"invalid_quoting"}) \/ ReadParameter(s, param) = bad({})
        BY <1>11 DEF ReadParameter
    <2> HIDE DEF bad
    <2> QED
        BY <1>1, <1>3, <2>1
<1> QED
    BY <1>7, <1>8, <1>9, <1>10, <1>11

AreRead(f, start, params, n) ==
    f = [i \in 0..n |-> IF i = 0 THEN start ELSE ReadParameter(f[i - 1], params[i])]

LEMMA ReadStep ==
    ASSUME NEW f, NEW start, NEW params, NEW n \in Nat, AreRead(f, start, params, n)
    PROVE  /\ f[0] = start
           /\ \A i \in Nat : i + 1 <= n => f[i + 1] = ReadParameter(f[i], params[i + 1])
<1>1. f[0] = start
    <2>1. 0 \in 0..n  OBVIOUS
    <2> QED  BY <2>1 DEF AreRead
<1>2. ASSUME NEW i \in Nat, i + 1 <= n
      PROVE  f[i + 1] = ReadParameter(f[i], params[i + 1])
    <2>1. i + 1 \in 0..n /\ i + 1 # 0 /\ (i + 1) - 1 = i
        BY <1>2
    <2> QED  BY <2>1 DEF AreRead
<1> QED  BY <1>1, <1>2

LEMMA ReadExists ==
    ASSUME NEW start, NEW params
    PROVE  \A n \in Nat : \E f : AreRead(f, start, params, n)
<1> DEFINE S == {n \in Nat : \E f : AreRead(f, start, params, n)}
<1>1. 0 \in S
    <2>1. PICK f : f = [i \in 0..0 |-> start]  OBVIOUS
    <2>2. f = [i \in 0..0 |-> IF i = 0 THEN start ELSE ReadParameter(f[i - 1], params[i])]
        BY <2>1
    <2> QED  BY <2>2 DEF AreRead
<1>2. ASSUME NEW n \in Nat, n \in S
      PROVE  n + 1 \in S
    <2>1. PICK f : AreRead(f, start, params, n)  BY <1>2
    <2>2. PICK g : g = [i \in 0..(n + 1) |->
                           IF i = n + 1 THEN ReadParameter(f[n], params[n + 1]) ELSE f[i]]
        OBVIOUS
    <2>3. \A i \in 0..n : g[i] = f[i] /\ i # n + 1  BY <2>2
    <2>4. ASSUME NEW i \in 0..(n + 1)
          PROVE  g[i] = IF i = 0 THEN start ELSE ReadParameter(g[i - 1], params[i])
        <3>1. CASE i = n + 1
            <4>1. g[i] = ReadParameter(f[n], params[n + 1])  BY <2>2, <3>1
            <4>2. g[n] = f[n] /\ i - 1 = n /\ i # 0  BY <2>3, <3>1
            <4> QED  BY <3>1, <4>1, <4>2
        <3>2. CASE i # n + 1 /\ i # 0
            <4>1. i \in 0..n /\ i - 1 \in 0..n  BY <3>2
            <4>2. f[i] = ReadParameter(f[i - 1], params[i])  BY <2>1, <3>2, <4>1 DEF AreRead
            <4> QED  BY <2>3, <3>2, <4>1, <4>2
        <3>3. CASE i = 0
            <4>1. 0 \in 0..n  OBVIOUS
            <4> QED  BY <2>1, <2>3, <3>3, <4>1, ReadStep
        <3> QED  BY <3>1, <3>2, <3>3
    <2>5. g = [i \in 0..(n + 1) |-> g[i]]  BY <2>2
    <2>6. g = [i \in 0..(n + 1) |-> IF i = 0 THEN start ELSE ReadParameter(g[i - 1], params[i])]
        BY ONLY <2>4, <2>5, Zenon
    <2> QED  BY <2>6 DEF AreRead
<1> HIDE DEF S
<1>3. Nat \subseteq S  BY <1>1, <1>2, NatSetInduction
<1> QED  BY <1>3 DEF S

(* Content-Disposition: names and flags are only added.                    *)
LEMMA DispositionIsRead ==
    ASSUME NEW p \in PartRecords, NEW flags \in SUBSET MultipartFlags
    PROVE  /\ parse_content_disposition(p, flags) \in ReadersOf
           /\ flags \subseteq parse_content_disposition(p, flags).flags
<1>1. PICK start : start = [rc |-> TRUE, name |-> p.name, filename |-> p.filename,
                            filenameStar |-> p.filenameStar, flags |-> flags]
    OBVIOUS
<1>2. PICK n \in Nat : n = Len(p.params)
    <2>1. p.params \in Seq(STRING)
        BY DEF PartRecords
    <2> QED
        BY <2>1
<1>3. PICK f : f = CHOOSE g : AreRead(g, start, p.params, n)
    OBVIOUS
<1>4. AreRead(f, start, p.params, n)
    BY <1>3, ReadExists
<1>5. parse_content_disposition(p, flags) = f[n]
    BY ONLY <1>1, <1>2, <1>3, Zenon DEF parse_content_disposition, AreRead
<1>6. /\ f[0] = start
      /\ \A i \in Nat : i + 1 <= n => f[i + 1] = ReadParameter(f[i], p.params[i + 1])
    BY <1>4, ReadStep
<1>7. start \in ReadersOf /\ start.flags = flags
    BY <1>1 DEF ReadersOf, PartRecords
<1> DEFINE S == {i \in Nat : i <= n => f[i] \in ReadersOf /\ flags \subseteq f[i].flags}
<1>8. 0 \in S
    BY <1>6, <1>7
<1>9. ASSUME NEW i \in Nat, i \in S
      PROVE  i + 1 \in S
    <2>1. SUFFICES ASSUME i + 1 <= n
                   PROVE  f[i + 1] \in ReadersOf /\ flags \subseteq f[i + 1].flags
        OBVIOUS
    <2>2. f[i] \in ReadersOf /\ flags \subseteq f[i].flags
        BY <1>9, <2>1
    <2> QED
        BY <1>6, <2>1, <2>2, ParameterIsRead
<1> HIDE DEF S
<1>10. Nat \subseteq S
    BY <1>8, <1>9, NatSetInduction
<1>11. f[n] \in ReadersOf /\ flags \subseteq f[n].flags
    BY <1>10 DEF S
<1> QED
    BY <1>5, <1>11

-----------------------------------------------------------------------------
(* The parser n has everything of m but its part, and more flags perhaps.  *)
Keeps(m, n) ==
    /\ n \in ParserRecords
    /\ n.stage = m.stage /\ n.state = m.state /\ n.dataRead = m.dataRead
    /\ n.reserve = m.reserve /\ n.count = m.count /\ n.nfiles = m.nfiles
    /\ n.complete = m.complete
    /\ m.seen => n.seen
    /\ m.error => n.error
    /\ m.flags \subseteq n.flags

(* The part q has the data of p.                                           *)
SameData(p, q) ==
    /\ q \in PartRecords
    /\ q.type = p.type /\ q.sent = p.sent /\ q.value = p.value /\ q.file = p.file
    /\ q.size = p.size

LEMMA KeepsAll ==
    ASSUME NEW m, NEW n, NEW o, Keeps(m, n), Keeps(n, o)
    PROVE  Keeps(m, o)
BY DEF Keeps

LEMMA FlagKeeps ==
    ASSUME NEW m \in ParserRecords, NEW f \in SUBSET MultipartFlags
    PROVE  LET n == [m EXCEPT !.flags = @ \cup f]
           IN  Keeps(m, n) /\ n.mpp = m.mpp /\ n.error = m.error /\ n.flags = m.flags \cup f
               /\ n.seen = m.seen /\ n.lastEnd = m.lastEnd
BY DEF Keeps, ParserRecords

LEMMA FailsKeeps ==
    ASSUME NEW m \in ParserRecords
    PROVE  Keeps(m, Fails(m)) /\ Fails(m).mpp = m.mpp /\ Fails(m).error /\ Fails(m).flags = m.flags
BY DEF Keeps, ParserRecords, Fails

LEMMA PartKeeps ==
    ASSUME NEW m \in ParserRecords, NEW p \in PartRecords
    PROVE  LET n == [m EXCEPT !.mpp = p]
           IN  Keeps(m, n) /\ n.mpp = p /\ n.flags = m.flags /\ n.error = m.error
BY DEF Keeps, ParserRecords

LEMMA EndKeeps ==
    ASSUME NEW m \in ParserRecords, NEW f \in SUBSET MultipartFlags
    PROVE  LET n == [[m EXCEPT !.flags = @ \cup f] EXCEPT !.noFiles = @ + 1]
           IN  Keeps(m, n) /\ n.mpp = m.mpp
<1>1. PICK o : o = [m EXCEPT !.flags = @ \cup f]
    OBVIOUS
<1>2. Keeps(m, o) /\ o.mpp = m.mpp
    BY <1>1, FlagKeeps
<1>3. PICK n : n = [o EXCEPT !.noFiles = @ + 1]
    OBVIOUS
<1>4. Keeps(o, n) /\ n.mpp = o.mpp
    <2>1. o \in ParserRecords
        BY <1>2 DEF Keeps
    <2>2. PICK k \in Nat : k = o.noFiles + 1
        <3>1. o.noFiles \in Nat
            BY <2>1 DEF ParserRecords
        <3> QED
            BY <3>1
    <2>3. n = [o EXCEPT !.noFiles = k]
        BY <1>3, <2>2
    <2> QED
        BY ONLY <2>1, <2>3, k \in Nat DEF Keeps, ParserRecords
<1> QED
    BY <1>1, <1>2, <1>3, <1>4, KeepsAll

LEMMA RecordLineKeeps ==
    ASSUME NEW p \in PartRecords
    PROVE  /\ SameData(p, RecordLine(p)) /\ RecordLine(p).headers = p.headers
           /\ RecordLine(p).name = p.name
<1>1. CASE p.lastLine = ""
    BY <1>1 DEF RecordLine, SameData
<1>2. CASE p.lastLine # ""
    <2>1. PICK none \in PartHeaders \cup {""} : none = ""
        OBVIOUS
    <2>2. PICK lines \in Seq(PartHeaders) : lines = Append(p.headerLines, p.lastLine)
        <3>1. p.lastLine \in PartHeaders /\ p.headerLines \in Seq(PartHeaders)
            BY <1>2 DEF PartRecords
        <3> QED
            BY <3>1, AppendedFacts
    <2>3. RecordLine(p) = [p EXCEPT !.headerLines = lines, !.lastLine = none]
        BY <1>2, <2>1, <2>2 DEF RecordLine
    <2> QED
        BY <2>3 DEF SameData, PartRecords
<1> QED
    BY <1>1, <1>2

(* The empty line: the headers go on, or the data begins.                  *)
Begins(m, n) ==
    /\ n.state = "data" /\ ~n.dataRead /\ n.mpp.name /\ n.mpp.headers # << >>
    /\ n \in ParserRecords /\ n.mpp \in PartRecords
    /\ n.stage = m.stage /\ n.reserve = m.reserve /\ n.count = m.count /\ n.nfiles = m.nfiles
    /\ n.complete = m.complete
    /\ m.seen => n.seen
    /\ m.error => n.error
    /\ m.flags \subseteq n.flags
    /\ n.mpp.sent = m.mpp.sent /\ n.mpp.value = m.mpp.value /\ n.mpp.file = m.mpp.file
    /\ n.mpp.size = m.mpp.size

ReadsHeader(m, n) == (Keeps(m, n) /\ SameData(m.mpp, n.mpp)) \/ Begins(m, n)

LEMMA EndOfHeadersReads ==
    ASSUME NEW m \in ParserRecords, m.mpp \in PartRecords
    PROVE  ReadsHeader(m, EndOfHeaders(m))
<1>1. PICK p \in PartRecords : /\ p = RecordLine(m.mpp) /\ SameData(m.mpp, p)
    BY RecordLineKeeps DEF SameData
<1>2. PICK read \in ReadersOf : /\ read = parse_content_disposition(p, m.flags)
                                /\ m.flags \subseteq read.flags
    <2>1. m.flags \in SUBSET MultipartFlags
        BY DEF ParserRecords
    <2> QED
        BY <2>1, DispositionIsRead
<1>3. PICK q \in PartRecords : /\ q = [p EXCEPT !.name = read.name, !.filename = read.filename,
                                                !.filenameStar = read.filenameStar]
                               /\ SameData(p, q) /\ q.headers = p.headers /\ q.name = read.name
    <2>1. PICK q : q = [p EXCEPT !.name = read.name, !.filename = read.filename,
                                 !.filenameStar = read.filenameStar]
        OBVIOUS
    <2>2. read.name \in BOOLEAN /\ read.filename \in BOOLEAN /\ read.filenameStar \in BOOLEAN
        BY DEF ReadersOf
    <2>3. q \in PartRecords
        BY <2>1, <2>2 DEF PartRecords
    <2>4. /\ q.type = p.type /\ q.sent = p.sent /\ q.value = p.value /\ q.file = p.file
          /\ q.size = p.size /\ q.headers = p.headers /\ q.name = read.name
        BY <2>1 DEF PartRecords
    <2> QED
        BY <2>1, <2>3, <2>4 DEF SameData
<1>4. PICK n : n = [m EXCEPT !.mpp = q, !.flags = read.flags]
    OBVIOUS
<1>5. Keeps(m, n) /\ n.mpp = q
    BY <1>2, <1>4 DEF Keeps, ParserRecords, ReadersOf
<1>6. SameData(m.mpp, q)
    BY <1>1, <1>3 DEF SameData
<1>7. PICK type : type = IF q.filename \/ q.filenameStar THEN "file" ELSE "form"
    OBVIOUS
<1>8. PICK over : over = [n EXCEPT !.mpp.type = type, !.mpp.lastHeader = "", !.state = "data",
                                   !.dataRead = FALSE]
    OBVIOUS
<1>9. \/ EndOfHeaders(m) = Fails([m EXCEPT !.mpp = p])
      \/ EndOfHeaders(m) = Fails(n)
      \/ EndOfHeaders(m) = over /\ read.name /\ "disposition" \in {p.headers[i] : i \in DOMAIN p.headers}
    BY <1>1, <1>2, <1>3, <1>4, <1>7, <1>8 DEF EndOfHeaders
<1>10. CASE EndOfHeaders(m) = Fails([m EXCEPT !.mpp = p])
    <2>1. PICK o : o = [m EXCEPT !.mpp = p]
        OBVIOUS
    <2>2. Keeps(m, o) /\ o.mpp = p
        BY <2>1, PartKeeps
    <2>3. Keeps(o, Fails(o)) /\ Fails(o).mpp = p
        BY <2>2, FailsKeeps DEF Keeps
    <2> QED
        BY <1>1, <1>10, <2>1, <2>2, <2>3, KeepsAll DEF ReadsHeader
<1>11. CASE EndOfHeaders(m) = Fails(n)
    <2>1. Keeps(n, Fails(n)) /\ Fails(n).mpp = q
        BY <1>5, FailsKeeps DEF Keeps
    <2> QED
        BY <1>5, <1>6, <1>11, <2>1, KeepsAll DEF ReadsHeader
<1>12. CASE /\ EndOfHeaders(m) = over /\ read.name
            /\ "disposition" \in {p.headers[i] : i \in DOMAIN p.headers}
    <2>1. p.headers # << >>
        BY <1>12
    <2>2. PICK none \in PartHeaders \cup {""} : none = ""
        OBVIOUS
    <2>3. PICK r : r = [q EXCEPT !.type = type, !.lastHeader = none]
        OBVIOUS
    <2>4. r \in PartRecords
        <3>1. type \in {"form", "file"}
            BY ONLY <1>7
        <3> QED
            BY ONLY q \in PartRecords, none \in PartHeaders \cup {""}, <3>1, <2>3 DEF PartRecords
    <2>5. /\ r.sent = q.sent /\ r.value = q.value /\ r.file = q.file /\ r.size = q.size
          /\ r.name = q.name /\ r.headers = q.headers
        BY <2>3 DEF PartRecords
    <2>6. over = [n EXCEPT !.mpp = r, !.state = "data", !.dataRead = FALSE]
        BY <1>5, <1>8, <2>2, <2>3 DEF Keeps, ParserRecords
    <2>7. /\ over \in ParserRecords /\ over.mpp = r /\ over.state = "data" /\ ~over.dataRead
          /\ over.stage = n.stage /\ over.reserve = n.reserve /\ over.count = n.count
          /\ over.nfiles = n.nfiles /\ over.complete = n.complete /\ over.seen = n.seen
          /\ over.error = n.error /\ over.flags = n.flags
        BY <1>5, <2>4, <2>6 DEF Keeps, ParserRecords
    <2>8. r.name /\ r.headers # << >>
        BY <1>3, <1>12, <2>1, <2>5
    <2>9. Begins(m, over)
        BY <1>5, <1>6, <2>4, <2>5, <2>7, <2>8 DEF Begins, Keeps, SameData
    <2> QED
        BY <1>12, <2>9 DEF ReadsHeader
<1> QED
    BY <1>9, <1>10, <1>11, <1>12

LEMMA NewHeaderReads ==
    ASSUME NEW m \in ParserRecords, m.mpp \in PartRecords, NEW line \in BodyLines
    PROVE  ReadsHeader(m, NewHeader(m, line))
<1>1. PICK p \in PartRecords : p = RecordLine(m.mpp) /\ SameData(m.mpp, p)
    BY RecordLineKeeps DEF SameData
<1>2. PICK n : n = [m EXCEPT !.mpp = p]
    OBVIOUS
<1>3. Keeps(m, n) /\ n.mpp = p /\ n \in ParserRecords
    BY <1>2, PartKeeps DEF Keeps
<1>4. CASE NewHeader(m, line) = Fails(n)
    <2>1. Keeps(n, Fails(n)) /\ Fails(n).mpp = p
        BY <1>3, FailsKeeps
    <2> QED
        BY <1>1, <1>3, <1>4, <2>1, KeepsAll DEF ReadsHeader
<1>5. CASE NewHeader(m, line) = Flag(n, "duplicate_part_header")
    <2>1. PICK f \in SUBSET MultipartFlags : f = {"duplicate_part_header"}
        BY DEF MultipartFlags
    <2>2. PICK o : o = [n EXCEPT !.flags = @ \cup f]
        OBVIOUS
    <2>3. NewHeader(m, line) = o
        BY <1>5, <2>1, <2>2 DEF Flag
    <2>4. Keeps(n, o) /\ o.mpp = p
        BY <1>3, <2>2, FlagKeeps
    <2> QED
        BY <1>1, <1>3, <2>3, <2>4, KeepsAll DEF ReadsHeader
<1>6. CASE /\ line.text \in {"disposition", "header"}
           /\ NewHeader(m, line) =
                [n EXCEPT !.mpp.headers = Append(@, line.text),
                          !.mpp.lastHeader = line.text, !.mpp.lastLine = line.text,
                          !.mpp.params = IF line.text = "disposition" THEN line.params ELSE @]
    <2>1. PICK text \in PartHeaders : text = line.text
        BY <1>6 DEF PartHeaders
    <2>2. PICK headers \in Seq(PartHeaders) : headers = Append(p.headers, text)
        <3>1. p.headers \in Seq(PartHeaders)
            BY DEF PartRecords
        <3> QED
            BY <3>1, AppendedFacts
    <2>3. PICK params \in Seq(STRING) :
              params = IF line.text = "disposition" THEN line.params ELSE p.params
        <3>1. p.params \in Seq(STRING)
            BY DEF PartRecords
        <3>2. line.params \in Seq(STRING)
            BY MultipartAssumption
        <3> QED
            BY <3>1, <3>2
    <2>4. PICK q : q = [p EXCEPT !.headers = headers, !.lastHeader = text, !.lastLine = text,
                                 !.params = params]
        OBVIOUS
    <2>5. SameData(p, q)
        BY <2>4 DEF SameData, PartRecords
    <2>6. NewHeader(m, line) = [n EXCEPT !.mpp = q]
        BY <1>3, <1>6, <2>1, <2>2, <2>3, <2>4 DEF ParserRecords
    <2>7. PICK o : o = [n EXCEPT !.mpp = q]
        OBVIOUS
    <2>8. Keeps(n, o) /\ o.mpp = q
        BY <1>3, <2>5, <2>7, PartKeeps DEF SameData
    <2>9. SameData(m.mpp, q)
        BY <1>1, <2>5 DEF SameData
    <2> QED
        BY <1>3, <2>6, <2>7, <2>8, <2>9, KeepsAll DEF ReadsHeader
<1> QED
    BY <1>1, <1>2, <1>4, <1>5, <1>6 DEF NewHeader

LEMMA FoldedHeaderReads ==
    ASSUME NEW m \in ParserRecords, m.mpp \in PartRecords, NEW line \in BodyLines
    PROVE  ReadsHeader(m, FoldedHeader(m, line))
<1>1. PICK f \in SUBSET MultipartFlags :
          f = {"header_folding"} \cup
                 (IF line.text = "badFold" THEN {"invalid_header_folding"} ELSE {})
    BY DEF MultipartFlags
<1>2. PICK n : n = [m EXCEPT !.flags = @ \cup f]
    OBVIOUS
<1>3. Keeps(m, n) /\ n.mpp = m.mpp /\ n \in ParserRecords
    BY <1>2, FlagKeeps DEF Keeps
<1>4. PICK params \in Seq(STRING) :
          params = IF m.mpp.lastHeader = "disposition" THEN m.mpp.params \o line.params
                   ELSE m.mpp.params
    <2>1. m.mpp.params \in Seq(STRING)
        BY DEF PartRecords
    <2>2. line.params \in Seq(STRING)
        BY MultipartAssumption
    <2> QED
        BY <2>1, <2>2, ConcatFacts
<1>5. PICK q : q = [m.mpp EXCEPT !.params = params]
    OBVIOUS
<1>6. SameData(m.mpp, q)
    BY <1>5 DEF SameData, PartRecords
<1>7. PICK o : o = [n EXCEPT !.mpp = q]
    OBVIOUS
<1>8. Keeps(n, o) /\ o.mpp = q /\ o \in ParserRecords
    BY <1>3, <1>6, <1>7, PartKeeps DEF SameData, Keeps
<1>9. Keeps(m, o)
    BY <1>3, <1>8, KeepsAll
<1>10. o = [n EXCEPT !.mpp.params = IF m.mpp.lastHeader = "disposition" THEN @ \o line.params
                                    ELSE @]
    BY <1>3, <1>4, <1>5, <1>7 DEF ParserRecords
<1>11. PICK last \in PartHeaders \cup {""} : last = m.mpp.lastHeader
    BY DEF PartRecords
<1>12. PICK r : r = [q EXCEPT !.lastLine = last]
    OBVIOUS
<1>13. SameData(m.mpp, r)
    BY <1>6, <1>12 DEF SameData, PartRecords
<1>14. PICK b : b = [o EXCEPT !.mpp = r]
    OBVIOUS
<1>15. Keeps(m, b) /\ b.mpp = r
    BY <1>8, <1>9, <1>13, <1>14, PartKeeps, KeepsAll DEF SameData
<1>16. b = [o EXCEPT !.mpp.lastLine = m.mpp.lastHeader]
    BY <1>8, <1>11, <1>12, <1>14 DEF ParserRecords
<1>17. \/ FoldedHeader(m, line) = Fails(n)
       \/ FoldedHeader(m, line) = Fails(o)
       \/ FoldedHeader(m, line) = b
    BY <1>1, <1>2, <1>10, <1>16 DEF FoldedHeader
<1>18. CASE FoldedHeader(m, line) = Fails(n)
    <2>1. Keeps(n, Fails(n)) /\ Fails(n).mpp = m.mpp /\ SameData(m.mpp, m.mpp)
        BY <1>3, FailsKeeps DEF SameData
    <2> QED
        BY <1>3, <1>18, <2>1, KeepsAll DEF ReadsHeader
<1>19. CASE FoldedHeader(m, line) = Fails(o)
    <2>1. Keeps(o, Fails(o)) /\ Fails(o).mpp = q
        BY <1>8, FailsKeeps
    <2> QED
        BY <1>6, <1>9, <1>19, <2>1, KeepsAll DEF ReadsHeader
<1>20. CASE FoldedHeader(m, line) = b
    BY <1>13, <1>15, <1>20 DEF ReadsHeader
<1> QED
    BY <1>17, <1>18, <1>19, <1>20

LEMMA ReadsAfterKeeps ==
    ASSUME NEW m, NEW n, NEW o, Keeps(m, n), n.mpp = m.mpp, ReadsHeader(n, o)
    PROVE  ReadsHeader(m, o)
<1>1. CASE Keeps(n, o) /\ SameData(n.mpp, o.mpp)
    BY <1>1, KeepsAll DEF ReadsHeader
<1>2. CASE Begins(n, o)
    BY <1>2 DEF ReadsHeader, Begins, Keeps
<1> QED
    BY <1>1, <1>2 DEF ReadsHeader

LEMMA HeaderReads ==
    ASSUME NEW m \in ParserRecords, m.mpp \in PartRecords, NEW line \in BodyLines
    PROVE  ReadsHeader(m, process_part_header(m, line))
<1>1. PICK f \in SUBSET MultipartFlags :
          f = {IF line.end = "crlf" THEN "crlf_line" ELSE "lf_line"}
    BY DEF MultipartFlags
<1>2. PICK n : n = [[m EXCEPT !.flags = @ \cup f] EXCEPT !.noFiles = @ + 1]
    OBVIOUS
<1>3. Keeps(m, n) /\ n.mpp = m.mpp /\ n \in ParserRecords
    BY <1>2, EndKeeps DEF Keeps
<1>4. \/ process_part_header(m, line) = Fails(m)
      \/ process_part_header(m, line) = EndOfHeaders(n)
      \/ process_part_header(m, line) = FoldedHeader(n, line)
      \/ process_part_header(m, line) = NewHeader(n, line)
    BY <1>1, <1>2 DEF process_part_header, Flag
<1>5. CASE process_part_header(m, line) = Fails(m)
    <2>1. Keeps(m, Fails(m)) /\ Fails(m).mpp = m.mpp /\ SameData(m.mpp, m.mpp)
        BY FailsKeeps DEF SameData
    <2> QED
        BY <1>5, <2>1 DEF ReadsHeader
<1>6. CASE process_part_header(m, line) # Fails(m)
    <2>1. ReadsHeader(n, process_part_header(m, line))
        BY <1>3, <1>4, <1>6, EndOfHeadersReads, FoldedHeaderReads, NewHeaderReads
    <2> QED
        BY <1>3, <2>1, ReadsAfterKeeps
<1> QED
    BY <1>5, <1>6

-----------------------------------------------------------------------------
(* What a line does to the parser before it is looked at, and after.       *)
LEMMA FlaggedIsNotClean ==
    ASSUME NEW flags, NEW f \in flags, f # "crlf_line"
    PROVE  Strict(flags)
BY DEF Strict

LEMMA CleanBefore ==
    ASSUME NEW m, NEW n, m.flags \subseteq n.flags, m.error => n.error, Clean(n)
    PROVE  Clean(m)
BY DEF Clean, Strict

LEMMA NotedKeeps ==
    ASSUME NEW m \in ParserRecords, NEW line
    PROVE  /\ Keeps(m, Noted(m, line)) /\ Noted(m, line).mpp = m.mpp
           /\ HoldsBoundary(line) /\ Misplaced(m) => Strict(Noted(m, line).flags)
<1>1. PICK f \in SUBSET MultipartFlags :
          f = IF HoldsBoundary(line) /\ m.lastEnd = "lf" THEN {"lf_line"} ELSE {}
    BY DEF MultipartFlags
<1>2. PICK n : n = [m EXCEPT !.flags = @ \cup f]
    OBVIOUS
<1>3. Keeps(m, n) /\ n.mpp = m.mpp /\ n \in ParserRecords
    BY <1>2, FlagKeeps DEF Keeps
<1>4. n = IF HoldsBoundary(line) /\ m.lastEnd = "lf" THEN Flag(m, "lf_line") ELSE m
    BY <1>1, <1>2 DEF Flag, ParserRecords
<1>5. PICK g \in SUBSET MultipartFlags : g = {"invalid_part"}
    BY DEF MultipartFlags
<1>6. PICK o : o = [n EXCEPT !.flags = @ \cup g]
    OBVIOUS
<1>7. o = Flag(n, "invalid_part")
    BY <1>5, <1>6 DEF Flag
<1>8. Keeps(n, o) /\ o.mpp = n.mpp /\ o.flags = n.flags \cup g
    BY <1>3, <1>6, FlagKeeps
<1>9. Strict(o.flags)
    BY <1>5, <1>8, FlaggedIsNotClean
<1>10. ASSUME NEW k \in Nat
       PROVE  LET r == [n EXCEPT !.unmatched = k] IN Keeps(n, r) /\ r.mpp = n.mpp
    BY <1>3 DEF Keeps, ParserRecords
<1>11. \/ Noted(m, line) = o
       \/ /\ ~(HoldsBoundary(line) /\ Misplaced(m))
          /\ \/ Noted(m, line) = n
             \/ \E k \in {1, 2} : Noted(m, line) = [n EXCEPT !.unmatched = k]
    BY <1>4, <1>7 DEF Noted
<1>12. CASE Noted(m, line) = o
    BY <1>3, <1>8, <1>9, <1>12, KeepsAll
<1>13. CASE Noted(m, line) = n /\ ~(HoldsBoundary(line) /\ Misplaced(m))
    BY <1>3, <1>13
<1>14. CASE /\ ~(HoldsBoundary(line) /\ Misplaced(m))
            /\ \E k \in {1, 2} : Noted(m, line) = [n EXCEPT !.unmatched = k]
    <2>1. PICK k \in Nat : Noted(m, line) = [n EXCEPT !.unmatched = k]
        BY <1>14
    <2>2. PICK r : r = [n EXCEPT !.unmatched = k]
        OBVIOUS
    <2>3. Keeps(n, r) /\ r.mpp = n.mpp
        BY <1>10, <2>2
    <2> QED
        BY <1>3, <1>14, <2>1, <2>2, <2>3, KeepsAll
<1> QED
    BY <1>11, <1>12, <1>13, <1>14

LEMMA AfterBufferKeeps ==
    ASSUME NEW m \in ParserRecords, NEW line \in BodyLines
    PROVE  LET n == AfterBuffer(m, line)
           IN  Keeps(m, n) /\ n.mpp = m.mpp /\ n.seen /\ n.flags = m.flags /\ n.error = m.error
<1>1. line.end \in Ends
    BY MultipartAssumption
<1> QED
    BY <1>1 DEF AfterBuffer, Keeps, ParserRecords

LEMMA OpenStays ==
    ASSUME NEW m, NEW n, OpenPart(m), Keeps(m, n), n.mpp = m.mpp
    PROVE  OpenPart(n)
BY DEF OpenPart, Keeps, FileHeld

(* The parser ends with an error.                                          *)
LEMMA EndsWithError ==
    ASSUME NEW m \in ParserRecords, m.stage = "reading"
    PROVE  LET n == Ends0(Fails(Flag(m, "error")))
           IN  /\ n \in ParserRecords /\ n.stage = "read" /\ n.error
               /\ m.flags \subseteq n.flags /\ ~Clean(n)
<1>1. PICK f \in SUBSET MultipartFlags : f = {"error"}
    BY DEF MultipartFlags
<1>2. PICK n : n = Fails([m EXCEPT !.flags = @ \cup f])
    OBVIOUS
<1>3. Keeps(m, n) /\ n.error
    <2>1. PICK o : o = [m EXCEPT !.flags = @ \cup f]
        OBVIOUS
    <2>2. Keeps(m, o) /\ o \in ParserRecords
        BY <2>1, FlagKeeps DEF Keeps
    <2>3. Keeps(o, Fails(o)) /\ Fails(o).error
        BY <2>2, FailsKeeps
    <2> QED
        BY <1>2, <2>1, <2>2, <2>3, KeepsAll
<1>4. PICK o : o = [n EXCEPT !.stage = "read"]
    OBVIOUS
<1>5. n \in ParserRecords /\ m.flags \subseteq n.flags
    BY <1>3 DEF Keeps
<1>6. o \in ParserRecords /\ o.stage = "read" /\ o.error /\ o.flags = n.flags
    BY <1>3, <1>4, <1>5 DEF ParserRecords
<1>7. o = Ends0(Fails(Flag(m, "error")))
    BY <1>1, <1>2, <1>4 DEF Ends0, Flag
<1> QED
    BY <1>5, <1>6, <1>7 DEF Clean

-----------------------------------------------------------------------------
(* The steps of the parser.                                                *)
LEMMA ReadingKeeps ==
    ASSUME MultipartInv, mp.stage = "reading", MultipartTypeOK', UNCHANGED <<conf, told>>,
           mp'.stage \in {"reading", "read"}, PartIsOpen', PartsWere', EachIsPart', StoppedIsTold'
    PROVE  MultipartInv'
<1>1. ~told'.set
    BY DEF MultipartInv, PartsAreTold
<1>2. PartsAreTold'
    BY <1>1 DEF PartsAreTold
<1>3. FilesAreMarked' /\ TemporaryFilesGo'
    BY DEF FilesAreMarked, TemporaryFilesGo
<1>4. DoubtsAreFlagged'
    BY <1>1 DEF DoubtsAreFlagged, StrictErrorIsUpToDate, CleanBodiesAreUnderstood
<1> QED
    BY <1>2, <1>3, <1>4 DEF MultipartInv

LEMMA PartsStay ==
    ASSUME PartsWere, UNCHANGED parts, mp.flags \subseteq mp'.flags,
           \A f \in DOMAIN tmpFiles : f \in DOMAIN tmpFiles' ,
           \A i \in DOMAIN parts : parts[i].file # 0 =>
               tmpFiles'[parts[i].file].content = tmpFiles[parts[i].file].content
    PROVE  PartsWere'
BY DEF PartsWere, PartIsWhole

(* A line that is taken for no boundary begins no part.                    *)
LEMMA EachStays ==
    ASSUME EachIsPart, mp.stage = "reading", UNCHANGED parts, mp.flags \subseteq mp'.flags,
           mp.error => mp'.error, body.boundaries \in Nat,
           PartsBegun(mp)' = PartsBegun(mp),
           body'.boundaries = body.boundaries \/ ~Clean(mp)'
    PROVE  EachIsPart'
<1>1. SUFFICES ASSUME Clean(mp)', mp'.stage = "reading"
               PROVE  /\ Len(parts') + PartsBegun(mp)' = body'.boundaries
                      /\ \A i \in DOMAIN parts' : parts'[i].headers # << >> /\ parts'[i].sent # << >>
    BY DEF EachIsPart
<1>2. Clean(mp)
    BY <1>1, CleanBefore DEF Clean
<1> QED
    BY <1>1, <1>2 DEF EachIsPart

(* What every buffer that is read has in common.                           *)
BufferIsRead(line) ==
    /\ mp.stage = "reading" /\ UNCHANGED <<conf, told>>
    /\ body' \in [lines : Nat, afterFlaw : Nat, boundaries : Nat]
    /\ body'.boundaries = body.boundaries
                            + (IF AtLineStart /\ line.text = "boundary" THEN 1 ELSE 0)

LEMMA RefuseBoundaryKeeps ==
    ASSUME MultipartInv, NEW line \in BodyLines, BufferIsRead(line), RefuseBoundary(line)
    PROVE  MultipartInv'
<1>1. PICK m : m = AfterBuffer(mp, line)
    OBVIOUS
<1>2. mp \in ParserRecords /\ mp.stage = "reading"
    BY DEF MultipartInv, MultipartTypeOK, BufferIsRead
<1>3. Keeps(mp, m) /\ m \in ParserRecords /\ m.stage = "reading"
    BY <1>1, <1>2, AfterBufferKeeps DEF Keeps
<1>4. mp' = Ends0(Fails(Flag(m, "error"))) /\ UNCHANGED <<parts, tmpFiles>>
    BY <1>1 DEF RefuseBoundary
<1>5. /\ mp' \in ParserRecords /\ mp'.stage = "read" /\ ~Clean(mp')
      /\ mp.flags \subseteq mp'.flags
    BY <1>3, <1>4, EndsWithError DEF Keeps
<1>6. MultipartTypeOK'
    BY <1>4, <1>5 DEF MultipartInv, MultipartTypeOK, BufferIsRead
<1>7. PartIsOpen' /\ EachIsPart' /\ StoppedIsTold'
    BY <1>5 DEF PartIsOpen, EachIsPart, StoppedIsTold, Clean
<1>8. PartsWere'
    BY <1>4, <1>5, PartsStay DEF MultipartInv
<1> QED
    BY <1>2, <1>5, <1>6, <1>7, <1>8, ReadingKeeps DEF BufferIsRead

(* A line that is data or a header: the parser m knows what it is told.    *)
NotedLine(line, m) ==
    /\ Keeps(mp, m) /\ m.mpp = mp.mpp
    /\ AtLineStart /\ line.text = "boundary" => Strict(m.flags)

LEMMA NotedIsKnown ==
    ASSUME MultipartInv, NEW line \in BodyLines, ~(HoldsBoundary(line) /\ ~Misplaced(mp))
    PROVE  NotedLine(line, Noted(mp, line))
<1>1. mp \in ParserRecords
    BY DEF MultipartInv, MultipartTypeOK
<1>2. AtLineStart /\ line.text = "boundary" => HoldsBoundary(line)
    BY DEF HoldsBoundary
<1> QED
    BY <1>1, <1>2, NotedKeeps DEF NotedLine

LEMMA ParserStays ==
    ASSUME MultipartInv, NEW line \in BodyLines, BufferIsRead(line), NEW m, NotedLine(line, m),
           UNCHANGED parts, mp' \in ParserRecords, mp'.stage = "reading",
           m.flags \subseteq mp'.flags, m.error => mp'.error, PartsBegun(mp)' = PartsBegun(mp),
           tmpFiles' \in Seq(FileRecords), PartIsOpen', PartsWere'
    PROVE  MultipartInv'
<1>2. body'.boundaries = body.boundaries \/ ~Clean(mp)'
    <2>1. CASE AtLineStart /\ line.text = "boundary"
        <3>1. Strict(m.flags)
            BY <2>1 DEF NotedLine
        <3> QED
            BY <3>1 DEF Strict, Clean
    <2>2. CASE ~(AtLineStart /\ line.text = "boundary")
        BY <2>2 DEF BufferIsRead, MultipartInv, MultipartTypeOK
    <2> QED
        BY <2>1, <2>2
<1>3. EachIsPart'
    <2>1. body.boundaries \in Nat /\ EachIsPart /\ mp.stage = "reading"
        BY DEF MultipartInv, MultipartTypeOK, BufferIsRead
    <2>2. (mp.error => mp'.error) /\ mp.flags \subseteq mp'.flags
        BY DEF NotedLine, Keeps
    <2> QED
        BY <1>2, <2>1, <2>2, EachStays
<1>4. MultipartTypeOK'
    BY DEF MultipartInv, MultipartTypeOK, BufferIsRead
<1>5. StoppedIsTold'
    BY DEF StoppedIsTold
<1> QED
    BY <1>3, <1>4, <1>5, ReadingKeeps DEF BufferIsRead

LEMMA DataBeforeKeeps ==
    ASSUME MultipartInv, NEW line \in BodyLines, BufferIsRead(line), NEW m, NotedLine(line, m),
           m.mpp.type = "none", UNCHANGED <<parts, tmpFiles>>,
           mp' = AfterBuffer(Flag(m, "data_before"), line)
    PROVE  MultipartInv'
<1>1. m \in ParserRecords /\ mp.stage = "reading"
    BY DEF NotedLine, Keeps, BufferIsRead
<1>2. PICK f \in SUBSET MultipartFlags : f = {"data_before"}
    BY DEF MultipartFlags
<1>3. PICK n : n = [m EXCEPT !.flags = @ \cup f]
    OBVIOUS
<1>4. Keeps(m, n) /\ n.mpp = m.mpp /\ n \in ParserRecords
    BY <1>1, <1>3, FlagKeeps DEF Keeps
<1>5. mp' = AfterBuffer(n, line)
    BY <1>2, <1>3 DEF Flag
<1>6. Keeps(n, mp') /\ mp'.mpp = n.mpp
    BY <1>4, <1>5, AfterBufferKeeps
<1>7. /\ mp' \in ParserRecords /\ mp'.stage = "reading" /\ m.flags \subseteq mp'.flags
      /\ m.error => mp'.error
    BY <1>1, <1>4, <1>6 DEF Keeps, NotedLine
<1>8. mp'.mpp.type = "none" /\ PartsBegun(mp)' = PartsBegun(mp)
    BY <1>4, <1>6 DEF PartsBegun, NotedLine
<1>9. PartIsOpen' /\ tmpFiles' \in Seq(FileRecords)
    BY <1>8 DEF PartIsOpen, MultipartInv, MultipartTypeOK
<1>10. mp.flags \subseteq mp'.flags
    BY <1>7 DEF NotedLine, Keeps
<1>11. PartsWere'
    BY <1>10, PartsStay DEF MultipartInv
<1> QED
    BY <1>7, <1>8, <1>9, <1>11, ParserStays

(* A header.                                                               *)
LEMMA OpenIsTyped ==
    ASSUME MultipartInv, NEW line, BufferIsRead(line), NEW m, NotedLine(line, m),
           m.mpp.type # "none"
    PROVE  m \in ParserRecords /\ m.mpp \in PartRecords /\ m.stage = "reading" /\ OpenPart(m)
<1>1. m \in ParserRecords /\ m.stage = "reading"
    BY DEF NotedLine, Keeps, BufferIsRead
<1>2. m.mpp \in PartRecords
    BY <1>1 DEF ParserRecords, NoPart
<1>3. OpenPart(mp)
    BY DEF MultipartInv, PartIsOpen, BufferIsRead, NotedLine
<1> QED
    BY <1>1, <1>2, <1>3, OpenStays DEF NotedLine

LEMMA HeaderIsOpen ==
    ASSUME NEW m, OpenPart(m), m.state = "headers", NEW n, ReadsHeader(m, n)
    PROVE  OpenPart(n) /\ n \in ParserRecords /\ n.mpp \in PartRecords
<1>1. CASE Keeps(m, n) /\ SameData(m.mpp, n.mpp)
    <2>1. n.state = "headers" /\ n \in ParserRecords /\ n.mpp \in PartRecords
        BY <1>1 DEF Keeps, SameData
    <2>2. /\ n.count > 0 /\ n.seen /\ ~n.complete /\ ~n.dataRead /\ n.mpp.file = 0
          /\ n.mpp.size = 0 /\ n.mpp.sent = << >> /\ n.mpp.value = << >> /\ n.reserve = << >>
        BY <1>1 DEF Keeps, SameData, OpenPart
    <2>3. Held(n.mpp.value, n.reserve, n.mpp.sent)
        BY <2>2 DEF Held
    <2> QED
        BY <2>1, <2>2, <2>3 DEF OpenPart, FileHeld
<1>2. CASE Begins(m, n)
    <2>1. n.state = "data" /\ n \in ParserRecords /\ n.mpp \in PartRecords
        BY <1>2 DEF Begins
    <2>2. /\ n.count > 0 /\ n.seen /\ ~n.complete /\ ~n.dataRead /\ n.mpp.file = 0
          /\ n.mpp.size = 0 /\ n.mpp.sent = << >> /\ n.mpp.value = << >> /\ n.reserve = << >>
        BY <1>2 DEF Begins, OpenPart
    <2>3. Held(n.mpp.value, n.reserve, n.mpp.sent)
        BY <2>2 DEF Held
    <2>4. n.mpp.name /\ n.mpp.headers # << >>
        BY <1>2 DEF Begins
    <2> QED
        BY <2>1, <2>2, <2>3, <2>4 DEF OpenPart, FileHeld
<1> QED
    BY <1>1, <1>2 DEF ReadsHeader

(* The part goes on: the files are as before.                              *)
LEMMA PartGoesOn ==
    ASSUME MultipartInv, NEW line \in BodyLines, BufferIsRead(line), NEW m, NotedLine(line, m),
           m.mpp.type # "none", UNCHANGED <<parts, tmpFiles>>, NEW n, mp' = AfterBuffer(n, line),
           n \in ParserRecords, n.mpp \in PartRecords, n.stage = "reading", OpenPart(n),
           m.flags \subseteq n.flags, m.error => n.error
    PROVE  MultipartInv'
<1>1. Keeps(n, mp') /\ mp'.mpp = n.mpp
    BY AfterBufferKeeps
<1>2. PICK o : o = mp'
    OBVIOUS
<1>3. OpenPart(o)
    BY <1>1, <1>2, OpenStays
<1>4. OpenPart(mp)'
    BY <1>2, <1>3 DEF OpenPart, FileHeld, Extracts, BufferIsRead
<1>5. PartIsOpen' /\ tmpFiles' \in Seq(FileRecords)
    BY <1>4 DEF PartIsOpen, MultipartInv, MultipartTypeOK
<1>6. /\ mp' \in ParserRecords /\ mp'.stage = "reading" /\ m.flags \subseteq mp'.flags
      /\ m.error => mp'.error
    BY <1>1 DEF Keeps
<1>7. PartsBegun(mp)' = PartsBegun(mp)
    BY <1>1 DEF PartsBegun, NotedLine, PartRecords
<1>8. mp.flags \subseteq mp'.flags
    BY <1>6 DEF NotedLine, Keeps
<1>9. PartsWere'
    BY <1>8, PartsStay DEF MultipartInv
<1> QED
    BY <1>5, <1>6, <1>7, <1>9, ParserStays

LEMMA HeaderLineKeeps ==
    ASSUME MultipartInv, NEW line \in BodyLines, BufferIsRead(line), NEW m, NotedLine(line, m),
           m.mpp.type # "none", m.state = "headers", UNCHANGED <<parts, tmpFiles>>,
           mp' = AfterBuffer(process_part_header(m, line), line)
    PROVE  MultipartInv'
<1>1. m \in ParserRecords /\ m.mpp \in PartRecords /\ m.stage = "reading" /\ OpenPart(m)
    BY OpenIsTyped
<1>2. PICK n : n = process_part_header(m, line)
    OBVIOUS
<1>3. ReadsHeader(m, n)
    BY <1>1, <1>2, HeaderReads
<1>4. OpenPart(n) /\ n \in ParserRecords /\ n.mpp \in PartRecords
    BY <1>1, <1>3, HeaderIsOpen
<1>5. n.stage = "reading" /\ m.flags \subseteq n.flags /\ (m.error => n.error)
    BY <1>1, <1>3 DEF ReadsHeader, Keeps, Begins
<1> QED
    BY <1>2, <1>4, <1>5, PartGoesOn

(* A line of data.                                                         *)
LEMMA FormDataHolds ==
    ASSUME NEW m \in ParserRecords, m.mpp \in PartRecords, OpenPart(m), m.mpp.type = "form",
           m.state = "data", NEW line \in BodyLines
    PROVE  LET n == FormData(m, line)
           IN  /\ n \in ParserRecords /\ n.mpp \in PartRecords /\ OpenPart(n)
               /\ n.stage = m.stage /\ n.flags = m.flags /\ n.error = m.error
<1>1. /\ m.mpp.value \in Seq(DataPieces) /\ m.mpp.sent \in Seq(DataPieces)
      /\ m.reserve \in Seq(DataPieces) /\ m.mpp.size \in Nat /\ m.mpp.file \in Nat
      /\ m.noFiles \in Nat
    BY DEF PartRecords, ParserRecords
<1>2. Held(m.mpp.value, m.reserve, m.mpp.sent) /\ m.mpp.file = 0
    BY DEF OpenPart
<1>3. PICK reserve \in Seq(DataPieces) : reserve = LineEnd(line)
    BY <1>1, <1>2, HeldNext
<1>4. PICK sent \in Seq(DataPieces) : /\ sent = m.mpp.sent \o LineData(line) \o LineEnd(line)
                                      /\ sent # << >>
    <2>1. /\ m.mpp.sent \o LineData(line) \o LineEnd(line) \in Seq(DataPieces)
          /\ m.mpp.sent \o LineData(line) \o LineEnd(line) # << >>
        BY <1>1, <1>2, HeldNext
    <2> QED
        BY <2>1
<1>5. PICK value \in Seq(DataPieces) : value = m.mpp.value \o FormBytes(m, line)
    BY <1>1, <1>2, HeldNext DEF FormBytes
<1>6. Held(value, reserve, sent)
    BY <1>1, <1>2, <1>3, <1>4, <1>5, HeldNext DEF FormBytes
<1>7. PICK q : q = [m.mpp EXCEPT !.sent = sent, !.value = value]
    OBVIOUS
<1>8. PICK n : n = [m EXCEPT !.dataRead = TRUE, !.reserve = reserve, !.mpp = q]
    OBVIOUS
<1>9. /\ q \in PartRecords /\ q.sent = sent /\ q.value = value /\ q.file = m.mpp.file
      /\ q.type = m.mpp.type /\ q.name = m.mpp.name /\ q.headers = m.mpp.headers
      /\ n \in ParserRecords /\ n.mpp = q /\ n.reserve = reserve /\ n.dataRead
      /\ n.stage = m.stage /\ n.state = m.state /\ n.count = m.count /\ n.seen = m.seen
      /\ n.complete = m.complete /\ n.flags = m.flags /\ n.error = m.error
      /\ n.noFiles = m.noFiles
    <2>1. /\ q \in PartRecords /\ q.sent = sent /\ q.value = value /\ q.file = m.mpp.file
          /\ q.type = m.mpp.type /\ q.name = m.mpp.name /\ q.headers = m.mpp.headers
        BY <1>7 DEF PartRecords
    <2>2. /\ n \in ParserRecords /\ n.mpp = q /\ n.reserve = reserve /\ n.dataRead
          /\ n.stage = m.stage /\ n.state = m.state /\ n.count = m.count /\ n.seen = m.seen
          /\ n.complete = m.complete /\ n.flags = m.flags /\ n.error = m.error
          /\ n.noFiles = m.noFiles
        BY <1>8, <2>1 DEF ParserRecords
    <2> QED
        BY <2>1, <2>2
<1>10. PICK k \in Nat : k = n.noFiles + 1
    BY <1>1, <1>9
<1>11. PICK o : o = [n EXCEPT !.noFiles = k]
    OBVIOUS
<1>12. Keeps(n, o) /\ o.mpp = q /\ o.flags = n.flags /\ o.error = n.error
    BY ONLY <1>9, <1>10, <1>11, k \in Nat DEF Keeps, ParserRecords
<1>13. o = FormData(m, line)
    <2>1. PICK r : r = [m.mpp EXCEPT !.sent = sent]
        OBVIOUS
    <2>2. PICK s : s = [m EXCEPT !.dataRead = TRUE, !.reserve = reserve, !.mpp = r]
        OBVIOUS
    <2>3. s = Sent(m, line)
        BY <1>3, <1>4, <2>1, <2>2 DEF Sent, ParserRecords
    <2>4. r.value = m.mpp.value /\ q = [r EXCEPT !.value = value]
        BY <1>7, <2>1 DEF PartRecords
    <2>5. s.mpp = r /\ s.noFiles = m.noFiles
        BY <2>2 DEF ParserRecords
    <2>6. FormData(m, line) = [s EXCEPT !.mpp.value = @ \o FormBytes(m, line), !.noFiles = @ + 1]
        BY <2>3 DEF FormData
    <2>7. FormData(m, line) = [s EXCEPT !.mpp = q, !.noFiles = k]
        BY <1>5, <1>9, <1>10, <2>2, <2>4, <2>5, <2>6 DEF ParserRecords
    <2> QED
        BY <1>8, <1>11, <2>2, <2>7 DEF ParserRecords
<1>14. OpenPart(n)
    BY <1>2, <1>4, <1>6, <1>9 DEF OpenPart
<1>15. OpenPart(o)
    BY <1>9, <1>12, <1>14, OpenStays
<1> QED
    BY <1>9, <1>12, <1>13, <1>15 DEF Keeps

LEMMA FormLineKeeps ==
    ASSUME MultipartInv, NEW line \in BodyLines, BufferIsRead(line), NEW m, NotedLine(line, m),
           m.mpp.type = "form", m.state = "data", UNCHANGED <<parts, tmpFiles>>,
           mp' = AfterBuffer(FormData(m, line), line)
    PROVE  MultipartInv'
<1>1. m \in ParserRecords /\ m.mpp \in PartRecords /\ m.stage = "reading" /\ OpenPart(m)
    BY OpenIsTyped
<1>2. PICK n : n = FormData(m, line)
    OBVIOUS
<1>3. /\ n \in ParserRecords /\ n.mpp \in PartRecords /\ OpenPart(n)
      /\ n.stage = m.stage /\ n.flags = m.flags /\ n.error = m.error
    BY <1>1, <1>2, FormDataHolds
<1> QED
    BY <1>1, <1>2, <1>3, PartGoesOn

LEMMA LineFailsKeeps ==
    ASSUME MultipartInv, NEW line \in BodyLines, BufferIsRead(line), NEW m, NotedLine(line, m),
           UNCHANGED parts, NEW n \in ParserRecords, n.stage = "reading", m.flags \subseteq n.flags,
           mp' = Ends0(Fails(Flag(n, "error"))), tmpFiles' \in Seq(FileRecords),
           \A f \in DOMAIN tmpFiles : f \in DOMAIN tmpFiles' ,
           \A i \in DOMAIN parts : parts[i].file # 0 =>
               tmpFiles'[parts[i].file].content = tmpFiles[parts[i].file].content
    PROVE  MultipartInv'
<1>1. /\ mp' \in ParserRecords /\ mp'.stage = "read" /\ ~Clean(mp')
      /\ n.flags \subseteq mp'.flags
    BY EndsWithError
<1>2. mp.flags \subseteq mp'.flags
    BY <1>1 DEF NotedLine, Keeps
<1>3. MultipartTypeOK'
    BY <1>1 DEF MultipartInv, MultipartTypeOK, BufferIsRead
<1>4. PartIsOpen' /\ EachIsPart' /\ StoppedIsTold'
    BY <1>1 DEF PartIsOpen, EachIsPart, StoppedIsTold, Clean
<1>5. PartsWere'
    BY <1>2, PartsStay DEF MultipartInv
<1> QED
    BY <1>1, <1>3, <1>4, <1>5, ReadingKeeps DEF BufferIsRead

-----------------------------------------------------------------------------
(* A line of a file.                                                       *)
LEMMA EmptyIsSequence == \A S : << >> \in Seq(S)
OBVIOUS

LEMMA LineBytes ==
    ASSUME NEW line \in BodyLines, NEW sent \in Seq(DataPieces)
    PROVE  /\ LineData(line) \in Seq(DataPieces) /\ LineEnd(line) \in Seq(DataPieces)
           /\ sent \o LineData(line) \o LineEnd(line) \in Seq(DataPieces)
           /\ sent \o LineData(line) \o LineEnd(line) # << >>
<1>1. PICK none \in Seq(DataPieces) : none = << >>
    BY EmptyIsSequence
<1>2. none \o none = none /\ Held(none, none, none)
    BY <1>1 DEF Held
<1>3. PICK data \in Seq(DataPieces) : data = LineData(line)
    BY <1>2, HeldNext
<1>4. PICK end \in Seq(DataPieces) : end = LineEnd(line)
    BY <1>2, HeldNext
<1>5. none \o data \o end # << >>
    BY <1>2, <1>3, <1>4, HeldNext
<1>6. Len(data) # 0 \/ Len(end) # 0
    BY <1>1, <1>5
<1>7. sent \o data \o end \in Seq(DataPieces) /\ Len(sent \o data \o end) = Len(sent) + Len(data) + Len(end)
    BY <1>3, <1>4
<1>8. sent \o data \o end # << >>
    BY <1>6, <1>7
<1> QED
    BY <1>3, <1>4, <1>7, <1>8

LEMMA FileReplaced ==
    ASSUME NEW s \in Seq(FileRecords), NEW f \in DOMAIN s, NEW r \in FileRecords
    PROVE  /\ [s EXCEPT ![f] = r] \in Seq(FileRecords) /\ DOMAIN [s EXCEPT ![f] = r] = DOMAIN s
           /\ [s EXCEPT ![f] = r][f] = r
           /\ \A g \in DOMAIN s : g # f => [s EXCEPT ![f] = r][g] = s[g]
OBVIOUS

(* The file of a part, made when its first data comes.                     *)
FileNumber(m) == IF m.mpp.file = 0 THEN Len(tmpFiles) + 1 ELSE m.mpp.file

FilesMade(m, opened) ==
    IF m.mpp.file = 0 THEN Append(tmpFiles, [open |-> opened, content |-> << >>,
                                             delete |-> FALSE, onDisk |-> opened])
    ELSE tmpFiles

LEMMA FileIsMade ==
    ASSUME MultipartInv, NEW m, m.mpp \in PartRecords, OpenPart(m), NEW opened \in BOOLEAN,
           NEW f, f = FileNumber(m), NEW made, made = FilesMade(m, opened)
    PROVE  /\ made \in Seq(FileRecords) /\ f \in Nat /\ f # 0 /\ f \in DOMAIN made
           /\ \A g \in DOMAIN tmpFiles : g \in DOMAIN made /\ made[g] = tmpFiles[g]
           /\ \A i \in DOMAIN parts : parts[i].file # f
           /\ made[f].content = IF m.mpp.file = 0 THEN << >> ELSE tmpFiles[m.mpp.file].content
<1>1. tmpFiles \in Seq(FileRecords) /\ m.mpp.file \in Nat
    BY DEF MultipartInv, MultipartTypeOK, PartRecords
<1>2. \A i \in DOMAIN parts : parts[i].file = 0 \/ parts[i].file \in DOMAIN tmpFiles
    BY DEF MultipartInv, PartsWere, PartIsWhole
<1>3. CASE m.mpp.file = 0
    <2>1. PICK r \in FileRecords : r = [open |-> opened, content |-> << >>, delete |-> FALSE,
                                        onDisk |-> opened]
        <3>1. PICK none \in Seq(DataPieces) : none = << >>
            BY EmptyIsSequence
        <3> QED
            BY <3>1 DEF FileRecords
    <2>2. made = Append(tmpFiles, r) /\ f = Len(tmpFiles) + 1
        BY <1>3, <2>1 DEF FilesMade, FileNumber
    <2>3. /\ made \in Seq(FileRecords) /\ DOMAIN made = 1..(Len(tmpFiles) + 1)
          /\ DOMAIN tmpFiles = 1..Len(tmpFiles) /\ Len(tmpFiles) \in Nat
          /\ \A g \in DOMAIN tmpFiles : made[g] = tmpFiles[g]
          /\ made[Len(tmpFiles) + 1] = r
        BY <1>1, <2>2, AppendedFacts
    <2>4. f \in Nat /\ f # 0 /\ f \in DOMAIN made /\ f \notin DOMAIN tmpFiles
        BY <2>2, <2>3
    <2>5. made[f].content = << >>
        BY <2>1, <2>2, <2>3
    <2>6. \A g \in DOMAIN tmpFiles : g \in DOMAIN made /\ made[g] = tmpFiles[g]
        BY <2>3
    <2> QED
        BY <1>2, <1>3, <2>3, <2>4, <2>5, <2>6
<1>4. CASE m.mpp.file # 0
    <2>1. f = m.mpp.file /\ made = tmpFiles
        BY <1>4 DEF FilesMade, FileNumber
    <2>2. f \in DOMAIN tmpFiles /\ \A i \in DOMAIN parts : parts[i].file # f
        BY <1>4, <2>1 DEF OpenPart
    <2> QED
        BY <1>1, <1>4, <2>1, <2>2
<1> QED
    BY <1>3, <1>4

LEMMA FileIsHeld ==
    ASSUME NEW m, m.mpp \in PartRecords, OpenPart(m),
           m.mpp.type = "file", m.state = "data", Extracts, FileExceeded \notin m.flags
    PROVE  /\ m.mpp.file = 0 => Held(<< >>, m.reserve, m.mpp.sent) /\ m.mpp.size = 0
           /\ m.mpp.file # 0 =>
                 /\ Held(tmpFiles[m.mpp.file].content, m.reserve, m.mpp.sent)
                 /\ m.mpp.size = Len(tmpFiles[m.mpp.file].content)
<1>1. << >> \o << >> = << >>
    OBVIOUS
<1> QED
    BY <1>1 DEF OpenPart, FileHeld, Held

(* The data is only counted.                                               *)
LEMMA CountedOnlyKeeps ==
    ASSUME MultipartInv, NEW line \in BodyLines, BufferIsRead(line), NEW m, NotedLine(line, m),
           m.mpp.type = "file", m.state = "data", UNCHANGED <<parts, tmpFiles>>, NEW n, Keeps(m, n),
           n.mpp = m.mpp, FileExceeded \in n.flags \/ ~Extracts,
           mp' = [Sent(n, line) EXCEPT !.mpp.size = @ + Len(FileBytes(m, line))]
    PROVE  MultipartInv'
<1>1. m \in ParserRecords /\ m.mpp \in PartRecords /\ m.stage = "reading" /\ OpenPart(m)
    BY OpenIsTyped
<1>2. n \in ParserRecords /\ n.mpp \in PartRecords /\ n.stage = "reading" /\ OpenPart(n)
    BY <1>1, OpenStays DEF Keeps
<1>3. PICK reserve \in Seq(DataPieces) : reserve = LineEnd(line)
    BY <1>1, LineBytes DEF PartRecords
<1>4. PICK sent \in Seq(DataPieces) : /\ sent = n.mpp.sent \o LineData(line) \o LineEnd(line)
                                      /\ sent # << >>
    <2>1. n.mpp.sent \in Seq(DataPieces)
        BY <1>2 DEF PartRecords
    <2> QED
        BY <2>1, LineBytes
<1>5. PICK size \in Nat : size = n.mpp.size + Len(FileBytes(m, line))
    <2>1. n.mpp.size \in Nat /\ n.mpp.sent \in Seq(DataPieces) /\ m.reserve \in Seq(DataPieces)
        BY <1>1, <1>2 DEF PartRecords, ParserRecords
    <2>2. LineData(line) \in Seq(DataPieces)
        BY <2>1, LineBytes
    <2>3. FileBytes(m, line) \in Seq(DataPieces)
        BY <2>1, <2>2, ConcatFacts DEF FileBytes
    <2> QED
        BY <2>1, <2>3
<1>6. PICK r : r = [n.mpp EXCEPT !.sent = sent]
    OBVIOUS
<1>7. PICK s : s = [n EXCEPT !.dataRead = TRUE, !.reserve = reserve, !.mpp = r]
    OBVIOUS
<1>8. s = Sent(n, line)
    BY <1>2, <1>3, <1>4, <1>6, <1>7 DEF Sent, ParserRecords
<1>9. PICK q : q = [r EXCEPT !.size = size]
    OBVIOUS
<1>10. /\ r.size = n.mpp.size /\ r \in PartRecords
    BY <1>2, <1>6 DEF PartRecords
<1>11. /\ q \in PartRecords /\ q.sent = sent /\ q.type = n.mpp.type /\ q.file = n.mpp.file
       /\ q.name = n.mpp.name /\ q.headers = n.mpp.headers
    BY <1>2, <1>6, <1>9, <1>10 DEF PartRecords
<1>12. s.mpp = r
    BY <1>2, <1>7 DEF ParserRecords
<1>13. PICK o : o = [s EXCEPT !.mpp = q]
    OBVIOUS
<1>14. mp' = o
    BY <1>5, <1>8, <1>9, <1>10, <1>12, <1>13
<1>15. /\ o \in ParserRecords /\ o.mpp = q /\ o.reserve = reserve /\ o.dataRead
       /\ o.stage = n.stage /\ o.state = n.state /\ o.count = n.count /\ o.seen = n.seen
       /\ o.complete = n.complete /\ o.flags = n.flags /\ o.error = n.error
    BY <1>2, <1>7, <1>11, <1>13 DEF ParserRecords
<1>16. OpenPart(o)
    <2>1. n.mpp.type = "file" /\ n.state = "data"
        BY DEF Keeps
    <2>2. FileHeld(q, reserve, o.flags)
        BY <1>2, <1>11, <1>15 DEF OpenPart, FileHeld
    <2> QED
        BY <1>2, <1>4, <1>11, <1>15, <2>1, <2>2 DEF OpenPart
<1>17. OpenPart(mp)'
    BY <1>14, <1>16 DEF OpenPart, FileHeld, Extracts, BufferIsRead
<1>18. PartIsOpen' /\ tmpFiles' \in Seq(FileRecords)
    BY <1>17 DEF PartIsOpen, MultipartInv, MultipartTypeOK
<1>19. /\ mp' \in ParserRecords /\ mp'.stage = "reading" /\ m.flags \subseteq mp'.flags
       /\ (m.error => mp'.error) /\ mp.flags \subseteq mp'.flags
    BY <1>2, <1>14, <1>15 DEF Keeps, NotedLine
<1>20. PartsBegun(mp)' = PartsBegun(mp)
    BY <1>11, <1>14, <1>15 DEF PartsBegun, NotedLine
<1>21. PartsWere'
    BY <1>19, PartsStay DEF MultipartInv
<1> QED
    BY <1>18, <1>19, <1>20, <1>21, ParserStays

(* No file, or nothing is written: the parser stops.                       *)
LEMMA FileFailsKeeps ==
    ASSUME MultipartInv, NEW line \in BodyLines, BufferIsRead(line), NEW m, NotedLine(line, m),
           m.mpp.type = "file", UNCHANGED parts, NEW opened \in BOOLEAN, NEW k \in Nat,
           NEW f, f = FileNumber(m), tmpFiles' = FilesMade(m, opened),
           NEW n, n = [m EXCEPT !.mpp.file = f, !.dataRead = TRUE, !.nfiles = k],
           mp' = Ends0(Fails(Flag(n, "error")))
    PROVE  MultipartInv'
<1>1. m \in ParserRecords /\ m.mpp \in PartRecords /\ m.stage = "reading" /\ OpenPart(m)
    BY OpenIsTyped
<1>2. /\ tmpFiles' \in Seq(FileRecords) /\ f \in Nat
      /\ \A g \in DOMAIN tmpFiles : g \in DOMAIN tmpFiles' /\ tmpFiles'[g] = tmpFiles[g]
    <2>1. PICK made : made = FilesMade(m, opened) /\ made = tmpFiles'
        OBVIOUS
    <2>2. /\ made \in Seq(FileRecords) /\ f \in Nat
          /\ \A g \in DOMAIN tmpFiles : g \in DOMAIN made /\ made[g] = tmpFiles[g]
        BY <1>1, <2>1, FileIsMade
    <2> QED
        BY <2>1, <2>2
<1>3. PICK q : q = [m.mpp EXCEPT !.file = f]
    OBVIOUS
<1>4. q \in PartRecords
    BY <1>1, <1>2, <1>3 DEF PartRecords
<1>5. n = [m EXCEPT !.mpp = q, !.dataRead = TRUE, !.nfiles = k]
    BY <1>1, <1>3 DEF ParserRecords
<1>6. n \in ParserRecords /\ n.stage = "reading" /\ m.flags \subseteq n.flags
    BY <1>1, <1>4, <1>5 DEF ParserRecords
<1>7. \A i \in DOMAIN parts : parts[i].file # 0 =>
          tmpFiles'[parts[i].file].content = tmpFiles[parts[i].file].content
    BY <1>2 DEF MultipartInv, PartsWere, PartIsWhole
<1> QED
    BY <1>2, <1>6, <1>7, LineFailsKeeps

(* The data is written.                                                    *)
FileWritten(m, line, f, made, k) ==
    /\ tmpFiles' = [made EXCEPT ![f].content = @ \o FileBytes(m, line)]
    /\ mp' = [[Sent(m, line) EXCEPT !.mpp.file = f, !.nfiles = k]
                 EXCEPT !.mpp.value = @ \o LineData(line),
                        !.mpp.size = @ + Len(FileBytes(m, line))]

LEMMA FileWrittenKeeps ==
    ASSUME MultipartInv, NEW line \in BodyLines, BufferIsRead(line), NEW m, NotedLine(line, m),
           m.mpp.type = "file", m.state = "data", UNCHANGED parts, Extracts,
           NEW f, f = FileNumber(m), NEW made, made = FilesMade(m, TRUE),
           NEW k \in Nat, FileWritten(m, line, f, made, k)
    PROVE  MultipartInv'
<1>1. m \in ParserRecords /\ m.mpp \in PartRecords /\ m.stage = "reading" /\ OpenPart(m)
    BY OpenIsTyped
<1>2. /\ made \in Seq(FileRecords) /\ f \in Nat /\ f # 0 /\ f \in DOMAIN made
      /\ \A g \in DOMAIN tmpFiles : g \in DOMAIN made /\ made[g] = tmpFiles[g]
      /\ \A i \in DOMAIN parts : parts[i].file # f
      /\ made[f].content = IF m.mpp.file = 0 THEN << >> ELSE tmpFiles[m.mpp.file].content
    <2>1. PICK yes \in BOOLEAN : yes = TRUE
        OBVIOUS
    <2>2. made = FilesMade(m, yes)
        BY <2>1
    <2> QED
        BY ONLY MultipartInv, <1>1, f = FileNumber(m), <2>2, yes \in BOOLEAN, FileIsMade
<1>3. PICK content \in Seq(DataPieces) : content = made[f].content /\ made[f] \in FileRecords
    <2>1. made[f] \in FileRecords
        BY <1>2, SequenceFacts
    <2> QED
        BY <2>1 DEF FileRecords
<1>4. /\ m.mpp.sent \in Seq(DataPieces) /\ m.reserve \in Seq(DataPieces)
      /\ m.mpp.value \in Seq(DataPieces) /\ m.mpp.size \in Nat
    BY <1>1 DEF PartRecords, ParserRecords
<1>5. PICK data \in Seq(DataPieces) : data = LineData(line)
    BY <1>4, LineBytes
<1>6. PICK reserve \in Seq(DataPieces) : reserve = LineEnd(line)
    BY <1>4, LineBytes
<1>7. PICK sent \in Seq(DataPieces) : sent = m.mpp.sent \o LineData(line) \o LineEnd(line)
                                      /\ sent # << >>
    BY <1>4, LineBytes
<1>8. PICK bytes \in Seq(DataPieces) : bytes = FileBytes(m, line)
    BY <1>4, <1>5, ConcatFacts DEF FileBytes
<1>9. PICK value \in Seq(DataPieces) : value = m.mpp.value \o data
    BY <1>4, <1>5, ConcatFacts
<1>10. PICK size \in Nat : size = m.mpp.size + Len(bytes)
    <2>1. Len(bytes) \in Nat
        BY ONLY bytes \in Seq(DataPieces)
    <2> QED
        BY <1>4, <2>1
<1>11. PICK kept \in Seq(DataPieces) : /\ kept = content \o bytes
                                          /\ Len(kept) = Len(content) + Len(bytes)
    <2>1. /\ content \o bytes \in Seq(DataPieces)
          /\ Len(content \o bytes) = Len(content) + Len(bytes)
        BY ONLY content \in Seq(DataPieces), bytes \in Seq(DataPieces), ConcatFacts
    <2> QED
        BY <2>1
<1>12. FileExceeded \notin m.flags => Held(kept, reserve, sent) /\ size = Len(kept)
    <2>1. SUFFICES ASSUME FileExceeded \notin m.flags
                   PROVE  Held(kept, reserve, sent) /\ size = Len(kept)
        OBVIOUS
    <2>2. Held(content, m.reserve, m.mpp.sent) /\ m.mpp.size = Len(content)
        <3>1. CASE m.mpp.file = 0
            <4>1. content = << >>
                BY <1>2, <1>3, <3>1
            <4>2. Held(<< >>, m.reserve, m.mpp.sent) /\ m.mpp.size = 0
                BY <1>1, <2>1, <3>1, FileIsHeld
            <4> QED
                BY <4>1, <4>2
        <3>2. CASE m.mpp.file # 0
            BY <1>1, <1>2, <1>3, <2>1, <3>2, FileIsHeld
        <3> QED
            BY <3>1, <3>2
    <2>3. Held(content \o (m.reserve \o LineData(line)), LineEnd(line),
               m.mpp.sent \o LineData(line) \o LineEnd(line))
        BY <1>4, <2>2, HeldNext
    <2>4. Held(kept, reserve, sent)
        BY <1>6, <1>7, <1>8, <1>11, <2>3 DEF FileBytes
    <2> QED
        BY <1>10, <1>11, <2>2, <2>4
<1>13. PICK r : r = [made[f] EXCEPT !.content = kept]
    OBVIOUS
<1>14. r \in FileRecords /\ r.content = kept
    BY <1>3, <1>13 DEF FileRecords
<1>15. tmpFiles' = [made EXCEPT ![f] = r]
    BY <1>3, <1>8, <1>11, <1>13 DEF FileWritten
<1>16. /\ tmpFiles' \in Seq(FileRecords) /\ DOMAIN tmpFiles' = DOMAIN made
       /\ tmpFiles'[f] = r
       /\ \A g \in DOMAIN made : g # f => tmpFiles'[g] = made[g]
    <2>1. PICK t : t = [made EXCEPT ![f] = r] /\ t = tmpFiles'
        BY <1>15
    <2>2. /\ t \in Seq(FileRecords) /\ DOMAIN t = DOMAIN made /\ t[f] = r
          /\ \A g \in DOMAIN made : g # f => t[g] = made[g]
        BY ONLY <1>2, <1>14, <2>1, FileReplaced
    <2> QED
        BY <2>1, <2>2
<1>17. PICK p : p = [m.mpp EXCEPT !.sent = sent]
    OBVIOUS
<1>18. PICK s : s = [m EXCEPT !.dataRead = TRUE, !.reserve = reserve, !.mpp = p]
    OBVIOUS
<1>19. s = Sent(m, line)
    BY <1>1, <1>6, <1>7, <1>17, <1>18 DEF Sent, ParserRecords
<1>20. PICK q : q = [p EXCEPT !.file = f]
    OBVIOUS
<1>21. PICK t : t = [s EXCEPT !.mpp = q, !.nfiles = k]
    OBVIOUS
<1>22. PICK u : u = [q EXCEPT !.value = value, !.size = size]
    OBVIOUS
<1>23. PICK o : o = [t EXCEPT !.mpp = u]
    OBVIOUS
<1>24. /\ p \in PartRecords /\ p.value = m.mpp.value /\ p.size = m.mpp.size /\ p.sent = sent
       /\ p.type = m.mpp.type /\ p.name = m.mpp.name /\ p.headers = m.mpp.headers
    BY <1>1, <1>17 DEF PartRecords
<1>25. /\ q \in PartRecords /\ q.value = m.mpp.value /\ q.size = m.mpp.size /\ q.sent = sent
       /\ q.type = m.mpp.type /\ q.name = m.mpp.name /\ q.headers = m.mpp.headers
       /\ q.file = f
    BY <1>2, <1>20, <1>24 DEF PartRecords
<1>26. /\ u \in PartRecords /\ u.sent = sent /\ u.type = m.mpp.type /\ u.name = m.mpp.name
       /\ u.headers = m.mpp.headers /\ u.file = f /\ u.size = size
    BY <1>22, <1>25 DEF PartRecords
<1>27. /\ s \in ParserRecords /\ s.mpp = p /\ s.reserve = reserve /\ s.dataRead
       /\ s.stage = m.stage /\ s.state = m.state /\ s.count = m.count /\ s.seen = m.seen
       /\ s.complete = m.complete /\ s.flags = m.flags /\ s.error = m.error
    BY <1>1, <1>18, <1>24 DEF ParserRecords
<1>28. /\ t \in ParserRecords /\ t.mpp = q /\ t.reserve = reserve /\ t.dataRead
       /\ t.stage = m.stage /\ t.state = m.state /\ t.count = m.count /\ t.seen = m.seen
       /\ t.complete = m.complete /\ t.flags = m.flags /\ t.error = m.error
    BY <1>21, <1>25, <1>27 DEF ParserRecords
<1>29. t = [Sent(m, line) EXCEPT !.mpp.file = f, !.nfiles = k]
    BY <1>19, <1>20, <1>21, <1>27 DEF ParserRecords
<1>30. mp' = o
    <2>1. mp' = [t EXCEPT !.mpp.value = @ \o data, !.mpp.size = @ + Len(bytes)]
        BY <1>5, <1>8, <1>29 DEF FileWritten
    <2>2. q.value \o data = value /\ q.size + Len(bytes) = size
        BY <1>9, <1>10, <1>25
    <2> QED
        BY <1>22, <1>23, <1>28, <2>1, <2>2 DEF ParserRecords, PartRecords
<1>31. /\ o \in ParserRecords /\ o.mpp = u /\ o.reserve = reserve /\ o.dataRead
       /\ o.stage = m.stage /\ o.state = m.state /\ o.count = m.count /\ o.seen = m.seen
       /\ o.complete = m.complete /\ o.flags = m.flags /\ o.error = m.error
    BY <1>23, <1>26, <1>28 DEF ParserRecords
<1>32. Extracts' /\ UNCHANGED conf
    BY DEF Extracts, BufferIsRead
<1>33. FileHeld(mp.mpp, mp.reserve, mp.flags)'
    <2>1. /\ mp'.mpp = u /\ mp'.reserve = reserve /\ mp'.flags = m.flags
          /\ u.file = f /\ u.size = size /\ u.sent = sent
        BY <1>26, <1>30, <1>31
    <2>2. tmpFiles'[f].content = kept
        BY <1>14, <1>16
    <2>3. CASE FileExceeded \in m.flags
        BY <2>1, <2>3 DEF FileHeld
    <2>4. CASE FileExceeded \notin m.flags
        <3>1. Held(kept, reserve, sent) /\ size = Len(kept) /\ f # 0
            BY <1>2, <1>12, <2>4
        <3>2. Held(tmpFiles'[f].content, mp'.reserve, mp'.mpp.sent)
            BY <2>1, <2>2, <3>1
        <3> QED
            BY <2>1, <2>2, <3>1, <3>2 DEF FileHeld
    <2> QED
        BY <2>3, <2>4
<1>34. PartIsOpen'
    <2>1. f \in DOMAIN tmpFiles' /\ \A i \in DOMAIN parts' : parts'[i].file # f
        BY <1>2, <1>16
    <2>2. /\ o.count > 0 /\ o.seen /\ ~o.complete /\ o.state = "data" /\ o.dataRead
          /\ o.mpp.name /\ o.mpp.headers # << >> /\ o.mpp.sent # << >>
          /\ o.mpp.type = "file" /\ o.mpp.file = f
        BY <1>1, <1>7, <1>26, <1>31 DEF OpenPart
    <2>3. OpenPart(mp)'
        BY ONLY <1>30, <1>32, <1>33, <2>1, <2>2 DEF OpenPart
    <2> QED
        BY <2>3 DEF PartIsOpen
<1>35. /\ mp' \in ParserRecords /\ mp'.stage = "reading" /\ m.flags \subseteq mp'.flags
       /\ (m.error => mp'.error) /\ mp.flags \subseteq mp'.flags
    BY <1>1, <1>30, <1>31 DEF Keeps, NotedLine
<1>36. PartsBegun(mp)' = PartsBegun(mp)
    BY <1>26, <1>30, <1>31 DEF PartsBegun, NotedLine
<1>37. PartsWere'
    <2>1. \A g \in DOMAIN tmpFiles : g \in DOMAIN tmpFiles'
        BY <1>2, <1>16
    <2>2. ASSUME NEW i \in DOMAIN parts, parts[i].file # 0
          PROVE  tmpFiles'[parts[i].file].content = tmpFiles[parts[i].file].content
        <3>1. parts[i].file \in DOMAIN tmpFiles
            BY <2>2 DEF MultipartInv, PartsWere, PartIsWhole
        <3> QED
            BY <1>2, <1>16, <3>1
    <2> QED
        BY <1>35, <2>1, <2>2, PartsStay DEF MultipartInv
<1> QED
    BY <1>16, <1>34, <1>35, <1>36, <1>37, ParserStays

LEMMA NotedThenBuffer ==
    ASSUME MultipartInv, NEW line \in BodyLines, NEW m, NotedLine(line, m)
    PROVE  NotedLine(line, AfterBuffer(m, line))
<1>1. m \in ParserRecords
    BY DEF NotedLine, Keeps
<1>2. PICK n : n = AfterBuffer(m, line)
    OBVIOUS
<1>3. Keeps(m, n) /\ n.mpp = m.mpp /\ n.flags = m.flags
    BY <1>1, <1>2, AfterBufferKeeps
<1>4. Keeps(mp, n) /\ n.mpp = mp.mpp
    BY <1>3, KeepsAll DEF NotedLine
<1> QED
    BY <1>2, <1>3, <1>4 DEF NotedLine

LEMMA FileLineKeeps ==
    ASSUME MultipartInv, NEW line \in BodyLines, BufferIsRead(line), NEW m, NotedLine(line, m),
           m.mpp.type = "file", m.state = "data", UNCHANGED parts, NEW fault,
           FileData(m, line, fault)
    PROVE  MultipartInv'
<1>1. m \in ParserRecords /\ m.mpp \in PartRecords /\ m.stage = "reading" /\ OpenPart(m)
    BY OpenIsTyped
<1>2. PICK f : f = FileNumber(m)
    OBVIOUS
<1>3. PICK opened \in BOOLEAN : opened = (fault # "open")
    OBVIOUS
<1>4. PICK made : made = FilesMade(m, opened)
    OBVIOUS
<1>5. PICK more \in SUBSET MultipartFlags : more = {FileExceeded}
    BY DEF MultipartFlags, FileExceeded
<1>6. PICK o : o = [m EXCEPT !.flags = @ \cup more]
    OBVIOUS
<1>7. Keeps(m, o) /\ o.mpp = m.mpp /\ o \in ParserRecords /\ o.flags = m.flags \cup more
    BY <1>1, <1>6, FlagKeeps DEF Keeps
<1>8. PICK e : e = Fails(o)
    OBVIOUS
<1>9. Keeps(m, e) /\ e.mpp = m.mpp /\ FileExceeded \in e.flags
    BY <1>5, <1>7, <1>8, FailsKeeps, KeepsAll
<1>10. e = Fails(Flag(m, "file_limit_exceeded"))
    BY <1>5, <1>6, <1>8 DEF Flag, FileExceeded
<1>11. PICK k \in Nat : k = IF m.mpp.file = 0 THEN m.nfiles + 1 ELSE m.nfiles
    <2>1. m.nfiles \in Nat
        BY <1>1 DEF ParserRecords
    <2> QED
        BY <2>1
<1>12. CASE Extracts /\ LimitReached(m)
    <2>1. /\ mp' = [Sent(e, line) EXCEPT !.mpp.size = @ + Len(FileBytes(m, line))]
          /\ UNCHANGED tmpFiles
        BY <1>10, <1>12 DEF FileData
    <2> QED
        BY <1>9, <2>1, CountedOnlyKeeps
<1>13. CASE ~Extracts
    <2>1. /\ mp' = [Sent(m, line) EXCEPT !.mpp.size = @ + Len(FileBytes(m, line))]
          /\ UNCHANGED tmpFiles
        BY <1>13 DEF FileData
    <2>2. Keeps(m, m)
        BY <1>1 DEF Keeps
    <2> QED
        BY <1>13, <2>1, <2>2, CountedOnlyKeeps
<1>14. CASE Extracts /\ ~LimitReached(m) /\ m.mpp.file = 0 /\ fault = "open"
    <2>1. /\ mp' = Ends0(Fails(Flag([m EXCEPT !.mpp.file = f, !.dataRead = TRUE], "error")))
          /\ tmpFiles' = FilesMade(m, opened)
        BY <1>2, <1>3, <1>14 DEF FileData, FileNumber, FilesMade
    <2>2. PICK j \in Nat : j = m.nfiles
        BY <1>1 DEF ParserRecords
    <2>3. PICK n : n = [m EXCEPT !.mpp.file = f, !.dataRead = TRUE, !.nfiles = j]
        OBVIOUS
    <2>4. n = [m EXCEPT !.mpp.file = f, !.dataRead = TRUE]
        BY <1>1, <2>2, <2>3 DEF ParserRecords
    <2>5. mp' = Ends0(Fails(Flag(n, "error")))
        BY <2>1, <2>4
    <2> QED
        BY ONLY MultipartInv, line \in BodyLines, BufferIsRead(line), NotedLine(line, m),
                m.mpp.type = "file", UNCHANGED parts, opened \in BOOLEAN, j \in Nat, <1>2,
                <2>1, <2>3, <2>5, FileFailsKeeps
<1>15. PICK s : s = Sent(m, line) /\ s.nfiles = m.nfiles
    <2>1. Sent(m, line).nfiles = m.nfiles
        BY <1>1 DEF Sent, ParserRecords
    <2> QED
        BY <2>1
<1>16. PICK c : c = [s EXCEPT !.mpp.file = f, !.nfiles = k]
    OBVIOUS
<1>17. c = [s EXCEPT !.mpp.file = f, !.nfiles = IF m.mpp.file = 0 THEN @ + 1 ELSE @]
    BY <1>11, <1>15, <1>16
<1>18. CASE /\ Extracts /\ ~LimitReached(m) /\ fault = "write"
    <2>1. /\ mp' = Ends0(Fails(Flag([m EXCEPT !.mpp.file = f, !.dataRead = TRUE,
                                              !.nfiles = c.nfiles], "error")))
          /\ tmpFiles' = FilesMade(m, opened)
        BY <1>2, <1>3, <1>15, <1>17, <1>18 DEF FileData, FileNumber, FilesMade
    <2>2. c.nfiles = k
        BY <1>1, <1>15, <1>16 DEF ParserRecords, Sent
    <2>3. PICK n : n = [m EXCEPT !.mpp.file = f, !.dataRead = TRUE, !.nfiles = k]
        OBVIOUS
    <2>4. mp' = Ends0(Fails(Flag(n, "error")))
        BY <2>1, <2>2, <2>3
    <2> QED
        BY ONLY MultipartInv, line \in BodyLines, BufferIsRead(line), NotedLine(line, m),
                m.mpp.type = "file", UNCHANGED parts, opened \in BOOLEAN, k \in Nat, <1>2,
                <2>1, <2>3, <2>4, FileFailsKeeps
<1>19. CASE /\ Extracts /\ ~LimitReached(m) /\ fault # "write"
            /\ ~(m.mpp.file = 0 /\ fault = "open")
    <2>1. FilesMade(m, TRUE) = FilesMade(m, fault # "open")
        BY <1>19 DEF FilesMade
    <2>2. PICK g : g = FilesMade(m, TRUE)
        OBVIOUS
    <2>3. /\ mp' = [c EXCEPT !.mpp.value = @ \o LineData(line),
                             !.mpp.size = @ + Len(FileBytes(m, line))]
          /\ tmpFiles' = [g EXCEPT ![f].content = @ \o FileBytes(m, line)]
        BY <1>2, <1>15, <1>17, <1>19, <2>1, <2>2 DEF FileData, FileNumber, FilesMade
    <2>4. mp' = [[Sent(m, line) EXCEPT !.mpp.file = f, !.nfiles = k]
                    EXCEPT !.mpp.value = @ \o LineData(line),
                           !.mpp.size = @ + Len(FileBytes(m, line))]
        BY <1>15, <1>16, <2>3
    <2>5. FileWritten(m, line, f, g, k)
        BY <2>3, <2>4 DEF FileWritten
    <2> QED
        BY ONLY MultipartInv, line \in BodyLines, BufferIsRead(line), NotedLine(line, m),
                m.mpp.type = "file", m.state = "data", UNCHANGED parts, k \in Nat, <1>2, <1>19,
                <2>2, <2>5, FileWrittenKeeps
<1> QED
    BY <1>12, <1>13, <1>14, <1>18, <1>19

-----------------------------------------------------------------------------
(* A boundary: the part is complete.                                       *)
LEMMA NewPartIsTyped ==
    /\ NewPart \in PartRecords /\ NewPart.type # "none" /\ NewPart.sent = << >>
    /\ NewPart.value = << >> /\ NewPart.file = 0 /\ NewPart.size = 0 /\ NewPart.type = "form"
<1>1. PICK none \in PartHeaders \cup {""} : none = ""
    OBVIOUS
<1>2. PICK form \in {"form", "file"} : form = "form"
    OBVIOUS
<1>3. << >> \in Seq(PartHeaders) /\ << >> \in Seq(STRING) /\ << >> \in Seq(DataPieces)
    BY EmptyIsSequence
<1>4. NewPart = [type |-> form, name |-> FALSE, filename |-> FALSE, filenameStar |-> FALSE,
                 headers |-> << >>, lastHeader |-> none, lastLine |-> none,
                 headerLines |-> << >>, params |-> << >>, value |-> << >>, file |-> 0,
                 size |-> 0, sent |-> << >>]
    BY <1>1, <1>2 DEF NewPart
<1>5. NewPart \in PartRecords
    BY <1>3, <1>4 DEF PartRecords
<1> QED
    BY <1>5 DEF NewPart

(* The parser at a boundary, with what it was told of it.                  *)
AtBoundary(m) ==
    /\ m \in ParserRecords /\ m.mpp = mp.mpp /\ mp.stage = "reading"
    /\ mp.flags \subseteq m.flags /\ (mp.error => m.error)

BoundaryFlags(m) ==
    IF m.mpp.type = "none" \/ m.mpp.name THEN m ELSE Flag(m, "invalid_part")

LEMMA BoundaryFlagged ==
    ASSUME NEW m \in ParserRecords
    PROVE  LET n == BoundaryFlags(m)
           IN  /\ Keeps(m, n) /\ n.mpp = m.mpp /\ n.error = m.error /\ n.seen = m.seen
               /\ Strict(m.flags) => Strict(n.flags)
               /\ \/ n = m
                  \/ Strict(n.flags) /\ m.mpp.type # "none" /\ ~m.mpp.name
<1>1. CASE m.mpp.type = "none" \/ m.mpp.name
    BY <1>1 DEF BoundaryFlags, Keeps
<1>2. CASE ~(m.mpp.type = "none" \/ m.mpp.name)
    <2>1. PICK f \in SUBSET MultipartFlags : f = {"invalid_part"}
        BY DEF MultipartFlags
    <2>2. PICK n : n = [m EXCEPT !.flags = @ \cup f]
        OBVIOUS
    <2>3. n = BoundaryFlags(m)
        BY <1>2, <2>1, <2>2 DEF BoundaryFlags, Flag
    <2>4. /\ Keeps(m, n) /\ n.mpp = m.mpp /\ n.error = m.error /\ n.flags = m.flags \cup f
          /\ n.seen = m.seen
        BY <2>2, FlagKeeps
    <2>5. Strict(n.flags)
        BY <2>1, <2>4, FlaggedIsNotClean
    <2> QED
        BY <1>2, <2>3, <2>4, <2>5
<1> QED
    BY <1>1, <1>2

LEMMA OpenPartIsWhole ==
    ASSUME MultipartInv, mp.stage = "reading", mp.mpp.type # "none"
    PROVE  /\ mp.mpp \in PartRecords /\ OpenPart(mp) /\ PartIsWhole(mp.mpp, mp.flags)
<1>1. mp \in ParserRecords /\ tmpFiles \in Seq(FileRecords)
    BY DEF MultipartInv, MultipartTypeOK
<1>2. mp.mpp \in PartRecords
    BY <1>1 DEF ParserRecords, NoPart
<1>3. OpenPart(mp)
    BY DEF MultipartInv, PartIsOpen
<1>4. /\ mp.reserve \in Seq(DataPieces) /\ mp.mpp.sent \in Seq(DataPieces)
      /\ mp.mpp.value \in Seq(DataPieces) /\ mp.mpp.type \in {"form", "file"}
    BY <1>1, <1>2 DEF ParserRecords, PartRecords
<1>5. CASE mp.mpp.type = "form"
    <2>1. mp.mpp.file = 0 /\ Held(mp.mpp.value, mp.reserve, mp.mpp.sent)
        BY <1>3, <1>5 DEF OpenPart
    <2>2. mp.mpp.value = WithoutLastEnd(mp.mpp.sent)
        BY <1>4, <2>1, HeldBack
    <2> QED
        BY <1>2, <1>3, <2>1, <2>2 DEF PartIsWhole
<1>6. CASE mp.mpp.type = "file"
    <2>1. mp.mpp.file # 0 => mp.mpp.file \in DOMAIN tmpFiles
        BY <1>3 DEF OpenPart
    <2>2. CASE mp.mpp.file # 0 /\ FileExceeded \notin mp.flags
        <3>1. /\ Held(tmpFiles[mp.mpp.file].content, mp.reserve, mp.mpp.sent)
              /\ mp.mpp.size = Len(tmpFiles[mp.mpp.file].content)
            BY <1>3, <1>6, <2>2 DEF OpenPart, FileHeld
        <3>2. tmpFiles[mp.mpp.file] \in FileRecords
            BY <1>1, <2>1, <2>2, SequenceFacts
        <3>3. tmpFiles[mp.mpp.file].content \in Seq(DataPieces)
            BY <3>2 DEF FileRecords
        <3>4. tmpFiles[mp.mpp.file].content = WithoutLastEnd(mp.mpp.sent)
            BY <1>4, <3>1, <3>3, HeldBack
        <3> QED
            BY <1>2, <1>3, <1>6, <2>1, <2>2, <3>1, <3>4 DEF PartIsWhole
    <2> QED
        BY <1>2, <1>3, <1>6, <2>1, <2>2 DEF PartIsWhole
<1> QED
    BY <1>4, <1>5, <1>6

LEMMA BoundaryEndsPart ==
    ASSUME MultipartInv, NEW m, AtBoundary(m), NEW final \in BOOLEAN, process_boundary(m, final)
    PROVE  /\ parts' \in Seq(PartRecords) /\ tmpFiles' \in Seq(FileRecords)
           /\ mp' \in ParserRecords /\ m.flags \subseteq mp'.flags /\ (m.error => mp'.error)
           /\ mp'.stage = m.stage /\ mp'.seen = m.seen /\ mp'.count = m.count
           /\ mp'.mpp = IF final THEN NoPart ELSE NewPart
           /\ mp'.complete = (final \/ m.complete)
           /\ ~final => mp'.state = "headers" /\ ~mp'.dataRead /\ mp'.reserve = << >>
           /\ mp'.flags = BoundaryFlags(m).flags
           /\ DOMAIN tmpFiles' = DOMAIN tmpFiles
           /\ \A f \in DOMAIN tmpFiles : tmpFiles'[f].content = tmpFiles[f].content
<1>1. /\ mp \in ParserRecords /\ parts \in Seq(PartRecords) /\ tmpFiles \in Seq(FileRecords)
      /\ mp.stage = "reading" /\ m.mpp = mp.mpp /\ m \in ParserRecords
    BY DEF MultipartInv, MultipartTypeOK, AtBoundary
<1>2. mp.mpp.type # "none" => mp.mpp \in PartRecords /\ OpenPart(mp)
    BY <1>1, OpenPartIsWhole
<1>3. PICK n : n = BoundaryFlags(m)
    OBVIOUS
<1>4. Keeps(m, n) /\ n.error = m.error /\ n.seen = m.seen
    BY <1>1, <1>3, BoundaryFlagged
<1>5. /\ parts' = IF m.mpp.type # "none" /\ m.mpp.name THEN Append(parts, m.mpp) ELSE parts
      /\ tmpFiles' = IF m.mpp.type = "file" /\ m.mpp.file # 0
                       THEN [tmpFiles EXCEPT ![m.mpp.file].open = FALSE] ELSE tmpFiles
      /\ mp' = IF final THEN [n EXCEPT !.mpp = NoPart, !.complete = TRUE] ELSE NextPart(n)
    BY <1>3 DEF process_boundary, BoundaryFlags
<1>6. parts' \in Seq(PartRecords)
    <2>1. CASE m.mpp.type # "none" /\ m.mpp.name
        BY <1>1, <1>2, <1>5, <2>1, AppendedFacts
    <2>2. CASE ~(m.mpp.type # "none" /\ m.mpp.name)
        BY <1>1, <1>5, <2>2
    <2> QED
        BY <2>1, <2>2
<1>7. /\ tmpFiles' \in Seq(FileRecords) /\ DOMAIN tmpFiles' = DOMAIN tmpFiles
      /\ \A f \in DOMAIN tmpFiles : tmpFiles'[f].content = tmpFiles[f].content
    <2>1. CASE m.mpp.type = "file" /\ m.mpp.file # 0
        <3>1. PICK f \in DOMAIN tmpFiles : f = m.mpp.file
            BY <1>1, <1>2, <2>1 DEF OpenPart
        <3>2. tmpFiles[f] \in FileRecords
            BY <1>1, SequenceFacts
        <3>3. PICK r : r = [tmpFiles[f] EXCEPT !.open = FALSE]
            OBVIOUS
        <3>4. r \in FileRecords /\ r.content = tmpFiles[f].content
            BY <3>2, <3>3 DEF FileRecords
        <3>5. PICK t : t = [tmpFiles EXCEPT ![f] = r]
            OBVIOUS
        <3>6. /\ t \in Seq(FileRecords) /\ DOMAIN t = DOMAIN tmpFiles /\ t[f] = r
              /\ \A g \in DOMAIN tmpFiles : g # f => t[g] = tmpFiles[g]
            BY ONLY <1>1, <3>1, f \in DOMAIN tmpFiles, <3>4, <3>5, FileReplaced
        <3>7. tmpFiles' = t
            BY <1>5, <2>1, <3>1, <3>3, <3>5
        <3> QED
            BY <3>4, <3>6, <3>7
    <2>2. CASE ~(m.mpp.type = "file" /\ m.mpp.file # 0)
        BY <1>1, <1>5, <2>2
    <2> QED
        BY <2>1, <2>2
<1>8. CASE final
    <2>1. mp' = [n EXCEPT !.mpp = NoPart, !.complete = TRUE]
        BY <1>5, <1>8
    <2>2. PICK no : no = NoPart
        OBVIOUS
    <2>3. mp' = [n EXCEPT !.mpp = no, !.complete = TRUE] /\ no \in PartRecords \cup {NoPart}
        BY <2>1, <2>2
    <2>4. /\ mp' \in ParserRecords /\ mp'.mpp = no /\ mp'.complete /\ mp'.flags = n.flags
          /\ mp'.error = n.error /\ mp'.stage = n.stage /\ mp'.seen = n.seen
          /\ mp'.count = n.count
        BY <1>4, <2>3 DEF Keeps, ParserRecords
    <2> QED
        BY <1>3, <1>4, <1>6, <1>7, <1>8, <2>2, <2>4 DEF Keeps
<1>9. CASE ~final
    <2>1. PICK new \in PartRecords : new = NewPart
        BY NewPartIsTyped
    <2>2. PICK none \in Seq(DataPieces) : none = << >>
        BY EmptyIsSequence
    <2>3. mp' = [n EXCEPT !.mpp = new, !.state = "headers", !.dataRead = FALSE, !.reserve = none]
        BY <1>5, <1>9, <2>1, <2>2 DEF NextPart
    <2>4. /\ mp' \in ParserRecords /\ mp'.mpp = new /\ mp'.complete = n.complete
          /\ mp'.flags = n.flags /\ mp'.error = n.error /\ mp'.stage = n.stage
          /\ mp'.seen = n.seen /\ mp'.count = n.count /\ mp'.state = "headers" /\ ~mp'.dataRead
          /\ mp'.reserve = none
        BY <1>4, <2>3 DEF Keeps, ParserRecords
    <2> QED
        <3>1. mp'.complete = (final \/ m.complete)
            <4>1. m.complete \in BOOLEAN /\ mp'.complete = m.complete
                BY <1>1, <1>4, <2>4 DEF Keeps, ParserRecords
            <4> QED
                BY <1>9, <4>1
        <3> QED
            BY <1>3, <1>4, <1>6, <1>7, <1>9, <2>1, <2>2, <2>4, <3>1 DEF Keeps
<1> QED
    BY <1>8, <1>9

LEMMA BoundaryKeepsParts ==
    ASSUME MultipartInv, NEW m, AtBoundary(m), NEW final \in BOOLEAN, process_boundary(m, final)
    PROVE  PartsWere'
<1>1. /\ mp \in ParserRecords /\ parts \in Seq(PartRecords) /\ m.mpp = mp.mpp
      /\ mp.stage = "reading" /\ mp.flags \subseteq m.flags
    BY DEF MultipartInv, MultipartTypeOK, AtBoundary
<1>2. /\ m.flags \subseteq mp'.flags /\ DOMAIN tmpFiles' = DOMAIN tmpFiles
      /\ \A f \in DOMAIN tmpFiles : tmpFiles'[f].content = tmpFiles[f].content
    BY BoundaryEndsPart
<1>3. \A i \in DOMAIN parts : PartIsWhole(parts[i], mp.flags)
    BY DEF MultipartInv, PartsWere
<1>4. m.mpp.type # "none" => PartIsWhole(m.mpp, mp.flags) /\ m.mpp \in PartRecords
    BY <1>1, OpenPartIsWhole
<1>5. \A i \in DOMAIN parts' :
          \E p : p = parts'[i] /\ PartIsWhole(p, mp.flags)
    <2>1. CASE m.mpp.type # "none" /\ m.mpp.name
        <3>1. parts' = Append(parts, m.mpp)
            BY <2>1 DEF process_boundary
        <3>2. /\ DOMAIN parts' = 1..(Len(parts) + 1) /\ DOMAIN parts = 1..Len(parts)
              /\ \A i \in DOMAIN parts : parts'[i] = parts[i]
              /\ parts'[Len(parts) + 1] = m.mpp /\ Len(parts) \in Nat
            BY <1>1, <1>4, <2>1, <3>1, AppendedFacts
        <3>3. \A i \in DOMAIN parts' : i \in DOMAIN parts \/ i = Len(parts) + 1
            BY <3>2
        <3> QED
            BY <1>3, <1>4, <2>1, <3>2, <3>3
    <2>2. CASE ~(m.mpp.type # "none" /\ m.mpp.name)
        <3>1. parts' = parts
            BY <2>2 DEF process_boundary
        <3> QED
            BY <1>3, <3>1
    <2> QED
        BY <2>1, <2>2
<1> QED
    BY <1>1, <1>2, <1>5 DEF PartsWere, PartIsWhole

(* A part that was not read to its end is flagged.                         *)
LEMMA BoundaryCounts ==
    ASSUME MultipartInv, NEW m, AtBoundary(m), NEW final \in BOOLEAN, process_boundary(m, final),
           mp.mpp.type # "none" => mp.dataRead, Clean(mp)
    PROVE  /\ Len(parts') = body.boundaries
           /\ \A i \in DOMAIN parts' : parts'[i].headers # << >> /\ parts'[i].sent # << >>
<1>1. /\ mp \in ParserRecords /\ parts \in Seq(PartRecords) /\ m.mpp = mp.mpp
      /\ mp.stage = "reading" /\ body.boundaries \in Nat
    BY DEF MultipartInv, MultipartTypeOK, AtBoundary
<1>2. /\ Len(parts) + PartsBegun(mp) = body.boundaries
      /\ \A i \in DOMAIN parts : parts[i].headers # << >> /\ parts[i].sent # << >>
    BY <1>1 DEF MultipartInv, EachIsPart
<1>3. CASE m.mpp.type = "none"
    <2>1. parts' = parts
        BY <1>3 DEF process_boundary
    <2> QED
        BY <1>1, <1>2, <1>3, <2>1 DEF PartsBegun
<1>4. CASE m.mpp.type # "none"
    <2>1. m.mpp \in PartRecords /\ OpenPart(mp)
        BY <1>1, <1>4, OpenPartIsWhole
    <2>2. mp.state \in {"headers", "data"}
        BY <1>1 DEF ParserRecords
    <2>3. m.mpp.name /\ m.mpp.headers # << >> /\ m.mpp.sent # << >>
        BY <1>1, <1>4, <2>1, <2>2 DEF OpenPart
    <2>4. parts' = Append(parts, m.mpp)
        BY <1>4, <2>3 DEF process_boundary
    <2>5. /\ DOMAIN parts' = 1..(Len(parts) + 1) /\ DOMAIN parts = 1..Len(parts)
          /\ \A i \in DOMAIN parts : parts'[i] = parts[i]
          /\ parts'[Len(parts) + 1] = m.mpp /\ Len(parts) \in Nat
          /\ Len(parts') = Len(parts) + 1
        BY <1>1, <2>1, <2>4, AppendedFacts
    <2>6. \A i \in DOMAIN parts' : i \in DOMAIN parts \/ i = Len(parts) + 1
        BY <2>5
    <2>7. PartsBegun(mp) = 1
        BY <1>1, <1>4 DEF PartsBegun
    <2>8. \A i \in DOMAIN parts' : parts'[i].headers # << >> /\ parts'[i].sent # << >>
        BY <1>2, <2>3, <2>5, <2>6
    <2> QED
        BY <1>2, <2>5, <2>7, <2>8
<1> QED
    BY <1>3, <1>4

LEMMA ReadBoundaryKeeps ==
    ASSUME MultipartInv, NEW line \in BodyLines, BufferIsRead(line), ~mp.complete, ReadBoundary(line)
    PROVE  MultipartInv'
<1>1. mp \in ParserRecords /\ mp.stage = "reading" /\ line.end \in Ends /\ body.boundaries \in Nat
    BY MultipartAssumption DEF MultipartInv, MultipartTypeOK, BufferIsRead
<1>2. HoldsBoundary(line) /\ ~Misplaced(mp)
    BY DEF ReadBoundary
<1>3. PICK n : n = [Noted(mp, line) EXCEPT !.lastEnd = line.end, !.seen = TRUE]
    OBVIOUS
<1>4. Keeps(mp, n) /\ n.mpp = mp.mpp /\ n.seen
    <2>1. PICK m : m = Noted(mp, line)
        OBVIOUS
    <2>2. Keeps(mp, m) /\ m.mpp = mp.mpp /\ m \in ParserRecords
        BY <1>1, <2>1, NotedKeeps DEF Keeps
    <2>3. n = AfterBuffer(m, line)
        BY <1>3, <2>1 DEF AfterBuffer
    <2> QED
        BY <2>2, <2>3, AfterBufferKeeps, KeepsAll
<1>5. n \in ParserRecords /\ n.stage = "reading" /\ mp.flags \subseteq n.flags /\ ~n.complete
    BY <1>1, <1>4 DEF Keeps
<1>6. CASE line.text = "boundaryJunk"
    <2>1. mp' = Ends0(Fails(Flag(n, "error"))) /\ UNCHANGED <<parts, tmpFiles>>
        BY <1>3, <1>6 DEF ReadBoundary
    <2>2. /\ mp' \in ParserRecords /\ mp'.stage = "read" /\ ~Clean(mp')
          /\ mp.flags \subseteq mp'.flags
        BY <1>5, <2>1, EndsWithError
    <2>3. MultipartTypeOK'
        BY <2>1, <2>2 DEF MultipartInv, MultipartTypeOK, BufferIsRead
    <2>4. PartIsOpen' /\ EachIsPart' /\ StoppedIsTold'
        BY <2>2 DEF PartIsOpen, EachIsPart, StoppedIsTold, Clean
    <2>5. PartsWere'
        BY <2>1, <2>2, PartsStay DEF MultipartInv
    <2> QED
        BY <1>1, <2>2, <2>3, <2>4, <2>5, ReadingKeeps DEF BufferIsRead
<1>7. CASE line.text # "boundaryJunk"
    <2>1. PICK f \in SUBSET MultipartFlags : f = {IF line.end = "lf" THEN "lf_line" ELSE "crlf_line"}
        BY DEF MultipartFlags
    <2>2. PICK o : o = [n EXCEPT !.flags = @ \cup f]
        OBVIOUS
    <2>3. Keeps(n, o) /\ o.mpp = n.mpp /\ o.seen = n.seen
        BY <1>5, <2>2, FlagKeeps
    <2>4. o \in ParserRecords /\ o.stage = "reading" /\ o.count \in Nat /\ ~o.complete
        BY <1>5, <2>3 DEF Keeps, ParserRecords
    <2>5. PICK k \in Nat : k = o.count + 1
        BY <2>4
    <2>6. PICK m : m = [o EXCEPT !.count = k]
        OBVIOUS
    <2>7. /\ m \in ParserRecords /\ m.mpp = o.mpp /\ m.stage = o.stage /\ m.flags = o.flags
          /\ m.error = o.error /\ m.seen = o.seen /\ m.complete = o.complete /\ m.count = k
        BY ONLY <2>4, <2>6, k \in Nat DEF ParserRecords
    <2>8. PICK final \in BOOLEAN : final = (line.text = "final")
        OBVIOUS
    <2>9. process_boundary(m, final)
        <3>1. m = [Flag(n, IF line.end = "lf" THEN "lf_line" ELSE "crlf_line") EXCEPT !.count = @ + 1]
            BY <2>1, <2>2, <2>5, <2>6 DEF Flag
        <3> QED
            BY <1>3, <1>7, <2>8, <3>1 DEF ReadBoundary
    <2>10. AtBoundary(m)
        BY <1>1, <1>4, <2>3, <2>7 DEF AtBoundary, Keeps
    <2>11. PartsWere'
        BY <2>9, <2>10, BoundaryKeepsParts
    <2>12. /\ parts' \in Seq(PartRecords) /\ tmpFiles' \in Seq(FileRecords)
           /\ mp' \in ParserRecords /\ m.flags \subseteq mp'.flags /\ (m.error => mp'.error)
           /\ mp'.stage = "reading" /\ mp'.seen /\ mp'.count > 0
           /\ mp'.mpp = IF final THEN NoPart ELSE NewPart
           /\ mp'.complete = final
           /\ ~final => mp'.state = "headers" /\ ~mp'.dataRead /\ mp'.reserve = << >>
        <3>1. m.seen /\ m.count > 0 /\ ~m.complete /\ m.stage = "reading"
            BY <1>4, <2>3, <2>4, <2>5, <2>7
        <3>2. /\ parts' \in Seq(PartRecords) /\ tmpFiles' \in Seq(FileRecords)
              /\ mp' \in ParserRecords /\ m.flags \subseteq mp'.flags /\ (m.error => mp'.error)
              /\ mp'.stage = m.stage /\ mp'.seen = m.seen /\ mp'.count = m.count
              /\ mp'.mpp = IF final THEN NoPart ELSE NewPart
              /\ mp'.complete = (final \/ m.complete)
              /\ ~final => mp'.state = "headers" /\ ~mp'.dataRead /\ mp'.reserve = << >>
            BY <2>9, <2>10, BoundaryEndsPart
        <3> QED
            BY <3>1, <3>2
    <2>13. MultipartTypeOK'
        BY <2>12 DEF MultipartInv, MultipartTypeOK, BufferIsRead
    <2>14. PartIsOpen'
        <3>1. CASE final
            BY <2>12, <3>1 DEF PartIsOpen, NoPart
        <3>2. CASE ~final
            <4>1. PICK p : p = mp'.mpp /\ p = NewPart
                BY <2>12, <3>2
            <4>2. /\ p.sent = << >> /\ p.value = << >> /\ p.file = 0 /\ p.size = 0 /\ p.type = "form"
                BY <4>1, NewPartIsTyped
            <4>3. Held(<< >>, << >>, << >>)
                <5>1. << >> \o << >> = << >>
                    OBVIOUS
                <5> QED
                    BY <5>1 DEF Held
            <4>4. OpenPart(mp)'
                BY <2>12, <3>2, <4>1, <4>2, <4>3 DEF OpenPart
            <4> QED
                BY <4>4 DEF PartIsOpen
        <3> QED
            BY <3>1, <3>2
    <2>15. EachIsPart'
        <3>1. SUFFICES ASSUME Clean(mp)'
                       PROVE  /\ Len(parts') + PartsBegun(mp)' = body'.boundaries
                              /\ \A i \in DOMAIN parts' :
                                     parts'[i].headers # << >> /\ parts'[i].sent # << >>
            BY DEF EachIsPart
        <3>2. Clean(mp)
            <4>1. mp.flags \subseteq mp'.flags /\ (mp.error => mp'.error)
                BY <2>10, <2>12 DEF AtBoundary
            <4> QED
                BY <3>1, <4>1, CleanBefore DEF Clean
        <3>3. mp.mpp.type # "none" => mp.dataRead
            BY <1>1, <1>2, OpenPartIsWhole DEF Misplaced, OpenPart
        <3>4. /\ Len(parts') = body.boundaries
              /\ \A i \in DOMAIN parts' : parts'[i].headers # << >> /\ parts'[i].sent # << >>
            BY <2>9, <2>10, <3>2, <3>3, BoundaryCounts
        <3>5. CASE final
            <4>1. PartsBegun(mp)' = 0
                BY <2>12, <3>5 DEF PartsBegun, NoPart
            <4>2. body'.boundaries = body.boundaries
                <5>1. line.text = "final"
                    BY <2>8, <3>5
                <5>2. line.text # "boundary"
                    BY <5>1
                <5> QED
                    BY <1>1, <5>2 DEF BufferIsRead
            <4> QED
                BY <1>1, <3>4, <4>1, <4>2
        <3>6. CASE ~final
            <4>1. PartsBegun(mp)' = 1
                BY <2>12, <3>6, NewPartIsTyped DEF PartsBegun
            <4>2. line.text = "boundary" /\ AtLineStart
                BY <1>2, <1>7, <2>8, <3>6 DEF HoldsBoundary
            <4>3. body'.boundaries = body.boundaries + 1
                BY <4>2 DEF BufferIsRead
            <4> QED
                BY <1>1, <3>4, <4>1, <4>3
        <3> QED
            BY <3>5, <3>6
    <2>16. StoppedIsTold'
        BY <2>12 DEF StoppedIsTold
    <2> QED
        BY <1>1, <2>11, <2>12, <2>13, <2>14, <2>15, <2>16, ReadingKeeps DEF BufferIsRead
<1> QED
    BY <1>6, <1>7

LEMMA ReadDataKeeps ==
    ASSUME MultipartInv, NEW line \in BodyLines, BufferIsRead(line), NEW fault,
           ReadData(line, fault)
    PROVE  MultipartInv'
<1>1. PICK m : m = Noted(mp, line)
    OBVIOUS
<1>2. NotedLine(line, m) /\ UNCHANGED parts
    BY <1>1, NotedIsKnown DEF ReadData
<1>3. CASE m.mpp.type = "none"
    <2>1. mp' = AfterBuffer(Flag(m, "data_before"), line) /\ UNCHANGED tmpFiles
        BY <1>1, <1>3 DEF ReadData
    <2> QED
        BY <1>2, <1>3, <2>1, DataBeforeKeeps
<1>4. CASE m.mpp.type # "none"
    <2>1. m \in ParserRecords /\ m.mpp \in PartRecords /\ m.stage = "reading"
        BY <1>2, <1>4, OpenIsTyped
    <2>2. m.mpp.type \in {"form", "file"} /\ m.state \in {"headers", "data"}
        BY <2>1 DEF ParserRecords, PartRecords
    <2>3. PICK n : n = AfterBuffer(m, line)
        OBVIOUS
    <2>4. CASE m.state = "headers"
        <3>1. /\ mp' = IF line.end = "full" THEN Ends0(Fails(Flag(n, "error")))
                       ELSE AfterBuffer(process_part_header(m, line), line)
              /\ UNCHANGED tmpFiles
            BY <1>1, <1>4, <2>3, <2>4 DEF ReadData
        <3>2. CASE line.end = "full"
            <4>1. n \in ParserRecords /\ n.stage = "reading" /\ m.flags \subseteq n.flags
                BY <2>1, <2>3, AfterBufferKeeps DEF Keeps
            <4>2. tmpFiles' \in Seq(FileRecords)
                BY <3>1 DEF MultipartInv, MultipartTypeOK
            <4>3. mp' = Ends0(Fails(Flag(n, "error"))) /\ UNCHANGED tmpFiles
                BY <3>1, <3>2
            <4> QED
                BY <1>2, <4>1, <4>2, <4>3, LineFailsKeeps
        <3>3. CASE line.end # "full"
            BY <1>2, <1>4, <2>4, <3>1, <3>3, HeaderLineKeeps
        <3> QED
            BY <3>2, <3>3
    <2>5. CASE m.state = "data" /\ m.mpp.type = "form"
        <3>1. mp' = AfterBuffer(FormData(m, line), line) /\ UNCHANGED tmpFiles
            BY <1>1, <1>4, <2>5 DEF ReadData
        <3> QED
            BY <1>2, <2>5, <3>1, FormLineKeeps
    <2>6. CASE m.state = "data" /\ m.mpp.type = "file"
        <3>1. FileData(n, line, fault)
            BY <1>1, <1>4, <2>3, <2>6 DEF ReadData
        <3>2. NotedLine(line, n)
            BY <1>2, <2>3, NotedThenBuffer
        <3>3. n.mpp.type = "file" /\ n.state = "data"
            BY <2>1, <2>3, <2>6, AfterBufferKeeps DEF Keeps
        <3> QED
            BY <1>2, <3>1, <3>2, <3>3, FileLineKeeps
    <2> QED
        BY <2>2, <2>4, <2>5, <2>6
<1> QED
    BY <1>3, <1>4

LEMMA processKeeps ==
    ASSUME MultipartInv, NEW line \in BodyLines, NEW fault, process(line, fault)
    PROVE  MultipartInv'
<1>1. BufferIsRead(line)
    BY DEF process, BufferIsRead, MultipartInv, MultipartTypeOK
<1>2. ~mp.complete /\ (ReadBoundary(line) \/ RefuseBoundary(line) \/ ReadData(line, fault))
    BY DEF process
<1> QED
    BY <1>1, <1>2, ReadBoundaryKeeps, RefuseBoundaryKeeps, ReadDataKeeps

LEMMA DataAfterKeeps ==
    ASSUME MultipartInv, DataAfter
    PROVE  MultipartInv'
<1>1. /\ mp \in ParserRecords /\ mp.stage = "reading"
      /\ mp' = Ends0(Flag(mp, "data_after"))
      /\ UNCHANGED <<conf, parts, tmpFiles, body, told>>
    BY DEF DataAfter, MultipartInv, MultipartTypeOK
<1>2. PICK f \in SUBSET MultipartFlags : f = {"data_after"}
    BY DEF MultipartFlags
<1>3. PICK n : n = [mp EXCEPT !.flags = @ \cup f]
    OBVIOUS
<1>4. Keeps(mp, n) /\ n.flags = mp.flags \cup f /\ n \in ParserRecords
    BY <1>1, <1>3, FlagKeeps DEF Keeps
<1>5. mp' = [n EXCEPT !.stage = "read"]
    BY <1>1, <1>2, <1>3 DEF Ends0, Flag
<1>6. mp' \in ParserRecords /\ mp'.stage = "read" /\ mp'.flags = mp.flags \cup f
    BY <1>4, <1>5 DEF ParserRecords
<1>7. ~Clean(mp')
    BY <1>2, <1>6, FlaggedIsNotClean DEF Clean
<1>8. MultipartTypeOK'
    BY <1>1, <1>6 DEF MultipartInv, MultipartTypeOK
<1>9. PartIsOpen' /\ EachIsPart' /\ StoppedIsTold'
    BY <1>6, <1>7 DEF PartIsOpen, EachIsPart, StoppedIsTold, Clean
<1>10. PartsWere'
    BY <1>1, <1>6, PartsStay DEF MultipartInv
<1> QED
    BY <1>1, <1>6, <1>8, <1>9, <1>10, ReadingKeeps

-----------------------------------------------------------------------------
(* The end of the body, and of the transaction.                            *)
LEMMA LateIsTyped ==
    ASSUME NEW m
    PROVE  AtTheEnd(m) \in SUBSET MultipartFlags /\ (~m.dataRead => Strict(AtTheEnd(m)))
BY DEF AtTheEnd, MultipartFlags, Strict

LEMMA CompleteFinalKeeps ==
    ASSUME MultipartInv, NEW rest, multipart_complete(rest), FinalInBuffer(rest)
    PROVE  MultipartInv'
<1>1. /\ mp \in ParserRecords /\ mp.stage = "reading" /\ ~mp.complete
      /\ conf \in Confs /\ body \in [lines : Nat, afterFlaw : Nat, boundaries : Nat]
    BY DEF MultipartInv, MultipartTypeOK, FinalInBuffer
<1>2. PICK saw \in BOOLEAN : saw = (mp.seen \/ (mp.stage = "reading" /\ rest # "none"))
    OBVIOUS
<1>3. PICK m : m = [mp EXCEPT !.seen = saw]
    OBVIOUS
<1>4. /\ m \in ParserRecords /\ m.mpp = mp.mpp /\ m.flags = mp.flags /\ m.error = mp.error
      /\ m.dataRead = mp.dataRead /\ m.stage = mp.stage /\ m.complete = mp.complete
    BY <1>1, <1>3 DEF ParserRecords
<1>5. PICK late \in SUBSET MultipartFlags : late = AtTheEnd(m) /\ (~m.dataRead => Strict(late))
    BY LateIsTyped
<1>6. PICK o : o = [m EXCEPT !.flags = @ \cup late]
    OBVIOUS
<1>7. Keeps(m, o) /\ o.mpp = m.mpp /\ o.error = m.error /\ o.flags = m.flags \cup late
    BY <1>4, <1>6, FlagKeeps
<1>8. PICK n : n = [o EXCEPT !.stage = "done"]
    OBVIOUS
<1>9. /\ n \in ParserRecords /\ n.mpp = o.mpp /\ n.flags = o.flags /\ n.error = o.error
      /\ n.stage = "done"
    BY <1>7, <1>8 DEF Keeps, ParserRecords
<1>10. AtBoundary(n)
    BY <1>1, <1>4, <1>7, <1>9 DEF AtBoundary
<1>11. m = [mp EXCEPT !.seen = @ \/ (mp.stage = "reading" /\ rest # "none")]
    BY <1>2, <1>3
<1>12. n = [m EXCEPT !.flags = @ \cup late, !.stage = "done"]
    BY <1>4, <1>6, <1>8 DEF ParserRecords
<1>13. PICK final \in BOOLEAN : final = TRUE
    OBVIOUS
<1>14. /\ process_boundary(n, final) /\ UNCHANGED <<conf, body>>
       /\ told' = [set |-> TRUE, strict |-> Strict(m.flags \cup late),
                   flags |-> m.flags \cup late,
                   vars |-> [i \in DOMAIN parts' |-> VariablesOfPart(parts'[i])],
                   reqbodyError |-> \/ m.error \/ FALSE
                                    \/ (NoFilesLimit # 0 /\ m.noFiles > NoFilesLimit)]
    BY <1>5, <1>11, <1>12, <1>13 DEF multipart_complete
<1>15. /\ told'.set /\ told'.strict = Strict(n.flags)
       /\ told'.vars = [i \in DOMAIN parts' |-> VariablesOfPart(parts'[i])]
       /\ m.error => told'.reqbodyError
    BY <1>7, <1>9, <1>14
<1>16. /\ parts' \in Seq(PartRecords) /\ tmpFiles' \in Seq(FileRecords)
       /\ mp' \in ParserRecords /\ mp'.stage = "done" /\ mp'.flags = BoundaryFlags(n).flags
    BY <1>9, <1>10, <1>14, BoundaryEndsPart
<1>17. PartsWere'
    BY <1>10, <1>14, BoundaryKeepsParts
<1>18. mp.mpp.type # "none" => mp.mpp.name \/ ~mp.dataRead
    <2>1. SUFFICES ASSUME mp.mpp.type # "none"
                   PROVE  mp.mpp.name \/ ~mp.dataRead
        OBVIOUS
    <2>2. OpenPart(mp) /\ mp.state \in {"headers", "data"}
        BY <1>1, <2>1, OpenPartIsWhole DEF ParserRecords
    <2> QED
        BY <2>2 DEF OpenPart
<1>19. ~mp.dataRead => Strict(n.flags)
    BY <1>4, <1>5, <1>7, <1>9 DEF Strict
<1>20. told'.strict = Strict(mp'.flags)
    <2>1. PICK b : b = BoundaryFlags(n)
        OBVIOUS
    <2>2. /\ Strict(n.flags) => Strict(b.flags)
          /\ \/ b = n
             \/ Strict(b.flags) /\ n.mpp.type # "none" /\ ~n.mpp.name
        BY <1>9, <2>1, BoundaryFlagged
    <2>3. CASE b = n
        BY <1>15, <1>16, <2>1, <2>3
    <2>4. CASE Strict(b.flags) /\ n.mpp.type # "none" /\ ~n.mpp.name
        <3>1. Strict(n.flags)
            BY <1>4, <1>7, <1>9, <1>18, <1>19, <2>4
        <3> QED
            BY <1>15, <1>16, <2>1, <2>4, <3>1 DEF Strict
    <2> QED
        BY <2>2, <2>3, <2>4
<1>21. CleanBodiesAreUnderstood'
    <2>1. SUFFICES ASSUME ~told'.reqbodyError, ~told'.strict
                   PROVE  /\ Len(parts') = body'.boundaries
                          /\ \A i \in DOMAIN parts' :
                                 parts'[i].headers # << >> /\ parts'[i].sent # << >>
        BY DEF CleanBodiesAreUnderstood
    <2>2. ~Strict(n.flags) /\ ~mp.error
        BY <1>4, <1>15, <2>1
    <2>3. Clean(mp) /\ mp.dataRead
        BY <1>10, <1>19, <2>2 DEF Clean, Strict, AtBoundary
    <2> QED
        BY <1>10, <1>14, <2>3, BoundaryCounts
<1>22. MultipartTypeOK'
    BY <1>1, <1>14, <1>16 DEF MultipartTypeOK
<1>23. PartIsOpen' /\ EachIsPart' /\ StoppedIsTold' /\ FilesAreMarked' /\ TemporaryFilesGo'
    BY <1>16 DEF PartIsOpen, EachIsPart, StoppedIsTold, FilesAreMarked, TemporaryFilesGo
<1>24. PartsAreTold'
    BY <1>15, <1>16 DEF PartsAreTold
<1>25. DoubtsAreFlagged'
    BY <1>20, <1>21 DEF DoubtsAreFlagged, StrictErrorIsUpToDate
<1> QED
    BY <1>17, <1>22, <1>23, <1>24, <1>25 DEF MultipartInv

LEMMA CompleteOtherKeeps ==
    ASSUME MultipartInv, NEW rest, multipart_complete(rest), ~FinalInBuffer(rest)
    PROVE  MultipartInv'
<1>1. /\ mp \in ParserRecords /\ mp.stage \in {"reading", "read"}
      /\ conf \in Confs /\ body \in [lines : Nat, afterFlaw : Nat, boundaries : Nat]
      /\ parts \in Seq(PartRecords) /\ tmpFiles \in Seq(FileRecords)
    BY DEF MultipartInv, MultipartTypeOK, multipart_complete
<1>2. PICK saw \in BOOLEAN : saw = (mp.seen \/ (mp.stage = "reading" /\ rest # "none"))
    OBVIOUS
<1>3. PICK m : m = [mp EXCEPT !.seen = saw]
    OBVIOUS
<1>4. /\ m \in ParserRecords /\ m.mpp = mp.mpp /\ m.flags = mp.flags /\ m.error = mp.error
      /\ m.complete = mp.complete /\ (mp.seen => m.seen)
    BY <1>1, <1>2, <1>3 DEF ParserRecords
<1>5. m = [mp EXCEPT !.seen = @ \/ (mp.stage = "reading" /\ rest # "none")]
    BY <1>2, <1>3
<1>6. PICK fails : fails = (m.seen /\ ~m.complete)
    OBVIOUS
<1>7. /\ mp' = [m EXCEPT !.stage = "done"] /\ UNCHANGED <<conf, body, parts, tmpFiles>>
      /\ told' = [set |-> TRUE, strict |-> Strict(m.flags \cup {}), flags |-> m.flags \cup {},
                  vars |-> IF m.seen /\ ~m.complete THEN << >>
                           ELSE [i \in DOMAIN parts' |-> VariablesOfPart(parts'[i])],
                  reqbodyError |-> \/ m.error \/ (m.seen /\ ~m.complete)
                                   \/ (NoFilesLimit # 0 /\ m.noFiles > NoFilesLimit)]
    BY <1>5 DEF multipart_complete
<1>8. /\ mp' \in ParserRecords /\ mp'.stage = "done" /\ mp'.flags = mp.flags
    BY <1>4, <1>7 DEF ParserRecords
<1>9. /\ told'.set /\ told'.strict = Strict(mp.flags)
      /\ told'.vars = << >> \/ told'.vars = [i \in DOMAIN parts' |-> VariablesOfPart(parts'[i])]
      /\ ~told'.reqbodyError => ~mp.error /\ (~mp.seen \/ mp.complete)
    <2>1. m.flags \cup {} = mp.flags
        BY <1>4
    <2> QED
        BY <1>4, <1>7, <2>1
<1>10. CleanBodiesAreUnderstood'
    <2>1. SUFFICES ASSUME ~told'.reqbodyError, ~told'.strict, conf'.ct # "empty"
                   PROVE  /\ Len(parts') = body'.boundaries
                          /\ \A i \in DOMAIN parts' :
                                 parts'[i].headers # << >> /\ parts'[i].sent # << >>
        BY DEF CleanBodiesAreUnderstood
    <2>2. Clean(mp)
        BY <1>9, <2>1 DEF Clean
    <2>3. mp.stage = "reading"
        BY <1>1, <1>7, <2>1, <2>2 DEF MultipartInv, StoppedIsTold
    <2>4. mp.mpp.type = "none"
        BY <1>9, <2>1, <2>3, OpenPartIsWhole DEF OpenPart
    <2>5. /\ Len(parts) + PartsBegun(mp) = body.boundaries
          /\ \A i \in DOMAIN parts : parts[i].headers # << >> /\ parts[i].sent # << >>
        BY <2>2, <2>3 DEF MultipartInv, EachIsPart
    <2>6. Len(parts) \in Nat /\ PartsBegun(mp) = 0
        BY <1>1, <2>4 DEF PartsBegun
    <2> QED
        BY <1>7, <2>5, <2>6
<1>11. MultipartTypeOK'
    BY <1>1, <1>7, <1>8 DEF MultipartTypeOK
<1>12. PartIsOpen' /\ EachIsPart' /\ StoppedIsTold' /\ FilesAreMarked' /\ TemporaryFilesGo'
    BY <1>8 DEF PartIsOpen, EachIsPart, StoppedIsTold, FilesAreMarked, TemporaryFilesGo
<1>13. PartsWere'
    BY <1>7, <1>8, PartsStay DEF MultipartInv
<1>14. PartsAreTold'
    BY <1>8, <1>9 DEF PartsAreTold
<1>15. DoubtsAreFlagged'
    BY <1>8, <1>9, <1>10 DEF DoubtsAreFlagged, StrictErrorIsUpToDate
<1> QED
    BY <1>11, <1>12, <1>13, <1>14, <1>15 DEF MultipartInv

(* The files that are on disk change, what is in them does not.            *)
LEMMA FilesGoKeep ==
    ASSUME MultipartInv, UNCHANGED <<conf, parts, body, told>>,
           mp.stage \in {"done", "gone"}, mp'.stage \in {"gone", "over"}, mp' \in ParserRecords,
           mp'.flags = mp.flags, tmpFiles' \in Seq(FileRecords), DOMAIN tmpFiles' = DOMAIN tmpFiles,
           \A f \in DOMAIN tmpFiles : tmpFiles'[f].content = tmpFiles[f].content,
           FilesAreMarked', TemporaryFilesGo'
    PROVE  MultipartInv'
<1>1. MultipartTypeOK'
    BY DEF MultipartInv, MultipartTypeOK
<1>2. PartIsOpen' /\ EachIsPart' /\ StoppedIsTold'
    BY DEF PartIsOpen, EachIsPart, StoppedIsTold
<1>3. \A i \in DOMAIN parts : parts[i].file # 0 => parts[i].file \in DOMAIN tmpFiles
    BY DEF MultipartInv, PartsWere, PartIsWhole
<1>4. PartsWere'
    BY <1>3, PartsStay DEF MultipartInv
<1>5. PartsAreTold'
    BY DEF MultipartInv, PartsAreTold
<1>6. DoubtsAreFlagged'
    BY DEF MultipartInv, DoubtsAreFlagged, StrictErrorIsUpToDate, CleanBodiesAreUnderstood
<1> QED
    BY <1>1, <1>2, <1>4, <1>5, <1>6 DEF MultipartInv

LEMMA FilesMapped ==
    ASSUME NEW s \in Seq(FileRecords), NEW t, DOMAIN t = DOMAIN s, t = [f \in DOMAIN s |-> t[f]],
           \A f \in DOMAIN s : t[f] \in FileRecords
    PROVE  t \in Seq(FileRecords)
<1>1. PICK n \in Nat : n = Len(s) /\ DOMAIN s = 1..n
    OBVIOUS
<1>2. t = [f \in 1..n |-> t[f]] /\ \A f \in 1..n : t[f] \in FileRecords
    BY <1>1
<1>3. t \in [1..n -> FileRecords]
    BY <1>2
<1> QED
    BY <1>3

LEMMA DeleteMultipartKeeps ==
    ASSUME MultipartInv, DeleteMultipart
    PROVE  MultipartInv'
<1>1. /\ mp \in ParserRecords /\ mp.stage = "done" /\ tmpFiles \in Seq(FileRecords)
      /\ UNCHANGED <<conf, parts, body, told>>
      /\ mp' = [mp EXCEPT !.stage = "gone", !.mpp = NoPart]
    BY DEF MultipartInv, MultipartTypeOK, DeleteMultipart
<1>2. mp' \in ParserRecords /\ mp'.stage = "gone" /\ mp'.flags = mp.flags
    <2>1. PICK no : no = NoPart
        OBVIOUS
    <2>2. mp' = [mp EXCEPT !.stage = "gone", !.mpp = no] /\ no \in PartRecords \cup {NoPart}
        BY <1>1, <2>1
    <2> QED
        BY <1>1, <2>2 DEF ParserRecords
<1>3. CASE conf.keep
    <2>1. tmpFiles' = tmpFiles
        BY <1>3 DEF DeleteMultipart
    <2>2. FilesAreMarked' /\ TemporaryFilesGo'
        BY <1>1, <1>2, <1>3 DEF FilesAreMarked, TemporaryFilesGo
    <2> QED
        BY <1>1, <1>2, <2>1, <2>2, FilesGoKeep
<1>4. CASE ~conf.keep
    <2>1. PICK t : t = [f \in DOMAIN tmpFiles |-> [tmpFiles[f] EXCEPT !.delete = OfPart(f)]]
                   /\ t = tmpFiles'
        BY <1>4 DEF DeleteMultipart
    <2>2. ASSUME NEW f \in DOMAIN tmpFiles
          PROVE  /\ t[f] \in FileRecords /\ t[f].content = tmpFiles[f].content
                 /\ OfPart(f) => t[f].delete
        <3>1. tmpFiles[f] \in FileRecords
            BY <1>1, SequenceFacts
        <3>2. PICK of \in BOOLEAN : of = OfPart(f)
            BY DEF OfPart
        <3>3. t[f] = [tmpFiles[f] EXCEPT !.delete = of]
            BY <2>1, <3>2
        <3> QED
            BY <3>1, <3>2, <3>3 DEF FileRecords
    <2>3. t \in Seq(FileRecords) /\ DOMAIN t = DOMAIN tmpFiles
        <3>1. DOMAIN t = DOMAIN tmpFiles /\ t = [f \in DOMAIN tmpFiles |-> t[f]]
            BY <2>1
        <3> QED
            BY <1>1, <2>2, <3>1, FilesMapped
    <2>4. FilesAreMarked'
        BY <1>1, <2>1, <2>2, <2>3 DEF FilesAreMarked, OfPart
    <2>5. TemporaryFilesGo'
        BY <1>2 DEF TemporaryFilesGo
    <2> QED
        BY <1>1, <1>2, <2>1, <2>2, <2>3, <2>4, <2>5, FilesGoKeep
<1> QED
    BY <1>3, <1>4

LEMMA DeleteTmpFilesKeeps ==
    ASSUME MultipartInv, DeleteTmpFiles
    PROVE  MultipartInv'
<1>1. /\ mp \in ParserRecords /\ mp.stage = "gone" /\ tmpFiles \in Seq(FileRecords)
      /\ UNCHANGED <<conf, parts, body, told>> /\ mp' = [mp EXCEPT !.stage = "over"]
    BY DEF MultipartInv, MultipartTypeOK, DeleteTmpFiles
<1>2. mp' \in ParserRecords /\ mp'.stage = "over" /\ mp'.flags = mp.flags
    BY <1>1 DEF ParserRecords
<1>3. PICK t : /\ t = [f \in DOMAIN tmpFiles |->
                          IF tmpFiles[f].delete
                            THEN [tmpFiles[f] EXCEPT !.open = FALSE, !.onDisk = FALSE]
                            ELSE tmpFiles[f]]
               /\ t = tmpFiles'
    BY DEF DeleteTmpFiles
<1>4. ASSUME NEW f \in DOMAIN tmpFiles
      PROVE  /\ t[f] \in FileRecords /\ t[f].content = tmpFiles[f].content
             /\ tmpFiles[f].delete => ~t[f].open /\ ~t[f].onDisk
    <2>1. tmpFiles[f] \in FileRecords
        BY <1>1, SequenceFacts
    <2> QED
        BY <1>3, <2>1 DEF FileRecords
<1>5. t \in Seq(FileRecords) /\ DOMAIN t = DOMAIN tmpFiles
    <2>1. DOMAIN t = DOMAIN tmpFiles /\ t = [f \in DOMAIN tmpFiles |-> t[f]]
        BY <1>3
    <2> QED
        BY <1>1, <1>4, <2>1, FilesMapped
<1>6. TemporaryFilesGo'
    <2>1. ~conf.keep => \A f \in DOMAIN tmpFiles : OfPart(f) => tmpFiles[f].delete
        BY <1>1 DEF MultipartInv, FilesAreMarked
    <2> QED
        BY <1>1, <1>3, <1>4, <1>5, <2>1 DEF TemporaryFilesGo, OfPart
<1>7. FilesAreMarked'
    BY <1>2 DEF FilesAreMarked
<1> QED
    BY <1>1, <1>2, <1>3, <1>4, <1>5, <1>6, <1>7, FilesGoKeep

-----------------------------------------------------------------------------
LEMMA NewParserIsTyped ==
    NewParser \in ParserRecords /\ NewParser.stage = "reading" /\ NewParser.mpp = NoPart
<1>1. << >> \in Seq(DataPieces)
    BY EmptyIsSequence
<1>2. PICK no \in PartRecords \cup {NoPart} : no = NoPart
    OBVIOUS
<1>3. NewParser = [stage |-> "reading", mpp |-> no, state |-> "headers", dataRead |-> FALSE,
                   reserve |-> << >>, lastEnd |-> "start", count |-> 0, nfiles |-> 0,
                   noFiles |-> 0, complete |-> FALSE, seen |-> FALSE, unmatched |-> 0,
                   flags |-> {}, error |-> FALSE]
    BY <1>2 DEF NewParser
<1>4. NewParser \in ParserRecords /\ NewParser.mpp = no
    BY <1>1, <1>3 DEF ParserRecords
<1> QED
    BY <1>2, <1>3, <1>4

LEMMA MultipartStarts == InitMultipart => MultipartInv
<1> SUFFICES ASSUME InitMultipart PROVE MultipartInv
    OBVIOUS
<1>1. PICK n \in ParserRecords : n = NewParser /\ n.stage = "reading" /\ n.mpp = NoPart
    BY NewParserIsTyped
<1>2. ASSUME NEW f \in SUBSET MultipartFlags
      PROVE  LET m == [n EXCEPT !.flags = @ \cup f]
             IN  m \in ParserRecords /\ m.stage = "reading" /\ m.mpp = NoPart
    BY <1>1, FlagKeeps DEF Keeps
<1>3. /\ {"boundary_quoted"} \in SUBSET MultipartFlags
      /\ {"missing_semicolon"} \in SUBSET MultipartFlags
      /\ {"boundary_whitespace"} \in SUBSET MultipartFlags
    BY DEF MultipartFlags
<1>4. /\ mp \in ParserRecords /\ mp.stage \in {"reading", "read"}
      /\ mp.mpp = NoPart \/ mp.stage = "read"
      /\ mp.stage = "read" => ~Clean(mp) \/ conf.ct = "empty"
    <2>1. mp = multipart_init(conf.ct)
        BY DEF InitMultipart
    <2>2. CASE conf.ct = "good"
        BY <1>1, <2>1, <2>2 DEF multipart_init
    <2>3. CASE conf.ct = "quoted"
        BY <1>1, <1>2, <1>3, <2>1, <2>3 DEF multipart_init, Flag
    <2>4. CASE conf.ct = "noSemicolon"
        BY <1>1, <1>2, <1>3, <2>1, <2>4 DEF multipart_init, Flag
    <2>5. CASE conf.ct = "whitespace"
        BY <1>1, <1>2, <1>3, <2>1, <2>5 DEF multipart_init, Flag
    <2>6. CASE conf.ct = "empty"
        <3>1. mp = [n EXCEPT !.stage = "read"]
            BY <1>1, <2>1, <2>6 DEF multipart_init, Ends0
        <3>2. mp \in ParserRecords /\ mp.stage = "read"
            BY <3>1 DEF ParserRecords
        <3> QED
            BY <2>6, <3>2
    <2>7. CASE conf.ct \notin {"good", "quoted", "noSemicolon", "whitespace", "empty"}
        <3>1. mp = Ends0(Fails(Flag(n, "error")))
            BY <1>1, <2>1, <2>7 DEF multipart_init
        <3> QED
            BY <1>1, <3>1, EndsWithError
    <2> QED
        BY <2>2, <2>3, <2>4, <2>5, <2>6, <2>7
<1>5. /\ parts = << >> /\ tmpFiles = << >> /\ conf \in Confs /\ told = [set |-> FALSE]
      /\ body = [lines |-> 0, afterFlaw |-> 0, boundaries |-> 0]
    BY DEF InitMultipart
<1>6. MultipartTypeOK
    BY <1>4, <1>5, EmptyIsSequence DEF MultipartTypeOK
<1>7. ~told.set
    BY <1>5
<1>8. mp.stage = "reading" => mp.mpp.type = "none"
    BY <1>4 DEF NoPart
<1>9. PartIsOpen /\ EachIsPart /\ PartsWere
    <2>1. DOMAIN parts = {} /\ Len(parts) = 0
        BY <1>5
    <2> QED
        BY <1>5, <1>8, <2>1 DEF PartIsOpen, EachIsPart, PartsWere, PartsBegun
<1>10. StoppedIsTold /\ PartsAreTold /\ FilesAreMarked /\ TemporaryFilesGo
    BY <1>4, <1>7 DEF StoppedIsTold, PartsAreTold, FilesAreMarked, TemporaryFilesGo
<1>11. DoubtsAreFlagged
    BY <1>7 DEF DoubtsAreFlagged, StrictErrorIsUpToDate, CleanBodiesAreUnderstood
<1> QED
    BY <1>6, <1>9, <1>10, <1>11 DEF MultipartInv

LEMMA MultipartStep == MultipartInv /\ [NextMultipart]_multipartVars => MultipartInv'
<1> SUFFICES ASSUME MultipartInv, [NextMultipart]_multipartVars PROVE MultipartInv'
    OBVIOUS
<1>1. CASE \E line \in BodyLines, fault \in {"none", "open", "write"} : process(line, fault)
    BY <1>1, processKeeps
<1>2. CASE DataAfter
    BY <1>2, DataAfterKeeps
<1>3. CASE \E rest \in Rests : multipart_complete(rest)
    BY <1>3, CompleteFinalKeeps, CompleteOtherKeeps
<1>4. CASE DeleteMultipart
    BY <1>4, DeleteMultipartKeeps
<1>5. CASE DeleteTmpFiles
    BY <1>5, DeleteTmpFilesKeeps
<1>6. CASE UNCHANGED multipartVars
    <2>1. UNCHANGED <<conf, mp, parts, tmpFiles, body, told>>
        BY <1>6 DEF multipartVars
    <2>2. /\ MultipartTypeOK' /\ PartIsOpen' /\ PartsWere' /\ EachIsPart' /\ StoppedIsTold'
          /\ PartsAreTold' /\ FilesAreMarked' /\ TemporaryFilesGo'
        BY <2>1 DEF MultipartInv, MultipartTypeOK, PartIsOpen, PartsWere, EachIsPart,
                    StoppedIsTold, PartsAreTold, FilesAreMarked, TemporaryFilesGo, OpenPart,
                    FileHeld, PartIsWhole, OfPart, Extracts, PartsBegun
    <2>3. DoubtsAreFlagged'
        BY <2>1 DEF MultipartInv, DoubtsAreFlagged, StrictErrorIsUpToDate,
                    CleanBodiesAreUnderstood
    <2> QED
        BY <2>2, <2>3 DEF MultipartInv
<1> QED
    BY <1>1, <1>2, <1>3, <1>4, <1>5, <1>6 DEF NextMultipart

LEMMA MultipartIsWhole == MultipartInv => PartsAreWhole
<1> SUFFICES ASSUME MultipartInv PROVE PartsAreWhole
    OBVIOUS
<1>1. parts \in Seq(PartRecords) /\ \A i \in DOMAIN parts : PartIsWhole(parts[i], mp.flags)
    BY DEF MultipartInv, MultipartTypeOK, PartsWere
<1>2. FormFieldsAreWhole
    BY <1>1 DEF FormFieldsAreWhole, PartIsWhole
<1>3. UploadsAreWhole
    <2>1. SUFFICES ASSUME NEW i \in DOMAIN parts, parts[i].file # 0, FileExceeded \notin mp.flags
                   PROVE  /\ tmpFiles[parts[i].file].content = WithoutLastEnd(parts[i].sent)
                          /\ (told.set /\ told.vars # << >>) =>
                                 told.vars[i].size = Len(tmpFiles[parts[i].file].content)
        BY DEF UploadsAreWhole, FileExceeded
    <2>2. /\ tmpFiles[parts[i].file].content = WithoutLastEnd(parts[i].sent)
          /\ parts[i].size = Len(tmpFiles[parts[i].file].content) /\ parts[i].type = "file"
        BY <1>1, <2>1 DEF PartIsWhole
    <2>3. ASSUME told.set, told.vars # << >>
          PROVE  told.vars[i].size = parts[i].size
        <3>1. told.vars = [j \in DOMAIN parts |-> VariablesOfPart(parts[j])]
            BY <2>3 DEF MultipartInv, PartsAreTold
        <3>2. told.vars[i] = VariablesOfPart(parts[i])
            BY <3>1
        <3>3. VariablesOfPart(parts[i]).size = parts[i].size
            BY <2>2 DEF VariablesOfPart
        <3> QED
            BY <3>2, <3>3
    <2> QED
        BY <2>2, <2>3
<1>4. TemporaryFilesGo
    BY DEF MultipartInv
<1> QED
    BY <1>2, <1>3, <1>4 DEF PartsAreWhole

(* What was sent in a part is what the rules see and what is on disk, up   *)
(* to the line end before the boundary, which is held back                 *)
(* (Multipart::process_part_data, process_boundary); and the temporary     *)
(* files of the parts go with the transaction.                             *)
THEOREM PartsStayWhole == SpecMultipart => []PartsAreWhole
<1>1. InitMultipart => MultipartInv
    BY MultipartStarts
<1>2. MultipartInv /\ [NextMultipart]_multipartVars => MultipartInv'
    BY MultipartStep
<1>3. MultipartInv => PartsAreWhole
    BY MultipartIsWhole
<1> QED
    BY <1>1, <1>2, <1>3, PTL DEF SpecMultipart

(* MULTIPART_STRICT_ERROR tells every flag (Multipart::multipart_complete), *)
(* and of a body without an error and without a flag every boundary was     *)
(* taken for one, every part was read with its headers and its data.        *)
THEOREM DoubtsStayFlagged == SpecMultipart => []DoubtsAreFlagged
<1>1. InitMultipart => MultipartInv
    BY MultipartStarts
<1>2. MultipartInv /\ [NextMultipart]_multipartVars => MultipartInv'
    BY MultipartStep
<1>3. MultipartInv => DoubtsAreFlagged
    BY DEF MultipartInv
<1> QED
    BY <1>1, <1>2, <1>3, PTL DEF SpecMultipart
=============================================================================
