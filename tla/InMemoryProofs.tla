--------------------------- MODULE InMemoryProofs ---------------------------
(***************************************************************************)
(* The in-memory backend implements a Collection, for every set of workers *)
(* and keys and every case folding; and what setvar and expirevar leave in *)
(* it when several workers run them, for every set of rules: counts that   *)
(* no other action overlapped are exact, no count is too high, and a key   *)
(* whose rules expire what they store keeps no value for ever.             *)
(***************************************************************************)
EXTENDS SetVar, TLAPS


Inv == MapTypeOK /\ OneElementPerKey /\ NoBareElement

-----------------------------------------------------------------------------
(* A range of the multimap has no element or one.                          *)
LEMMA Short ==
    ASSUME NEW S, NEW s \in Seq(S), Len(s) <= 1
    PROVE  /\ s = << >> \/ (Len(s) = 1 /\ s[1] \in S)
           /\ s = << >> <=> Len(s) = 0
<1>0. Len(s) \in Nat
  OBVIOUS
<1>1. Len(s) = 0 \/ Len(s) = 1
  <2>1. \A j \in Nat : j <= 1 => j = 0 \/ j = 1
    OBVIOUS
  <2> QED
    BY <1>0, <2>1
<1>2. Len(s) = 0 <=> s = << >>
  OBVIOUS
<1>3. Len(s) = 1 => s[1] \in S
  OBVIOUS
<1> QED
  BY <1>1, <1>2, <1>3

(* Replacing a range by one of the same type and at most one element.      *)
LEMMA Replace ==
    ASSUME Inv, NEW k \in Keys, NEW s \in Seq(Node), Len(s) <= 1,
           s # << >> => s[1].second # EmptyData,
           m_map' = [m_map EXCEPT ![k] = s]
    PROVE  /\ m_map' \in [Keys -> Seq(Node)]
           /\ OneElementPerKey' /\ NoBareElement'
           /\ [c \in Keys |-> ElementOf(c)]' =
                 [[c \in Keys |-> ElementOf(c)] EXCEPT ![k] =
                     IF s = << >> THEN EmptyData ELSE s[1].second]
<1>1. m_map \in [Keys -> Seq(Node)]
  BY DEF Inv, MapTypeOK
<1>2. m_map' \in [Keys -> Seq(Node)]
  BY <1>1
<1>3. \A c \in Keys : m_map'[c] = IF c = k THEN s ELSE m_map[c]
  BY <1>1
<1>4. OneElementPerKey' /\ NoBareElement'
  BY <1>3 DEF Inv, OneElementPerKey, NoBareElement, ElementOf
<1>5. [c \in Keys |-> ElementOf(c)]' =
         [[c \in Keys |-> ElementOf(c)] EXCEPT ![k] =
             IF s = << >> THEN EmptyData ELSE s[1].second]
  <2> DEFINE x == IF s = << >> THEN EmptyData ELSE s[1].second
  <2>1. \A c \in Keys : ElementOf(c)' = IF c = k THEN x ELSE ElementOf(c)
    BY <1>3 DEF ElementOf
  <2> HIDE DEF x
  <2>2. [c \in Keys |-> ElementOf(c)]' =
           [[c \in Keys |-> ElementOf(c)] EXCEPT ![k] = x]
    BY <2>1
  <2> QED
    BY <2>2 DEF x
<1> QED
  BY <1>2, <1>4, <1>5

(* The element a function finds for a key, and its place in the map.       *)
LEMMA FoundElement ==
    ASSUME Inv, NEW n \in Names, Find(n)
    PROVE  /\ Fold[n] \in Keys
           /\ m_map[Fold[n]] = <<[first |-> m_map[Fold[n]][1].first,
                                  second |-> First(n)]>>
           /\ m_map[Fold[n]][1].first \in Names
           /\ First(n) \in Data
           /\ First(n) = ElementOf(Fold[n])
<1> DEFINE s == m_map[Fold[n]]
<1>1. Fold[n] \in Keys
  BY FoldAssumption DEF Keys
<1>2. s \in Seq(Node) /\ Len(s) <= 1
  BY <1>1 DEF Inv, MapTypeOK, OneElementPerKey
<1>3. Len(s) = 1 /\ s[1] \in Node
  BY <1>2, Short DEF Find
<1>4. s = <<s[1]>>
  BY <1>2, <1>3
<1>5. s[1] = [first |-> s[1].first, second |-> s[1].second]
      /\ s[1].first \in Names /\ s[1].second \in Data
  BY <1>3 DEF Node
<1> QED
  BY <1>1, <1>3, <1>4, <1>5 DEF First, ElementOf, Find

(* A range of one element with another second component.                   *)
LEMMA ChangeSecond ==
    ASSUME NEW f, NEW d, NEW e
    PROVE  [<<[first |-> f, second |-> d]>> EXCEPT ![1].second = e] =
              <<[first |-> f, second |-> e]>>
<1>1. [[first |-> f, second |-> d] EXCEPT !.second = e] =
         [first |-> f, second |-> e]
  OBVIOUS
<1>2. \A x, y : [<<x>> EXCEPT ![1] = y] = <<y>>
  OBVIOUS
<1> QED
  BY <1>1, <1>2

(* Changing the first element of a key.                                    *)
LEMMA SetFirstStep ==
    ASSUME Inv, NEW n \in Names, Find(n), NEW d \in Data, d # EmptyData,
           m_map' = SetFirst(n, d)
    PROVE  /\ m_map' \in [Keys -> Seq(Node)]
           /\ OneElementPerKey' /\ NoBareElement'
           /\ [c \in Keys |-> ElementOf(c)]' =
                 [[c \in Keys |-> ElementOf(c)] EXCEPT ![Fold[n]] = d]
<1> DEFINE f == m_map[Fold[n]][1].first
           s == <<[first |-> f, second |-> d]>>
<1>1. /\ Fold[n] \in Keys
      /\ m_map[Fold[n]] = <<[first |-> f, second |-> First(n)]>>
      /\ f \in Names
  BY FoundElement
<1>2. m_map \in [Keys -> Seq(Node)]
  BY DEF Inv, MapTypeOK
<1>3. m_map' = [m_map EXCEPT ![Fold[n]] = s]
  <2>1. [<<[first |-> f, second |-> First(n)]>> EXCEPT ![1].second = d] = s
    BY ChangeSecond
  <2>2. m_map' = [m_map EXCEPT ![Fold[n]] =
                     [m_map[Fold[n]] EXCEPT ![1].second = d]]
    BY Zenon DEF SetFirst
  <2> QED
    BY <1>1, <2>1, <2>2
<1>4. s \in Seq(Node) /\ Len(s) <= 1 /\ s # << >> /\ s[1].second = d
  BY <1>1 DEF Node
<1> QED
  BY <1>1, <1>3, <1>4, Replace

(* Adding the first element of a key.                                      *)
LEMMA EmplaceStep ==
    ASSUME Inv, NEW n \in Names, ~Find(n), NEW d \in Data, d # EmptyData,
           m_map' = Emplace(n, d)
    PROVE  /\ m_map' \in [Keys -> Seq(Node)]
           /\ OneElementPerKey' /\ NoBareElement'
           /\ [c \in Keys |-> ElementOf(c)]' =
                 [[c \in Keys |-> ElementOf(c)] EXCEPT ![Fold[n]] = d]
           /\ ElementOf(Fold[n]) = EmptyData
<1> DEFINE s == <<[first |-> n, second |-> d]>>
<1>1. Fold[n] \in Keys
  BY FoldAssumption DEF Keys
<1>2. m_map \in [Keys -> Seq(Node)]
  BY DEF Inv, MapTypeOK
<1>3. m_map' = [m_map EXCEPT ![Fold[n]] = s]
  <2>1. Append(<< >>, [first |-> n, second |-> d]) = s
    OBVIOUS
  <2> QED
    BY <1>1, <1>2, <2>1 DEF Emplace, Find
<1>4. s \in Seq(Node) /\ Len(s) <= 1 /\ s # << >> /\ s[1].second = d
  BY DEF Node
<1> QED
  BY <1>1, <1>3, <1>4, Replace, ZenonT(60) DEF ElementOf, Find

(* Erasing a key.                                                          *)
LEMMA EraseStep ==
    ASSUME Inv, NEW n \in Names, m_map' = [m_map EXCEPT ![Fold[n]] = << >>]
    PROVE  /\ m_map' \in [Keys -> Seq(Node)]
           /\ OneElementPerKey' /\ NoBareElement'
           /\ [c \in Keys |-> ElementOf(c)]' =
                 [[c \in Keys |-> ElementOf(c)] EXCEPT ![Fold[n]] = EmptyData]
<1>1. Fold[n] \in Keys
  BY FoldAssumption DEF Keys
<1>2. << >> \in Seq(Node) /\ Len(<< >>) <= 1
  OBVIOUS
<1> QED
  BY <1>1, <1>2, Replace

-----------------------------------------------------------------------------
(* A function under the write lock is one step of the Collection.          *)

(* The history of calls keeps its type.                                    *)
LEMMA CallTypes ==
    ASSUME Inv, NEW w \in Workers, NEW found \in SUBSET (Keys \X Values),
           NEW op \in {"none", "store", "update", "expire", "del", "resolve"},
           Calls(w, op, found)
    PROVE  /\ did' \in [Workers -> {"none", "store", "update", "expire", "del",
                                    "resolve"}]
           /\ got' \in [Workers -> SUBSET (Keys \X Values)]
           /\ Abstract!Calls(w, op, found)
BY DEF Inv, MapTypeOK, Calls, Abstract!Calls

LEMMA StoreStep ==
    ASSUME Inv, NEW w \in Workers, NEW n \in Names, NEW v \in Values,
           storeOrUpdateFirst(w, n, v)
    PROVE  /\ Inv' /\ Abstract!Write(w, Fold[n]) /\ Fold[n] \in Keys
           /\ [c \in Keys |-> ElementOf(c)]' =
                 [[c \in Keys |-> ElementOf(c)] EXCEPT
                     ![Fold[n]] = setValue(ElementOf(Fold[n]), v)]
<1>1. Fold[n] \in Keys
  BY FoldAssumption DEF Keys
<1>2. UNCHANGED <<now, expiredVars>> /\ Calls(w, "store", {})
  BY DEF storeOrUpdateFirst
<1>3. /\ m_map' \in [Keys -> Seq(Node)]
      /\ OneElementPerKey' /\ NoBareElement'
      /\ [c \in Keys |-> ElementOf(c)]' =
            [[c \in Keys |-> ElementOf(c)] EXCEPT
                ![Fold[n]] = setValue(ElementOf(Fold[n]), v)]
  <2>1. CASE Find(n)
    <3>1. First(n) \in Data /\ First(n) = ElementOf(Fold[n])
      BY <2>1, FoundElement
    <3>2. m_map' = SetFirst(n, setValue(First(n), v))
      BY <2>1 DEF storeOrUpdateFirst
    <3>3. setValue(First(n), v) \in Data /\ setValue(First(n), v) # EmptyData
      BY <3>1, DataAssumption DEF Data, setValue, EmptyData
    <3> QED
      BY <2>1, <3>1, <3>2, <3>3, SetFirstStep
  <2>2. CASE ~Find(n)
    <3>1. /\ m_map' = Emplace(n, DataOf(v))
          /\ DataOf(v) \in Data /\ DataOf(v) # EmptyData
      BY <2>2, DataAssumption DEF storeOrUpdateFirst, Data, DataOf, EmptyData
    <3>2. /\ m_map' \in [Keys -> Seq(Node)]
          /\ OneElementPerKey' /\ NoBareElement'
          /\ [c \in Keys |-> ElementOf(c)]' =
                [[c \in Keys |-> ElementOf(c)] EXCEPT ![Fold[n]] = DataOf(v)]
          /\ ElementOf(Fold[n]) = EmptyData
      BY <2>2, <3>1, EmplaceStep
    <3>3. DataOf(v) = setValue(ElementOf(Fold[n]), v)
      BY <3>2 DEF DataOf, setValue, EmptyData
    <3> QED
      BY <3>2, <3>3
  <2> QED
    BY <2>1, <2>2
<1>4. Abstract!StoreOrUpdateFirst(w, Fold[n], v)
  BY <1>1, <1>2, <1>3, CallTypes
  DEF Abstract!StoreOrUpdateFirst, setValue, Abstract!setValue
<1> QED
  BY <1>1, <1>2, <1>3, <1>4, CallTypes DEF Inv, MapTypeOK, Abstract!Write

LEMMA UpdateStep ==
    ASSUME Inv, NEW w \in Workers, NEW n \in Names, NEW v \in Values,
           updateFirst(w, n, v)
    PROVE  Inv' /\ Abstract!Write(w, Fold[n]) /\ Fold[n] \in Keys
<1>1. Fold[n] \in Keys
  BY FoldAssumption DEF Keys
<1>2. UNCHANGED <<now, expiredVars>> /\ Calls(w, "update", {})
  BY DEF updateFirst
<1>3. /\ m_map' \in [Keys -> Seq(Node)]
      /\ OneElementPerKey' /\ NoBareElement'
      /\ [c \in Keys |-> ElementOf(c)]' =
            [[c \in Keys |-> ElementOf(c)] EXCEPT ![Fold[n]] =
                IF ElementOf(Fold[n]) = EmptyData THEN ElementOf(Fold[n])
                ELSE setValue(ElementOf(Fold[n]), v)]
  <2>1. CASE Find(n)
    <3>1. First(n) \in Data /\ First(n) = ElementOf(Fold[n])
      BY <2>1, FoundElement
    <3>2. First(n) # EmptyData
      BY <1>1, <2>1, <3>1 DEF Inv, NoBareElement, Find
    <3>3. m_map' = SetFirst(n, setValue(First(n), v))
      BY <2>1 DEF updateFirst
    <3>4. setValue(First(n), v) \in Data /\ setValue(First(n), v) # EmptyData
      BY <3>1, DataAssumption DEF Data, setValue, EmptyData
    <3> QED
      BY <2>1, <3>1, <3>2, <3>3, <3>4, SetFirstStep
  <2>2. CASE ~Find(n)
    <3>1. m_map' = m_map /\ ElementOf(Fold[n]) = EmptyData
      BY <2>2 DEF updateFirst, ElementOf, Find
    <3>2. \A c \in Keys : ElementOf(c)' = ElementOf(c)
      BY <3>1 DEF ElementOf
    <3> QED
      BY <1>1, <3>1, <3>2 DEF Inv, MapTypeOK, OneElementPerKey, NoBareElement
  <2> QED
    BY <2>1, <2>2
<1>4. Abstract!UpdateFirst(w, Fold[n], v)
  BY <1>1, <1>2, <1>3, CallTypes
  DEF Abstract!UpdateFirst, setValue, Abstract!setValue, EmptyData,
      Abstract!EmptyData
<1> QED
  BY <1>1, <1>2, <1>3, <1>4, CallTypes DEF Inv, MapTypeOK, Abstract!Write

LEMMA ExpiryStep ==
    ASSUME Inv, NEW w \in Workers, NEW n \in Names, NEW s \in Seconds,
           setExpiryOf(w, n, s)
    PROVE  /\ Inv' /\ Abstract!Write(w, Fold[n]) /\ Fold[n] \in Keys
           /\ [c \in Keys |-> ElementOf(c)]' =
                 [[c \in Keys |-> ElementOf(c)] EXCEPT
                     ![Fold[n]] = setExpiry(ElementOf(Fold[n]), now, s)]
<1> DEFINE e == now + s * TicksPerSecond
           bar == [c \in Keys |-> ElementOf(c)]
<1>1. Fold[n] \in Keys /\ now \in Nat /\ e \in Nat /\ e - 0 = e
  BY FoldAssumption, DataAssumption DEF Keys, Inv, MapTypeOK
<1>2. UNCHANGED <<now, expiredVars>> /\ Calls(w, "expire", {})
  BY DEF setExpiryOf
<1> HIDE DEF e
<1>3. /\ m_map' \in [Keys -> Seq(Node)]
      /\ OneElementPerKey' /\ NoBareElement'
      /\ bar' = [bar EXCEPT ![Fold[n]] = [ElementOf(Fold[n]) EXCEPT !.expiry = e]]
  <2>1. CASE Find(n)
    <3>1. First(n) \in Data /\ First(n) = ElementOf(Fold[n])
      BY <2>1, FoundElement
    <3>2. m_map' = SetFirst(n, [First(n) EXCEPT !.expiry = e])
      BY <2>1 DEF setExpiryOf, setExpiry, e
    <3>3. /\ [First(n) EXCEPT !.expiry = e] \in Data
          /\ [First(n) EXCEPT !.expiry = e] # EmptyData
      BY <1>1, <3>1, DataAssumption DEF Data, EmptyData
    <3> QED
      BY <2>1, <3>1, <3>2, <3>3, SetFirstStep
  <2>2. CASE ~Find(n)
    <3>1. m_map' = Emplace(n, [EmptyData EXCEPT !.expiry = e])
      BY <2>2 DEF setExpiryOf, setExpiry, e
    <3>2. /\ [EmptyData EXCEPT !.expiry = e] \in Data
          /\ [EmptyData EXCEPT !.expiry = e] # EmptyData
      BY <1>1, DataAssumption DEF Data, EmptyData
    <3> QED
      BY <2>2, <3>1, <3>2, EmplaceStep
  <2> QED
    BY <2>1, <2>2
<1>4. bar' = [bar EXCEPT ![Fold[n]] = setExpiry(ElementOf(Fold[n]), now, s)]
  BY <1>3 DEF setExpiry, e
<1>5. bar' = [bar EXCEPT ![Fold[n]] = setExpiry(bar[Fold[n]], now - 0, s)]
  <2>1. now - 0 = now
    BY <1>1
  <2>2. setExpiry(bar[Fold[n]], now - 0, s) =
           [ElementOf(Fold[n]) EXCEPT !.expiry = e]
    BY <1>1, <2>1 DEF setExpiry, e
  <2> QED
    BY <1>3, <2>2
<1>6. Abstract!SetExpiry(w, Fold[n], s)
  <2> HIDE DEF bar
  <2>1. \E early \in 0 .. 0 :
           bar' = [bar EXCEPT ![Fold[n]] =
                      setExpiry(bar[Fold[n]], now - early, s)]
    <3> WITNESS 0 \in 0 .. 0
    <3> QED
      BY <1>5
  <2> QED
    BY <1>2, <2>1, CallTypes
    DEF Abstract!SetExpiry, Abstract!setExpiry, setExpiry, bar
<1> QED
  BY <1>1, <1>2, <1>3, <1>4, <1>6, CallTypes DEF Inv, MapTypeOK, Abstract!Write

LEMMA DelStep ==
    ASSUME Inv, NEW w \in Workers, NEW n \in Names, del(w, n)
    PROVE  /\ Inv' /\ Abstract!Write(w, Fold[n]) /\ Fold[n] \in Keys
           /\ [c \in Keys |-> ElementOf(c)]' =
                 [[c \in Keys |-> ElementOf(c)] EXCEPT
                     ![Fold[n]] = EmptyData]
<1>1. Fold[n] \in Keys
  BY FoldAssumption DEF Keys
<1>2. UNCHANGED <<now, expiredVars>> /\ Calls(w, "del", {})
  BY DEF del
<1>3. /\ m_map' \in [Keys -> Seq(Node)]
      /\ OneElementPerKey' /\ NoBareElement'
      /\ [c \in Keys |-> ElementOf(c)]' =
            [[c \in Keys |-> ElementOf(c)] EXCEPT ![Fold[n]] = EmptyData]
  BY EraseStep DEF del
<1>4. Abstract!Del(w, Fold[n])
  BY <1>2, <1>3, CallTypes DEF Abstract!Del, Abstract!EmptyData, EmptyData
<1> QED
  BY <1>1, <1>2, <1>3, <1>4, CallTypes DEF Inv, MapTypeOK, Abstract!Write

(* delIfExpired looks at the element again: what it erases is expired now. *)
LEMMA PurgeStep ==
    ASSUME Inv, NEW w \in Workers, delIfExpired(w)
    PROVE  Inv' /\ [Abstract!Next]_Abstract!vars
<1>1. PICK n \in expiredVars[w] :
         /\ m_map' = IF \E j \in DOMAIN m_map[Fold[n]] :
                          /\ m_map[Fold[n]][j].first = n
                          /\ isExpired(m_map[Fold[n]][j].second, now)
                     THEN [m_map EXCEPT ![Fold[n]] = << >>]
                     ELSE m_map
         /\ expiredVars' = [expiredVars EXCEPT ![w] = @ \ {n}]
         /\ UNCHANGED <<now, did, got>>
  BY DEF delIfExpired
<1>2. n \in Names /\ expiredVars' \in [Workers -> SUBSET Names]
  BY <1>1 DEF Inv, MapTypeOK
<1>3. Fold[n] \in Keys
  BY <1>2, FoldAssumption DEF Keys
<1>4. CASE \E j \in DOMAIN m_map[Fold[n]] :
              /\ m_map[Fold[n]][j].first = n
              /\ isExpired(m_map[Fold[n]][j].second, now)
  <2>1. /\ m_map' \in [Keys -> Seq(Node)]
        /\ OneElementPerKey' /\ NoBareElement'
        /\ [c \in Keys |-> ElementOf(c)]' =
              [[c \in Keys |-> ElementOf(c)] EXCEPT ![Fold[n]] = EmptyData]
    BY <1>1, <1>2, <1>4, EraseStep
  <2>2. isExpired(ElementOf(Fold[n]), now)
    <3>1. PICK j \in DOMAIN m_map[Fold[n]] :
             isExpired(m_map[Fold[n]][j].second, now)
      BY <1>4
    <3>2. Find(n)
      BY <3>1 DEF Find
    <3>3. m_map[Fold[n]] \in Seq(Node) /\ Len(m_map[Fold[n]]) <= 1
      BY <1>3 DEF Inv, MapTypeOK, OneElementPerKey
    <3>4. Len(m_map[Fold[n]]) = 1
      BY <3>2, <3>3, Short DEF Find
    <3>5. DOMAIN m_map[Fold[n]] = {1}
      BY <3>3, <3>4
    <3> QED
      BY <3>1, <3>2, <3>5 DEF ElementOf, Find
  <2>3. Abstract!Purge(Fold[n])
    BY <1>1, <1>3, <2>1, <2>2
    DEF Abstract!Purge, Abstract!isExpired, Abstract!hasExpiry,
        Abstract!EmptyData, isExpired, hasExpiry, EmptyData
  <2> QED
    BY <1>1, <1>2, <1>3, <2>1, <2>3 DEF Inv, MapTypeOK, Abstract!Next
<1>5. CASE ~\E j \in DOMAIN m_map[Fold[n]] :
              /\ m_map[Fold[n]][j].first = n
              /\ isExpired(m_map[Fold[n]][j].second, now)
  <2>1. UNCHANGED <<m_map, now, did, got>>
    BY <1>1, <1>5
  <2> QED
    BY <1>2, <2>1
    DEF Inv, MapTypeOK, OneElementPerKey, NoBareElement, Abstract!vars,
        ElementOf
<1> QED
  BY <1>4, <1>5

(* What a resolve function finds under the read lock is what the           *)
(* Collection shows of the same keys at that instant.                      *)
LEMMA FoundIsShown ==
    ASSUME Inv, NEW K \in SUBSET Keys
    PROVE  Found(K) = {p \in K \X Values :
                          /\ Visible(ElementOf(p[1]), now)
                          /\ ElementOf(p[1]).value = p[2]}
<1> SUFFICES ASSUME NEW p \in K \X Values
             PROVE  (\E j \in DOMAIN m_map[p[1]] :
                        /\ Visible(m_map[p[1]][j].second, now)
                        /\ m_map[p[1]][j].second.value = p[2])
                    <=> /\ Visible(ElementOf(p[1]), now)
                        /\ ElementOf(p[1]).value = p[2]
  BY DEF Found
<1> DEFINE s == m_map[p[1]]
<1>1. s \in Seq(Node) /\ Len(s) <= 1
  BY DEF Inv, MapTypeOK, OneElementPerKey
<1>2. CASE s = << >>
  BY <1>2 DEF ElementOf, Visible, hasValue, EmptyData
<1>3. CASE s # << >>
  <2>1. Len(s) = 1
    BY <1>1, <1>3, Short
  <2>2. DOMAIN s = {1}
    BY <1>1, <2>1
  <2> QED
    BY <1>3, <2>2 DEF ElementOf
<1> QED
  BY <1>2, <1>3

LEMMA LookStep ==
    ASSUME Inv, NEW w \in Workers, NEW K \in SUBSET Keys, LookAt(w, K)
    PROVE  Inv' /\ Abstract!Next
<1>1. Found(K) \in SUBSET (Keys \X Values) /\ Expired(K) \in SUBSET Names
  BY DEF Found, Expired
<1>2. Inv'
  BY <1>1, CallTypes
  DEF Inv, MapTypeOK, OneElementPerKey, NoBareElement, ElementOf, LookAt
<1>3. Abstract!Resolve(w, K)
  BY FoundIsShown, CallTypes
  DEF LookAt, Abstract!Resolve, Abstract!Visible, Abstract!isExpired,
      Abstract!hasExpiry, Abstract!hasValue, Visible, isExpired, hasExpiry,
      hasValue, ElementOf
<1> QED
  BY <1>2, <1>3 DEF Abstract!Next

(* With one element per key the last visible element is the only one.      *)
LEMMA FirstIsSingle ==
    ASSUME Inv, NEW w \in Workers, NEW n \in Names, resolveFirst(w, n)
    PROVE  LookAt(w, {Fold[n]}) /\ {Fold[n]} \in SUBSET Keys
<1> DEFINE s == m_map[Fold[n]]
           shown == {j \in DOMAIN s : Visible(s[j].second, now)}
           last == {<<Fold[n], s[j].second.value>> :
                       j \in {l \in shown : \A o \in shown : o <= l}}
<1>1. Fold[n] \in Keys
  BY FoldAssumption DEF Keys
<1>2. s \in Seq(Node) /\ Len(s) <= 1
  BY <1>1 DEF Inv, MapTypeOK, OneElementPerKey
<1>3. s = << >> \/ (Len(s) = 1 /\ s[1] \in Node)
  BY <1>2, Short
<1>4. DOMAIN s \subseteq {1}
  BY <1>2, <1>3
<1>5. \A j \in shown : s[j].second.value \in Values
  <2> SUFFICES ASSUME NEW j \in shown
               PROVE  s[j].second.value \in Values
    OBVIOUS
  <2>1. s[j] \in Node
    BY <1>2
  <2> QED
    BY <2>1 DEF Visible, hasValue, Node, Data
<1>6. last = {<<Fold[n], s[j].second.value>> : j \in shown}
  <2>1. \A l \in shown : \A o \in shown : o <= l
    BY <1>4
  <2> QED
    BY <2>1
<1>7. {<<Fold[n], s[j].second.value>> : j \in shown} = Found({Fold[n]})
  BY <1>5 DEF Found
<1> QED
  BY <1>1, <1>6, <1>7 DEF resolveFirst, LookAt

LEMMA ReadStep ==
    ASSUME Inv, NEW w \in Workers, Read(w)
    PROVE  Inv' /\ Abstract!Next
<1>1. \A n \in Names : {Fold[n]} \in SUBSET Keys
  BY FoldAssumption DEF Keys
<1>2. \E K \in SUBSET Keys : LookAt(w, K)
  <2>1. CASE \E n \in Names : resolveSingleMatch(w, n) \/ resolveFirst(w, n)
    BY <1>1, <2>1, FirstIsSingle DEF resolveSingleMatch
  <2>2. CASE \E omit \in SUBSET Keys : \E n \in Names :
                resolveMultiMatches(w, n, omit)
    <3>1. \A n \in Names, omit \in SUBSET Keys :
             {Fold[n]} \ omit \in SUBSET Keys
      BY <1>1
    <3> QED
      BY <2>2, <3>1 DEF resolveMultiMatches
  <2>3. CASE \E omit \in SUBSET Keys :
                \/ resolveEveryMatch(w, omit)
                \/ \E matched \in SUBSET Keys :
                      resolveRegularExpression(w, matched, omit)
    <3>1. \A omit, matched \in SUBSET Keys : matched \ omit \in SUBSET Keys
      OBVIOUS
    <3> QED
      BY <2>3, <3>1 DEF resolveEveryMatch, resolveRegularExpression
  <2> QED
    BY <2>1, <2>2, <2>3 DEF Read
<1> QED
  BY <1>2, LookStep

LEMMA MapStep ==
    ASSUME Inv, [MapNext]_mapVars
    PROVE  Inv' /\ [Abstract!Next]_Abstract!vars
<1>1. ASSUME NEW w \in Workers, NEW n \in Names, Write(w, n)
      PROVE  Inv' /\ Abstract!Next
  <2>1. Inv' /\ Abstract!Write(w, Fold[n]) /\ Fold[n] \in Keys
    BY <1>1, StoreStep, UpdateStep, ExpiryStep, DelStep DEF Write
  <2> QED
    BY <2>1 DEF Abstract!Next
<1>2. ASSUME NEW w \in Workers, Read(w)
      PROVE  Inv' /\ Abstract!Next
  BY <1>2, ReadStep
<1>3. ASSUME NEW w \in Workers, delIfExpired(w)
      PROVE  Inv' /\ [Abstract!Next]_Abstract!vars
  BY <1>3, PurgeStep
<1>4. CASE Tick
  <2>1. Inv'
    BY <1>4 DEF Tick, Inv, MapTypeOK, OneElementPerKey, NoBareElement, ElementOf
  <2>2. Abstract!Tick
    BY <1>4 DEF Tick, Abstract!Tick, ElementOf
  <2> QED
    BY <2>1, <2>2 DEF Abstract!Next
<1>5. CASE UNCHANGED mapVars
  BY <1>5
  DEF mapVars, Inv, MapTypeOK, OneElementPerKey, NoBareElement, Abstract!vars,
      ElementOf
<1> QED
  BY <1>1, <1>2, <1>3, <1>4, <1>5 DEF MapNext

LEMMA MapStart ==
    ASSUME MapInit
    PROVE  Inv /\ Abstract!Init
<1>1. Inv
  BY DEF MapInit, Inv, MapTypeOK, OneElementPerKey, NoBareElement
<1>2. Abstract!Init
  BY DEF MapInit, Abstract!Init, Abstract!EmptyData, EmptyData, ElementOf
<1> QED
  BY <1>1, <1>2

-----------------------------------------------------------------------------
(* In every reachable state of the in-memory backend the map is well typed *)
(* and no key has two elements, in whatever spellings and interleavings    *)
(* the workers store, expire and delete.                                   *)
THEOREM OneElement == MapSpec => [](MapTypeOK /\ OneElementPerKey)
<1>1. MapInit => Inv
  BY MapStart
<1>2. Inv /\ [MapNext]_mapVars => Inv'
  BY MapStep
<1> QED
  BY <1>1, <1>2, PTL DEF MapSpec, Inv

(* The in-memory backend implements a Collection: readers get what is      *)
(* stored and not expired at one instant of their call, and elements only  *)
(* disappear by del or after they expired, though the keys to purge are    *)
(* collected under an earlier lock than the one that erases them.          *)
THEOREM Refinement == MapSpec => ImplementsCollection
<1>1. MapInit => Inv /\ Abstract!Init
  BY MapStart
<1>2. Inv /\ [MapNext]_mapVars => Inv' /\ [Abstract!Next]_Abstract!vars
  BY MapStep
<1> QED
  BY <1>1, <1>2, PTL DEF MapSpec, ImplementsCollection, Abstract!Spec


-----------------------------------------------------------------------------
(* setvar and expirevar: the inductive invariant.                          *)

(* What a worker has left of its rule is an end of it.                     *)
Proper(w) ==
    \A j \in DOMAIN script[w] :
       /\ script[w][j].op = "set" => script[w][j].arg \in Values
       /\ script[w][j].op = "setToOne" => 1 \in Values

Disciplined(w) ==
    \A k \in Keys : ExpiresWhatItStores(k) =>
       \A j \in DOMAIN script[w] : Stores(script[w][j], k) =>
          \E l \in DOMAIN script[w] : l > j /\ Expires(script[w][l], k)

(* A worker inside a sum remembers the key, and a value that was never     *)
(* more than what had been added by then.                                  *)
Remembers(w) ==
    summing[w] => /\ At(w, "sumAndSet") \/ At(w, "substractAndSet")
                  /\ wrote[w] = Fold[name(w)]
                  /\ \A p \in got[w] : stoi(p[2]) <= total[wrote[w]]

(* Unless another worker touched the key since, that value is the stored   *)
(* one, or the stored one has expired and the worker is about to erase it. *)
UpToDate(w) ==
    summing[w] /\ since[w] = {} =>
       \/ /\ expiredVars[w] = {}
          /\ \A p \in got[w] : stoi(p[2]) = Stored(wrote[w])
          /\ got[w] = {} => Stored(wrote[w]) = 0
       \/ /\ got[w] = {}
          /\ m_map[wrote[w]] # << >>
          /\ expiredVars[w] = {m_map[wrote[w]][1].first}
          /\ Fold[m_map[wrote[w]][1].first] = wrote[w]
          /\ isExpired(ElementOf(wrote[w]), now)

(* What a rule stored is there until somebody touches it.                  *)
StillThere(w) ==
    wrote[w] \in Keys /\ since[w] = {} /\ ~summing[w] =>
       hasValue(ElementOf(wrote[w]))

WorkerInv(w) == /\ Proper(w) /\ Disciplined(w)
                /\ Remembers(w) /\ UpToDate(w) /\ StillThere(w)

(* The element of a key is in the map under that key, however it is spelt. *)
InPlace ==
    \A k \in Keys : m_map[k] # << >> => Fold[m_map[k][1].first] = k

SetVarInv == /\ Inv /\ TypeOK /\ InPlace
             /\ \A w \in Workers : WorkerInv(w)
             /\ CountsAlone /\ NeverOvercounts /\ NoImmortalValue

-----------------------------------------------------------------------------
(* Sequences and numbers.                                                  *)

LEMMA TailOf ==
    ASSUME NEW S, NEW s \in Seq(S), s # << >>
    PROVE  /\ Tail(s) \in Seq(S) /\ Tail(s) # s
           /\ Head(s) = s[1] /\ Head(s) \in S /\ 1 \in DOMAIN s
           /\ \A j \in DOMAIN Tail(s) : /\ j \in Nat /\ j + 1 \in DOMAIN s
                                        /\ Tail(s)[j] = s[j + 1]
           /\ \A j \in DOMAIN s : /\ j \in Nat
                                  /\ j # 1 => /\ j - 1 \in DOMAIN Tail(s)
                                              /\ Tail(s)[j - 1] = s[j]
<1>1. Len(s) \in Nat /\ Len(s) > 0 /\ DOMAIN s = 1 .. Len(s)
  OBVIOUS
<1>2. /\ Tail(s) \in Seq(S) /\ Len(Tail(s)) = Len(s) - 1
      /\ Head(s) = s[1] /\ s[1] \in S
  BY <1>1
<1>3. DOMAIN Tail(s) = 1 .. (Len(s) - 1)
  BY <1>2
<1>4. \A j \in 1 .. (Len(s) - 1) : Tail(s)[j] = s[j + 1]
  BY <1>1
<1>5. \A j \in DOMAIN Tail(s) : /\ j \in Nat /\ j + 1 \in DOMAIN s
                                /\ Tail(s)[j] = s[j + 1]
  BY <1>1, <1>3, <1>4
<1>6. ASSUME NEW j \in DOMAIN s
      PROVE  /\ j \in Nat
             /\ j # 1 => j - 1 \in DOMAIN Tail(s) /\ Tail(s)[j - 1] = s[j]
  <2>1. j \in Nat
    BY <1>1
  <2>2. j # 1 => j - 1 \in 1 .. (Len(s) - 1) /\ (j - 1) + 1 = j
    BY <1>1
  <2> QED
    BY <1>3, <1>4, <2>1, <2>2
<1>7. Tail(s) # s
  <2>1. \A n \in Nat : n - 1 # n
    OBVIOUS
  <2>2. Len(Tail(s)) # Len(s)
    BY <1>1, <1>2, <2>1, Zenon
  <2> QED
    BY <2>2, Zenon
<1>8. 1 \in DOMAIN s /\ Head(s) \in S
  BY <1>1, <1>2
<1> QED
  BY <1>2, <1>5, <1>6, <1>7, <1>8, Zenon

LEMMA Numbers ==
    /\ \A v : stoi(v) \in Int
    /\ \A n \in Int : stoi(n) = n /\ Added(n) \in Nat /\ n <= Added(n)
    /\ stoi(NoValue) = 0
BY RulesAssumption DEF stoi, Added

LEMMA StoredValues ==
    ASSUME Inv, NEW c \in Keys
    PROVE  /\ ElementOf(c) \in Data
           /\ ElementOf(c) = [value |-> ElementOf(c).value,
                              expiry |-> ElementOf(c).expiry]
           /\ Stored(c) \in Int
           /\ m_map[c] = << >> => ElementOf(c) = EmptyData /\ Stored(c) = 0
<1>1. m_map[c] \in Seq(Node) /\ Len(m_map[c]) <= 1
  BY DEF Inv, MapTypeOK, OneElementPerKey
<1>2. m_map[c] = << >> \/ (Len(m_map[c]) = 1 /\ m_map[c][1] \in Node)
  BY <1>1, Short
<1>3. ElementOf(c) \in Data
  BY <1>2, DataAssumption DEF ElementOf, Node, Data, EmptyData
<1>4. m_map[c] = << >> => ElementOf(c) = EmptyData /\ Stored(c) = 0
  BY Numbers DEF ElementOf, Stored, EmptyData
<1> QED
  BY <1>3, <1>4, Numbers DEF Data, Stored

(* A function of the collection leaves the other keys alone.               *)
LEMMA OtherKeys ==
    ASSUME Inv, NEW w \in Workers, NEW n \in Names,
           \/ \E v \in Values : storeOrUpdateFirst(w, n, v)
           \/ \E s \in Seconds : setExpiryOf(w, n, s)
           \/ del(w, n)
    PROVE  /\ Fold[n] \in Keys
           /\ \A c \in Keys : c # Fold[n] => m_map'[c] = m_map[c]
           /\ UNCHANGED <<now, expiredVars>>
           /\ expiredVars[w] = {} /\ got' = [got EXCEPT ![w] = {}]
<1>1. Fold[n] \in Keys /\ m_map \in [Keys -> Seq(Node)]
  BY FoldAssumption DEF Keys, Inv, MapTypeOK
<1>2. \A d : \E x : SetFirst(n, d) = [m_map EXCEPT ![Fold[n]] = x]
  <2> TAKE d
  <2>1. SetFirst(n, d) =
           [m_map EXCEPT ![Fold[n]] = [m_map[Fold[n]] EXCEPT ![1].second = d]]
    BY Zenon DEF SetFirst
  <2> QED
    BY <2>1, Zenon
<1>3. \A d : \E x : Emplace(n, d) = [m_map EXCEPT ![Fold[n]] = x]
  <2> TAKE d
  <2>1. Emplace(n, d) =
           [m_map EXCEPT ![Fold[n]] =
              Append(m_map[Fold[n]], [first |-> n, second |-> d])]
    BY Zenon DEF Emplace
  <2> QED
    BY <2>1, Zenon
<1>4. \/ \E d : m_map' = SetFirst(n, d) \/ m_map' = Emplace(n, d)
      \/ m_map' = [m_map EXCEPT ![Fold[n]] = << >>]
  <2>1. CASE \E v \in Values : storeOrUpdateFirst(w, n, v)
    BY <2>1, Zenon DEF storeOrUpdateFirst
  <2>2. CASE \E s \in Seconds : setExpiryOf(w, n, s)
    BY <2>2, Zenon DEF setExpiryOf
  <2>3. CASE del(w, n)
    BY <2>3 DEF del
  <2> QED
    BY <2>1, <2>2, <2>3
<1>5. \E x : m_map' = [m_map EXCEPT ![Fold[n]] = x]
  BY <1>2, <1>3, <1>4, Zenon
<1>6. \A c \in Keys : c # Fold[n] => m_map'[c] = m_map[c]
  BY <1>1, <1>5
<1>7. /\ UNCHANGED <<now, expiredVars>>
      /\ expiredVars[w] = {} /\ got' = [got EXCEPT ![w] = {}]
  BY DEF storeOrUpdateFirst, setExpiryOf, del, Calls, Returned
<1> QED
  BY <1>1, <1>6, <1>7

LEMMA StaysInPlace ==
    ASSUME Inv, InPlace, NEW w \in Workers, NEW n \in Names,
           \/ \E v \in Values : storeOrUpdateFirst(w, n, v)
           \/ \E s \in Seconds : setExpiryOf(w, n, s)
           \/ del(w, n)
    PROVE  InPlace'
<1> PICK k : k = Fold[n]
  OBVIOUS
<1>1. /\ k \in Keys /\ m_map \in [Keys -> Seq(Node)]
      /\ \A c \in Keys : c # k => m_map'[c] = m_map[c]
  BY OtherKeys DEF Inv, MapTypeOK
<1>2. \A d : m_map' = SetFirst(n, d) /\ Find(n) => Fold[m_map'[k][1].first] = k
  <2> SUFFICES ASSUME NEW d, m_map' = SetFirst(n, d), Find(n)
               PROVE  Fold[m_map'[k][1].first] = k
    OBVIOUS
  <2> DEFINE f == m_map[Fold[n]][1].first
  <2>1. m_map[k] = <<[first |-> f, second |-> First(n)]>> /\ Fold[f] = k
    BY <1>1, FoundElement DEF InPlace, Find
  <2>2. m_map'[k] = [m_map[k] EXCEPT ![1].second = d]
    BY <1>1 DEF SetFirst
  <2> HIDE DEF f
  <2>3. m_map'[k] = <<[first |-> f, second |-> d]>>
    BY <2>1, <2>2, ChangeSecond
  <2> QED
    BY <2>1, <2>3
<1>3. \A d : m_map' = Emplace(n, d) /\ ~Find(n) => Fold[m_map'[k][1].first] = k
  <2> SUFFICES ASSUME NEW d, m_map' = Emplace(n, d), ~Find(n)
               PROVE  Fold[m_map'[k][1].first] = k
    OBVIOUS
  <2>1. m_map'[k] = Append(<< >>, [first |-> n, second |-> d])
    BY <1>1 DEF Emplace, Find
  <2>2. m_map'[k] = <<[first |-> n, second |-> d]>>
    BY <2>1
  <2> QED
    BY <2>2
<1>4. m_map'[k] # << >> => Fold[m_map'[k][1].first] = k
  <2>1. CASE \E v \in Values : storeOrUpdateFirst(w, n, v)
    BY <1>2, <1>3, <2>1, Zenon DEF storeOrUpdateFirst
  <2>2. CASE \E s \in Seconds : setExpiryOf(w, n, s)
    BY <1>2, <1>3, <2>2, Zenon DEF setExpiryOf
  <2>3. CASE del(w, n)
    BY <1>1, <2>3 DEF del
  <2> QED
    BY <2>1, <2>2, <2>3
<1> QED
  BY <1>1, <1>4 DEF InPlace

-----------------------------------------------------------------------------
(* The workers that look on.                                               *)

(* Nothing is ever taken from what was added.                              *)
TotalGrows == /\ total' \in [Keys -> Nat]
              /\ \A c \in Keys : total'[c] >= total[c]

(* A worker does nothing, and hears of a change of the key it remembers.   *)
Idles(u) == /\ script'[u] = script[u] /\ summing'[u] = summing[u]
            /\ wrote'[u] = wrote[u] /\ expiredVars'[u] = expiredVars[u]
            /\ got'[u] = got[u]
            /\ \/ since'[u] # {}
               \/ /\ since[u] = {}
                  /\ wrote[u] \in Keys => m_map'[wrote[u]] = m_map[wrote[u]]

(* A worker keeps its invariant if nobody touches the key it remembers, or *)
(* if it hears of it.                                                      *)
LEMMA Bystander ==
    ASSUME SetVarInv, NEW u \in Workers,
           Idles(u), now' \in Nat, now' >= now, TotalGrows
    PROVE  WorkerInv(u)'
<1> USE DEF Idles, TotalGrows
<1>0. /\ WorkerInv(u) /\ now \in Nat /\ total \in [Keys -> Nat]
      /\ wrote[u] \in Keys \cup {NoKey} /\ Inv
  BY DEF SetVarInv, TypeOK, Inv, MapTypeOK
<1>1. Proper(u)' /\ Disciplined(u)'
  BY <1>0 DEF WorkerInv, Proper, Disciplined
<1>2. summing[u] => wrote[u] \in Keys
  <2> SUFFICES ASSUME summing[u]
               PROVE  wrote[u] \in Keys
    OBVIOUS
  <2>1. script[u] # << >> /\ wrote[u] = Fold[name(u)]
    BY <1>0 DEF WorkerInv, Remembers, At
  <2>2. script[u] \in Seq(Actions)
    BY DEF SetVarInv, TypeOK
  <2>3. Head(script[u]) \in Actions
    BY <2>1, <2>2, TailOf
  <2> QED
    BY <2>1, <2>3, FoldAssumption DEF name, Actions, Keys
<1>3. Remembers(u)'
  <2> SUFFICES ASSUME summing[u]
               PROVE  /\ (At(u, "sumAndSet") \/ At(u, "substractAndSet"))'
                      /\ wrote'[u] = Fold[name(u)']
                      /\ \A p \in got[u] : stoi(p[2]) <= total'[wrote[u]]
    BY DEF Remembers
  <2>1. /\ At(u, "sumAndSet") \/ At(u, "substractAndSet")
        /\ wrote[u] = Fold[name(u)]
        /\ \A p \in got[u] : stoi(p[2]) <= total[wrote[u]]
    BY <1>0 DEF WorkerInv, Remembers
  <2>2. (At(u, "sumAndSet") \/ At(u, "substractAndSet"))' /\ name(u)' = name(u)
    BY <2>1 DEF At, name
  <2>3. \A p \in got[u] : stoi(p[2]) \in Int
    BY Numbers
  <2>4. \A p \in got[u] : stoi(p[2]) <= total'[wrote[u]]
    BY <1>0, <1>2, <2>1, <2>3
  <2> QED
    BY <2>1, <2>2, <2>4
<1>4. UpToDate(u)'
  <2> SUFFICES ASSUME summing[u], since'[u] = {}
               PROVE  UpToDate(u)'
    BY DEF UpToDate
  <2>1. since[u] = {} /\ wrote[u] \in Keys /\ m_map'[wrote[u]] = m_map[wrote[u]]
    BY <1>2
  <2>2. /\ ElementOf(wrote[u])' = ElementOf(wrote[u])
        /\ Stored(wrote[u])' = Stored(wrote[u])
    BY <2>1 DEF ElementOf, Stored
  <2>3. isExpired(ElementOf(wrote[u]), now)
           => isExpired(ElementOf(wrote[u]), now')
    <3>1. ElementOf(wrote[u]).expiry \in Nat \cup {Never}
      BY <1>0, <2>1, StoredValues DEF Data
    <3> QED
      BY <1>0, <3>1 DEF isExpired, hasExpiry
  <2> QED
    BY <1>0, <2>1, <2>2, <2>3 DEF WorkerInv, UpToDate
<1>5. StillThere(u)'
  <2> SUFFICES ASSUME wrote[u] \in Keys, since'[u] = {}, ~summing[u]
               PROVE  hasValue(ElementOf(wrote[u])')
    BY DEF StillThere, hasValue, ElementOf
  <2>1. ElementOf(wrote[u])' = ElementOf(wrote[u])
    BY DEF ElementOf
  <2> QED
    BY <1>0, <2>1 DEF WorkerInv, StillThere
<1> QED
  BY <1>1, <1>3, <1>4, <1>5 DEF WorkerInv

-----------------------------------------------------------------------------
(* The worker that executes an action of its rule.                         *)

Awaited(k) ==
    \E w \in Workers : \E j \in DOMAIN script[w] : Expires(script[w][j], k)

LEMMA ScriptStep ==
    ASSUME SetVarInv, NEW w \in Workers, script[w] # << >>, Next1(w)
    PROVE  /\ script' \in [Workers -> Seq(Actions)]
           /\ script'[w] = Tail(script[w]) /\ script'[w] # script[w]
           /\ \A u \in Workers : u # w => script'[u] = script[u]
           /\ Proper(w)' /\ Disciplined(w)'
           /\ \A k \in Keys : Awaited(k) /\ ~Expires(Head(script[w]), k)
                                 => Awaited(k)'
           /\ \A k \in Keys : /\ ExpiresWhatItStores(k)
                              /\ Stores(Head(script[w]), k)
                              => Awaited(k)'
<1> DEFINE s == script[w]
           t == Tail(script[w])
<1>1. /\ script \in [Workers -> Seq(Actions)]
      /\ Proper(w) /\ Disciplined(w)
  BY DEF SetVarInv, TypeOK, WorkerInv
<1>2. /\ script' \in [Workers -> Seq(Actions)] /\ script'[w] = t /\ t # s
      /\ \A u \in Workers : u # w => script'[u] = script[u]
  <2>1. t \in Seq(Actions) /\ t # s
    BY <1>1, TailOf
  <2>2. script' = [script EXCEPT ![w] = t]
    BY DEF Next1
  <2> QED
    BY <1>1, <2>1, <2>2
<1>3. /\ Head(s) = s[1] /\ 1 \in DOMAIN s
      /\ \A j \in DOMAIN t : /\ j \in Nat /\ j + 1 \in DOMAIN s
                             /\ t[j] = s[j + 1]
      /\ \A j \in DOMAIN s : /\ j \in Nat
                             /\ j # 1 => j - 1 \in DOMAIN t /\ t[j - 1] = s[j]
  BY <1>1, TailOf
<1> HIDE DEF s, t
<1>4. Proper(w)'
  BY <1>1, <1>2, <1>3 DEF Proper, s
<1>5. Disciplined(w)'
  <2> SUFFICES ASSUME NEW k \in Keys, ExpiresWhatItStores(k),
                      NEW j \in DOMAIN t, Stores(t[j], k)
               PROVE  \E l \in DOMAIN t : l > j /\ Expires(t[l], k)
    BY <1>2 DEF Disciplined
  <2>1. Stores(s[j + 1], k) /\ j + 1 \in DOMAIN s /\ j \in Nat
    BY <1>3
  <2>2. PICK l \in DOMAIN s : l > j + 1 /\ Expires(s[l], k)
    BY <1>1, <2>1 DEF Disciplined, s
  <2>3. l \in Nat /\ l # 1 /\ l - 1 > j
    BY <1>3, <2>1, <2>2
  <2>4. l - 1 \in DOMAIN t /\ t[l - 1] = s[l]
    BY <1>3, <2>3
  <2> QED
    BY <2>2, <2>3, <2>4
<1>6. ASSUME NEW k \in Keys, Awaited(k), ~Expires(Head(s), k)
      PROVE  Awaited(k)'
  <2>1. PICK u \in Workers : \E j \in DOMAIN script[u] : Expires(script[u][j], k)
    BY <1>6 DEF Awaited
  <2>2. CASE u = w
    <3>1. PICK j \in DOMAIN s : Expires(s[j], k)
      BY <2>1, <2>2 DEF s
    <3>2. j # 1
      BY <1>3, <1>6, <3>1
    <3>3. j - 1 \in DOMAIN t /\ t[j - 1] = s[j]
      BY <1>3, <3>2
    <3> QED
      BY <1>2, <3>1, <3>3 DEF Awaited
  <2>3. CASE u # w
    BY <1>2, <2>1, <2>3 DEF Awaited
  <2> QED
    BY <2>2, <2>3
<1>7. ASSUME NEW k \in Keys, ExpiresWhatItStores(k), Stores(Head(s), k)
      PROVE  Awaited(k)'
  <2>1. PICK l \in DOMAIN s : l > 1 /\ Expires(s[l], k)
    BY <1>1, <1>3, <1>7 DEF Disciplined, s
  <2>2. l # 1
    BY <1>3, <2>1
  <2>3. l - 1 \in DOMAIN t /\ t[l - 1] = s[l]
    BY <1>3, <2>2
  <2> QED
    BY <1>2, <2>1, <2>3 DEF Awaited
<1> QED
  BY <1>2, <1>4, <1>5, <1>6, <1>7 DEF s, t

(* The action a worker is at, and its key.                                 *)
LEMMA AtAction ==
    ASSUME SetVarInv, NEW w \in Workers, script[w] # << >>
    PROVE  /\ name(w) \in Names /\ Fold[name(w)] \in Keys
           /\ arg(w) \in Values \cup Seconds \cup {NoValue}
           /\ Head(script[w]).op = "set" => arg(w) \in Values
           /\ Head(script[w]).op = "setToOne" => 1 \in Values
           /\ summing[w] => Head(script[w]).op \in {"sumAndSet", "substractAndSet"}
<1>1. script[w] \in Seq(Actions) /\ Proper(w) /\ Remembers(w)
  BY DEF SetVarInv, TypeOK, WorkerInv
<1>2. Head(script[w]) \in Actions /\ Head(script[w]) = script[w][1]
      /\ 1 \in DOMAIN script[w]
  BY <1>1, TailOf
<1>3. Fold[name(w)] \in Keys /\ name(w) \in Names
      /\ arg(w) \in Values \cup Seconds \cup {NoValue}
  BY <1>2, FoldAssumption DEF Actions, name, Keys, arg
<1> QED
  BY <1>1, <1>2, <1>3 DEF Proper, arg, Remembers, At

(* A worker executes an action that changes the element of key k to d.     *)
Tells(w, k) ==
    \A u \in Workers : u # w =>
       /\ summing'[u] = summing[u] /\ wrote'[u] = wrote[u]
       /\ since'[u] = IF wrote[u] = k THEN since[u] \cup {"write"} ELSE since[u]

Touches(w, k, d) ==
    /\ script[w] # << >> /\ Next1(w)
    /\ [c \in Keys |-> ElementOf(c)]' =
          [[c \in Keys |-> ElementOf(c)] EXCEPT ![k] = d]
    /\ \A c \in Keys : c # k => m_map'[c] = m_map[c]
    /\ UNCHANGED <<now, expiredVars>> /\ got' = [got EXCEPT ![w] = {}]
    /\ ~summing'[w] /\ Tells(w, k)
    /\ wrote'[w] = k /\ since'[w] = {} => hasValue(d)
    /\ wrote'[w] # k => /\ wrote'[w] \in {wrote[w], NoKey}
                        /\ since'[w] = since[w] /\ ~summing[w]
    /\ \A c \in Keys : Expires(Head(script[w]), c) => c = k
    /\ hasValue(d) /\ ~hasExpiry(d) => Stores(Head(script[w]), k)
    /\ TotalGrows

LEMMA KeyWritten ==
    ASSUME SetVarInv, Inv', NEW w \in Workers, NEW k \in Keys, NEW d,
           Touches(w, k, d)
    PROVE  /\ \A u \in Workers : WorkerInv(u)'
           /\ NoImmortalValue'
           /\ script' \in [Workers -> Seq(Actions)]
           /\ Stored(k)' = stoi(d.value)
           /\ \A c \in Keys : c # k => Stored(c)' = Stored(c)
<1> USE DEF Touches, Tells
<1>0. /\ now \in Nat /\ now' = now /\ got \in [Workers -> SUBSET (Keys \X Values)]
      /\ wrote \in [Workers -> Keys \cup {NoKey}]
      /\ \A u \in Workers : WorkerInv(u)
  BY DEF SetVarInv, Inv, MapTypeOK, TypeOK
<1>1. /\ ElementOf(k)' = d
      /\ \A c \in Keys : c # k => ElementOf(c)' = ElementOf(c)
  <2> DEFINE bar == [c \in Keys |-> ElementOf(c)]
  <2>1. \A c \in Keys : bar'[c] = [bar EXCEPT ![k] = d][c]
    OBVIOUS
  <2>2. \A c \in Keys : bar'[c] = ElementOf(c)'
    OBVIOUS
  <2>3. \A c \in Keys : [bar EXCEPT ![k] = d][c] =
                           IF c = k THEN d ELSE ElementOf(c)
    OBVIOUS
  <2> HIDE DEF bar
  <2> QED
    BY <2>1, <2>2, <2>3
<1>2. /\ script' \in [Workers -> Seq(Actions)]
      /\ \A u \in Workers : u # w => script'[u] = script[u]
      /\ Proper(w)' /\ Disciplined(w)'
  BY ScriptStep
<1>3. ASSUME NEW u \in Workers, u # w
      PROVE  WorkerInv(u)'
  <2>1. \/ since'[u] # {}
        \/ /\ since[u] = {}
           /\ wrote[u] \in Keys => m_map'[wrote[u]] = m_map[wrote[u]]
    BY <1>3
  <2>2. got'[u] = got[u] /\ expiredVars'[u] = expiredVars[u]
    BY <1>0, <1>3
  <2>3. /\ script'[u] = script[u] /\ summing'[u] = summing[u]
        /\ wrote'[u] = wrote[u]
    BY <1>2, <1>3
  <2>4. now' \in Nat /\ now' >= now
    BY <1>0
  <2>5. Idles(u)
    BY <2>1, <2>2, <2>3 DEF Idles
  <2> QED
    BY <2>4, <2>5, Bystander
<1>4. WorkerInv(w)'
  <2>1. Remembers(w)' /\ UpToDate(w)'
    BY DEF Remembers, UpToDate
  <2>2. StillThere(w)'
    <3> SUFFICES ASSUME wrote'[w] \in Keys, since'[w] = {}
                 PROVE  hasValue(ElementOf(wrote[w])')
      BY DEF StillThere, hasValue, ElementOf
    <3>1. CASE wrote'[w] = k
      <4>1. ElementOf(wrote[w])' = d
        BY <1>1, <3>1 DEF ElementOf
      <4> QED
        BY <3>1, <4>1
    <3>2. CASE wrote'[w] # k
      <4>1. wrote'[w] = wrote[w] /\ since[w] = {} /\ ~summing[w]
        BY <3>2, RulesAssumption
      <4>2. hasValue(ElementOf(wrote[w]))
        BY <1>0, <4>1 DEF WorkerInv, StillThere
      <4>3. ElementOf(wrote[w])' = ElementOf(wrote[w])
        BY <3>2, <4>1 DEF ElementOf
      <4> QED
        BY <4>2, <4>3
    <3> QED
      BY <3>1, <3>2
  <2> QED
    BY <1>2, <2>1, <2>2 DEF WorkerInv
<1>5. NoImmortalValue'
  <2> SUFFICES ASSUME NEW c \in Keys, ExpiresWhatItStores(c),
                      hasValue(ElementOf(c)'), ~hasExpiry(ElementOf(c)')
               PROVE  Awaited(c)'
    BY DEF NoImmortalValue, Awaited, hasValue, hasExpiry, ElementOf
  <2>1. CASE c = k
    <3>1. Stores(Head(script[w]), k)
      BY <1>1, <2>1
    <3> QED
      BY <2>1, <3>1, ScriptStep
  <2>2. CASE c # k
    <3>1. Awaited(c)
      BY <1>1, <2>2 DEF SetVarInv, NoImmortalValue, Awaited
    <3>2. ~Expires(Head(script[w]), c)
      BY <2>2
    <3> QED
      BY <3>1, <3>2, ScriptStep
  <2> QED
    BY <2>1, <2>2
<1>6. /\ Stored(k)' = stoi(d.value)
      /\ \A c \in Keys : c # k => Stored(c)' = Stored(c)
  BY <1>1 DEF Stored
<1> QED
  BY <1>2, <1>3, <1>4, <1>5, <1>6

-----------------------------------------------------------------------------
(* Every action keeps the invariant.                                       *)

(* The end of setvar: the value is stored.                                 *)
LEMMA Storing ==
    ASSUME SetVarInv, NEW w \in Workers, NEW v \in Values, script[w] # << >>,
           Head(script[w]).op \in {"set", "setToOne", "sumAndSet",
                                   "substractAndSet"},
           Store(w, v), NEW k, k = Fold[name(w)], ~summing'[w],
           \A u \in Workers : u # w => summing'[u] = summing[u],
           TotalGrows
    PROVE  /\ Inv' /\ InPlace' /\ \A u \in Workers : WorkerInv(u)'
           /\ NoImmortalValue'
           /\ script' \in [Workers -> Seq(Actions)]
           /\ wrote' \in [Workers -> Keys \cup {NoKey}]
           /\ since' \in [Workers -> SUBSET {"write", "purge"}]
           /\ Stored(k)' = stoi(v)
           /\ \A c \in Keys : c # k => Stored(c)' = Stored(c)
<1> DEFINE d == setValue(ElementOf(k), v)
<1>1. name(w) \in Names /\ k \in Keys /\ Inv
  BY AtAction DEF SetVarInv
<1>2. /\ storeOrUpdateFirst(w, name(w), v) /\ Next1(w)
      /\ wrote' = [wrote EXCEPT ![w] = k]
      /\ since' = [Tell(w, k, "write") EXCEPT ![w] = {}]
  BY DEF Store
<1>3. /\ Inv'
      /\ [c \in Keys |-> ElementOf(c)]' =
            [[c \in Keys |-> ElementOf(c)] EXCEPT ![k] = d]
  BY <1>1, <1>2, StoreStep
<1>4. /\ \A c \in Keys : c # k => m_map'[c] = m_map[c]
      /\ UNCHANGED <<now, expiredVars>> /\ got' = [got EXCEPT ![w] = {}]
  BY <1>1, <1>2, OtherKeys
<1>5. /\ wrote \in [Workers -> Keys \cup {NoKey}]
      /\ since \in [Workers -> SUBSET {"write", "purge"}]
  BY DEF SetVarInv, TypeOK
<1>6. /\ wrote' \in [Workers -> Keys \cup {NoKey}] /\ wrote'[w] = k
      /\ \A u \in Workers : u # w => wrote'[u] = wrote[u]
  BY <1>1, <1>2, <1>5
<1>7. /\ since' \in [Workers -> SUBSET {"write", "purge"}] /\ since'[w] = {}
      /\ \A u \in Workers : u # w =>
            since'[u] = IF wrote[u] = k THEN since[u] \cup {"write"}
                        ELSE since[u]
  BY <1>2, <1>5 DEF Tell
<1>8. hasValue(d) /\ d.value = v
  <2>1. ElementOf(k) = [value |-> ElementOf(k).value,
                        expiry |-> ElementOf(k).expiry]
    BY <1>1, StoredValues
  <2> QED
    BY <2>1, DataAssumption DEF hasValue, setValue
<1>9. /\ Stores(Head(script[w]), k)
      /\ \A c \in Keys : ~Expires(Head(script[w]), c)
  BY DEF Stores, Expires, name
<1>10. /\ \A u \in Workers : WorkerInv(u)'
       /\ NoImmortalValue'
       /\ script' \in [Workers -> Seq(Actions)]
       /\ Stored(k)' = stoi(d.value)
       /\ \A c \in Keys : c # k => Stored(c)' = Stored(c)
  <2> HIDE DEF d
  <2>1. Tells(w, k)
    BY <1>6, <1>7 DEF Tells
  <2>2. Touches(w, k, d)
    BY <1>2, <1>3, <1>4, <1>6, <1>7, <1>8, <1>9, <2>1 DEF Touches
  <2> QED
    BY <1>1, <1>3, <2>2, KeyWritten
<1>11. InPlace'
  BY <1>1, <1>2, StaysInPlace DEF SetVarInv
<1> QED
  BY <1>3, <1>6, <1>7, <1>8, <1>10, <1>11

LEMMA SetStep ==
    ASSUME SetVarInv, NEW w \in Workers, setOperation(w)
    PROVE  SetVarInv'
<1> PICK k : k = Fold[name(w)]
  OBVIOUS
<1> PICK v : v = IF At(w, "setToOne") THEN 1 ELSE arg(w)
  OBVIOUS
<1>1. /\ script[w] # << >> /\ Head(script[w]).op \in {"set", "setToOne"}
      /\ Store(w, v) /\ UNCHANGED summing /\ raced' = raced \ {k}
      /\ expected' = [expected EXCEPT ![k] = stoi(v)]
      /\ total' = [total EXCEPT ![k] = @ + Added(stoi(v))]
  BY DEF setOperation, At
<1>2. k \in Keys /\ v \in Values /\ ~summing[w]
  BY <1>1, AtAction DEF At
<1>3. /\ total \in [Keys -> Nat] /\ expected \in [Keys -> Int]
      /\ raced \in SUBSET Keys /\ summing \in [Workers -> BOOLEAN]
      /\ started \in 0 .. MaxRules /\ started' = started
      /\ CountsAlone /\ NeverOvercounts /\ Inv
  BY <1>1 DEF SetVarInv, TypeOK, Store
<1>4. stoi(v) \in Int /\ Added(stoi(v)) \in Nat /\ stoi(v) <= Added(stoi(v))
  BY Numbers
<1>5. /\ TotalGrows /\ total'[k] = total[k] + Added(stoi(v))
      /\ expected' \in [Keys -> Int] /\ expected'[k] = stoi(v)
      /\ \A c \in Keys : c # k => total'[c] = total[c]
                                  /\ expected'[c] = expected[c]
  BY <1>1, <1>2, <1>3, <1>4 DEF TotalGrows
<1>6. /\ Inv' /\ InPlace' /\ \A u \in Workers : WorkerInv(u)'
      /\ NoImmortalValue'
      /\ script' \in [Workers -> Seq(Actions)]
      /\ wrote' \in [Workers -> Keys \cup {NoKey}]
      /\ since' \in [Workers -> SUBSET {"write", "purge"}]
      /\ Stored(k)' = stoi(v)
      /\ \A c \in Keys : c # k => Stored(c)' = Stored(c)
  BY <1>1, <1>2, <1>5, Storing
<1>7. CountsAlone' /\ NeverOvercounts'
  <2>1. CountsAlone'
    BY <1>1, <1>2, <1>3, <1>5, <1>6 DEF CountsAlone
  <2>2. ASSUME NEW c \in Keys
        PROVE  Stored(c)' <= total'[c]
    <3>1. CASE c = k
      BY <1>2, <1>3, <1>4, <1>5, <1>6, <3>1
    <3>2. CASE c # k
      BY <1>3, <1>5, <1>6, <3>2 DEF NeverOvercounts
    <3> QED
      BY <3>1, <3>2
  <2> QED
    BY <2>1, <2>2 DEF NeverOvercounts
<1>8. TypeOK'
  BY <1>1, <1>3, <1>5, <1>6 DEF TypeOK, TotalGrows, Inv
<1> QED
  BY <1>6, <1>7, <1>8 DEF SetVarInv

LEMMA SumStoresStep ==
    ASSUME SetVarInv, NEW w \in Workers, SumStores(w)
    PROVE  SetVarInv'
<1> PICK k : k = Fold[name(w)]
  OBVIOUS
<1> PICK n : n = IF At(w, "sumAndSet") THEN stoi(arg(w)) ELSE 0 - stoi(arg(w))
  OBVIOUS
<1> PICK e : e = Evaluated(w)
  OBVIOUS
<1>1. /\ summing[w] /\ e + n \in Values /\ Store(w, e + n)
      /\ summing' = [summing EXCEPT ![w] = FALSE]
      /\ expected' = [expected EXCEPT ![k] = @ + n]
      /\ raced' = IF since[w] = {} THEN raced ELSE raced \cup {k}
      /\ total' = [total EXCEPT ![k] = @ + Added(n)]
  BY DEF SumStores
<1>2. /\ script[w] # << >> /\ wrote[w] = k
      /\ Head(script[w]).op \in {"sumAndSet", "substractAndSet"}
      /\ \A p \in got[w] : stoi(p[2]) <= total[k]
  BY <1>1 DEF SetVarInv, WorkerInv, Remembers, At
<1>3. k \in Keys
  BY <1>2, AtAction
<1>4. /\ total \in [Keys -> Nat] /\ expected \in [Keys -> Int]
      /\ raced \in SUBSET Keys /\ summing \in [Workers -> BOOLEAN]
      /\ started \in 0 .. MaxRules /\ started' = started
      /\ CountsAlone /\ NeverOvercounts /\ Inv
  BY <1>1 DEF SetVarInv, TypeOK, Store
<1>5. n \in Int /\ Added(n) \in Nat /\ n <= Added(n)
  BY Numbers
<1>6. e \in Int /\ e <= total[k]
  <2>1. CASE got[w] = {}
    BY <1>3, <1>4, <2>1 DEF Evaluated
  <2>2. CASE got[w] # {}
    <3>1. PICK p \in got[w] : e = stoi(p[2])
      BY <2>2 DEF Evaluated
    <3> QED
      BY <1>2, <3>1, Numbers
  <2> QED
    BY <2>1, <2>2
<1>7. since[w] = {} => e = Stored(k)
  <2> SUFFICES ASSUME since[w] = {}
               PROVE  e = Stored(k)
    OBVIOUS
  <2>1. expiredVars[w] = {}
    BY <1>1 DEF Store, storeOrUpdateFirst, Calls, Returned
  <2>2. /\ \A p \in got[w] : stoi(p[2]) = Stored(k)
        /\ got[w] = {} => Stored(k) = 0
    BY <1>1, <1>2, <2>1 DEF SetVarInv, WorkerInv, UpToDate
  <2> QED
    BY <2>2 DEF Evaluated
<1>8. stoi(e + n) = e + n
  BY <1>5, <1>6, Numbers
<1>9. /\ TotalGrows /\ total'[k] = total[k] + Added(n)
      /\ expected' \in [Keys -> Int] /\ expected'[k] = expected[k] + n
      /\ \A c \in Keys : c # k => total'[c] = total[c]
                                  /\ expected'[c] = expected[c]
  BY <1>1, <1>3, <1>4, <1>5 DEF TotalGrows
<1>10. /\ Inv' /\ InPlace' /\ \A u \in Workers : WorkerInv(u)'
       /\ NoImmortalValue'
       /\ script' \in [Workers -> Seq(Actions)]
       /\ wrote' \in [Workers -> Keys \cup {NoKey}]
       /\ since' \in [Workers -> SUBSET {"write", "purge"}]
       /\ Stored(k)' = stoi(e + n)
       /\ \A c \in Keys : c # k => Stored(c)' = Stored(c)
  <2>1. /\ ~summing'[w]
        /\ \A u \in Workers : u # w => summing'[u] = summing[u]
    BY <1>1, <1>4
  <2>2. PICK v : v = e + n
    OBVIOUS
  <2>3. v \in Values /\ Store(w, v)
    BY <1>1, <2>2
  <2> QED
    BY <1>2, <1>9, <2>1, <2>2, <2>3, Storing
<1>11. CountsAlone'
  <2> SUFFICES ASSUME NEW c \in Keys, c \notin raced'
               PROVE  Stored(c)' = expected'[c]
    BY DEF CountsAlone
  <2>1. c \notin raced
    BY <1>1
  <2>2. CASE c = k
    <3>1. e = Stored(k) /\ Stored(k) = expected[k]
      BY <1>1, <1>4, <1>7, <2>1, <2>2 DEF CountsAlone
    <3> QED
      BY <1>8, <1>9, <1>10, <2>2, <3>1
  <2>3. CASE c # k
    BY <1>4, <1>9, <1>10, <2>1, <2>3 DEF CountsAlone
  <2> QED
    BY <2>2, <2>3
<1>12. NeverOvercounts'
  <2>1. ASSUME NEW c \in Keys
        PROVE  Stored(c)' <= total'[c]
    <3>1. CASE c = k
      BY <1>3, <1>4, <1>5, <1>6, <1>8, <1>9, <1>10, <3>1
    <3>2. CASE c # k
      BY <1>4, <1>9, <1>10, <3>2 DEF NeverOvercounts
    <3> QED
      BY <3>1, <3>2
  <2> QED
    BY <2>1 DEF NeverOvercounts
<1>13. TypeOK'
  BY <1>1, <1>3, <1>4, <1>9, <1>10 DEF TypeOK, TotalGrows, Inv
<1> QED
  BY <1>10, <1>11, <1>12, <1>13 DEF SetVarInv

LEMMA UnsetStep ==
    ASSUME SetVarInv, NEW w \in Workers, unsetOperation(w)
    PROVE  SetVarInv'
<1> PICK k : k = Fold[name(w)]
  OBVIOUS
<1>1. /\ script[w] # << >> /\ Head(script[w]).op = "unset"
      /\ del(w, name(w)) /\ Next1(w)
      /\ wrote' = [wrote EXCEPT ![w] = IF @ = k THEN NoKey ELSE @]
      /\ since' = Tell(w, k, "write")
      /\ expected' = [expected EXCEPT ![k] = 0] /\ raced' = raced \ {k}
      /\ UNCHANGED <<summing, started, total>>
  BY DEF unsetOperation, At
<1>2. name(w) \in Names /\ k \in Keys /\ ~summing[w]
  BY <1>1, AtAction
<1>3. /\ total \in [Keys -> Nat] /\ expected \in [Keys -> Int]
      /\ raced \in SUBSET Keys /\ summing \in [Workers -> BOOLEAN]
      /\ wrote \in [Workers -> Keys \cup {NoKey}]
      /\ since \in [Workers -> SUBSET {"write", "purge"}]
      /\ started \in 0 .. MaxRules
      /\ CountsAlone /\ NeverOvercounts /\ Inv
  BY DEF SetVarInv, TypeOK
<1>4. /\ Inv'
      /\ [c \in Keys |-> ElementOf(c)]' =
            [[c \in Keys |-> ElementOf(c)] EXCEPT ![k] = EmptyData]
  BY <1>1, <1>2, <1>3, DelStep
<1>5. /\ \A c \in Keys : c # k => m_map'[c] = m_map[c]
      /\ UNCHANGED <<now, expiredVars>> /\ got' = [got EXCEPT ![w] = {}]
  BY <1>1, <1>2, <1>3, OtherKeys
<1>6. /\ wrote' \in [Workers -> Keys \cup {NoKey}]
      /\ wrote'[w] # k /\ wrote'[w] \in {wrote[w], NoKey}
      /\ \A u \in Workers : u # w => wrote'[u] = wrote[u]
  BY <1>1, <1>2, <1>3, RulesAssumption
<1>7. /\ since' \in [Workers -> SUBSET {"write", "purge"}]
      /\ since'[w] = since[w]
      /\ \A u \in Workers : u # w =>
            since'[u] = IF wrote[u] = k THEN since[u] \cup {"write"}
                        ELSE since[u]
  BY <1>1, <1>3 DEF Tell
<1>8. TotalGrows
  BY <1>1, <1>3 DEF TotalGrows
<1>9. /\ ~hasValue(EmptyData) /\ EmptyData.value = NoValue
      /\ \A c \in Keys : ~Expires(Head(script[w]), c)
  BY <1>1 DEF hasValue, EmptyData, Expires
<1>10. /\ \A u \in Workers : WorkerInv(u)'
       /\ NoImmortalValue'
       /\ script' \in [Workers -> Seq(Actions)]
       /\ Stored(k)' = stoi(EmptyData.value)
       /\ \A c \in Keys : c # k => Stored(c)' = Stored(c)
  <2>1. Tells(w, k)
    BY <1>1, <1>6, <1>7 DEF Tells
  <2>2. Touches(w, k, EmptyData)
    BY <1>1, <1>2, <1>4, <1>5, <1>6, <1>7, <1>8, <1>9, <2>1 DEF Touches
  <2> QED
    BY <1>2, <1>4, <2>2, KeyWritten
<1>11. Stored(k)' = 0
  BY <1>9, <1>10, Numbers
<1>12. CountsAlone'
  BY <1>1, <1>2, <1>3, <1>10, <1>11 DEF CountsAlone
<1>13. NeverOvercounts'
  <2>1. ASSUME NEW c \in Keys
        PROVE  Stored(c)' <= total'[c]
    <3>1. CASE c = k
      BY <1>1, <1>3, <1>11, <3>1
    <3>2. CASE c # k
      BY <1>1, <1>3, <1>10, <3>2 DEF NeverOvercounts
    <3> QED
      BY <3>1, <3>2
  <2> QED
    BY <2>1 DEF NeverOvercounts
<1>14. TypeOK'
  <2>1. expected' \in [Keys -> Int] /\ raced' \in SUBSET Keys
    BY <1>1, <1>2, <1>3
  <2>2. /\ summing' \in [Workers -> BOOLEAN] /\ started' \in 0 .. MaxRules
        /\ total' \in [Keys -> Nat]
    BY <1>1, <1>3
  <2> QED
    BY <1>4, <1>6, <1>7, <1>10, <2>1, <2>2 DEF TypeOK, Inv
<1>15. InPlace'
  BY <1>1, <1>2, StaysInPlace DEF SetVarInv
<1> QED
  BY <1>4, <1>10, <1>12, <1>13, <1>14, <1>15 DEF SetVarInv

(* The expiry time of an element that expirevar sets is in the future, and *)
(* its value is the one it had.                                            *)
LEMMA ExpiresLater ==
    ASSUME Inv, NEW c \in Keys, NEW s \in Seconds
    PROVE  /\ hasExpiry(setExpiry(ElementOf(c), now, s))
           /\ setExpiry(ElementOf(c), now, s).value = ElementOf(c).value
           /\ s # 0 => ~isExpired(setExpiry(ElementOf(c), now, s), now)
<1> DEFINE e == now + s * TicksPerSecond
<1>1. s \in Nat /\ now \in Nat /\ TicksPerSecond \in Nat \ {0}
  BY FoldAssumption, DataAssumption DEF Inv, MapTypeOK
<1>2. s * TicksPerSecond \in Nat /\ (s # 0 => s * TicksPerSecond > 0)
  BY <1>1
<1>3. e \in Nat /\ (s # 0 => ~(now >= e))
  BY <1>1, <1>2
<1>4. ElementOf(c) = [value |-> ElementOf(c).value,
                      expiry |-> ElementOf(c).expiry]
  BY StoredValues
<1>5. setExpiry(ElementOf(c), now, s) = [value |-> ElementOf(c).value,
                                         expiry |-> e]
  BY <1>4 DEF setExpiry
<1> HIDE DEF e
<1> QED
  BY <1>3, <1>5, DataAssumption DEF hasExpiry, isExpired

LEMMA ExpireStep ==
    ASSUME SetVarInv, NEW w \in Workers, expireVar(w)
    PROVE  /\ SetVarInv' /\ now' = now
           /\ [c \in Keys |-> ElementOf(c)]' =
                 [[c \in Keys |-> ElementOf(c)] EXCEPT
                     ![Fold[name(w)]] =
                        setExpiry(ElementOf(Fold[name(w)]), now, arg(w))]
<1> PICK k : k = Fold[name(w)]
  OBVIOUS
<1> PICK s : s = arg(w)
  OBVIOUS
<1> PICK d : d = setExpiry(ElementOf(k), now, s)
  OBVIOUS
<1>1. /\ script[w] # << >> /\ Head(script[w]).op = "expire" /\ s \in Seconds
      /\ setExpiryOf(w, name(w), s) /\ Next1(w)
      /\ since' = Tell(w, k, "write")
      /\ UNCHANGED <<summing, started, wrote, expected, raced, total>>
  BY DEF expireVar, At
<1>2. name(w) \in Names /\ k \in Keys /\ ~summing[w]
  BY <1>1, AtAction
<1>3. /\ total \in [Keys -> Nat] /\ since \in [Workers -> SUBSET {"write", "purge"}]
      /\ CountsAlone /\ NeverOvercounts /\ Inv /\ StillThere(w) /\ TypeOK
  BY DEF SetVarInv, TypeOK, WorkerInv
<1>4. /\ Inv'
      /\ [c \in Keys |-> ElementOf(c)]' =
            [[c \in Keys |-> ElementOf(c)] EXCEPT ![k] = d]
  BY <1>1, <1>2, <1>3, ExpiryStep
<1>5. /\ \A c \in Keys : c # k => m_map'[c] = m_map[c]
      /\ UNCHANGED <<now, expiredVars>> /\ got' = [got EXCEPT ![w] = {}]
  BY <1>1, <1>2, <1>3, OtherKeys
<1>6. /\ since' \in [Workers -> SUBSET {"write", "purge"}]
      /\ since'[w] = since[w]
      /\ \A u \in Workers : u # w =>
            since'[u] = IF wrote[u] = k THEN since[u] \cup {"write"}
                        ELSE since[u]
  BY <1>1, <1>3 DEF Tell
<1>7. TotalGrows
  BY <1>1, <1>3 DEF TotalGrows
<1>8. /\ hasExpiry(d) /\ d.value = ElementOf(k).value
      /\ \A c \in Keys : Expires(Head(script[w]), c) => c = k
  BY <1>1, <1>2, <1>3, ExpiresLater DEF Expires, name
<1>9. wrote'[w] = k /\ since'[w] = {} => hasValue(d)
  BY <1>1, <1>2, <1>3, <1>6, <1>8 DEF StillThere, hasValue
<1>10. /\ \A u \in Workers : WorkerInv(u)'
       /\ NoImmortalValue'
       /\ script' \in [Workers -> Seq(Actions)]
       /\ Stored(k)' = stoi(d.value)
       /\ \A c \in Keys : c # k => Stored(c)' = Stored(c)
  <2>1. Tells(w, k)
    BY <1>1, <1>6 DEF Tells
  <2>2. wrote'[w] \in {wrote[w], NoKey}
    BY <1>1
  <2>3. Touches(w, k, d)
    BY <1>1, <1>2, <1>4, <1>5, <1>6, <1>7, <1>8, <1>9, <2>1, <2>2 DEF Touches
  <2> QED
    BY <1>2, <1>4, <2>3, KeyWritten
<1>11. \A c \in Keys : Stored(c)' = Stored(c)
  BY <1>8, <1>10 DEF Stored
<1>12. CountsAlone' /\ NeverOvercounts'
  BY <1>1, <1>3, <1>11 DEF CountsAlone, NeverOvercounts
<1>13. TypeOK'
  BY <1>1, <1>3, <1>4, <1>6, <1>10 DEF TypeOK, Inv
<1>14. InPlace'
  BY <1>1, <1>2, StaysInPlace DEF SetVarInv
<1> QED
  BY <1>4, <1>5, <1>10, <1>12, <1>13, <1>14 DEF SetVarInv

(* An action that leaves the collection as it is.                          *)
LEMMA ElementsKept ==
    ASSUME SetVarInv, UNCHANGED <<m_map, expected, raced, total>>,
           \A k \in Keys : Awaited(k) => Awaited(k)'
    PROVE  /\ CountsAlone' /\ NeverOvercounts' /\ NoImmortalValue'
           /\ InPlace' /\ TotalGrows
<1>1. CountsAlone /\ NeverOvercounts /\ NoImmortalValue /\ total \in [Keys -> Nat]
  BY DEF SetVarInv, TypeOK
<1>2. \A k \in Keys : ElementOf(k)' = ElementOf(k) /\ Stored(k)' = Stored(k)
  BY DEF ElementOf, Stored
<1>3. CountsAlone' /\ NeverOvercounts'
  BY <1>1, <1>2 DEF CountsAlone, NeverOvercounts
<1>4. NoImmortalValue'
  BY <1>1, <1>2 DEF NoImmortalValue, Awaited
<1>5. TotalGrows
  BY <1>1 DEF TotalGrows
<1>6. InPlace'
  BY DEF SetVarInv, InPlace
<1> QED
  BY <1>3, <1>4, <1>5, <1>6

LEMMA IgnoredStep ==
    ASSUME SetVarInv, NEW w \in Workers, expireVarIgnored(w)
    PROVE  SetVarInv'
<1>1. /\ script[w] # << >> /\ arg(w) \notin Seconds /\ Next1(w)
      /\ UNCHANGED <<m_map, now, expiredVars, did, got, summing, started, wrote,
                     since, expected, raced, total>>
  BY DEF expireVarIgnored, At, mapVars, histVars
<1>2. /\ script' \in [Workers -> Seq(Actions)] /\ Proper(w)' /\ Disciplined(w)'
      /\ \A u \in Workers : u # w => script'[u] = script[u]
      /\ \A k \in Keys : Awaited(k) /\ ~Expires(Head(script[w]), k)
                            => Awaited(k)'
  BY <1>1, ScriptStep
<1>3. \A k \in Keys : ~Expires(Head(script[w]), k)
  BY <1>1 DEF Expires, arg
<1>4. InPlace' /\ CountsAlone' /\ NeverOvercounts' /\ NoImmortalValue' /\ TotalGrows
  BY <1>1, <1>2, <1>3, ElementsKept
<1>5. now \in Nat /\ Inv /\ TypeOK
  BY DEF SetVarInv, Inv, MapTypeOK
<1>6. ASSUME NEW u \in Workers, u # w
      PROVE  WorkerInv(u)'
  <2>1. Idles(u) /\ now' \in Nat /\ now' >= now
    BY <1>1, <1>2, <1>5, <1>6 DEF Idles
  <2> QED
    BY <1>4, <2>1, Bystander
<1>7. WorkerInv(w)'
  <2>1. ~summing[w]
    BY <1>1, AtAction DEF expireVarIgnored, At
  <2>2. Remembers(w)' /\ UpToDate(w)'
    BY <1>1, <2>1 DEF Remembers, UpToDate
  <2>3. StillThere(w)'
    BY <1>1 DEF SetVarInv, WorkerInv, StillThere, ElementOf
  <2> QED
    BY <1>2, <2>2, <2>3 DEF WorkerInv
<1>8. Inv'
  BY <1>1, <1>5 DEF Inv, MapTypeOK, OneElementPerKey, NoBareElement, ElementOf
<1>9. TypeOK'
  BY <1>1, <1>2, <1>5, <1>8 DEF TypeOK, Inv
<1> QED
  BY <1>4, <1>6, <1>7, <1>8, <1>9 DEF SetVarInv

LEMMA StartStep ==
    ASSUME SetVarInv, NEW w \in Workers, StartRule(w)
    PROVE  SetVarInv'
<1>1. PICK r \in Rules :
         /\ script[w] = << >> /\ started < MaxRules /\ started' = started + 1
         /\ script' = [script EXCEPT ![w] = r]
         /\ wrote' = [wrote EXCEPT ![w] = NoKey]
         /\ since' = [since EXCEPT ![w] = {}]
         /\ UNCHANGED <<m_map, now, expiredVars, did, got, summing, expected,
                        raced, total>>
  BY DEF StartRule, mapVars
<1>2. TypeOK /\ Inv /\ now \in Nat
  BY DEF SetVarInv, Inv, MapTypeOK
<1>3. r \in Seq(Actions) /\ script' \in [Workers -> Seq(Actions)]
      /\ script'[w] = r
      /\ \A u \in Workers : u # w => script'[u] = script[u]
  BY <1>1, <1>2, RulesAssumption DEF TypeOK
<1>4. \A k \in Keys : Awaited(k) => Awaited(k)'
  <2> SUFFICES ASSUME NEW k \in Keys, NEW u \in Workers,
                      NEW j \in DOMAIN script[u], Expires(script[u][j], k)
               PROVE  Awaited(k)'
    BY DEF Awaited
  <2>1. u # w
    BY <1>1
  <2> QED
    BY <1>3, <2>1 DEF Awaited
<1>5. InPlace' /\ CountsAlone' /\ NeverOvercounts' /\ NoImmortalValue' /\ TotalGrows
  BY <1>1, <1>4, ElementsKept
<1>6. ASSUME NEW u \in Workers, u # w
      PROVE  WorkerInv(u)'
  <2>1. /\ wrote'[u] = wrote[u] /\ since'[u] = since[u]
        /\ now' \in Nat /\ now' >= now
    BY <1>1, <1>2, <1>6 DEF TypeOK
  <2>2. Idles(u)
    BY <1>1, <1>3, <1>6, <2>1 DEF Idles
  <2> QED
    BY <1>5, <2>1, <2>2, Bystander
<1>7. WorkerInv(w)'
  <2>1. Proper(w)' /\ Disciplined(w)'
    BY <1>3, RulesAssumption DEF Proper, Disciplined, ExpiresWhatItStores
  <2>2. ~summing[w]
    BY <1>1 DEF SetVarInv, WorkerInv, Remembers, At
  <2>3. Remembers(w)' /\ UpToDate(w)'
    BY <1>1, <2>2 DEF Remembers, UpToDate
  <2>4. wrote'[w] = NoKey
    BY <1>1, <1>2 DEF TypeOK
  <2>5. StillThere(w)'
    BY <2>4, RulesAssumption DEF StillThere
  <2> QED
    BY <2>1, <2>3, <2>5 DEF WorkerInv
<1>8. Inv'
  BY <1>1, <1>2 DEF Inv, MapTypeOK, OneElementPerKey, NoBareElement, ElementOf
<1>9. TypeOK'
  <2>1. started' \in 0 .. MaxRules
    BY <1>1, <1>2, RulesAssumption DEF TypeOK
  <2>2. /\ wrote' \in [Workers -> Keys \cup {NoKey}]
        /\ since' \in [Workers -> SUBSET {"write", "purge"}]
    BY <1>1, <1>2 DEF TypeOK
  <2> QED
    BY <1>1, <1>2, <1>3, <1>8, <2>1, <2>2 DEF TypeOK, Inv
<1> QED
  BY <1>5, <1>6, <1>7, <1>8, <1>9 DEF SetVarInv

(* What a look at one key finds, and what it leaves to purge.              *)
LEMMA LookAtOne ==
    ASSUME Inv, InPlace, NEW k \in Keys
    PROVE  /\ \A p \in Found({k}) : stoi(p[2]) = Stored(k)
           /\ Found({k}) = {} /\ ~isExpired(ElementOf(k), now) => Stored(k) = 0
           /\ isExpired(ElementOf(k), now) => Found({k}) = {} /\ m_map[k] # << >>
           /\ isExpired(ElementOf(k), now) =>
                 /\ Expired({k}) = {m_map[k][1].first}
                 /\ Fold[m_map[k][1].first] = k
           /\ ~isExpired(ElementOf(k), now) => Expired({k}) = {}
<1>1. Found({k}) = {p \in {k} \X Values : /\ Visible(ElementOf(p[1]), now)
                                          /\ ElementOf(p[1]).value = p[2]}
  BY FoundIsShown
<1>2. \A p \in Found({k}) : ElementOf(k).value = p[2] /\ ~isExpired(ElementOf(k), now)
  BY <1>1 DEF Visible
<1>3. \A p \in Found({k}) : stoi(p[2]) = Stored(k)
  BY <1>2 DEF Stored
<1>4. ASSUME Found({k}) = {}, ~isExpired(ElementOf(k), now)
      PROVE  Stored(k) = 0
  <2>1. ElementOf(k).value = NoValue
    <3> SUFFICES ASSUME ElementOf(k).value # NoValue
                 PROVE  FALSE
      OBVIOUS
    <3>1. ElementOf(k).value \in Values
      BY StoredValues DEF Data
    <3>2. PICK p : p = <<k, ElementOf(k).value>>
      OBVIOUS
    <3>3. p \in {k} \X Values /\ p[1] = k /\ p[2] = ElementOf(k).value
      BY <3>1, <3>2
    <3>4. Visible(ElementOf(k), now)
      BY <1>4 DEF Visible, hasValue
    <3>5. p \in Found({k})
      BY <1>1, <3>3, <3>4, Zenon
    <3> QED
      BY <1>4, <3>5
  <2> QED
    BY <2>1, Numbers DEF Stored
<1>5. m_map[k] \in Seq(Node) /\ Len(m_map[k]) <= 1
  BY DEF Inv, MapTypeOK, OneElementPerKey
<1>6. CASE m_map[k] = << >>
  <2>1. ~isExpired(ElementOf(k), now)
    BY <1>6 DEF ElementOf, isExpired, hasExpiry, EmptyData
  <2>2. \A n \in Names : Fold[n] \in {k} => m_map[Fold[n]] = << >>
    BY <1>6
  <2>3. Expired({k}) = {}
    BY <2>2 DEF Expired
  <2> QED
    BY <1>2, <1>3, <1>4, <2>1, <2>3
<1>7. CASE m_map[k] # << >>
  <2>1. Len(m_map[k]) = 1 /\ DOMAIN m_map[k] = {1}
        /\ ElementOf(k) = m_map[k][1].second
    BY <1>5, <1>7, Short DEF ElementOf
  <2>2. Expired({k}) = {n \in Names : /\ Fold[n] = k
                                      /\ m_map[k][1].first = n
                                      /\ isExpired(ElementOf(k), now)}
    BY <2>1 DEF Expired
  <2>3. ~isExpired(ElementOf(k), now) => Expired({k}) = {}
    BY <2>2
  <2>4. m_map[k][1].first \in Names /\ Fold[m_map[k][1].first] = k
    <3>1. m_map[k][1] \in Node
      BY <1>5, <1>7, Short
    <3>2. Fold[m_map[k][1].first] = k
      BY <1>7 DEF InPlace
    <3> QED
      BY <3>1, <3>2 DEF Node
  <2>5. isExpired(ElementOf(k), now) => Expired({k}) = {m_map[k][1].first}
    BY <2>2, <2>4
  <2> QED
    BY <1>2, <1>3, <1>4, <1>7, <2>3, <2>4, <2>5
<1> QED
  BY <1>6, <1>7

(* A worker that looks at its key: the others see nothing of it.           *)
LEMMA LookFrame ==
    ASSUME SetVarInv, NEW w \in Workers, NEW K \in SUBSET Keys, LookAt(w, K),
           \A u \in Workers : u # w =>
              /\ script'[u] = script[u] /\ summing'[u] = summing[u]
              /\ wrote'[u] = wrote[u] /\ since'[u] = since[u],
           UNCHANGED <<expected, raced, total>>,
           \A k \in Keys : Awaited(k) => Awaited(k)'
    PROVE  /\ Inv' /\ now' = now /\ m_map' = m_map
           /\ expiredVars'[w] = Expired(K) /\ got'[w] = Found(K)
           /\ InPlace' /\ CountsAlone' /\ NeverOvercounts' /\ NoImmortalValue'
           /\ \A u \in Workers : u # w => WorkerInv(u)'
<1>1. /\ expiredVars' = [expiredVars EXCEPT ![w] = Expired(K)]
      /\ got' = [got EXCEPT ![w] = Found(K)]
      /\ UNCHANGED <<m_map, now>>
  BY DEF LookAt, Calls
<1>2. /\ Inv /\ now \in Nat
      /\ expiredVars \in [Workers -> SUBSET Names]
      /\ got \in [Workers -> SUBSET (Keys \X Values)]
  BY DEF SetVarInv, Inv, MapTypeOK
<1>3. Inv'
  BY <1>2, LookStep
<1>4. InPlace' /\ CountsAlone' /\ NeverOvercounts' /\ NoImmortalValue' /\ TotalGrows
  BY <1>1, ElementsKept
<1>5. ASSUME NEW u \in Workers, u # w
      PROVE  WorkerInv(u)'
  <2>1. expiredVars'[u] = expiredVars[u] /\ got'[u] = got[u]
    BY <1>1, <1>2, <1>5
  <2>2. Idles(u)
    BY <1>1, <1>5, <2>1 DEF Idles
  <2>3. now' \in Nat /\ now' >= now
    BY <1>1, <1>2
  <2> QED
    BY <1>4, <2>2, <2>3, Bystander
<1>6. expiredVars'[w] = Expired(K) /\ got'[w] = Found(K)
  BY <1>1, <1>2
<1> QED
  BY <1>1, <1>3, <1>4, <1>5, <1>6

LEMMA SumEvaluatesStep ==
    ASSUME SetVarInv, NEW w \in Workers, SumEvaluates(w)
    PROVE  SetVarInv'
<1> PICK k : k = Fold[name(w)]
  OBVIOUS
<1>1. /\ script[w] # << >>
      /\ At(w, "sumAndSet") \/ At(w, "substractAndSet")
      /\ LookAt(w, {k} \ {})
      /\ summing' = [summing EXCEPT ![w] = TRUE]
      /\ wrote' = [wrote EXCEPT ![w] = k]
      /\ since' = [since EXCEPT ![w] = {}]
      /\ UNCHANGED <<script, started, expected, raced, total>>
  BY DEF SumEvaluates, At, resolveMultiMatches
<1>2. k \in Keys /\ {k} \ {} = {k} /\ {k} \in SUBSET Keys
  <2>1. k \in Keys
    BY <1>1, AtAction
  <2> QED
    BY <2>1
<1>3. /\ TypeOK /\ Inv /\ InPlace /\ CountsAlone /\ NeverOvercounts
      /\ WorkerInv(w)
  BY DEF SetVarInv
<1>4. /\ wrote' \in [Workers -> Keys \cup {NoKey}] /\ wrote'[w] = k
      /\ since' \in [Workers -> SUBSET {"write", "purge"}] /\ since'[w] = {}
      /\ summing' \in [Workers -> BOOLEAN] /\ summing'[w] = TRUE
      /\ \A u \in Workers : u # w =>
            /\ script'[u] = script[u] /\ summing'[u] = summing[u]
            /\ wrote'[u] = wrote[u] /\ since'[u] = since[u]
  BY <1>1, <1>2, <1>3 DEF TypeOK
<1>5. /\ Inv' /\ now' = now /\ m_map' = m_map
      /\ expiredVars'[w] = Expired({k}) /\ got'[w] = Found({k})
      /\ InPlace' /\ CountsAlone' /\ NeverOvercounts' /\ NoImmortalValue'
      /\ \A u \in Workers : u # w => WorkerInv(u)'
  <2>1. \A c \in Keys : Awaited(c) => Awaited(c)'
    BY <1>1 DEF Awaited
  <2>2. LookAt(w, {k})
    BY <1>1, <1>2
  <2> QED
    BY <1>1, <1>2, <1>4, <2>1, <2>2, LookFrame
<1>6. WorkerInv(w)'
  <2>1. Proper(w)' /\ Disciplined(w)'
    BY <1>1, <1>3 DEF WorkerInv, Proper, Disciplined
  <2>2. \A p \in Found({k}) : stoi(p[2]) = Stored(k)
    BY <1>2, <1>3, LookAtOne
  <2>3. Remembers(w)'
    <3>1. \A p \in Found({k}) : stoi(p[2]) <= total[k]
      BY <1>2, <1>3, <2>2 DEF NeverOvercounts
    <3>2. (At(w, "sumAndSet") \/ At(w, "substractAndSet"))'
      BY <1>1 DEF At
    <3>3. name(w)' = name(w)
      BY <1>1 DEF name
    <3>4. \A p \in got'[w] : stoi(p[2]) <= total'[wrote'[w]]
      BY <1>1, <1>4, <1>5, <3>1
    <3> QED
      BY <1>4, <3>2, <3>3, <3>4 DEF Remembers
  <2>4. UpToDate(w)'
    <3>1. ElementOf(k)' = ElementOf(k) /\ Stored(k)' = Stored(k)
      BY <1>5 DEF ElementOf, Stored
    <3>2. /\ Stored(wrote[w])' = Stored(k)
          /\ ElementOf(wrote[w])' = ElementOf(k)
      BY <1>4, <1>5 DEF ElementOf, Stored
    <3>3. CASE Expired({k}) = {} /\ ~isExpired(ElementOf(k), now)
      <4>1. Found({k}) = {} => Stored(k) = 0
        BY <1>2, <1>3, <3>3, LookAtOne
      <4> QED
        BY <1>5, <2>2, <3>2, <3>3, <4>1 DEF UpToDate
    <3>4. CASE isExpired(ElementOf(k), now)
      <4>1. /\ Found({k}) = {} /\ m_map[k] # << >>
            /\ Expired({k}) = {m_map[k][1].first}
            /\ Fold[m_map[k][1].first] = k
        BY <1>2, <1>3, <3>4, LookAtOne
      <4> QED
        BY <1>4, <1>5, <3>2, <3>4, <4>1 DEF UpToDate
    <3> QED
      BY <1>2, <1>3, <3>3, <3>4, LookAtOne
  <2>5. StillThere(w)'
    BY <1>4 DEF StillThere
  <2> QED
    BY <2>1, <2>3, <2>4, <2>5 DEF WorkerInv
<1>7. TypeOK'
  BY <1>1, <1>3, <1>4, <1>5 DEF TypeOK, Inv
<1>8. \A u \in Workers : WorkerInv(u)'
  BY <1>5, <1>6
<1> QED
  BY <1>5, <1>7, <1>8 DEF SetVarInv

(* A rule evaluates the variable, or a macro names it.                     *)
LEMMA EvaluateStep ==
    ASSUME SetVarInv, NEW w \in Workers, EvaluateVariable(w)
    PROVE  SetVarInv'
<1> PICK k : k = Fold[name(w)]
  OBVIOUS
<1>1. /\ script[w] # << >> /\ Head(script[w]).op \in {"evaluate", "macro"}
      /\ Next1(w)
      /\ UNCHANGED <<summing, started, wrote, since, expected, raced, total>>
  BY DEF EvaluateVariable, At, histVars
<1>2. k \in Keys /\ name(w) \in Names /\ ~summing[w] /\ TypeOK /\ Inv
  BY <1>1, AtAction DEF SetVarInv
<1>3. LookAt(w, {k}) /\ {k} \in SUBSET Keys
  <2>1. CASE resolveMultiMatches(w, name(w), {})
    <3>1. {k} \ {} = {k} /\ {k} \in SUBSET Keys
      BY <1>2
    <3> QED
      BY <2>1, <3>1 DEF resolveMultiMatches
  <2>2. CASE resolveFirst(w, name(w))
    BY <1>2, <2>2, FirstIsSingle
  <2> QED
    BY <2>1, <2>2 DEF EvaluateVariable
<1>4. /\ script' \in [Workers -> Seq(Actions)] /\ Proper(w)' /\ Disciplined(w)'
      /\ \A u \in Workers : u # w => script'[u] = script[u]
      /\ \A c \in Keys : Awaited(c) /\ ~Expires(Head(script[w]), c)
                            => Awaited(c)'
  BY <1>1, ScriptStep
<1>5. \A c \in Keys : ~Expires(Head(script[w]), c)
  BY <1>1 DEF Expires
<1>6. /\ Inv' /\ now' = now /\ m_map' = m_map
      /\ InPlace' /\ CountsAlone' /\ NeverOvercounts' /\ NoImmortalValue'
      /\ \A u \in Workers : u # w => WorkerInv(u)'
  BY <1>1, <1>3, <1>4, <1>5, LookFrame
<1>7. WorkerInv(w)'
  <2>1. Remembers(w)' /\ UpToDate(w)'
    BY <1>1, <1>2 DEF Remembers, UpToDate
  <2>2. StillThere(w)'
    BY <1>1, <1>6 DEF SetVarInv, WorkerInv, StillThere, ElementOf
  <2> QED
    BY <1>4, <2>1, <2>2 DEF WorkerInv
<1>8. TypeOK'
  BY <1>1, <1>2, <1>4, <1>6 DEF TypeOK, Inv
<1>9. \A u \in Workers : WorkerInv(u)'
  BY <1>6, <1>7
<1> QED
  BY <1>6, <1>8, <1>9 DEF SetVarInv

(* The clock moves on: what was expired stays so.                          *)
LEMMA ClockStep ==
    ASSUME SetVarInv, Clock
    PROVE  SetVarInv'
<1>1. /\ now' = now + 1
      /\ UNCHANGED <<m_map, expiredVars, did, got, script, summing, started,
                     wrote, since, expected, raced, total>>
  BY DEF Clock, Tick, histVars
<1>2. TypeOK /\ Inv /\ now \in Nat
  BY DEF SetVarInv, Inv, MapTypeOK
<1>3. now' \in Nat /\ now' >= now
  BY <1>1, <1>2
<1>4. \A k \in Keys : Awaited(k) => Awaited(k)'
  BY <1>1 DEF Awaited
<1>5. /\ InPlace' /\ CountsAlone' /\ NeverOvercounts' /\ NoImmortalValue'
      /\ TotalGrows
  BY <1>1, <1>4, ElementsKept
<1>6. ASSUME NEW u \in Workers
      PROVE  WorkerInv(u)'
  <2>1. Idles(u)
    BY <1>1 DEF Idles
  <2> QED
    BY <1>3, <1>5, <2>1, Bystander
<1>7. Inv'
  BY <1>1, <1>2, <1>3 DEF Inv, MapTypeOK, OneElementPerKey, NoBareElement, ElementOf
<1>8. TypeOK'
  BY <1>1, <1>2, <1>7 DEF TypeOK, Inv
<1> QED
  BY <1>5, <1>6, <1>7, <1>8 DEF SetVarInv

(* A worker purges one key: what it erases has expired, everybody who      *)
(* remembers the key hears of it, and the counts of the key start again.   *)
LEMMA PurgedStep ==
    ASSUME SetVarInv, NEW w \in Workers, PurgeExpired(w)
    PROVE  SetVarInv'
<1> PICK E : E = {k \in Keys : m_map[k] # << >> /\ m_map'[k] = << >>}
  OBVIOUS
<1>1. PICK n \in expiredVars[w] :
         /\ m_map' = IF \E j \in DOMAIN m_map[Fold[n]] :
                          /\ m_map[Fold[n]][j].first = n
                          /\ isExpired(m_map[Fold[n]][j].second, now)
                     THEN [m_map EXCEPT ![Fold[n]] = << >>]
                     ELSE m_map
         /\ expiredVars' = [expiredVars EXCEPT ![w] = @ \ {n}]
         /\ UNCHANGED <<now, did, got>>
  BY DEF PurgeExpired, delIfExpired
<1>2. /\ expected' = [k \in Keys |-> IF k \in E THEN 0 ELSE expected[k]]
      /\ raced' = raced \ E
      /\ since' = [u \in Workers |->
              IF wrote[u] \in E /\ (u = w => ~summing[w])
              THEN since[u] \cup {"purge"} ELSE since[u]]
      /\ UNCHANGED <<script, summing, started, wrote, total>>
  BY DEF PurgeExpired
<1>3. /\ TypeOK /\ Inv /\ InPlace /\ CountsAlone /\ NeverOvercounts
      /\ NoImmortalValue /\ WorkerInv(w) /\ now \in Nat
      /\ m_map \in [Keys -> Seq(Node)]
      /\ expiredVars \in [Workers -> SUBSET Names]
      /\ total \in [Keys -> Nat] /\ expected \in [Keys -> Int]
      /\ raced \in SUBSET Keys /\ since \in [Workers -> SUBSET {"write", "purge"}]
  BY DEF SetVarInv, TypeOK, Inv, MapTypeOK
<1>4. Inv' /\ n \in Names /\ Fold[n] \in Keys
  <2>1. Inv'
    BY <1>3, PurgeStep DEF PurgeExpired
  <2> QED
    BY <1>3, <2>1, FoldAssumption DEF Keys
<1>5. /\ \A c \in E : m_map'[c] = << >>
      /\ \A c \in Keys : c \notin E => m_map'[c] = m_map[c]
  <2>1. CASE m_map' = m_map
    BY <2>1
  <2>2. CASE m_map' = [m_map EXCEPT ![Fold[n]] = << >>]
    BY <1>3, <1>4, <2>2
  <2> QED
    BY <1>1, <2>1, <2>2
<1>6. /\ \A c \in E : ElementOf(c)' = EmptyData /\ Stored(c)' = 0
      /\ \A c \in Keys : c \notin E => ElementOf(c)' = ElementOf(c)
                                       /\ Stored(c)' = Stored(c)
  BY <1>5, Numbers DEF ElementOf, Stored, EmptyData
<1>7. TotalGrows
  BY <1>2, <1>3 DEF TotalGrows
<1>8. ASSUME NEW u \in Workers, u # w
      PROVE  WorkerInv(u)'
  <2>1. expiredVars'[u] = expiredVars[u]
    BY <1>1, <1>3, <1>8
  <2>2. since'[u] = IF wrote[u] \in E THEN since[u] \cup {"purge"} ELSE since[u]
    BY <1>2, <1>8
  <2>3. Idles(u)
    BY <1>1, <1>2, <1>5, <2>1, <2>2 DEF Idles
  <2> QED
    BY <1>1, <1>3, <1>7, <2>3, Bystander
<1>9. WorkerInv(w)'
  <2>1. Proper(w)' /\ Disciplined(w)' /\ Remembers(w)'
    BY <1>1, <1>2, <1>3 DEF WorkerInv, Proper, Disciplined, Remembers, At, name
  <2>2. UpToDate(w)'
    <3> SUFFICES ASSUME summing[w], since[w] = {}
                 PROVE  UpToDate(w)'
      BY <1>2 DEF UpToDate
    <3>1. /\ got[w] = {} /\ m_map[wrote[w]] # << >>
          /\ expiredVars[w] = {m_map[wrote[w]][1].first}
          /\ Fold[m_map[wrote[w]][1].first] = wrote[w]
          /\ isExpired(ElementOf(wrote[w]), now)
      BY <1>1, <1>3 DEF WorkerInv, UpToDate
    <3>2. n = m_map[wrote[w]][1].first /\ Fold[n] = wrote[w]
      BY <1>1, <3>1
    <3>3. 1 \in DOMAIN m_map[Fold[n]]
      <4>1. m_map[Fold[n]] \in Seq(Node) /\ m_map[Fold[n]] # << >>
        BY <1>3, <1>4, <3>1, <3>2
      <4> QED
        BY <4>1, TailOf
    <3>4. isExpired(m_map[Fold[n]][1].second, now)
      BY <3>1, <3>2 DEF ElementOf
    <3>5. m_map' = [m_map EXCEPT ![Fold[n]] = << >>]
      BY <1>1, <3>2, <3>3, <3>4
    <3>6. wrote[w] \in E
      BY <1>3, <1>4, <3>1, <3>2, <3>5
    <3>7. expiredVars'[w] = {}
      BY <1>1, <1>3, <3>1, <3>2
    <3>8. got'[w] = {} /\ wrote'[w] = wrote[w] /\ Stored(wrote[w])' = 0
      <4>1. Stored(wrote[w])' = stoi(ElementOf(wrote[w])'.value)
        BY DEF Stored
      <4> QED
        BY <1>1, <1>2, <1>6, <3>1, <3>6 DEF Stored, ElementOf
    <3> QED
      BY <3>7, <3>8 DEF UpToDate
  <2>3. StillThere(w)'
    <3> SUFFICES ASSUME wrote[w] \in Keys, since'[w] = {}, ~summing[w]
                 PROVE  hasValue(ElementOf(wrote[w])')
      BY <1>2 DEF StillThere, hasValue, ElementOf
    <3>1. wrote[w] \notin E /\ since[w] = {}
      BY <1>2
    <3>2. hasValue(ElementOf(wrote[w]))
      BY <1>3, <3>1 DEF WorkerInv, StillThere
    <3>3. ElementOf(wrote[w])' = ElementOf(wrote[w])
      BY <1>2, <1>5, <3>1 DEF ElementOf
    <3> QED
      BY <3>2, <3>3
  <2> QED
    BY <2>1, <2>2, <2>3 DEF WorkerInv
<1>10. CountsAlone' /\ NeverOvercounts' /\ NoImmortalValue' /\ InPlace'
  <2>1. CountsAlone'
    BY <1>2, <1>3, <1>6 DEF CountsAlone
  <2>2. NeverOvercounts'
    <3>1. ASSUME NEW c \in Keys
          PROVE  Stored(c)' <= total'[c]
      <4>1. CASE c \in E
        BY <1>2, <1>3, <1>6, <4>1
      <4>2. CASE c \notin E
        BY <1>2, <1>3, <1>6, <4>2 DEF NeverOvercounts
      <4> QED
        BY <4>1, <4>2
    <3> QED
      BY <3>1 DEF NeverOvercounts
  <2>3. NoImmortalValue'
    <3>1. ~hasValue(EmptyData)
      BY DEF hasValue, EmptyData
    <3> QED
      BY <1>2, <1>3, <1>6, <3>1 DEF NoImmortalValue
  <2>4. InPlace'
    BY <1>3, <1>5 DEF InPlace
  <2> QED
    BY <2>1, <2>2, <2>3, <2>4
<1>11. TypeOK'
  <2>1. expected' \in [Keys -> Int] /\ raced' \in SUBSET Keys
    BY <1>2, <1>3
  <2>2. since' \in [Workers -> SUBSET {"write", "purge"}]
    BY <1>2, <1>3
  <2> QED
    BY <1>2, <1>3, <1>4, <2>1, <2>2 DEF TypeOK, Inv
<1>12. \A u \in Workers : WorkerInv(u)'
  BY <1>8, <1>9
<1> QED
  BY <1>4, <1>10, <1>11, <1>12 DEF SetVarInv

LEMMA SetVarStart ==
    ASSUME Init
    PROVE  SetVarInv
<1>1. Inv
  BY MapStart DEF Init
<1>2. TypeOK
  <2>1. MaxRules \in Nat /\ 0 \in 0 .. MaxRules
    BY RulesAssumption
  <2>2. << >> \in Seq(Actions)
    OBVIOUS
  <2> QED
    BY <1>1, <2>1, <2>2 DEF Init, TypeOK, Inv
<1>3. \A k \in Keys : m_map[k] = << >>
  BY DEF Init, MapInit
<1>4. \A k \in Keys : ElementOf(k) = EmptyData /\ Stored(k) = 0
  BY <1>1, <1>3, StoredValues
<1>5. /\ \A w \in Workers : script[w] = << >> /\ ~summing[w] /\ wrote[w] = NoKey
      /\ \A k \in Keys : expected[k] = 0 /\ total[k] = 0
  BY DEF Init
<1>6. \A w \in Workers : WorkerInv(w)
  BY <1>5, RulesAssumption
  DEF WorkerInv, Proper, Disciplined, Remembers, UpToDate, StillThere
<1>7. CountsAlone /\ NeverOvercounts /\ NoImmortalValue /\ InPlace
  BY <1>3, <1>4, <1>5
  DEF CountsAlone, NeverOvercounts, NoImmortalValue, InPlace, hasValue, EmptyData
<1> QED
  BY <1>1, <1>2, <1>6, <1>7 DEF SetVarInv

LEMMA SetVarStep ==
    ASSUME SetVarInv, [Next]_allVars
    PROVE  SetVarInv'
<1>1. CASE Clock
  BY <1>1, ClockStep
<1>2. ASSUME NEW w \in Workers, Work(w)
      PROVE  SetVarInv'
  BY <1>2, StartStep, SetStep, UnsetStep, SumEvaluatesStep, SumStoresStep,
     ExpireStep, IgnoredStep, EvaluateStep, PurgedStep DEF Work
<1>3. CASE UNCHANGED allVars
  <2>1. /\ UNCHANGED <<m_map, now, expiredVars, did, got, script, summing,
                       started, wrote, since, expected, raced, total>>
    BY <1>3 DEF allVars, mapVars, histVars
  <2>2. TypeOK /\ Inv /\ InPlace /\ now \in Nat
    BY DEF SetVarInv, Inv, MapTypeOK
  <2>3. \A k \in Keys : Awaited(k) => Awaited(k)'
    BY <2>1 DEF Awaited
  <2>4. /\ InPlace' /\ CountsAlone' /\ NeverOvercounts' /\ NoImmortalValue'
        /\ TotalGrows
    BY <2>1, <2>3, ElementsKept
  <2>5. \A u \in Workers : WorkerInv(u)'
    <3> TAKE u \in Workers
    <3>1. Idles(u) /\ now' \in Nat /\ now' >= now
      BY <2>1, <2>2 DEF Idles
    <3> QED
      BY <2>4, <3>1, Bystander
  <2>6. Inv'
    BY <2>1, <2>2 DEF Inv, MapTypeOK, OneElementPerKey, NoBareElement, ElementOf
  <2>7. TypeOK'
    BY <2>1, <2>2, <2>6 DEF TypeOK, Inv
  <2> QED
    BY <2>4, <2>5, <2>6, <2>7 DEF SetVarInv
<1> QED
  BY <1>1, <1>2, <1>3 DEF Next

(* Only its own worker shortens a script, and at an expirevar with a       *)
(* proper argument only by executing it.                                   *)
LEMMA OnlyExpires ==
    ASSUME SetVarInv, [Next]_allVars, NEW w \in Workers,
           At(w, "expire"), arg(w) \in Seconds, script'[w] = Tail(script[w])
    PROVE  expireVar(w)
<1>1. script[w] # << >> /\ Head(script[w]).op = "expire" /\ ~summing[w]
  BY AtAction DEF At
<1>2. script \in [Workers -> Seq(Actions)]
  BY DEF SetVarInv, TypeOK
<1>3. script'[w] # script[w]
  BY <1>1, <1>2, TailOf
<1>4. ASSUME NEW u \in Workers, u # w, Work(u)
      PROVE  FALSE
  <2>1. \/ \E x : script' = [script EXCEPT ![u] = x]
        \/ script' = script
    BY <1>4
    DEF Work, StartRule, setOperation, unsetOperation, SumEvaluates, SumStores,
        expireVar, expireVarIgnored, EvaluateVariable, PurgeExpired, Store, Next1
  <2> QED
    BY <1>2, <1>3, <1>4, <2>1
<1>5. ~UNCHANGED allVars /\ ~Clock
  BY <1>3 DEF allVars, Clock
<1>6. Work(w)
  BY <1>4, <1>5 DEF Next
<1>7. /\ ~StartRule(w) /\ ~setOperation(w) /\ ~unsetOperation(w)
      /\ ~SumStores(w) /\ ~EvaluateVariable(w) /\ ~expireVarIgnored(w)
  BY <1>1
  DEF StartRule, setOperation, unsetOperation, SumStores, EvaluateVariable,
      expireVarIgnored, At
<1>8. ~SumEvaluates(w) /\ ~PurgeExpired(w)
  BY <1>3 DEF SumEvaluates, PurgeExpired
<1> QED
  BY <1>6, <1>7, <1>8 DEF Work

LEMMA FlagStep ==
    ASSUME SetVarInv, [Next]_allVars, NEW w \in Workers, NEW k \in Keys,
           ExpiresOwnValue(w, k), since[w] = {}
    PROVE  Visible(ElementOf(k)', now')
<1> PICK d : d = setExpiry(ElementOf(k), now, arg(w))
  OBVIOUS
<1>1. /\ At(w, "expire") /\ script'[w] = Tail(script[w])
      /\ arg(w) \in Seconds /\ arg(w) # 0
      /\ wrote[w] = k /\ Fold[name(w)] = k
  BY DEF ExpiresOwnValue
<1>2. expireVar(w) /\ ~summing[w] /\ Inv /\ StillThere(w)
  BY <1>1, OnlyExpires, AtAction DEF At, SetVarInv, WorkerInv
<1>3. /\ now' = now
      /\ [c \in Keys |-> ElementOf(c)]' =
            [[c \in Keys |-> ElementOf(c)] EXCEPT ![k] = d]
  BY <1>1, <1>2, ExpireStep
<1>4. ElementOf(k)' = d
  <2> DEFINE bar == [c \in Keys |-> ElementOf(c)]
  <2>1. bar'[k] = [bar EXCEPT ![k] = d][k]
    BY <1>3
  <2>2. bar'[k] = ElementOf(k)' /\ [bar EXCEPT ![k] = d][k] = d
    OBVIOUS
  <2> HIDE DEF bar
  <2> QED
    BY <2>1, <2>2
<1>5. d.value = ElementOf(k).value /\ ~isExpired(d, now)
  BY <1>1, <1>2, ExpiresLater
<1>6. hasValue(ElementOf(k))
  BY <1>1, <1>2 DEF StillThere
<1> QED
  BY <1>3, <1>4, <1>5, <1>6 DEF Visible, hasValue

-----------------------------------------------------------------------------
(* What the code promises of its counters and flags.                       *)

LEMMA SetVarInvariant == Spec => []SetVarInv
<1>1. Init => SetVarInv
  BY SetVarStart
<1>2. SetVarInv /\ [Next]_allVars => SetVarInv'
  BY SetVarStep
<1> QED
  BY <1>1, <1>2, PTL DEF Spec

(* A counter that no other action reached between the evaluation and the   *)
(* store of SetVar::evaluate has the value that the sums, sets, unsets and *)
(* expiries of its key give one after the other, whatever the other        *)
(* workers do to other keys and whoever purges in between.                 *)
THEOREM CountsAreExact == Spec => [](TypeOK /\ CountsAlone)
<1>1. SetVarInv => TypeOK /\ CountsAlone
  BY DEF SetVarInv
<1> QED
  BY <1>1, SetVarInvariant, PTL

(* Increments that overlap may be lost, but the sum that SetVar::evaluate  *)
(* stores is built on a value that was there: no interleaving of setvar,   *)
(* expirevar and purges makes a counter exceed all that was added to it.   *)
THEOREM NoOvercount == Spec => []NeverOvercounts
<1>1. SetVarInv => NeverOvercounts
  BY DEF SetVarInv
<1> QED
  BY <1>1, SetVarInvariant, PTL

(* If every rule that stores a key expires it further on, the key never    *)
(* has a value without an expiry time that no running rule is about to set *)
(* one for, although setvar and expirevar are separate calls of the        *)
(* collection.                                                             *)
THEOREM NoValueForEver == Spec => []NoImmortalValue
<1>1. SetVarInv => NoImmortalValue
  BY DEF SetVarInv
<1> QED
  BY <1>1, SetVarInvariant, PTL

(* setvar:x=v,expirevar:x=s leaves x with a value that readers see, unless *)
(* another rule touched x or a reader purged it between the two actions.   *)
THEOREM FlagRaised == Spec => FlagIsRaisedUnlessPurged
<1> DEFINE A == \A w \in Workers, k \in Keys :
                   ExpiresOwnValue(w, k) /\ since[w] = {} =>
                      Visible(ElementOf(k)', now')
<1>1. SetVarInv /\ [Next]_allVars => A
  BY FlagStep
<1>2. SetVarInv /\ [Next]_allVars => [A]_allVars
  BY <1>1
<1>3. Spec => [][A]_allVars
  <2> HIDE DEF A
  <2> QED
    BY <1>2, SetVarInvariant, PTL DEF Spec
<1> QED
  BY <1>3 DEF FlagIsRaisedUnlessPurged
=============================================================================
