------------------------- MODULE InMemoryPerProcess -------------------------
(***************************************************************************)
(* The in-memory backend: an unordered_multimap with case-insensitive keys *)
(* that the worker threads of one process share under a shared_mutex.      *)
(* What a function does while it holds the lock is one step.  The resolve  *)
(* functions collect the expired keys under the read lock, let it go, and  *)
(* then call delIfExpired for each of them, which takes the write lock     *)
(* again: between two of these steps the other workers run.                *)
(***************************************************************************)
EXTENDS CollectionData, Sequences

CONSTANTS Names,    \* spellings of keys
          Fold,     \* tolower: the key that MyHash and MyEqual see
          Workers,
          Seconds,  \* arguments of expirevar
          MaxTime   \* bound: ticks of the clock

ASSUME FoldAssumption ==
    /\ Fold \in [Names -> Names]
    /\ Seconds \subseteq Nat

VARIABLES m_map,        \* the elements of each key, in the order of the range
          now,
          expiredVars,  \* keys each worker still has to delIfExpired
          did,          \* history: the function a worker called last
          got           \* what it returned

mapVars == <<m_map, now, expiredVars, did, got>>

Keys == {Fold[n] : n \in Names}

Node == [first : Names, second : Data]

MapTypeOK == /\ m_map \in [Keys -> Seq(Node)]
             /\ now \in Nat
             /\ expiredVars \in [Workers -> SUBSET Names]
             /\ did \in [Workers -> {"none", "store", "update", "expire",
                                     "del", "resolve"}]
             /\ got \in [Workers -> SUBSET (Keys \X Values)]

MapInit == /\ m_map = [k \in Keys |-> << >>]
           /\ now = 0
           /\ expiredVars = [w \in Workers |-> {}]
           /\ did = [w \in Workers |-> "none"]
           /\ got = [w \in Workers |-> {}]

-----------------------------------------------------------------------------
(* Under the write lock.                                                   *)

(* The function a worker called last has returned.                         *)
Returned(w) == expiredVars[w] = {}

Calls(w, op, found) == /\ Returned(w)
                       /\ did' = [did EXCEPT ![w] = op]
                       /\ got' = [got EXCEPT ![w] = found]

Emplace(n, d) ==
    [m_map EXCEPT ![Fold[n]] = Append(@, [first |-> n, second |-> d])]

SetFirst(n, d) == [m_map EXCEPT ![Fold[n]][1].second = d]

Find(n) == m_map[Fold[n]] # << >>
First(n) == m_map[Fold[n]][1].second

storeOrUpdateFirst(w, n, v) ==
    /\ Calls(w, "store", {})
    /\ m_map' = IF Find(n) THEN SetFirst(n, setValue(First(n), v))
                           ELSE Emplace(n, DataOf(v))
    /\ UNCHANGED <<now, expiredVars>>

updateFirst(w, n, v) ==
    /\ Calls(w, "update", {})
    /\ m_map' = IF Find(n) THEN SetFirst(n, setValue(First(n), v)) ELSE m_map
    /\ UNCHANGED <<now, expiredVars>>

del(w, n) ==
    /\ Calls(w, "del", {})
    /\ m_map' = [m_map EXCEPT ![Fold[n]] = << >>]
    /\ UNCHANGED <<now, expiredVars>>

(* Mutants: an element is added without a look for the one that is there;  *)
(* the one that is there is left alone; or it loses its value.             *)
MutSetExpiryAdds(w, n, seconds) ==
    /\ Calls(w, "expire", {})
    /\ m_map' = Emplace(n, setExpiry(EmptyData, now, seconds))
    /\ UNCHANGED <<now, expiredVars>>

MutSetExpiryOnce(w, n, seconds) ==
    /\ Calls(w, "expire", {})
    /\ m_map' = IF Find(n) THEN m_map
                           ELSE Emplace(n, setExpiry(EmptyData, now, seconds))
    /\ UNCHANGED <<now, expiredVars>>

MutSetExpiryClears(w, n, seconds) ==
    /\ Calls(w, "expire", {})
    /\ m_map' = IF Find(n) THEN SetFirst(n, setExpiry(EmptyData, now, seconds))
                           ELSE Emplace(n, setExpiry(EmptyData, now, seconds))
    /\ UNCHANGED <<now, expiredVars>>

setExpiryOf(w, n, seconds) ==
    /\ Calls(w, "expire", {})
    /\ m_map' = IF Find(n) THEN SetFirst(n, setExpiry(First(n), now, seconds))
                           ELSE Emplace(n, setExpiry(EmptyData, now, seconds))
    /\ UNCHANGED <<now, expiredVars>>

(* Mutant: the expiry is not checked again under the write lock.           *)
MutDelIfExpired(w) ==
    \E n \in expiredVars[w] :
       /\ m_map' = [m_map EXCEPT ![Fold[n]] = << >>]
       /\ expiredVars' = [expiredVars EXCEPT ![w] = @ \ {n}]
       /\ UNCHANGED <<now, did, got>>

(* Keys are compared exactly here, while the map folds their case.         *)
delIfExpired(w) ==
    \E n \in expiredVars[w] :
       /\ m_map' = IF \E j \in DOMAIN m_map[Fold[n]] :
                        /\ m_map[Fold[n]][j].first = n
                        /\ isExpired(m_map[Fold[n]][j].second, now)
                   THEN [m_map EXCEPT ![Fold[n]] = << >>]
                   ELSE m_map
       /\ expiredVars' = [expiredVars EXCEPT ![w] = @ \ {n}]
       /\ UNCHANGED <<now, did, got>>

-----------------------------------------------------------------------------
(* Under the read lock: the elements of the keys in K are looked at.       *)

Found(K) ==
    {p \in K \X Values : \E j \in DOMAIN m_map[p[1]] :
        /\ Visible(m_map[p[1]][j].second, now)
        /\ m_map[p[1]][j].second.value = p[2]}

Expired(K) ==
    {n \in Names : /\ Fold[n] \in K
                   /\ \E j \in DOMAIN m_map[Fold[n]] :
                         /\ m_map[Fold[n]][j].first = n
                         /\ isExpired(m_map[Fold[n]][j].second, now)}

(* Mutant: what expired is not returned, and not removed either.           *)
MutLookAt(w, K) ==
    /\ Calls(w, "resolve", Found(K))
    /\ UNCHANGED <<m_map, now, expiredVars>>

LookAt(w, K) ==
    /\ Calls(w, "resolve", Found(K))
    /\ expiredVars' = [expiredVars EXCEPT ![w] = Expired(K)]
    /\ UNCHANGED <<m_map, now>>

resolveSingleMatch(w, n) == LookAt(w, {Fold[n]})

(* The last visible element of the range is returned.                      *)
resolveFirst(w, n) ==
    LET shown == {j \in DOMAIN m_map[Fold[n]] :
                     Visible(m_map[Fold[n]][j].second, now)}
    IN  /\ Calls(w, "resolve",
                 {<<Fold[n], m_map[Fold[n]][j].second.value>> :
                     j \in {l \in shown : \A o \in shown : o <= l}})
        /\ expiredVars' = [expiredVars EXCEPT ![w] = Expired({Fold[n]})]
        /\ UNCHANGED <<m_map, now>>

(* With a key its range, without one every element; omit is the set of     *)
(* keys that the KeyExclusions of the variable match.                      *)
resolveMultiMatches(w, n, omit) == LookAt(w, {Fold[n]} \ omit)

resolveEveryMatch(w, omit) == LookAt(w, Keys \ omit)

(* matched is the set of keys in which the expression is found.            *)
resolveRegularExpression(w, matched, omit) == LookAt(w, matched \ omit)

Tick == /\ now < MaxTime
        /\ now' = now + 1
        /\ UNCHANGED <<m_map, expiredVars, did, got>>

-----------------------------------------------------------------------------
Write(w, n) ==
    \/ \E v \in Values : storeOrUpdateFirst(w, n, v) \/ updateFirst(w, n, v)
    \/ \E s \in Seconds : setExpiryOf(w, n, s)
    \/ del(w, n)

Read(w) ==
    \/ \E n \in Names : resolveSingleMatch(w, n) \/ resolveFirst(w, n)
    \/ \E omit \in SUBSET Keys :
          \/ \E n \in Names : resolveMultiMatches(w, n, omit)
          \/ resolveEveryMatch(w, omit)
          \/ \E matched \in SUBSET Keys :
                resolveRegularExpression(w, matched, omit)

MapNext == \/ \E w \in Workers : \/ \E n \in Names : Write(w, n)
                                 \/ Read(w)
                                 \/ delIfExpired(w)
           \/ Tick

MapSpec == MapInit /\ [][MapNext]_mapVars

-----------------------------------------------------------------------------
(* The multimap never holds two elements of one key, in whatever spellings *)
(* the workers used: storeOrUpdateFirst and setExpiry emplace only after a *)
(* find that failed under the same lock.  The resolve functions and        *)
(* delIfExpired, which erases the whole range, rely on it.                 *)
OneElementPerKey == \A k \in Keys : Len(m_map[k]) <= 1

(* The element of a key, and the one of a key that is not in the map.      *)
ElementOf(k) == IF m_map[k] = << >> THEN EmptyData ELSE m_map[k][1].second

(* What is in the map has a value or an expiry time.                       *)
NoBareElement == \A k \in Keys : m_map[k] # << >> => ElementOf(k) # EmptyData

(* The backend implements a Collection.  In particular, delIfExpired only  *)
(* removes what is expired when it runs, though its caller decided to call *)
(* it under an earlier lock.                                               *)
Abstract == INSTANCE Collection WITH
               data <- [k \in Keys |-> ElementOf(k)], Slack <- 0

ImplementsCollection == Abstract!Spec
=============================================================================
