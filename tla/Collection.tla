----------------------------- MODULE Collection -----------------------------
(***************************************************************************)
(* What a persistent collection promises to setvar, expirevar and the      *)
(* variables, whatever its backend (class Collection): a map from keys to  *)
(* CollectionData whose operations are atomic.  The backends remove        *)
(* expired elements when a reader meets them; here that may happen at any  *)
(* time after the expiry, and never before.                                *)
(***************************************************************************)
EXTENDS CollectionData

CONSTANTS Keys,
          Workers,   \* threads that run transactions
          Seconds,   \* arguments of expirevar
          Slack      \* how many ticks early an element may expire

VARIABLES data,  \* the element of each key, EmptyData if there is none
          now,   \* the system clock
          did,   \* the operation each worker called last
          got    \* what it returned

vars == <<data, now, did, got>>

Init == /\ data = [k \in Keys |-> EmptyData]
        /\ now \in Nat
        /\ did = [w \in Workers |-> "none"]
        /\ got = [w \in Workers |-> {}]

Calls(w, op, found) == /\ did' = [did EXCEPT ![w] = op]
                       /\ got' = [got EXCEPT ![w] = found]

(* The expiry time of the element, if it has one, is kept.                 *)
StoreOrUpdateFirst(w, k, v) ==
    /\ Calls(w, "store", {})
    /\ data' = [data EXCEPT ![k] = setValue(@, v)]
    /\ UNCHANGED now

UpdateFirst(w, k, v) ==
    /\ Calls(w, "update", {})
    /\ data' = [data EXCEPT ![k] = IF @ = EmptyData THEN @ ELSE setValue(@, v)]
    /\ UNCHANGED now

Del(w, k) ==
    /\ Calls(w, "del", {})
    /\ data' = [data EXCEPT ![k] = EmptyData]
    /\ UNCHANGED now

SetExpiry(w, k, s) ==
    /\ Calls(w, "expire", {})
    /\ \E early \in 0 .. Slack :
          data' = [data EXCEPT ![k] = setExpiry(@, now - early, s)]
    /\ UNCHANGED now

Purge(k) ==
    /\ isExpired(data[k], now)
    /\ data' = [data EXCEPT ![k] = EmptyData]
    /\ UNCHANGED <<now, did, got>>

(* A resolve function looks at the keys in K at one instant.               *)
Resolve(w, K) ==
    /\ Calls(w, "resolve", {p \in K \X Values :
                               /\ Visible(data[p[1]], now)
                               /\ data[p[1]].value = p[2]})
    /\ UNCHANGED <<data, now>>

Tick == /\ now' = now + 1
        /\ UNCHANGED <<data, did, got>>

Write(w, k) ==
    \/ \E v \in Values : StoreOrUpdateFirst(w, k, v) \/ UpdateFirst(w, k, v)
    \/ \E s \in Seconds : SetExpiry(w, k, s)
    \/ Del(w, k)

Next == \/ \E w \in Workers, k \in Keys : Write(w, k)
        \/ \E w \in Workers, K \in SUBSET Keys : Resolve(w, K)
        \/ \E k \in Keys : Purge(k)
        \/ Tick

Spec == Init /\ [][Next]_vars
=============================================================================
