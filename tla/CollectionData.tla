--------------------------- MODULE CollectionData ---------------------------
(***************************************************************************)
(* CollectionData, one element of a persistent collection: a value, an     *)
(* expiry time, or both.  setExpiry may come before the first value, so an *)
(* element can have an expiry time and no value.  Time is counted in ticks *)
(* of the system clock, TicksPerSecond of them in a second.                *)
(***************************************************************************)
EXTENDS Integers

CONSTANTS Values,          \* what setvar may store
          NoValue,         \* m_hasValue is false
          Never,           \* m_hasExpiryTime is false
          TicksPerSecond

ASSUME DataAssumption ==
    /\ NoValue \notin Values
    /\ Never \notin Nat
    /\ TicksPerSecond \in Nat \ {0}

Data == [value : Values \cup {NoValue}, expiry : Nat \cup {Never}]

(* The two constructors.                                                   *)
EmptyData == [value |-> NoValue, expiry |-> Never]
DataOf(v) == [value |-> v, expiry |-> Never]

hasValue(d)  == d.value # NoValue
hasExpiry(d) == d.expiry # Never

isExpired(d, time) == hasExpiry(d) /\ time >= d.expiry

(* What the resolve functions hand out: an element with a value that has   *)
(* not expired.                                                            *)
Visible(d, time) == ~isExpired(d, time) /\ hasValue(d)

setValue(d, v) == [d EXCEPT !.value = v]

setExpiry(d, time, seconds) ==
    [d EXCEPT !.expiry = time + seconds * TicksPerSecond]
=============================================================================
