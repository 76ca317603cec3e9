--------------------------- MODULE MemoryKeyValue ---------------------------
(***************************************************************************)
(* The process-local store (cache.py, MemoryKeyValue): a dictionary of     *)
(* values with the time at which they expire.  An expired entry stays      *)
(* until somebody asks for it; one nobody asks for stays for ever.  The    *)
(* lock is never held across a suspension, so both methods are atomic.     *)
(***************************************************************************)
EXTENDS Integers

CONSTANTS
  Keys, Values,
  Lifetimes,    \* ttl_seconds of the cache and of the idempotency store
  None,
  MaxTime       \* bound: the last tick

ASSUME StoreAssumption ==
  /\ Lifetimes \subseteq Nat \ {0}
  /\ None \notin Values
  /\ None \notin [value: Values, expiresAt: Nat]
  /\ None \notin [value: Values, left: Nat]
  /\ MaxTime \in Nat

VARIABLES
  now,
  values,    \* _values
  reply      \* what the last get returned

vars == <<now, values, reply>>

Init ==
  /\ now = 0
  /\ values = [k \in Keys |-> None]
  /\ reply = None

\* An entry is good in the moment it expires.
ExpiredLater(item) == item.expiresAt < now

Expired(item) == item.expiresAt <= now

Get(k) ==
  LET item == values[k]
  IN  /\ IF item = None \/ Expired(item)
         THEN /\ values' = [values EXCEPT ![k] = None]
              /\ reply' = None
         ELSE /\ reply' = item.value
              /\ UNCHANGED values
      /\ UNCHANGED now

Set(k, v, ttl) ==
  /\ values' = [values EXCEPT ![k] = [value |-> v, expiresAt |-> now + ttl]]
  /\ UNCHANGED <<now, reply>>

Tick ==
  /\ now < MaxTime
  /\ now' = now + 1
  /\ UNCHANGED <<values, reply>>

Next ==
  \/ Tick
  \/ \E k \in Keys : Get(k) \/ \E v \in Values, ttl \in Lifetimes : Set(k, v, ttl)

Spec == Init /\ [][Next]_vars
-----------------------------------------------------------------------------
TypeOK ==
  /\ now \in Nat
  /\ values \in [Keys -> [value: Values, expiresAt: Nat] \cup {None}]
  /\ reply \in Values \cup {None}

\* What the dictionary holds for its users: what has not expired.
Alive ==
  [k \in Keys |->
     IF values[k] = None \/ values[k].expiresAt <= now THEN None
     ELSE [value |-> values[k].value, left |-> values[k].expiresAt - now]]

\* The dictionary with its lazy deletion keeps the promise of KeyValue.
Store == INSTANCE KeyValue WITH alive <- Alive

KeepsValues == Store!Spec
=============================================================================
