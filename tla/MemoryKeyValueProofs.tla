------------------------ MODULE MemoryKeyValueProofs ------------------------
(***************************************************************************)
(* The process-local store is type correct and implements KeyValue, for    *)
(* every set of keys, values and times to live.                            *)
(***************************************************************************)
EXTENDS MemoryKeyValue, TLAPS

Item == [value: Values, expiresAt: Nat]

\* The dictionary of MemoryKeyValue holds only values with a time of expiry,
\* and a get returns a value or nothing.
THEOREM StoreTypeCorrect == Spec => []TypeOK
<1>1. Init => TypeOK
  BY DEF Init, TypeOK
<1>2. TypeOK /\ [Next]_vars => TypeOK'
  <2> SUFFICES ASSUME TypeOK, [Next]_vars PROVE TypeOK'
    OBVIOUS
  <2>1. CASE Tick
    BY <2>1 DEF TypeOK, Tick
  <2>2. ASSUME NEW k \in Keys, Get(k) PROVE TypeOK'
    <3>1. CASE values[k] = None \/ Expired(values[k])
      BY <2>2, <3>1 DEF TypeOK, Get
    <3>2. CASE ~(values[k] = None \/ Expired(values[k]))
      <4>1. values[k] \in Item
        BY <3>2 DEF TypeOK, Item
      <4> QED
        BY <2>2, <3>2, <4>1 DEF TypeOK, Get, Item
    <3> QED
      BY <3>1, <3>2
  <2>3. ASSUME NEW k \in Keys, NEW v \in Values, NEW ttl \in Lifetimes,
               Set(k, v, ttl)
        PROVE  TypeOK'
    <3>1. now + ttl \in Nat
      BY StoreAssumption DEF TypeOK
    <3> QED
      BY <2>3, <3>1 DEF TypeOK, Set
  <2>4. CASE UNCHANGED vars
    BY <2>4 DEF TypeOK, vars
  <2> QED
    BY <2>1, <2>2, <2>3, <2>4 DEF Next
<1> QED
  BY <1>1, <1>2, PTL DEF Spec

LEMMA AliveValues ==
  ASSUME TypeOK, NEW k \in Keys
  PROVE  /\ (values[k] = None \/ values[k].expiresAt <= now) => Alive[k] = None
         /\ ~(values[k] = None \/ values[k].expiresAt <= now) =>
              /\ values[k] \in Item
              /\ Alive[k] = [value |-> values[k].value,
                             left |-> values[k].expiresAt - now]
              /\ Alive[k] # None
<1>1. CASE values[k] = None \/ values[k].expiresAt <= now
  BY <1>1 DEF Alive
<1>2. CASE ~(values[k] = None \/ values[k].expiresAt <= now)
  <2>1. values[k] \in Item
    BY <1>2 DEF TypeOK, Item
  <2>2. Alive[k] = [value |-> values[k].value,
                    left |-> values[k].expiresAt - now]
    BY <1>2 DEF Alive
  <2>3. values[k].value \in Values /\ values[k].expiresAt - now \in Nat
    BY <1>2, <2>1 DEF TypeOK, Item
  <2>4. Alive[k] \in [value: Values, left: Nat]
    BY <2>2, <2>3
  <2> QED
    BY <1>2, <2>1, <2>2, <2>4, StoreAssumption
<1> QED
  BY <1>1, <1>2

\* MemoryKeyValue, which drops an expired entry only when it is asked for,
\* behaves as a store whose entries end with their time to live: no get
\* returns an expired value, and none misses one that has not expired.
THEOREM MemoryKeepsValues == Spec => KeepsValues
<1>1. Init => Store!Init
  BY DEF Init, Store!Init, Alive
<1>2. TypeOK /\ TypeOK' /\ [Next]_vars => [Store!Next]_(Store!store)
  <2> SUFFICES ASSUME TypeOK, TypeOK', [Next]_vars
               PROVE  Store!Next \/ UNCHANGED Store!store
    OBVIOUS
  <2>1. CASE Tick
    <3>1. Alive' = [k \in Keys |->
                      IF Alive[k] = None \/ Alive[k].left = 1 THEN None
                      ELSE [value |-> Alive[k].value,
                            left |-> Alive[k].left - 1]]
      <4> SUFFICES ASSUME NEW k \in Keys
                   PROVE  Alive'[k] =
                            IF Alive[k] = None \/ Alive[k].left = 1 THEN None
                            ELSE [value |-> Alive[k].value,
                                  left |-> Alive[k].left - 1]
        BY DEF Alive
      <4>1. now \in Nat /\ now' = now + 1 /\ values' = values
        BY <2>1 DEF TypeOK, Tick
      <4>2. Alive'[k] = IF values[k] = None \/ values[k].expiresAt <= now + 1
                        THEN None
                        ELSE [value |-> values[k].value,
                              left |-> values[k].expiresAt - (now + 1)]
        BY <4>1 DEF Alive
      <4>3. CASE values[k] = None \/ values[k].expiresAt <= now
        <5>1. Alive[k] = None
          BY <4>3, AliveValues
        <5>2. values[k] # None => values[k].expiresAt \in Nat
          BY DEF TypeOK
        <5>3. values[k] = None \/ values[k].expiresAt <= now + 1
          BY <4>1, <4>3, <5>2
        <5> QED
          BY <4>2, <5>1, <5>3
      <4>4. CASE ~(values[k] = None \/ values[k].expiresAt <= now)
        <5>1. /\ values[k] \in Item
              /\ Alive[k] = [value |-> values[k].value,
                             left |-> values[k].expiresAt - now]
              /\ Alive[k] # None
          BY <4>4, AliveValues
        <5>2. values[k].expiresAt \in Nat
          BY <5>1 DEF Item
        <5>3. /\ Alive[k].value = values[k].value
              /\ Alive[k].left = values[k].expiresAt - now
          BY <5>1
        <5>4. Alive[k].left = 1 <=> values[k].expiresAt <= now + 1
          BY <4>1, <4>4, <5>2, <5>3
        <5>5. Alive[k].left - 1 = values[k].expiresAt - (now + 1)
          BY <4>1, <5>2, <5>3
        <5> QED
          BY <4>2, <4>4, <5>1, <5>3, <5>4, <5>5
      <4> QED
        BY <4>3, <4>4
    <3>2. reply' = reply
      BY <2>1 DEF Tick
    <3> QED
      BY <3>1, <3>2 DEF Store!Next, Store!Elapse
  <2>2. ASSUME NEW k \in Keys, Get(k) PROVE Store!Get(k)
    <3>1. CASE values[k] = None \/ Expired(values[k])
      <4>1. Alive[k] = None /\ reply' = None
        BY <2>2, <3>1, AliveValues DEF Get, Expired
      <4>2. Alive' = Alive
        BY <2>2, <3>1 DEF Get, Alive, Expired, TypeOK
      <4> QED
        BY <4>1, <4>2 DEF Store!Get
    <3>2. CASE ~(values[k] = None \/ Expired(values[k]))
      <4>1. /\ Alive[k] = [value |-> values[k].value,
                           left |-> values[k].expiresAt - now]
            /\ Alive[k] # None
        BY <3>2, AliveValues DEF Expired
      <4>2. reply' = values[k].value /\ UNCHANGED <<now, values>>
        BY <2>2, <3>2 DEF Get
      <4>3. Alive' = Alive
        BY <4>2 DEF Alive
      <4> QED
        BY <4>1, <4>2, <4>3 DEF Store!Get
    <3> QED
      BY <3>1, <3>2
  <2>3. ASSUME NEW k \in Keys, NEW v \in Values, NEW ttl \in Lifetimes,
               Set(k, v, ttl)
        PROVE  Store!Set(k, v, ttl)
    <3>1. /\ now \in Nat /\ now' = now /\ reply' = reply
          /\ values' = [values EXCEPT ![k] = [value |-> v,
                                              expiresAt |-> now + ttl]]
          /\ values \in [Keys -> Item \cup {None}]
      BY <2>3 DEF Set, TypeOK, Item
    <3>2. ttl \in Nat /\ ttl # 0
      BY StoreAssumption
    <3>3. Alive' = [Alive EXCEPT ![k] = [value |-> v, left |-> ttl]]
      <4> SUFFICES ASSUME NEW j \in Keys
                   PROVE  Alive'[j] = IF j = k
                                      THEN [value |-> v, left |-> ttl]
                                      ELSE Alive[j]
        BY DEF Alive
      <4>1. CASE j = k
        <5>1. values'[k] = [value |-> v, expiresAt |-> now + ttl]
          BY <3>1
        <5>2. values'[k] \in Item
          BY <3>1, <3>2, <5>1 DEF Item
        <5>3. values'[k] # None
          BY <5>2, StoreAssumption DEF Item
        <5>4. ~(now + ttl <= now) /\ (now + ttl) - now = ttl
          BY <3>1, <3>2
        <5> QED
          BY <3>1, <4>1, <5>1, <5>3, <5>4 DEF Alive
      <4>2. CASE j # k
        BY <3>1, <4>2 DEF Alive
      <4> QED
        BY <4>1, <4>2
    <3> QED
      BY <3>1, <3>3 DEF Store!Set
  <2>4. CASE UNCHANGED vars
    BY <2>4 DEF vars, Store!store, Alive
  <2> QED
    BY <2>1, <2>2, <2>3, <2>4 DEF Next, Store!Next
<1> QED
  BY <1>1, <1>2, StoreTypeCorrect, PTL DEF Spec, KeepsValues, Store!Spec
=============================================================================
