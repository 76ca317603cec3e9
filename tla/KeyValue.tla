------------------------------ MODULE KeyValue ------------------------------
(***************************************************************************)
(* What the stores of the gateway promise (cache.py, AsyncKeyValue): a     *)
(* value that was set is what a get returns, until it is set again or its  *)
(* time to live has run out.  An entry holds the time it has left.         *)
(***************************************************************************)
EXTENDS Integers

CONSTANTS
  Keys, Values,
  Lifetimes,    \* the times to live in use
  None          \* what a get returns when there is nothing

VARIABLES
  alive,    \* per key: the value that is held and the time it has left
  reply     \* what the last get returned

store == <<alive, reply>>

Init ==
  /\ alive = [k \in Keys |-> None]
  /\ reply = None

Get(k) ==
  /\ reply' = IF alive[k] = None THEN None ELSE alive[k].value
  /\ UNCHANGED alive

Set(k, v, ttl) ==
  /\ alive' = [alive EXCEPT ![k] = [value |-> v, left |-> ttl]]
  /\ UNCHANGED reply

Elapse ==
  /\ alive' = [k \in Keys |->
       IF alive[k] = None \/ alive[k].left = 1 THEN None
       ELSE [value |-> alive[k].value, left |-> alive[k].left - 1]]
  /\ UNCHANGED reply

Next ==
  \/ \E k \in Keys : Get(k) \/ \E v \in Values, ttl \in Lifetimes : Set(k, v, ttl)
  \/ Elapse

Spec == Init /\ [][Next]_store
=============================================================================
