----------------------------- MODULE GroupState -----------------------------
(***************************************************************************)
(* The state word dg_state of a dispatch group (semaphore_internal.h): a   *)
(* generation, a counter that runs downwards from 0, and two flag bits.    *)
(* The arithmetic is the code's, on words of VALUES * 4 and of GENS times  *)
(* as many values; the code has VALUES = 2^30 and GENS = 2^32.             *)
(***************************************************************************)
EXTENDS Integers

CONSTANTS VALUES,   \* number of values of the counter
          GENS      \* number of generations

ASSUME WordAssumption == VALUES \in Nat /\ VALUES > 1 /\ GENS \in Nat /\ GENS > 1

INTERVAL == 4
LOW  == INTERVAL * VALUES          \* the 32 bit word dg_bits
WORD == LOW * GENS                 \* the 64 bit word dg_state

dg_bits(s) == s % LOW
dg_gen(s)  == s \div LOW

HasWaiters(s) == s % 2 = 1
HasNotifs(s)  == (s \div 2) % 2 = 1

\* The value field as it is stored, and _dg_state_value(), the number of times
\* the group has been entered and not left.
ValueField(s) == dg_bits(s) \div INTERVAL
Value(s) == (-ValueField(s)) % VALUES

SetWaiters(s)   == IF HasWaiters(s) THEN s ELSE s + 1
SetNotifs(s)    == IF HasNotifs(s) THEN s ELSE s + 2
ClearWaiters(s) == IF HasWaiters(s) THEN s - 1 ELSE s
ClearNotifs(s)  == IF HasNotifs(s) THEN s - 2 ELSE s

\* dispatch_group_enter() subtracts on 32 bits: a borrow stays in dg_bits.
SubIntervalMutant(s) == (s - INTERVAL) % WORD
SubInterval(s) == (s - dg_bits(s)) + ((dg_bits(s) - INTERVAL) % LOW)

\* dispatch_group_leave() adds on 64 bits: a carry goes to the generation.
AddInterval(s) == (s + INTERVAL) % WORD

\* The stored values that the code compares the value field with.
VALUE_1   == VALUES - 1     \* entered once
VALUE_MAX == 1              \* entered as often as the counter can tell
==============================================================================
