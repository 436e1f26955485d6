-------------------------- MODULE AbstractSemaphore --------------------------
(***************************************************************************)
(* What a dispatch semaphore promises to its clients, with no counter that *)
(* goes negative, no kernel semaphore and no two-step operations: a stock  *)
(* of tokens, and the set of threads whose wait has not returned yet.      *)
(*                                                                         *)
(* Three promises are in the guards.  A token is handed out only if there  *)
(* is one.  A newcomer is served at once only from tokens beyond those     *)
(* owed to the threads already waiting.  A wait times out only when there  *)
(* are more waiters than tokens.                                           *)
(***************************************************************************)
EXTENDS Integers, FiniteSets

CONSTANTS Threads,   \* the threads that use the semaphore
          Orig       \* the value given to dispatch_semaphore_create()

VARIABLES tokens,    \* tokens not handed out yet
          waiters    \* threads inside dispatch_semaphore_wait()

avars == <<tokens, waiters>>

AInit == tokens = Orig /\ waiters = {}

\* dispatch_semaphore_signal() adds a token.
ASignal == tokens' = tokens + 1 /\ UNCHANGED waiters

\* A wait that returns 0 without blocking.
AWaitNow ==
    /\ tokens > Cardinality(waiters)
    /\ tokens' = tokens - 1
    /\ UNCHANGED waiters

\* A wait that has to block.
ABlock(t) ==
    /\ t \notin waiters
    /\ tokens <= Cardinality(waiters)
    /\ waiters' = waiters \cup {t}
    /\ UNCHANGED tokens

\* A blocked wait returns 0.
AGrant(t) ==
    /\ t \in waiters
    /\ tokens > 0
    /\ tokens' = tokens - 1
    /\ waiters' = waiters \ {t}

\* A blocked wait returns a timeout.
ATimeout(t) ==
    /\ t \in waiters
    /\ tokens < Cardinality(waiters)
    /\ waiters' = waiters \ {t}
    /\ UNCHANGED tokens

ANext ==
    \/ ASignal
    \/ AWaitNow
    \/ \E t \in Threads : ABlock(t) \/ AGrant(t) \/ ATimeout(t)

ASpec == AInit /\ [][ANext]_avars
==============================================================================
