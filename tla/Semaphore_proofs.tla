-------------------------- MODULE Semaphore_proofs --------------------------
(***************************************************************************)
(* Proofs about DispatchSemaphore for any number of threads, any initial   *)
(* value and any width of the counter.                                     *)
(*                                                                         *)
(* The inductive invariant is the conjunction of the properties below.     *)
(* Ledger is the heart of it: NoPhantomToken, NoUseAfterDispose and the    *)
(* refinement all follow from it.  Ledger itself needs OnePort (posts go   *)
(* where the waiters are) and UnusedPorts (a new port starts at 0).        *)
(***************************************************************************)
EXTENDS DispatchSemaphore, ThreadCount_proofs

IInv == /\ TypeOK
        /\ OnePort
        /\ UnusedPorts
        /\ Ledger
        /\ ValueIsBalance
        /\ NoPhantomToken
        /\ NoUseAfterDispose
        /\ CrashesJustified

\* The counts of the ledger are natural numbers.
LEMMA Counts ==
    ASSUME TypeOK
    PROVE  /\ NumWaiting \in Nat /\ NumPosting \in Nat /\ NumWoken \in Nat
           /\ Posted \in Nat
           /\ NumWaiting <= Cardinality(Threads)
           /\ Cardinality(Threads) \in Nat
           /\ NumWaiting = 0 <=> Waiting = {}
           /\ NumPosting = 0 <=> Posting = {}
           /\ dsema_value \in Int /\ dsema_value <= LONG_MAX /\ LONG_MAX \in Nat
  <1>1. pc \in [Threads -> Points] /\ kcount \in [Threads -> Nat]
    BY Zenon DEF TypeOK
  <1>2. /\ NumWaiting \in Nat
        /\ NumWaiting <= Cardinality(Threads)
        /\ NumWaiting = 0 <=> Waiting = {}
    BY <1>1, ThreadsAssumption, CountType, Zenon DEF NumWaiting, Waiting
  <1>3. NumPosting \in Nat /\ (NumPosting = 0 <=> Posting = {})
    BY <1>1, ThreadsAssumption, CountType, Zenon DEF NumPosting, Posting
  <1>4. NumWoken \in Nat
    BY <1>1, ThreadsAssumption, CountType, Zenon DEF NumWoken
  <1>5. Posted \in Nat
    BY <1>1, Zenon DEF Posted
  <1>6. Cardinality(Threads) \in Nat
    BY ThreadsAssumption, FS_CardinalityType, Zenon
  <1>7. dsema_value \in Int /\ dsema_value <= LONG_MAX /\ LONG_MAX \in Nat
    BY OrigAssumption DEF TypeOK, LONG_MIN
  <1> QED BY <1>2, <1>3, <1>4, <1>5, <1>6, <1>7, Zenon

\* What a move of one thread does to the counts of the ledger.
LEMMA CountsAfterMove ==
    ASSUME pc \in [Threads -> Points], pc' \in [Threads -> Points], NEW t \in Threads,
           \A u \in Threads : u # t => pc'[u] = pc[u]
    PROVE  /\ pc'[t] \in WaitPoints /\ pc[t] \in WaitPoints => NumWaiting' = NumWaiting
           /\ pc'[t] \notin WaitPoints /\ pc[t] \notin WaitPoints => NumWaiting' = NumWaiting
           /\ pc'[t] \in WaitPoints /\ pc[t] \notin WaitPoints => NumWaiting' = NumWaiting + 1
           /\ pc'[t] \notin WaitPoints /\ pc[t] \in WaitPoints => NumWaiting' = NumWaiting - 1
           /\ pc'[t] \in SignalPoints /\ pc[t] \in SignalPoints => NumPosting' = NumPosting
           /\ pc'[t] \notin SignalPoints /\ pc[t] \notin SignalPoints => NumPosting' = NumPosting
           /\ pc'[t] \in SignalPoints /\ pc[t] \notin SignalPoints => NumPosting' = NumPosting + 1
           /\ pc'[t] \notin SignalPoints /\ pc[t] \in SignalPoints => NumPosting' = NumPosting - 1
           /\ pc'[t] # "woken" /\ pc[t] # "woken" => NumWoken' = NumWoken
           /\ pc'[t] # "woken" /\ pc[t] = "woken" => NumWoken' = NumWoken - 1
  <1>1. IsFiniteSet(Threads)
    BY ThreadsAssumption, Zenon
  <1>2. /\ pc'[t] \in WaitPoints /\ pc[t] \in WaitPoints => NumWaiting' = NumWaiting
        /\ pc'[t] \notin WaitPoints /\ pc[t] \notin WaitPoints => NumWaiting' = NumWaiting
        /\ pc'[t] \in WaitPoints /\ pc[t] \notin WaitPoints => NumWaiting' = NumWaiting + 1
        /\ pc'[t] \notin WaitPoints /\ pc[t] \in WaitPoints => NumWaiting' = NumWaiting - 1
    BY <1>1, CountMove DEF NumWaiting
  <1>3. /\ pc'[t] \in SignalPoints /\ pc[t] \in SignalPoints => NumPosting' = NumPosting
        /\ pc'[t] \notin SignalPoints /\ pc[t] \notin SignalPoints => NumPosting' = NumPosting
        /\ pc'[t] \in SignalPoints /\ pc[t] \notin SignalPoints => NumPosting' = NumPosting + 1
        /\ pc'[t] \notin SignalPoints /\ pc[t] \in SignalPoints => NumPosting' = NumPosting - 1
    BY <1>1, CountMove DEF NumPosting
  <1>4. /\ pc'[t] # "woken" /\ pc[t] # "woken" => NumWoken' = NumWoken
        /\ pc'[t] # "woken" /\ pc[t] = "woken" => NumWoken' = NumWoken - 1
    <2> DEFINE P == {"woken"}
    <2>1. /\ pc'[t] \notin P /\ pc[t] \notin P => Count(pc', P) = Count(pc, P)
          /\ pc'[t] \notin P /\ pc[t] \in P => Count(pc', P) = Count(pc, P) - 1
      <3> HIDE DEF P
      <3> QED BY <1>1, CountMove
    <2> QED BY <2>1, Zenon DEF NumWoken
  <1> QED BY <1>2, <1>3, <1>4, Zenon

\* The initial state satisfies the invariant.
LEMMA InitInv == Init => IInv
  <1> SUFFICES ASSUME Init PROVE IInv
    BY Zenon
  <1>1. TypeOK
    BY OrigAssumption, ThreadsAssumption DEF Init, TypeOK, Points, LONG_MIN
  <1>2. At(pc, WaitPoints) = {} /\ At(pc, SignalPoints) = {} /\ At(pc, {"woken"}) = {}
    BY Zenon DEF Init, At, WaitPoints, SignalPoints
  <1>3. NumWaiting = 0 /\ NumPosting = 0 /\ NumWoken = 0 /\ Posted = 0
    BY <1>2, FS_EmptySet, Zenon DEF Init, Count, NumWaiting, NumPosting, NumWoken, Posted
  <1>4. OnePort /\ UnusedPorts
    BY Zenon DEF Init, OnePort, UnusedPorts
  <1>5. Ledger /\ ValueIsBalance /\ NoPhantomToken /\ NoUseAfterDispose /\ CrashesJustified
    BY <1>3, OrigAssumption DEF Init, Short, Ledger, ValueIsBalance, NoPhantomToken,
       NoUseAfterDispose, CrashesJustified
  <1> QED BY <1>1, <1>4, <1>5, Zenon DEF IInv

\* A wait: the decrement is either the taking of a token or one more waiter
\* that is owed nothing.
LEMMA WaitInv ==
    ASSUME IInv, NEW t \in Threads, NEW to \in Timeouts, Wait(t, to)
    PROVE  IInv'
  <1> USE DEF IInv
  <1>1. pc \in [Threads -> Points] /\ pc[t] = "idle" /\ status = "live" /\ status' = "live"
    BY Zenon DEF Wait, TypeOK
  <1>2. dsema_value' = dsema_value - 1 /\ UNCHANGED <<dsema_sema, kcount>> /\ Posted' = Posted
    BY Zenon DEF Wait, Posted
  <1>3. /\ NumWaiting \in Nat /\ NumPosting \in Nat /\ NumWoken \in Nat /\ Posted \in Nat
        /\ NumWaiting <= LONG_MAX
    BY Counts, WidthAssumption, OrigAssumption
  <1>4. dsema_value' \in LONG_MIN .. LONG_MAX
    BY <1>1, <1>2, <1>3, OrigAssumption DEF Short, Ledger, TypeOK, LONG_MIN
  <1>5. CASE TookToken(dsema_value - 1)
    <2>1. pc' = [pc EXCEPT ![t] = "idle"] /\ balance' = balance - 1
          /\ timeout' = [timeout EXCEPT ![t] = NULL] /\ port' = [port EXCEPT ![t] = NULL]
      BY <1>5, Zenon DEF Wait, ReturnFromWait, Goto, Bit, TypeOK
    <2>2. pc' = pc
      BY <1>1, <2>1, Zenon
    <2>3. NumWaiting' = NumWaiting /\ NumPosting' = NumPosting /\ NumWoken' = NumWoken
      BY <2>2, Zenon DEF NumWaiting, NumPosting, NumWoken
    <2>4. TypeOK'
      BY <1>1, <1>2, <1>4, <2>1, <2>2 DEF TypeOK
    <2>5. OnePort' /\ UnusedPorts'
      BY <1>1, <1>2, <2>1, <2>2, Zenon DEF OnePort, UnusedPorts, TypeOK
    <2>6. Ledger' /\ ValueIsBalance' /\ NoPhantomToken' /\ NoUseAfterDispose' /\ CrashesJustified'
      BY <1>1, <1>2, <1>3, <1>5, <2>1, <2>3
         DEF Short, Ledger, ValueIsBalance, NoPhantomToken, NoUseAfterDispose, CrashesJustified,
             TookToken, TypeOK
    <2> QED BY <2>4, <2>5, <2>6, Zenon
  <1>6. CASE ~TookToken(dsema_value - 1)
    <2>1. pc' = [pc EXCEPT ![t] = "wait_create"] /\ UNCHANGED <<port, balance>>
          /\ timeout' = [timeout EXCEPT ![t] = to]
      BY <1>6, Zenon DEF Wait, Goto
    <2>2. pc' \in [Threads -> Points] /\ pc'[t] = "wait_create"
          /\ \A u \in Threads : u # t => pc'[u] = pc[u]
      BY <1>1, <2>1, Zenon DEF Points, WaitPoints
    <2>3. NumWaiting' = NumWaiting + 1 /\ NumPosting' = NumPosting /\ NumWoken' = NumWoken
      BY <1>1, <2>2, CountsAfterMove, Zenon DEF WaitPoints, SignalPoints
    <2>4. TypeOK'
      BY <1>1, <1>2, <1>4, <2>1, <2>2, Zenon DEF TypeOK
    <2>5. OnePort' /\ UnusedPorts'
      BY <1>1, <1>2, <2>1, <2>2, Zenon DEF OnePort, UnusedPorts, TypeOK
    <2>6. Ledger' /\ ValueIsBalance' /\ NoPhantomToken' /\ NoUseAfterDispose' /\ CrashesJustified'
      BY <1>1, <1>2, <1>3, <1>6, <2>1, <2>3
         DEF Short, Ledger, ValueIsBalance, NoPhantomToken, NoUseAfterDispose, CrashesJustified,
             TookToken, TypeOK
    <2> QED BY <2>4, <2>5, <2>6, Zenon
  <1> QED BY <1>5, <1>6, Zenon

\* A thread moves within dispatch_semaphore_wait() or within signal_slow and
\* no counter changes: the ledger is the same.
LEMMA ShiftInv ==
    ASSUME IInv, status = "live", UNCHANGED <<dsema_value, status, balance, kcount>>,
           NEW t \in Threads, NEW p \in Points \ {"woken"}, pc' = [pc EXCEPT ![t] = p],
           pc[t] # "woken",
           \/ p \in WaitPoints /\ pc[t] \in WaitPoints
           \/ p \in SignalPoints /\ pc[t] \in SignalPoints,
           timeout' \in [Threads -> Timeouts \cup {NULL}],
           port' \in [Threads -> Threads \cup {NULL}],
           OnePort', UnusedPorts', Posted' = Posted
    PROVE  IInv'
  <1> USE DEF IInv
  <1>1. pc \in [Threads -> Points] /\ pc' \in [Threads -> Points] /\ pc'[t] = p
        /\ \A u \in Threads : u # t => pc'[u] = pc[u]
    BY Zenon DEF TypeOK
  <1>2. NumWaiting' = NumWaiting /\ NumPosting' = NumPosting /\ NumWoken' = NumWoken
    BY <1>1, CountsAfterMove, Zenon DEF WaitPoints, SignalPoints
  <1>3. TypeOK'
    BY <1>1, Zenon DEF TypeOK, OnePort
  <1>4. Ledger' /\ ValueIsBalance' /\ NoPhantomToken' /\ NoUseAfterDispose' /\ CrashesJustified'
    BY <1>2, Zenon DEF Short, Ledger, ValueIsBalance, NoPhantomToken, NoUseAfterDispose, CrashesJustified
  <1> QED BY <1>3, <1>4, Zenon

\* The creation of the kernel semaphore keeps the inductive invariant.
LEMMA CreateInv ==
    ASSUME IInv, NEW t \in Threads, Create(t)
    PROVE  IInv'
  <1>1. /\ status = "live" /\ TypeOK /\ OnePort /\ UnusedPorts
        /\ UNCHANGED <<dsema_value, dsema_sema, kcount, timeout, port, status, balance>>
    BY Zenon DEF Create, IInv
  <1>2. Posted' = Posted
    BY <1>1, Zenon DEF Posted
  <1>3. CASE pc[t] = "wait_create"
    <2> DEFINE p == IF dsema_sema # NULL THEN SlowCase(t) ELSE "wait_create_slow"
    <2>1. pc' = [pc EXCEPT ![t] = p] /\ p \in {"undo", "sema_wait", "wait_create_slow"}
          /\ (p # "wait_create_slow" => dsema_sema # NULL)
      BY <1>3, Zenon DEF Create, Goto, SlowCase
    <2> HIDE DEF p
    <2>2. OnePort' /\ UnusedPorts'
      BY <1>1, <2>1, Zenon DEF OnePort, UnusedPorts, TypeOK
    <2>3. p \in Points \ {"woken"} /\ p \in WaitPoints /\ pc[t] \in WaitPoints
      BY <1>3, <2>1, Zenon DEF Points, WaitPoints
    <2> QED BY <1>1, <1>2, <1>3, <2>1, <2>2, <2>3, ShiftInv, Zenon DEF TypeOK
  <1>4. CASE pc[t] = "signal_create"
    <2> DEFINE p == IF dsema_sema # NULL THEN "post" ELSE "signal_create_slow"
    <2>1. pc' = [pc EXCEPT ![t] = p] /\ p \in {"post", "signal_create_slow"}
          /\ (p = "post" => dsema_sema # NULL)
      BY <1>4, Zenon DEF Create, Goto
    <2> HIDE DEF p
    <2>2. OnePort' /\ UnusedPorts'
      BY <1>1, <2>1, Zenon DEF OnePort, UnusedPorts, TypeOK
    <2>3. p \in Points \ {"woken"} /\ p \in SignalPoints /\ pc[t] \in SignalPoints
      BY <1>4, <2>1, Zenon DEF Points, SignalPoints
    <2> QED BY <1>1, <1>2, <1>4, <2>1, <2>2, <2>3, ShiftInv, Zenon DEF TypeOK
  <1> QED BY <1>3, <1>4, Zenon DEF Create

\* The port that the compare-and-swap installs has count 0, so that the posts
\* of the ledger stay the same.
LEMMA CreateSlowInv ==
    ASSUME IInv, NEW t \in Threads, CreateSlow(t)
    PROVE  IInv'
  <1>1. /\ status = "live" /\ TypeOK /\ OnePort /\ UnusedPorts
        /\ UNCHANGED <<dsema_value, kcount, timeout, port, status, balance>>
        /\ dsema_sema' = IF dsema_sema = NULL THEN t ELSE dsema_sema
    BY Zenon DEF CreateSlow, IInv, Install
  <1>2. dsema_sema' \in Threads
    BY <1>1, Zenon DEF OnePort
  <1>3. Posted' = Posted
    BY <1>1, <1>2, ThreadsAssumption, Zenon DEF Posted, UnusedPorts, OnePort, TypeOK
  <1>4. \A u \in Threads : pc[u] = "blocked" => dsema_sema' = dsema_sema
    BY <1>1, ThreadsAssumption, Zenon DEF OnePort
  <1>5. UnusedPorts'
    BY <1>1, <1>2, ThreadsAssumption, Zenon DEF UnusedPorts, OnePort
  <1>6. CASE pc[t] = "wait_create_slow"
    <2> DEFINE p == SlowCase(t)
    <2>1. pc' = [pc EXCEPT ![t] = p] /\ p \in {"undo", "sema_wait"}
      BY <1>6, Zenon DEF CreateSlow, Goto, SlowCase
    <2> HIDE DEF p
    <2>2. OnePort'
      BY <1>1, <1>2, <1>4, <2>1, Zenon DEF OnePort, TypeOK
    <2>3. p \in Points \ {"woken"} /\ p \in WaitPoints /\ pc[t] \in WaitPoints
      BY <1>6, <2>1, Zenon DEF Points, WaitPoints
    <2> QED BY <1>1, <1>3, <1>5, <1>6, <2>1, <2>2, <2>3, ShiftInv, Zenon DEF TypeOK
  <1>7. CASE pc[t] = "signal_create_slow"
    <2>1. pc' = [pc EXCEPT ![t] = "post"]
      BY <1>7, Zenon DEF CreateSlow, Goto
    <2>2. OnePort'
      BY <1>1, <1>2, <1>4, <2>1, Zenon DEF OnePort, TypeOK
    <2>3. "post" \in Points \ {"woken"} /\ "post" \in SignalPoints /\ pc[t] \in SignalPoints
      BY <1>7, Zenon DEF Points, SignalPoints
    <2> QED BY <1>1, <1>3, <1>5, <1>7, <2>1, <2>2, <2>3, ShiftInv, Zenon DEF TypeOK
  <1> QED BY <1>6, <1>7, Zenon DEF CreateSlow

\* Aborted and timed-out sleeps change no counter.
LEMMA WakeEarlyInv ==
    ASSUME IInv, NEW t \in Threads, Aborted(t) \/ TimedOut(t)
    PROVE  IInv'
  <1>1. /\ status = "live" /\ TypeOK /\ OnePort /\ UnusedPorts /\ pc[t] = "blocked"
        /\ UNCHANGED <<dsema_value, dsema_sema, kcount, timeout, status, balance>>
        /\ port' = [port EXCEPT ![t] = NULL]
    BY Zenon DEF Aborted, TimedOut, IInv
  <1>2. PICK p \in {"sema_wait", "undo"} : pc' = [pc EXCEPT ![t] = p]
    BY Zenon DEF Aborted, TimedOut, Goto
  <1>3. Posted' = Posted
    BY <1>1, Zenon DEF Posted
  <1>4. OnePort' /\ UnusedPorts'
    BY <1>1, <1>2, Zenon DEF OnePort, UnusedPorts, TypeOK
  <1>5. p \in Points \ {"woken"} /\ p \in WaitPoints /\ pc[t] \in WaitPoints
    BY <1>1, <1>2, Zenon DEF Points, WaitPoints
  <1>6. port' \in [Threads -> Threads \cup {NULL}]
    BY <1>1, Zenon DEF TypeOK
  <1> QED BY <1>1, <1>2, <1>3, <1>4, <1>5, <1>6, ShiftInv, Zenon DEF TypeOK

\* A wait that consumes a post of the kernel, or a wakeup: one waiter less and
\* one wakeup less.
LEMMA GrantInv ==
    ASSUME IInv, NEW t \in Threads, status = "live",
           pc[t] \in WaitPoints, pc' = [pc EXCEPT ![t] = "idle"],
           timeout' = [timeout EXCEPT ![t] = NULL], port' = [port EXCEPT ![t] = NULL],
           balance' = balance - 1, UNCHANGED <<dsema_value, dsema_sema, status>>,
           \/ pc[t] = "woken" /\ UNCHANGED kcount
           \/ /\ pc[t] # "woken" /\ dsema_sema \in Threads /\ kcount[dsema_sema] > 0
              /\ kcount' = [kcount EXCEPT ![dsema_sema] = @ - 1]
    PROVE  IInv'
  <1> USE DEF IInv
  <1>1. pc \in [Threads -> Points] /\ pc' \in [Threads -> Points] /\ pc'[t] = "idle"
        /\ \A u \in Threads : u # t => pc'[u] = pc[u]
    BY Zenon DEF TypeOK, Points
  <1>2. NumWaiting' = NumWaiting - 1 /\ NumPosting' = NumPosting
        /\ (pc[t] = "woken" => NumWoken' = NumWoken - 1)
        /\ (pc[t] # "woken" => NumWoken' = NumWoken)
    BY <1>1, CountsAfterMove, Zenon DEF WaitPoints, SignalPoints
  <1>3. \/ Posted' = Posted /\ NumWoken' = NumWoken - 1
        \/ Posted' = Posted - 1 /\ NumWoken' = NumWoken
    BY <1>2, Zenon DEF Posted, TypeOK
  <1>4. TypeOK'
    BY <1>1 DEF TypeOK
  <1>5. OnePort' /\ UnusedPorts'
    BY <1>1, Zenon DEF OnePort, UnusedPorts, TypeOK
  <1>6. NumWaiting \in Nat /\ NumPosting \in Nat /\ NumWoken \in Nat /\ Posted \in Nat
        /\ dsema_value \in Int
    BY Counts, Zenon
  <1>8. NumWoken' \in Nat /\ Posted' \in Nat
    <2>1. NumWoken' \in Nat
      BY <1>1, ThreadsAssumption, CountType, Zenon DEF NumWoken
    <2>2. Posted' \in Nat
      BY <1>4, Zenon DEF Posted, TypeOK
    <2> QED BY <2>1, <2>2, Zenon
  <1>7. Ledger' /\ ValueIsBalance' /\ NoPhantomToken' /\ NoUseAfterDispose' /\ CrashesJustified'
    <2>0. /\ Short' = Short /\ Short \in Nat
          /\ dsema_value = (IF dsema_value < 0 THEN -Short ELSE dsema_value)
      BY <1>6 DEF Short
    <2>1. Ledger'
      <3>1. NumWaiting = Short + NumPosting + Posted + NumWoken
        BY Zenon DEF Ledger
      <3>2. NumWaiting' = Short' + NumPosting' + Posted' + NumWoken'
        BY <1>2, <1>3, <1>6, <2>0, <3>1
      <3> QED BY <3>2, Zenon DEF Ledger
    <2>2. ValueIsBalance' BY <1>2, <1>6 DEF ValueIsBalance, TypeOK
    <2>3. NoPhantomToken'
      <3>1. NumWaiting = Short + NumPosting + Posted + NumWoken /\ dsema_value = balance - NumWaiting
        BY Zenon DEF Ledger, ValueIsBalance
      <3>2. balance \in Int /\ balance' = balance - 1 BY Zenon DEF TypeOK
      <3>3. dsema_value >= 0 \/ dsema_value = -Short BY <1>6 DEF Short
      <3>4. Posted + NumWoken >= 1 BY <1>3, <1>6, <1>8
      <3> QED BY <3>1, <3>2, <3>3, <3>4, <1>6, <2>0 DEF NoPhantomToken
    <2> QED BY <2>1, <2>2, <2>3, Zenon DEF NoUseAfterDispose, CrashesJustified
  <1> QED BY <1>4, <1>5, <1>7, Zenon

\* Taking or waiting for a kernel token keeps the inductive invariant.
LEMMA SemaWaitInv ==
    ASSUME IInv, NEW t \in Threads, SemaWait(t)
    PROVE  IInv'
  <1>1. /\ status = "live" /\ TypeOK /\ OnePort /\ UnusedPorts /\ pc[t] = "sema_wait"
        /\ UNCHANGED <<dsema_value, dsema_sema, status>> /\ dsema_sema \in Threads
        /\ pc[t] \in WaitPoints
    BY Zenon DEF SemaWait, IInv, OnePort, WaitPoints
  <1>2. CASE kcount[dsema_sema] > 0
    <2>1. /\ kcount' = [kcount EXCEPT ![dsema_sema] = @ - 1]
          /\ pc' = [pc EXCEPT ![t] = "idle"] /\ balance' = balance - 1
          /\ timeout' = [timeout EXCEPT ![t] = NULL] /\ port' = [port EXCEPT ![t] = NULL]
      BY <1>1, <1>2 DEF SemaWait, ReturnFromWait, Goto, Bit
    <2> QED BY <1>1, <1>2, <2>1, GrantInv, Zenon
  <1>3. CASE ~(kcount[dsema_sema] > 0)
    <2>1. /\ pc' = [pc EXCEPT ![t] = "blocked"] /\ port' = [port EXCEPT ![t] = dsema_sema]
          /\ UNCHANGED <<kcount, timeout, balance>>
      BY <1>1, <1>3, Zenon DEF SemaWait, Goto
    <2>2. Posted' = Posted
      BY <1>1, <2>1, Zenon DEF Posted
    <2>3. OnePort' /\ UnusedPorts'
      BY <1>1, <2>1, Zenon DEF OnePort, UnusedPorts, TypeOK
    <2>4. "blocked" \in Points \ {"woken"} /\ "blocked" \in WaitPoints
          /\ port' \in [Threads -> Threads \cup {NULL}]
      BY <1>1, <2>1, Zenon DEF Points, WaitPoints, TypeOK
    <2> QED BY <1>1, <2>1, <2>2, <2>3, <2>4, ShiftInv, Zenon DEF TypeOK
  <1> QED BY <1>2, <1>3, Zenon

\* The return from the kernel keeps the inductive invariant.
LEMMA ResumeInv ==
    ASSUME IInv, NEW t \in Threads, Resume(t)
    PROVE  IInv'
  <1>1. /\ status = "live" /\ pc[t] = "woken" /\ pc[t] \in WaitPoints
        /\ pc' = [pc EXCEPT ![t] = "idle"] /\ balance' = balance - 1
        /\ timeout' = [timeout EXCEPT ![t] = NULL] /\ port' = [port EXCEPT ![t] = NULL]
        /\ UNCHANGED <<dsema_value, dsema_sema, kcount, status>>
    BY Zenon DEF Resume, ReturnFromWait, Goto, Bit, WaitPoints
  <1> QED BY <1>1, GrantInv, Zenon

\* A timeout gives back the decrement: one waiter less, and it was one that no
\* signal had been promised to.  Otherwise the thread goes on to drain the
\* wakeup that is on its way.
LEMMA UndoInv ==
    ASSUME IInv, NEW t \in Threads, Undo(t)
    PROVE  IInv'
  <1>1. /\ status = "live" /\ TypeOK /\ OnePort /\ UnusedPorts /\ pc[t] = "undo"
        /\ UNCHANGED <<dsema_sema, kcount, status>> /\ Posted' = Posted
    BY Zenon DEF Undo, IInv, Posted
  <1>2. CASE dsema_value < 0
    <2>1. /\ dsema_value' = dsema_value + 1 /\ pc' = [pc EXCEPT ![t] = "idle"]
          /\ timeout' = [timeout EXCEPT ![t] = NULL] /\ port' = [port EXCEPT ![t] = NULL]
          /\ balance' = balance
      BY <1>1, <1>2 DEF Undo, NotPromised, ReturnFromWait, Goto, Bit, TypeOK
    <2>2. pc \in [Threads -> Points] /\ pc' \in [Threads -> Points] /\ pc'[t] = "idle"
          /\ \A u \in Threads : u # t => pc'[u] = pc[u]
      BY <1>1, <2>1, Zenon DEF TypeOK, Points
    <2>3. NumWaiting' = NumWaiting - 1 /\ NumPosting' = NumPosting /\ NumWoken' = NumWoken
      BY <1>1, <2>2, CountsAfterMove, Zenon DEF WaitPoints, SignalPoints
    <2>4. /\ NumWaiting \in Nat /\ NumPosting \in Nat /\ NumWoken \in Nat /\ Posted \in Nat
          /\ dsema_value \in Int
      BY <1>1, Counts, Zenon
    <2>5. Short' = Short - 1 /\ Short \in Nat
      BY <1>2, <2>1, <2>4 DEF Short
    <2>6. TypeOK'
      BY <1>1, <1>2, <2>1, <2>2, OrigAssumption DEF TypeOK, LONG_MIN
    <2>7. OnePort' /\ UnusedPorts'
      BY <1>1, <2>1, <2>2, Zenon DEF OnePort, UnusedPorts, TypeOK
    <2>8. Ledger'
      <3>1. NumWaiting = Short + NumPosting + Posted + NumWoken
        BY <1>1, Zenon DEF Ledger, IInv
      <3>2. NumWaiting' = Short' + NumPosting' + Posted' + NumWoken'
        BY <1>1, <2>3, <2>4, <2>5, <3>1
      <3> QED BY <3>2, Zenon DEF Ledger
    <2>9. ValueIsBalance' /\ NoPhantomToken' /\ NoUseAfterDispose' /\ CrashesJustified'
      BY <1>1, <2>1, <2>3, <2>4 DEF IInv, TypeOK, ValueIsBalance, NoPhantomToken,
         NoUseAfterDispose, CrashesJustified
    <2> QED BY <2>6, <2>7, <2>8, <2>9, Zenon DEF IInv
  <1>3. CASE ~(dsema_value < 0)
    <2>1. /\ pc' = [pc EXCEPT ![t] = "sema_wait"] /\ UNCHANGED <<dsema_value, port, balance>>
          /\ timeout' = [timeout EXCEPT ![t] = "FOREVER"]
      BY <1>1, <1>3, Zenon DEF Undo, NotPromised, Goto
    <2>2. OnePort' /\ UnusedPorts'
      BY <1>1, <2>1, Zenon DEF OnePort, UnusedPorts, TypeOK
    <2>3. "sema_wait" \in Points \ {"woken"} /\ "sema_wait" \in WaitPoints /\ pc[t] \in WaitPoints
          /\ timeout' \in [Threads -> Timeouts \cup {NULL}]
      BY <1>1, <2>1, Zenon DEF Points, WaitPoints, TypeOK, Timeouts
    <2> QED BY <1>1, <2>1, <2>2, <2>3, ShiftInv, Zenon DEF TypeOK
  <1> QED BY <1>2, <1>3, Zenon

\* A signal adds a token.  It goes to the value, or it is promised to a waiter
\* that was owed nothing, or it overflows the counter.
LEMMA SignalInv ==
    ASSUME IInv, NEW t \in Threads, Signal(t)
    PROVE  IInv'
  <1>1. /\ status = "live" /\ TypeOK /\ OnePort /\ UnusedPorts /\ pc[t] = "idle"
        /\ UNCHANGED <<dsema_sema, kcount, timeout, port>> /\ Posted' = Posted
        /\ balance' = balance + 1
        /\ NumWaiting = Short + NumPosting + Posted + NumWoken
        /\ dsema_value = balance - NumWaiting /\ balance >= 0 /\ balance \in Int
    BY Zenon DEF Signal, IInv, Posted, Ledger, ValueIsBalance, NoPhantomToken, TypeOK
  <1>2. /\ NumWaiting \in Nat /\ NumPosting \in Nat /\ NumWoken \in Nat /\ Posted \in Nat
        /\ dsema_value \in Int /\ LONG_MAX \in Nat /\ dsema_value <= LONG_MAX
        /\ dsema_value' = IF dsema_value = LONG_MAX THEN -LONG_MAX - 1 ELSE dsema_value + 1
        /\ LONG_MIN <= dsema_value /\ LONG_MIN = -LONG_MAX - 1
    BY <1>1, Counts DEF Signal, Increment, LONG_MIN, TypeOK
  <1>3. dsema_value' \in LONG_MIN .. LONG_MAX
    BY <1>2
  <1>4. CASE UNCHANGED pc
    <2>1. NumWaiting' = NumWaiting /\ NumPosting' = NumPosting /\ NumWoken' = NumWoken
      BY <1>4, Zenon DEF NumWaiting, NumPosting, NumWoken
    <2>2. TypeOK' /\ OnePort' /\ UnusedPorts'
      BY <1>1, <1>3, <1>4 DEF TypeOK, OnePort, UnusedPorts, Signal
    <2>3. \/ dsema_value' > 0 /\ status' = "live"
          \/ dsema_value' = LONG_MIN /\ status' = "overflow"
      BY <1>1, <1>2, <1>4 DEF Signal, MustPost, Goto, TypeOK
    <2>4. CASE dsema_value' > 0 /\ status' = "live"
      <3>1. dsema_value' = dsema_value + 1 /\ Short' = Short /\ dsema_value >= 0
        BY <1>2, <2>4 DEF Short
      <3>2. Ledger' BY <1>1, <2>1, <3>1, Zenon DEF Ledger
      <3>3. ValueIsBalance' BY <1>1, <1>2, <2>1, <3>1 DEF ValueIsBalance
      <3>4. NoPhantomToken' /\ NoUseAfterDispose' /\ CrashesJustified'
        BY <1>1, <2>4 DEF NoPhantomToken, NoUseAfterDispose, CrashesJustified
      <3> QED BY <2>2, <3>2, <3>3, <3>4, Zenon DEF IInv
    <2>5. CASE dsema_value' = LONG_MIN /\ status' = "overflow"
      <3>1. Ledger' /\ ValueIsBalance' /\ NoPhantomToken' /\ NoUseAfterDispose'
        BY <1>1, <2>5 DEF Ledger, ValueIsBalance, NoPhantomToken, NoUseAfterDispose
      <3>2. dsema_value = LONG_MAX
        BY <1>2, <2>5
      <3>3. CrashesJustified'
        BY <1>1, <1>2, <2>5, <3>2 DEF CrashesJustified
      <3> QED BY <2>2, <3>1, <3>3, Zenon DEF IInv
    <2> QED BY <2>3, <2>4, <2>5, Zenon
  <1>5. CASE ~ UNCHANGED pc
    <2>1. /\ pc' = [pc EXCEPT ![t] = "signal_create"] /\ status' = "live"
          /\ dsema_value' <= 0 /\ dsema_value' # LONG_MIN
      BY <1>1, <1>5, Zenon DEF Signal, MustPost, Goto
    <2>2. dsema_value' = dsema_value + 1 /\ dsema_value < 0 /\ Short' = Short - 1 /\ Short \in Nat
      BY <1>2, <2>1 DEF Short
    <2>3. pc \in [Threads -> Points] /\ pc' \in [Threads -> Points] /\ pc'[t] = "signal_create"
          /\ \A u \in Threads : u # t => pc'[u] = pc[u]
      BY <1>1, <2>1, Zenon DEF TypeOK, Points, SignalPoints
    <2>4. NumWaiting' = NumWaiting /\ NumPosting' = NumPosting + 1 /\ NumWoken' = NumWoken
      BY <1>1, <2>3, CountsAfterMove, Zenon DEF WaitPoints, SignalPoints
    <2>5. TypeOK' /\ OnePort' /\ UnusedPorts'
      BY <1>1, <1>3, <2>1, <2>3 DEF TypeOK, OnePort, UnusedPorts
    <2>6. Ledger'
      <3>1. NumWaiting' = Short' + NumPosting' + Posted' + NumWoken'
        BY <1>1, <1>2, <2>2, <2>4
      <3> QED BY <3>1, Zenon DEF Ledger
    <2>7. ValueIsBalance' BY <1>1, <1>2, <2>2, <2>4 DEF ValueIsBalance
    <2>8. NoPhantomToken' /\ NoUseAfterDispose' /\ CrashesJustified'
      BY <1>1, <2>1 DEF NoPhantomToken, NoUseAfterDispose, CrashesJustified
    <2> QED BY <2>5, <2>6, <2>7, <2>8, Zenon DEF IInv
  <1> QED BY <1>4, <1>5, Zenon

\* A post turns an owed wakeup into a delivered one, or into one the kernel
\* keeps.
LEMMA PostInv ==
    ASSUME IInv, NEW t \in Threads, Post(t)
    PROVE  IInv'
  <1>1. /\ status = "live" /\ TypeOK /\ OnePort /\ UnusedPorts /\ pc[t] = "post"
        /\ UNCHANGED <<dsema_value, dsema_sema, timeout, port, status, balance>>
        /\ dsema_sema \in Threads /\ Short' = Short
        /\ NumWaiting = Short + NumPosting + Posted + NumWoken
    BY Zenon DEF Post, IInv, OnePort, Short, Ledger
  <1>2. /\ NumWaiting \in Nat /\ NumPosting \in Nat /\ NumWoken \in Nat /\ Posted \in Nat
        /\ dsema_value \in Int /\ Short \in Nat
    BY <1>1, Counts DEF Short
  <1>3. pc \in [Threads -> Points]
    BY <1>1, Zenon DEF TypeOK
  <1>4. ASSUME TypeOK', OnePort', UnusedPorts', NumWaiting' = NumWaiting,
               NumPosting' = NumPosting - 1,
               \/ Posted' = Posted /\ NumWoken' = NumWoken + 1
               \/ Posted' = Posted + 1 /\ NumWoken' = NumWoken
        PROVE  IInv'
    <2>1. Ledger'
      <3>1. NumWaiting' = Short' + NumPosting' + Posted' + NumWoken'
        BY <1>1, <1>2, <1>4
      <3> QED BY <3>1, Zenon DEF Ledger
    <2>2. ValueIsBalance' /\ NoPhantomToken' /\ NoUseAfterDispose' /\ CrashesJustified'
      BY <1>1, <1>4, Zenon DEF IInv, ValueIsBalance, NoPhantomToken, NoUseAfterDispose,
         CrashesJustified
    <2> QED BY <1>4, <2>1, <2>2, Zenon DEF IInv
  <1>5. ASSUME NEW w \in Threads, pc[w] = "blocked", port[w] = dsema_sema,
               pc' = [pc EXCEPT ![t] = "idle", ![w] = "woken"], UNCHANGED kcount
        PROVE  IInv'
    <2> DEFINE q == [pc EXCEPT ![t] = "idle"]
    <2>1. t # w /\ q \in [Threads -> Points] /\ q[t] = "idle" /\ q[w] = "blocked"
          /\ \A u \in Threads : u # t => q[u] = pc[u]
      BY <1>1, <1>3, <1>5, Zenon DEF Points
    <2>2. pc' \in [Threads -> Points] /\ pc'[w] = "woken" /\ \A u \in Threads : u # w => pc'[u] = q[u]
      BY <1>3, <1>5, <2>1, Zenon DEF Points, WaitPoints
    <2> HIDE DEF q
    <2>3. Count(pc', WaitPoints) = Count(q, WaitPoints) /\ Count(q, WaitPoints) = Count(pc, WaitPoints)
      <3>1. q[w] \in WaitPoints /\ pc'[w] \in WaitPoints /\ q[t] \notin WaitPoints /\ pc[t] \notin WaitPoints
        BY <1>1, <2>1, <2>2, Zenon DEF WaitPoints
      <3> HIDE <1>5
      <3>2. Count(q, WaitPoints) = Count(pc, WaitPoints)
        BY <1>3, <2>1, <3>1, ThreadsAssumption, CountMove
      <3>3. Count(pc', WaitPoints) = Count(q, WaitPoints)
        BY <2>1, <2>2, <3>1, ThreadsAssumption, CountMove
      <3> QED BY <3>2, <3>3, Zenon
    <2>4. Count(pc', SignalPoints) = Count(q, SignalPoints) /\ Count(q, SignalPoints) = Count(pc, SignalPoints) - 1
      <3>1. q[w] \notin SignalPoints /\ pc'[w] \notin SignalPoints /\ q[t] \notin SignalPoints /\ pc[t] \in SignalPoints
        BY <1>1, <2>1, <2>2, Zenon DEF SignalPoints
      <3> HIDE <1>5
      <3>2. Count(q, SignalPoints) = Count(pc, SignalPoints) - 1
        BY <1>3, <2>1, <3>1, ThreadsAssumption, CountMove
      <3>3. Count(pc', SignalPoints) = Count(q, SignalPoints)
        BY <2>1, <2>2, <3>1, ThreadsAssumption, CountMove
      <3> QED BY <3>2, <3>3, Zenon
    <2>5. Count(pc', {"woken"}) = Count(pc, {"woken"}) + 1
      <3> DEFINE P == {"woken"}
      <3>1. q[w] \notin P /\ pc'[w] \in P /\ q[t] \notin P /\ pc[t] \notin P
        BY <1>1, <2>1, <2>2, Zenon
      <3> HIDE <1>5 DEF P
      <3>2. Count(q, P) = Count(pc, P)
        BY <1>3, <2>1, <3>1, ThreadsAssumption, CountMove
      <3>3. Count(pc', P) = Count(q, P) + 1
        BY <2>1, <2>2, <3>1, ThreadsAssumption, CountMove, SMTT(60)
      <3>4. Count(pc', P) = Count(pc, P) + 1
        BY <3>2, <3>3, Zenon
      <3> QED BY <3>4, Zenon DEF P
    <2>6. NumWaiting' = NumWaiting /\ NumPosting' = NumPosting - 1 /\ NumWoken' = NumWoken + 1
      BY <2>3, <2>4, <2>5, Zenon DEF NumWaiting, NumPosting, NumWoken
    <2>7. TypeOK' /\ OnePort' /\ UnusedPorts' /\ Posted' = Posted
      BY <1>1, <1>5, <2>1, <2>2, Zenon DEF TypeOK, OnePort, UnusedPorts, Posted
    <2> QED BY <1>4, <2>6, <2>7, Zenon
  <1>6. ASSUME pc' = [pc EXCEPT ![t] = "idle"],
               kcount' = [kcount EXCEPT ![dsema_sema] = @ + 1]
        PROVE  IInv'
    <2>1. pc' \in [Threads -> Points] /\ pc'[t] = "idle" /\ \A u \in Threads : u # t => pc'[u] = pc[u]
      BY <1>3, <1>6, Zenon DEF Points
    <2>2. NumWaiting' = NumWaiting /\ NumPosting' = NumPosting - 1 /\ NumWoken' = NumWoken
      BY <1>1, <1>3, <2>1, CountsAfterMove, Zenon DEF WaitPoints, SignalPoints
    <2>3. TypeOK' /\ OnePort' /\ UnusedPorts' /\ Posted' = Posted + 1
      BY <1>1, <1>6, <2>1 DEF TypeOK, OnePort, UnusedPorts, Posted
    <2> QED BY <1>4, <2>2, <2>3, Zenon
  <1> QED BY <1>5, <1>6, Zenon DEF Post, Sleeping, Goto

\* The semaphore is disposed of when no thread waits; by the ledger no signal
\* owes a post then.
LEMMA DisposeInv ==
    ASSUME IInv, Dispose
    PROVE  IInv'
  <1>1. /\ status = "live" /\ status' \in {"deallocated_in_use", "disposed"} /\ Waiting = {}
        /\ UNCHANGED <<dsema_value, kcount, pc, timeout, port, balance>>
        /\ status' = "deallocated_in_use" => dsema_value < Orig
        /\ TypeOK /\ NumWaiting = Short + NumPosting + Posted + NumWoken
        /\ dsema_sema' \in Threads \cup {NULL, DEAD}
        /\ dsema_value = balance - NumWaiting
    BY Zenon DEF Dispose, InUse, IInv, Ledger, ValueIsBalance, TypeOK
  <1>2. /\ NumWaiting \in Nat /\ NumPosting \in Nat /\ NumWoken \in Nat /\ Posted \in Nat
        /\ dsema_value \in Int /\ Short \in Nat /\ NumWaiting = 0
        /\ NumPosting = 0 <=> Posting = {}
    BY <1>1, Counts, SMTT(60) DEF Short
  <1>3. Posting = {}
    BY <1>1, <1>2
  <1>4. TypeOK' /\ OnePort' /\ UnusedPorts' /\ Ledger'
    BY <1>1, Zenon DEF TypeOK, OnePort, UnusedPorts, Ledger
  <1>5. NoUseAfterDispose'
    BY <1>1, <1>3, Zenon DEF NoUseAfterDispose, Waiting, Posting
  <1>6. ValueIsBalance' /\ NoPhantomToken'
    BY <1>1, Zenon DEF IInv, ValueIsBalance, NoPhantomToken, NumWaiting
  <1>7. CrashesJustified'
    BY <1>1, <1>2 DEF CrashesJustified, TypeOK
  <1> QED BY <1>4, <1>5, <1>6, <1>7, Zenon DEF IInv

\* Every step preserves the invariant.
LEMMA NextInv == IInv /\ [Next]_vars => IInv'
  <1> SUFFICES ASSUME IInv, [Next]_vars PROVE IInv'
    BY Zenon
  <1>1. ASSUME NEW t \in Threads, NEW to \in Timeouts, Wait(t, to) PROVE IInv'
    BY <1>1, WaitInv, Zenon
  <1>2. ASSUME NEW t \in Threads, Signal(t) PROVE IInv'
    BY <1>2, SignalInv, Zenon
  <1>3. ASSUME NEW t \in Threads, Step(t) PROVE IInv'
    BY <1>3, CreateInv, CreateSlowInv, SemaWaitInv, ResumeInv, UndoInv, PostInv, Zenon DEF Step
  <1>4. ASSUME NEW t \in Threads, Aborted(t) \/ TimedOut(t) PROVE IInv'
    BY <1>4, WakeEarlyInv, Zenon
  <1>5. CASE Dispose
    BY <1>5, DisposeInv, Zenon
  <1>6. CASE UNCHANGED vars
    BY <1>6, Zenon DEF vars, IInv, TypeOK, OnePort, UnusedPorts, Ledger, ValueIsBalance, NoPhantomToken,
       NoUseAfterDispose, CrashesJustified, Short, Posted, NumWaiting, NumPosting, NumWoken,
       Waiting, Posting
  <1> QED BY <1>1, <1>2, <1>3, <1>4, <1>5, <1>6, Zenon DEF Next

\* The ledger of dispatch_semaphore_t balances in every reachable state, for
\* any number of threads: no wakeup is lost or duplicated, whatever the order
\* of signals, sleeps, timeouts and aborted sleeps.
THEOREM LedgerHolds == Spec => [](TypeOK /\ OnePort /\ Ledger)
  <1>1. IInv => TypeOK /\ OnePort /\ Ledger
    BY Zenon DEF IInv
  <1> QED BY <1>1, InitInv, NextInv, PTL DEF Spec

\* dispatch_semaphore_wait() returns 0 at most Orig plus the number of signals
\* times, the object is never used after it is disposed of, and the client
\* crashes only report misuse.
THEOREM TokensSafe == Spec => [](NoPhantomToken /\ ValueIsBalance /\ NoUseAfterDispose /\ CrashesJustified)
  <1>1. IInv => NoPhantomToken /\ ValueIsBalance /\ NoUseAfterDispose /\ CrashesJustified
    BY Zenon DEF IInv
  <1> QED BY <1>1, InitInv, NextInv, PTL DEF Spec

-----------------------------------------------------------------------------
(* The refinement. *)

\* How a move of one thread changes the set of waiters.
LEMMA WaitersAfterMove ==
    ASSUME pc \in [Threads -> Points], NEW t \in Threads, NEW p \in Points,
           pc' = [pc EXCEPT ![t] = p]
    PROVE  /\ p \in WaitPoints /\ pc[t] \in WaitPoints => Waiting' = Waiting
           /\ p \notin WaitPoints /\ pc[t] \notin WaitPoints => Waiting' = Waiting
           /\ p \in WaitPoints /\ pc[t] \notin WaitPoints
                => Waiting' = Waiting \cup {t} /\ t \notin Waiting
           /\ p \notin WaitPoints /\ pc[t] \in WaitPoints
                => Waiting' = Waiting \ {t} /\ t \in Waiting
  BY Zenon DEF Waiting, At

\* Every step is a step of the abstract semaphore, or changes neither its
\* tokens nor its waiters.
LEMMA StepRefines ==
    ASSUME IInv, [Next]_vars
    PROVE  [Abs!ANext]_(Abs!avars)
  <1>1. /\ pc \in [Threads -> Points] /\ balance \in Int /\ dsema_value \in Int
        /\ Cardinality(Waiting) = NumWaiting /\ NumWaiting \in Nat
        /\ NumPosting \in Nat /\ Posted \in Nat /\ NumWoken \in Nat /\ Short \in Nat
    BY Counts DEF IInv, TypeOK, NumWaiting, Waiting, Count, Short
  <1>2. status = "live" => /\ NumWaiting = Short + NumPosting + Posted + NumWoken
                           /\ dsema_value = balance - NumWaiting
    BY Zenon DEF IInv, Ledger, ValueIsBalance
  <1> Abs!Cardinality(Waiting) = Cardinality(Waiting)
    BY Zenon DEF Abs!Cardinality, Cardinality
  <1>3. ASSUME UNCHANGED <<balance, Waiting>> PROVE [Abs!ANext]_(Abs!avars)
    BY <1>3, Zenon DEF Abs!avars
  <1>4. ASSUME NEW t \in Threads, NEW to \in Timeouts, Wait(t, to)
        PROVE  [Abs!ANext]_(Abs!avars)
    <2>1. status = "live" /\ pc[t] = "idle" /\ "idle" \notin WaitPoints /\ "wait_create" \in WaitPoints
          /\ "idle" \in Points /\ "wait_create" \in Points
      BY <1>4, Zenon DEF Wait, WaitPoints, Points
    <2>2. CASE dsema_value - 1 >= 0
      <3>1. pc' = [pc EXCEPT ![t] = "idle"] /\ balance' = balance - 1
        BY <1>4, <2>2, Zenon DEF Wait, TookToken, ReturnFromWait, Goto, Bit
      <3>2. Waiting' = Waiting
        BY <1>1, <2>1, <3>1, WaitersAfterMove, Zenon
      <3>3. balance > Cardinality(Waiting)
        BY <1>1, <1>2, <2>1, <2>2
      <3>4. Abs!AWaitNow BY <3>1, <3>2, <3>3, Zenon DEF Abs!AWaitNow
      <3> QED BY <3>4, Zenon DEF Abs!ANext
    <2>3. CASE ~(dsema_value - 1 >= 0)
      <3>1. pc' = [pc EXCEPT ![t] = "wait_create"] /\ balance' = balance
        BY <1>4, <2>3, Zenon DEF Wait, TookToken, Goto
      <3>2. Waiting' = Waiting \cup {t} /\ t \notin Waiting
        BY <1>1, <2>1, <3>1, WaitersAfterMove, Zenon
      <3>3. balance <= Cardinality(Waiting)
        BY <1>1, <1>2, <2>1, <2>3
      <3>4. Abs!ABlock(t) BY <3>1, <3>2, <3>3, Zenon DEF Abs!ABlock
      <3> QED BY <3>4, Zenon DEF Abs!ANext
    <2> QED BY <2>2, <2>3, Zenon
  <1>5. ASSUME NEW t \in Threads, Signal(t)
        PROVE  [Abs!ANext]_(Abs!avars)
    <2>1. pc[t] = "idle" /\ balance' = balance + 1
          /\ (pc' = pc \/ pc' = [pc EXCEPT ![t] = "signal_create"])
      BY <1>5, Zenon DEF Signal, Goto
    <2>2. Waiting' = Waiting
      BY <1>1, <2>1, WaitersAfterMove, Zenon DEF WaitPoints, SignalPoints, Points, Waiting
    <2> QED BY <2>1, <2>2, Zenon DEF Abs!ANext, Abs!ASignal
  <1>6. ASSUME NEW t \in Threads, Create(t) \/ CreateSlow(t)
        PROVE  [Abs!ANext]_(Abs!avars)
    <2>1. balance' = balance
      BY <1>6, Zenon DEF Create, CreateSlow
    <2>2. \/ /\ pc[t] \in {"wait_create", "wait_create_slow"}
             /\ \E p \in {"wait_create_slow", "undo", "sema_wait"} : pc' = [pc EXCEPT ![t] = p]
          \/ /\ pc[t] \in {"signal_create", "signal_create_slow"}
             /\ \E p \in {"signal_create_slow", "post"} : pc' = [pc EXCEPT ![t] = p]
      BY <1>6, Zenon DEF Create, CreateSlow, Goto, SlowCase
    <2>3. Waiting' = Waiting
      BY <1>1, <2>2, WaitersAfterMove, Zenon DEF WaitPoints, SignalPoints, Points
    <2> QED BY <1>3, <2>1, <2>3, Zenon
  <1>7. ASSUME NEW t \in Threads, Aborted(t) \/ TimedOut(t)
        PROVE  [Abs!ANext]_(Abs!avars)
    <2>1. balance' = balance /\ pc[t] = "blocked"
          /\ \E p \in {"undo", "sema_wait"} : pc' = [pc EXCEPT ![t] = p]
      BY <1>7, Zenon DEF Aborted, TimedOut, Goto
    <2>2. Waiting' = Waiting
      BY <1>1, <2>1, WaitersAfterMove, Zenon DEF WaitPoints, Points
    <2> QED BY <1>3, <2>1, <2>2, Zenon
  <1>8. ASSUME NEW t \in Threads, pc[t] \in WaitPoints, pc' = [pc EXCEPT ![t] = "idle"],
               balance' = balance - 1, balance > 0
        PROVE  [Abs!ANext]_(Abs!avars)
    <2>1. "idle" \in Points /\ "idle" \notin WaitPoints
      BY Zenon DEF WaitPoints, Points
    <2>2. Waiting' = Waiting \ {t} /\ t \in Waiting
      BY <1>1, <1>8, <2>1, WaitersAfterMove, Zenon
    <2>3. Abs!AGrant(t)
      BY <1>8, <2>2, Zenon DEF Abs!AGrant
    <2> QED BY <2>3, Zenon DEF Abs!ANext
  <1>9. ASSUME NEW t \in Threads, SemaWait(t)
        PROVE  [Abs!ANext]_(Abs!avars)
    <2>1. /\ status = "live" /\ pc[t] = "sema_wait" /\ dsema_sema \in Threads
          /\ pc[t] \in WaitPoints /\ "blocked" \in WaitPoints /\ "blocked" \in Points
      BY <1>9, Zenon DEF SemaWait, IInv, OnePort, WaitPoints, Points
    <2>2. CASE kcount[dsema_sema] > 0
      <3>1. pc' = [pc EXCEPT ![t] = "idle"] /\ balance' = balance - 1
        BY <1>9, <2>1, <2>2 DEF SemaWait, ReturnFromWait, Goto, Bit
      <3>2. Posted > 0
        BY <2>1, <2>2, Zenon DEF Posted
      <3>3. balance > 0
        BY <1>1, <1>2, <2>1, <3>2 DEF Short
      <3> QED BY <1>8, <2>1, <3>1, <3>3, Zenon
    <2>3. CASE ~(kcount[dsema_sema] > 0)
      <3>1. pc' = [pc EXCEPT ![t] = "blocked"] /\ balance' = balance
        BY <1>9, <2>1, <2>3, Zenon DEF SemaWait, Goto
      <3>2. Waiting' = Waiting
        BY <1>1, <2>1, <3>1, WaitersAfterMove, Zenon
      <3> QED BY <1>3, <3>1, <3>2, Zenon
    <2> QED BY <2>2, <2>3, Zenon
  <1>10. ASSUME NEW t \in Threads, Resume(t)
         PROVE  [Abs!ANext]_(Abs!avars)
    <2>1. /\ status = "live" /\ pc[t] = "woken" /\ pc[t] \in WaitPoints
          /\ pc' = [pc EXCEPT ![t] = "idle"] /\ balance' = balance - 1
      BY <1>10, Zenon DEF Resume, ReturnFromWait, Goto, Bit, WaitPoints
    <2>2. t \in At(pc, {"woken"})
      BY <1>1, <2>1, Zenon DEF At
    <2>3. NumWoken # 0
      BY <1>1, <2>2, ThreadsAssumption, CountType, Zenon DEF NumWoken
    <2>4. balance > 0
      BY <1>1, <1>2, <2>1, <2>3 DEF Short
    <2> QED BY <1>8, <2>1, <2>4, Zenon
  <1>11. ASSUME NEW t \in Threads, Undo(t)
         PROVE  [Abs!ANext]_(Abs!avars)
    <2>1. /\ status = "live" /\ pc[t] = "undo" /\ pc[t] \in WaitPoints
          /\ "sema_wait" \in WaitPoints /\ "sema_wait" \in Points
          /\ "idle" \in Points /\ "idle" \notin WaitPoints
      BY <1>11, Zenon DEF Undo, WaitPoints, Points
    <2>2. CASE dsema_value < 0
      <3>1. pc' = [pc EXCEPT ![t] = "idle"] /\ balance' = balance
        BY <1>1, <1>11, <2>2 DEF Undo, NotPromised, ReturnFromWait, Goto, Bit
      <3>2. Waiting' = Waiting \ {t} /\ t \in Waiting
        BY <1>1, <2>1, <3>1, WaitersAfterMove, Zenon
      <3>3. balance < Cardinality(Waiting)
        BY <1>1, <1>2, <2>1, <2>2
      <3>4. Abs!ATimeout(t) BY <3>1, <3>2, <3>3, Zenon DEF Abs!ATimeout
      <3> QED BY <3>4, Zenon DEF Abs!ANext
    <2>3. CASE ~(dsema_value < 0)
      <3>1. pc' = [pc EXCEPT ![t] = "sema_wait"] /\ balance' = balance
        BY <1>11, <2>3, Zenon DEF Undo, NotPromised, Goto
      <3>2. Waiting' = Waiting
        BY <1>1, <2>1, <3>1, WaitersAfterMove, Zenon
      <3> QED BY <1>3, <3>1, <3>2, Zenon
    <2> QED BY <2>2, <2>3, Zenon
  <1>12. ASSUME NEW t \in Threads, Post(t)
         PROVE  [Abs!ANext]_(Abs!avars)
    <2>1. balance' = balance /\ pc[t] = "post"
          /\ \/ pc' = [pc EXCEPT ![t] = "idle"]
             \/ \E w \in Threads : pc[w] = "blocked" /\ pc' = [pc EXCEPT ![t] = "idle", ![w] = "woken"]
      BY <1>12, Zenon DEF Post, Sleeping, Goto
    <2>2. Waiting' = Waiting
      BY <1>1, <2>1, Zenon DEF Waiting, At, WaitPoints
    <2> QED BY <1>3, <2>1, <2>2, Zenon
  <1>13. CASE Dispose \/ UNCHANGED vars
    BY <1>3, <1>13, Zenon DEF Dispose, vars, Waiting
  <1> QED BY <1>4, <1>5, <1>6, <1>7, <1>9, <1>10, <1>11, <1>12, <1>13, Zenon DEF Next, Step

\* dispatch_semaphore_t implements the abstract semaphore: one stock of tokens
\* handed out one by one, newcomers that do not overtake waiters that are owed
\* a token, and timeouts only when tokens are short.
THEOREM Refinement == Spec => ImplementsAbstract
  <1>1. Init => Abs!AInit
    <2> SUFFICES ASSUME Init PROVE Abs!AInit
      BY Zenon
    <2>1. Waiting = {} BY Zenon DEF Init, Waiting, At, WaitPoints
    <2> QED BY <2>1, Zenon DEF Init, Abs!AInit
  <1>2. IInv /\ [Next]_vars => [Abs!ANext]_(Abs!avars)
    BY StepRefines, Zenon
  <1> QED BY <1>1, <1>2, InitInv, NextInv, PTL DEF Spec, ImplementsAbstract, Abs!ASpec
==============================================================================
