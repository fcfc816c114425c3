--------------------------- MODULE KernMutexProofs ---------------------------
(***************************************************************************)
(* Proofs about module KernMutex, for any number of threads, mutexes and   *)
(* chains.                                                                 *)
(***************************************************************************)
EXTENDS KernMutex, TurnstileProofs

\* A call in progress has a mutex.
CallHasMutex ==
  \A t \in Thread : pc[t] \notin {"idle", "propagate"} => cur[t] \in Mutex

\* A thread inside mtx_unlock() owns the mutex until it stores MTX_UNOWNED.
UnlockerOwns ==
  \A t \in Thread, m \in Mutex : Unlocking(t, m) => mtx_owner(m) = t

\* Past the test for recursion, the mutex is not recursed.
LastRelease ==
  \A t \in Thread : pc[t] \in {"unlock_chain", "lookup", "release"} =>
    mtx_recurse[cur[t]] = 0

\* The inductive invariant behind mutual exclusion.
MutexInv ==
  /\ WordTypeOK
  /\ CallHasMutex
  /\ UnlockerOwns
  /\ LastRelease
  /\ MutualExclusion
  /\ RecursionAccounted

USE DEF Mutex

\* The lock word macros stay within the type of a lock word.
LEMMA WordFacts ==
  /\ MTX_UNOWNED \in Word
  /\ MTX_DESTROYED \in Word
  /\ \A t \in Thread : Owned(t) \in Word
  /\ \A w \in Word, b \in BOOLEAN : /\ [w EXCEPT !.recursed = b] \in Word
                                     /\ [w EXCEPT !.contested = b] \in Word
BY DEF Word, MTX_UNOWNED, MTX_DESTROYED, Owned

\* Arithmetic on recursion counts.
LEMMA Counting ==
  /\ \A a, b \in Nat : a + 1 = b + 1 => a = b
  /\ \A a \in Nat : a # 0 => a - 1 \in Nat
OBVIOUS

\* Every mutex starts free and every thread outside of a call.
LEMMA MutexInvInit == Init => MutexInv
<1> SUFFICES ASSUME Init PROVE MutexInv
  OBVIOUS
<1>1. WordTypeOK
  BY WordFacts DEF Init, WordTypeOK, Points
<1>2. CallHasMutex /\ UnlockerOwns /\ LastRelease
  BY DEF Init, CallHasMutex, UnlockerOwns, LastRelease, Unlocking
<1>3. MutualExclusion
  BY DEF Init, MutualExclusion
<1>4. RecursionAccounted
  BY MutexAssumption, TurnstileAssumption
  DEF Init, RecursionAccounted, mtx_recursed, mtx_owner, MTX_UNOWNED, Owned
<1> QED
  BY <1>1, <1>2, <1>3, <1>4 DEF MutexInv

-----------------------------------------------------------------------------
UnlockPath == {"unlock_sleep", "unlock_chain", "lookup", "release"}

\* A step changes the local state of thread t only, outside of mtx_unlock().
Local(t) ==
  /\ v' \in [Thread -> Word]
  /\ pc' \in [Thread -> Points]
  /\ cur' \in [Thread -> Mutex \cup {NULL}]
  /\ \A u \in Thread \ {t} : pc'[u] = pc[u] /\ cur'[u] = cur[u]
  /\ pc[t] \notin UnlockPath /\ pc'[t] \notin UnlockPath
  /\ pc'[t] \notin {"idle", "propagate"} => cur'[t] \in Mutex

\* A local step that leaves the lock words and the holds alone.
Quiet(t) == Local(t) /\ UNCHANGED <<mtx_lock, mtx_recurse, hold>>

\* What a local step keeps by itself.
LEMMA LocalStep ==
  ASSUME MutexInv, NEW t \in Thread, Local(t)
  PROVE  /\ CallHasMutex'
         /\ \A u \in Thread, n \in Mutex : Unlocking(u, n)' <=> Unlocking(u, n)
         /\ \A n \in Mutex : ~Unlocking(t, n)
<1> USE DEF MutexInv, WordTypeOK, Local, UnlockPath
<1>1. CallHasMutex'
  BY DEF CallHasMutex
<1>2. \A u \in Thread, n \in Mutex : Unlocking(u, n)' <=> Unlocking(u, n)
  BY DEF Unlocking
<1>3. \A n \in Mutex : ~Unlocking(t, n)
  BY DEF Unlocking
<1> QED
  BY <1>1, <1>2, <1>3

\* A quiet step keeps the invariant.
LEMMA QuietStep ==
  ASSUME MutexInv, NEW t \in Thread, Quiet(t)
  PROVE  MutexInv'
<1>1. WordTypeOK' /\ LastRelease'
  BY DEF MutexInv, WordTypeOK, LastRelease, Quiet, Local, UnlockPath
<1>2. UnlockerOwns' /\ MutualExclusion' /\ RecursionAccounted'
  BY LocalStep DEF MutexInv, UnlockerOwns, MutualExclusion, RecursionAccounted,
                   mtx_owner, mtx_recursed, Quiet
<1> QED
  BY <1>1, <1>2, LocalStep DEF MutexInv, Quiet

\* Taking a free mutex by compare-and-set keeps the invariant.
LEMMA AcquireStep ==
  ASSUME MutexInv, NEW t \in Thread, NEW m \in Mutex, Local(t),
         _obtain_lock(t, m), Hold(t, m), UNCHANGED mtx_recurse
  PROVE  MutexInv'
<1> USE DEF _obtain_lock, Hold, mtx_owner, MTX_UNOWNED, Owned
<1>0. mtx_owner(m) = NULL /\ mtx_owner(m) # t
  BY TurnstileAssumption
<1>1. WordTypeOK'
  BY WordFacts DEF MutexInv, WordTypeOK, Local
<1>2. mtx_recurse[m] = 0
  BY DEF MutexInv, RecursionAccounted, mtx_recursed
<1>3. \A u \in Thread : ~Unlocking(u, m) /\ hold[u][m] = 0
  BY <1>0, TurnstileAssumption
  DEF MutexInv, WordTypeOK, UnlockerOwns, MutualExclusion
<1>4. UnlockerOwns' /\ MutualExclusion'
  BY <1>3, LocalStep DEF MutexInv, WordTypeOK, UnlockerOwns, MutualExclusion
<1>5. RecursionAccounted'
  <2> SUFFICES ASSUME NEW n \in Mutex
               PROVE  /\ mtx_lock'[n].recursed <=> mtx_recurse'[n] # 0
                      /\ \A u \in Thread : mtx_lock'[n].owner = u =>
                           mtx_recurse'[n] + 1 =
                             hold'[u][n] + (IF Unlocking(u, n)' THEN 1 ELSE 0)
    BY DEF RecursionAccounted, mtx_recursed
  <2>1. CASE n = m
    BY <1>2, <1>3, <2>1, LocalStep DEF MutexInv, WordTypeOK
  <2>2. CASE n # m
    BY <2>2, LocalStep DEF MutexInv, WordTypeOK, RecursionAccounted, mtx_recursed
  <2> QED
    BY <2>1, <2>2
<1>6. LastRelease'
  BY DEF MutexInv, WordTypeOK, LastRelease, Local, UnlockPath
<1> QED
  BY <1>1, <1>4, <1>5, <1>6, LocalStep DEF MutexInv

\* Recursion by the owner, outside of a call, keeps the invariant.
LEMMA RecurseStep ==
  ASSUME MutexInv, NEW t \in Thread, NEW m \in Mutex, Local(t),
         mtx_owned(t, m), Recurse(m), Hold(t, m)
  PROVE  MutexInv'
<1> USE DEF Recurse, Hold, mtx_owned, mtx_owner
<1>1. WordTypeOK'
  <2>1. mtx_lock' \in [Mutex -> Word]
    BY WordFacts DEF MutexInv, WordTypeOK
  <2>2. mtx_recurse' \in [Mutex -> Nat] /\ hold' \in [Thread -> [Mutex -> Nat]]
    BY DEF MutexInv, WordTypeOK
  <2> QED
    BY <2>1, <2>2 DEF WordTypeOK, Local
<1>2. UnlockerOwns' /\ MutualExclusion'
  BY LocalStep DEF MutexInv, WordTypeOK, UnlockerOwns, MutualExclusion, Word
<1>3. RecursionAccounted'
  <2> SUFFICES ASSUME NEW n \in Mutex
               PROVE  /\ mtx_lock'[n].recursed <=> mtx_recurse'[n] # 0
                      /\ \A u \in Thread : mtx_lock'[n].owner = u =>
                           mtx_recurse'[n] + 1 =
                             hold'[u][n] + (IF Unlocking(u, n)' THEN 1 ELSE 0)
    BY DEF RecursionAccounted, mtx_recursed
  <2>1. CASE n = m
    <3>1. mtx_recurse[m] + 1 = hold[t][m]
      BY LocalStep DEF MutexInv, WordTypeOK, RecursionAccounted
    <3>2. mtx_lock'[m].recursed /\ mtx_recurse'[m] = mtx_recurse[m] + 1
      BY DEF MutexInv, WordTypeOK, Word
    <3>3. mtx_lock'[m].owner = t /\ hold'[t][m] = hold[t][m] + 1
      BY DEF MutexInv, WordTypeOK, Word
    <3> QED
      BY <2>1, <3>1, <3>2, <3>3, LocalStep DEF MutexInv, WordTypeOK
  <2>2. CASE n # m
    BY <2>2, LocalStep DEF MutexInv, WordTypeOK, RecursionAccounted, mtx_recursed
  <2> QED
    BY <2>1, <2>2
<1>4. LastRelease'
  <2> SUFFICES ASSUME NEW u \in Thread,
                      pc'[u] \in {"unlock_chain", "lookup", "release"}
               PROVE  mtx_recurse'[cur'[u]] = 0
    BY DEF LastRelease
  <2>1. u # t /\ pc'[u] = pc[u] /\ cur'[u] = cur[u]
    BY DEF Local, UnlockPath
  <2>2. cur[u] \in Mutex /\ Unlocking(u, cur[u]) /\ mtx_recurse[cur[u]] = 0
    BY <2>1 DEF MutexInv, CallHasMutex, Unlocking, LastRelease
  <2>3. cur[u] # m
    BY <2>1, <2>2 DEF MutexInv, UnlockerOwns
  <2> QED
    BY <2>1, <2>2, <2>3 DEF MutexInv, WordTypeOK
<1> QED
  BY <1>1, <1>2, <1>3, <1>4, LocalStep DEF MutexInv

\* Marking a mutex contested keeps the invariant.
LEMMA MarkStep ==
  ASSUME MutexInv, NEW t \in Thread, NEW m \in Mutex, Local(t),
         mtx_lock' = [mtx_lock EXCEPT ![m].contested = TRUE],
         UNCHANGED <<mtx_recurse, hold>>
  PROVE  MutexInv'
<1>1. WordTypeOK'
  BY ZenonT(40) DEF MutexInv, WordTypeOK, Local, Word
<1>2. UnlockerOwns' /\ MutualExclusion'
  BY LocalStep
  DEF MutexInv, WordTypeOK, UnlockerOwns, MutualExclusion, Word, mtx_owner
<1>3. RecursionAccounted'
  BY LocalStep
  DEF MutexInv, WordTypeOK, RecursionAccounted, mtx_recursed, mtx_owner, Word
<1>4. LastRelease'
  BY DEF MutexInv, WordTypeOK, LastRelease, Local, UnlockPath
<1> QED
  BY <1>1, <1>2, <1>3, <1>4, LocalStep DEF MutexInv

\* The slow path of mtx_lock() but for the two steps that change the lock word,
\* and the end of mtx_unlock().
LEMMA LockPathQuiet ==
  ASSUME MutexInv, NEW t \in Thread,
         \/ Adaptive(t) \/ Spin(t) \/ TrywaitChain(t) \/ Trywait(t) \/ Check(t)
         \/ CheckRunning(t) \/ Wait(t) \/ Block(t) \/ Propagate(t) \/ Woken(t)
         \/ Unpend(t)
  PROVE  Quiet(t)
<1> USE WordFacts DEF MutexInv, WordTypeOK, CallHasMutex, Points, Chained, Locked,
                      UnlockPath, Quiet, Local, Goto, mutexVars, localVars
<1>1. CASE Adaptive(t)
  BY <1>1 DEF Adaptive
<1>2. CASE Spin(t)
  BY <1>2 DEF Spin
<1>3. CASE TrywaitChain(t)
  BY <1>3 DEF TrywaitChain
<1>4. CASE Trywait(t)
  BY <1>4 DEF Trywait
<1>5. CASE Check(t)
  <2>1. CASE CancelWait(t, "check")
    BY <2>1 DEF CancelWait
  <2>2. CASE /\ Goto(t, "check", "check_running")
             /\ v' = [v EXCEPT ![t] = mtx_lock[cur[t]]]
             /\ UNCHANGED <<mutexVars, cur, hold>>
    BY <2>2
  <2> QED
    BY <1>5, <2>1, <2>2 DEF Check
<1>6. CASE CheckRunning(t)
  BY <1>6, ZenonT(40) DEF CheckRunning, CancelWait
<1>7. CASE Wait(t)
  BY <1>7 DEF Wait
<1>8. CASE Block(t)
  BY <1>8 DEF Block
<1>9. CASE Propagate(t)
  BY <1>9 DEF Propagate
<1>10. CASE Woken(t)
  BY <1>10 DEF Woken
<1>11. CASE Unpend(t)
  BY <1>11 DEF Unpend, Return
<1> QED
  BY <1>1, <1>2, <1>3, <1>4, <1>5, <1>6, <1>7, <1>8, <1>9, <1>10, <1>11

\* mtx_lock(), mtx_trylock() and the steps of the slow path that change the word.
LEMMA LockSteps ==
  ASSUME MutexInv, NEW t \in Thread,
         \/ \E m \in Mutex : MtxLock(t, m) \/ MtxTrylock(t, m)
         \/ Obtain(t) \/ Contest(t)
  PROVE  MutexInv'
<1> USE WordFacts DEF MutexInv, WordTypeOK, CallHasMutex, Points, Chained, Locked,
                      UnlockPath, Local, Goto, mutexVars, localVars
<1>1. ASSUME NEW m \in Mutex, MtxLock(t, m) PROVE MutexInv'
  <2>1. CASE _obtain_lock(t, m) /\ Hold(t, m)
    <3>1. CASE Goto(t, "idle", "idle") /\ UNCHANGED <<mtx_recurse, localVars>>
      <4>1. Local(t)
        BY <3>1
      <4> QED
        BY <2>1, <3>1, <4>1, AcquireStep
    <3> QED
      BY <1>1, <2>1, <3>1, TurnstileAssumption
      DEF MtxLock, _obtain_lock, mtx_owned, mtx_owner, MTX_UNOWNED, Owned
  <2>2. CASE /\ mtx_owned(t, m) /\ Recurse(m) /\ Hold(t, m)
             /\ Goto(t, "idle", "idle") /\ UNCHANGED localVars
    <3>1. Local(t)
      BY <2>2
    <3> QED
      BY <2>2, <3>1, RecurseStep
  <2>3. CASE /\ Goto(t, "idle", "obtain")
             /\ cur' = [cur EXCEPT ![t] = m]
             /\ UNCHANGED <<mutexVars, v, hold>>
    <3>1. Quiet(t)
      BY <2>3 DEF Quiet
    <3> QED
      BY <3>1, QuietStep
  <2> QED
    BY <1>1, <2>1, <2>2, <2>3 DEF MtxLock
<1>2. ASSUME NEW m \in Mutex, MtxTrylock(t, m) PROVE MutexInv'
  <2>1. Local(t)
    BY <1>2 DEF MtxTrylock
  <2> QED
    BY <1>2, <2>1, AcquireStep, RecurseStep DEF MtxTrylock
<1>3. CASE Obtain(t)
  <2>1. CASE /\ Goto(t, "obtain", "idle") /\ _obtain_lock(t, cur[t])
             /\ Return(t) /\ Hold(t, cur[t]) /\ UNCHANGED mtx_recurse
    <3>1. Local(t) /\ cur[t] \in Mutex
      BY <2>1 DEF Return
    <3> QED
      BY <2>1, <3>1, AcquireStep
  <2>2. CASE /\ Goto(t, "obtain", "adaptive")
             /\ UNCHANGED <<mtx_lock, mtx_recurse, localVars, hold>>
    <3>1. Quiet(t)
      BY <2>2 DEF Quiet
    <3> QED
      BY <3>1, QuietStep
  <2> QED
    BY <1>3, <2>1, <2>2 DEF Obtain
<1>4. CASE Contest(t)
  <2>1. CASE Goto(t, "contest", "wait") /\ UNCHANGED <<mutexVars, localVars, hold>>
    <3>1. Quiet(t)
      BY <2>1 DEF Quiet
    <3> QED
      BY <3>1, QuietStep
  <2>2. CASE /\ Goto(t, "contest", "wait")
             /\ mtx_lock' = [mtx_lock EXCEPT ![cur[t]].contested = TRUE]
             /\ UNCHANGED <<mtx_recurse, localVars, hold>>
    <3>1. Local(t) /\ cur[t] \in Mutex
      BY <2>2
    <3> QED
      BY <2>2, <3>1, MarkStep
  <2>3. CASE CancelWait(t, "contest")
    <3>1. Quiet(t)
      BY <2>3 DEF CancelWait, Quiet
    <3> QED
      BY <3>1, QuietStep
  <2> QED
    BY <1>4, <2>1, <2>2, <2>3 DEF Contest
<1> QED
  BY <1>1, <1>2, <1>3, <1>4

\* RecursionAccounted, unfolded for one mutex.
Accounted(n) ==
  /\ mtx_lock[n].recursed <=> mtx_recurse[n] # 0
  /\ \A u \in Thread : mtx_lock[n].owner = u =>
       mtx_recurse[n] + 1 = hold[u][n] + (IF Unlocking(u, n) THEN 1 ELSE 0)

\* RecursionAccounted says this of every mutex.
LEMMA AccountedDef == RecursionAccounted <=> \A n \in Mutex : Accounted(n)
BY DEF RecursionAccounted, Accounted, mtx_recursed, mtx_owner

\* mtx_unlock() on the fast path and its entry to the slow path.
LEMMA UnlockStep ==
  ASSUME MutexInv, NEW t \in Thread, NEW m \in Mutex, MtxUnlock(t, m)
  PROVE  MutexInv'
<1> USE DEF MutexInv, WordTypeOK, Goto, Unhold, mtx_owner
<1>0. /\ pc[t] = "idle" /\ hold[t][m] > 0 /\ mtx_lock[m].owner = t
      /\ hold' = [hold EXCEPT ![t][m] = @ - 1] /\ UNCHANGED mtx_recurse
  BY DEF MtxUnlock, MutualExclusion
<1>1. \A n \in Mutex : ~Unlocking(t, n)
  BY <1>0 DEF Unlocking
<1>2. mtx_recurse[m] + 1 = hold[t][m]
  BY <1>0, <1>1 DEF RecursionAccounted
<1>3. hold' \in [Thread -> [Mutex -> Nat]]
  BY <1>0
<1>4. CASE _release_lock(t, m) /\ Goto(t, "idle", "idle") /\ UNCHANGED localVars
  <2> USE DEF _release_lock, MTX_UNOWNED, Owned
  <2>1. mtx_recurse[m] = 0 /\ hold[t][m] = 1
    BY <1>2, <1>4 DEF RecursionAccounted, mtx_recursed
  <2>2. WordTypeOK'
    BY <1>0, <1>3, <1>4, WordFacts DEF localVars
  <2>3. UNCHANGED <<pc, cur>>
    BY <1>4 DEF localVars
  <2>4. CallHasMutex' /\ LastRelease'
    BY <1>0, <2>3 DEF CallHasMutex, LastRelease
  <2>5. \A u \in Thread, n \in Mutex : Unlocking(u, n)' <=> Unlocking(u, n)
    BY <2>3 DEF Unlocking
  <2>6. \A u \in Thread : ~Unlocking(u, m) /\ hold'[u][m] = 0
    BY <1>0, <1>1, <2>1 DEF UnlockerOwns, MutualExclusion
  <2>7. UnlockerOwns' /\ MutualExclusion'
    BY <1>0, <1>4, <2>5, <2>6 DEF UnlockerOwns, MutualExclusion
  <2>8. \A n \in Mutex : Accounted(n)'
    BY <1>0, <1>4, <2>1, <2>5, AccountedDef, TurnstileAssumption DEF Accounted
  <2>9. RecursionAccounted'
    BY <2>8 DEF RecursionAccounted, Accounted, mtx_recursed
  <2> QED
    BY <2>2, <2>4, <2>7, <2>9
<1>5. CASE /\ Goto(t, "idle", "unlock_sleep")
           /\ cur' = [cur EXCEPT ![t] = m]
           /\ UNCHANGED <<mtx_lock, v>>
  <2>1. WordTypeOK'
    BY <1>0, <1>3, <1>5 DEF Points
  <2>2. CallHasMutex' /\ LastRelease'
    BY <1>0, <1>5 DEF CallHasMutex, LastRelease
  <2>3. \A u \in Thread, n \in Mutex :
          Unlocking(u, n)' <=> (Unlocking(u, n) \/ (u = t /\ n = m))
    BY <1>0, <1>5 DEF Unlocking
  <2>4. UnlockerOwns' /\ MutualExclusion'
    BY <1>0, <1>5, <2>3 DEF UnlockerOwns, MutualExclusion
  <2>5. \A n \in Mutex : Accounted(n)'
    BY <1>0, <1>1, <1>2, <1>5, <2>3, AccountedDef DEF Accounted
  <2>6. RecursionAccounted'
    BY <2>5 DEF RecursionAccounted, Accounted, mtx_recursed
  <2> QED
    BY <2>1, <2>2, <2>4, <2>6
<1> QED
  BY <1>4, <1>5 DEF MtxUnlock

\* _mtx_unlock_sleep(): one level of recursion less, or on to the turnstile.
LEMMA UnlockSleepStep ==
  ASSUME MutexInv, NEW t \in Thread, UnlockSleep(t)
  PROVE  MutexInv'
<1> USE DEF MutexInv, WordTypeOK, Goto, mtx_owner
<1>0. PICK m \in Mutex :
        /\ m = cur[t] /\ pc[t] = "unlock_sleep" /\ Unlocking(t, m)
        /\ mtx_lock[m].owner = t /\ UNCHANGED hold
  BY DEF UnlockSleep, CallHasMutex, Unlocking, UnlockerOwns
<1>1. /\ mtx_recurse[m] = hold[t][m]
      /\ mtx_lock[m].recursed <=> mtx_recurse[m] # 0
  <2>1. Accounted(m)
    BY AccountedDef
  <2>2. mtx_recurse[m] \in Nat /\ hold[t][m] \in Nat
    OBVIOUS
  <2>3. mtx_lock[m].recursed <=> mtx_recurse[m] # 0
    BY <2>1 DEF Accounted
  <2>4. mtx_recurse[m] + 1 = hold[t][m] + 1
    BY <1>0, <2>1 DEF Accounted
  <2>5. mtx_recurse[m] = hold[t][m]
    BY <2>2, <2>4, Counting
  <2> QED
    BY <2>3, <2>5
<1>2. CASE /\ mtx_recurse[m] # 0
           /\ mtx_recurse' = [mtx_recurse EXCEPT ![m] = @ - 1]
           /\ mtx_lock' = IF mtx_recurse[m] = 1
                          THEN [mtx_lock EXCEPT ![m].recursed = FALSE]
                          ELSE mtx_lock
           /\ Goto(t, "unlock_sleep", "idle")
           /\ Return(t)
  <2>1. mtx_recurse' \in [Mutex -> Nat] /\ mtx_recurse'[m] = mtx_recurse[m] - 1
    <3>1. mtx_recurse[m] - 1 \in Nat
      BY <1>2, Counting
    <3>2. mtx_recurse' = [mtx_recurse EXCEPT ![m] = mtx_recurse[m] - 1]
      BY <1>2
    <3> QED
      BY <3>1, <3>2
  <2>2. /\ mtx_lock' \in [Mutex -> Word]
        /\ mtx_lock'[m].recursed <=> mtx_recurse[m] # 1
        /\ \A n \in Mutex : mtx_lock'[n].owner = mtx_lock[n].owner
    <3>1. CASE mtx_recurse[m] = 1
      <4>1. mtx_lock' = [mtx_lock EXCEPT ![m] = [mtx_lock[m] EXCEPT !.recursed = FALSE]]
        BY <1>2, <3>1
      <4>2. mtx_lock' \in [Mutex -> Word]
        BY <4>1, WordFacts
      <4>3. ~mtx_lock'[m].recursed
        BY <4>1 DEF Word
      <4>4. \A n \in Mutex : mtx_lock'[n].owner = mtx_lock[n].owner
        BY <4>1 DEF Word
      <4> QED
        BY <3>1, <4>2, <4>3, <4>4
    <3>2. CASE mtx_recurse[m] # 1
      <4>1. mtx_lock' = mtx_lock
        BY <1>2, <3>2
      <4> QED
        BY <1>1, <1>2, <3>2, <4>1
    <3> QED
      BY <3>1, <3>2
  <2>3. WordTypeOK'
    BY <1>0, <1>2, <2>1, <2>2, WordFacts DEF Return, Points
  <2>4. /\ \A u \in Thread \ {t} : pc'[u] = pc[u] /\ cur'[u] = cur[u]
        /\ pc'[t] = "idle"
    BY <1>2 DEF Return
  <2>5. \A u \in Thread, n \in Mutex : Unlocking(u, n)' <=> (Unlocking(u, n) /\ u # t)
    BY <2>4 DEF Unlocking
  <2>6. CallHasMutex' /\ UnlockerOwns' /\ MutualExclusion'
    BY <1>0, <2>2, <2>4, <2>5, ZenonT(40) DEF CallHasMutex, UnlockerOwns, MutualExclusion
  <2>7. LastRelease'
    BY <1>0, <1>2, <2>4 DEF LastRelease, UnlockerOwns, CallHasMutex, Unlocking
  <2>8. \A n \in Mutex : Accounted(n)'
    <3>1. Accounted(m)'
      BY <1>0, <1>1, <2>1, <2>2, <2>5 DEF Accounted, Word
    <3>2. ASSUME NEW n \in Mutex, n # m PROVE Accounted(n)'
      <4>1. /\ mtx_lock'[n] = mtx_lock[n] /\ mtx_recurse'[n] = mtx_recurse[n]
            /\ ~Unlocking(t, n)
        BY <1>0, <1>2, <3>2 DEF Unlocking
      <4> QED
        BY <1>0, <2>5, <4>1, AccountedDef DEF Accounted
    <3> QED
      BY <3>1, <3>2
  <2>9. RecursionAccounted'
    BY <2>8 DEF RecursionAccounted, Accounted, mtx_recursed
  <2> QED
    BY <2>3, <2>6, <2>7, <2>9
<1>3. CASE /\ mtx_recurse[m] = 0
           /\ Goto(t, "unlock_sleep", "unlock_chain")
           /\ UNCHANGED <<mutexVars, localVars>>
  <2> USE DEF mutexVars, localVars
  <2>1. WordTypeOK' /\ CallHasMutex' /\ LastRelease'
    BY <1>0, <1>3 DEF Points, Chained, Locked, CallHasMutex, LastRelease
  <2>2. \A u \in Thread, n \in Mutex : Unlocking(u, n)' <=> Unlocking(u, n)
    BY <1>0, <1>3 DEF Unlocking
  <2>3. UnlockerOwns' /\ MutualExclusion' /\ RecursionAccounted'
    BY <1>0, <1>3, <2>2 DEF UnlockerOwns, MutualExclusion, RecursionAccounted, mtx_recursed
  <2> QED
    BY <2>1, <2>3
<1> QED
  BY <1>0, <1>2, <1>3 DEF UnlockSleep, mtx_recursed

\* Between the test for recursion and the store of MTX_UNOWNED.
LEMMA UnlockPathStep ==
  ASSUME MutexInv, NEW t \in Thread, UnlockChain(t) \/ Broadcast(t)
  PROVE  MutexInv'
<1> USE DEF MutexInv, WordTypeOK, Goto, mtx_owner, mutexVars, localVars
<1>0. /\ UNCHANGED <<mtx_lock, mtx_recurse, cur, v, hold>>
      /\ \E p, q \in {"unlock_chain", "lookup", "release"} : Goto(t, p, q)
  BY DEF UnlockChain, Broadcast
<1>1. WordTypeOK' /\ CallHasMutex' /\ LastRelease'
  BY <1>0 DEF Points, Chained, Locked, CallHasMutex, LastRelease
<1>2. \A u \in Thread, n \in Mutex : Unlocking(u, n)' <=> Unlocking(u, n)
  BY <1>0 DEF Unlocking
<1>3. UnlockerOwns' /\ MutualExclusion' /\ RecursionAccounted'
  BY <1>0, <1>2 DEF UnlockerOwns, MutualExclusion, RecursionAccounted, mtx_recursed
<1> QED
  BY <1>1, <1>3

\* A free or destroyed mutex m: nobody holds it or is about to release it, and it
\* is not recursed.  The lemma covers the three stores that make it so.
LEMMA DisownStep ==
  ASSUME MutexInv, NEW t \in Thread, NEW m \in Mutex,
         NEW w \in {MTX_UNOWNED, MTX_DESTROYED},
         mtx_lock' = [mtx_lock EXCEPT ![m] = w],
         mtx_recurse'[m] = 0, WordTypeOK', CallHasMutex', LastRelease',
         \A n \in Mutex \ {m} : mtx_recurse'[n] = mtx_recurse[n],
         \A u \in Thread, n \in Mutex \ {m} : hold'[u][n] = hold[u][n],
         \A u \in Thread : hold'[u][m] = 0 /\ ~Unlocking(u, m)',
         \A u \in Thread, n \in Mutex \ {m} : Unlocking(u, n)' <=> Unlocking(u, n)
  PROVE  MutexInv'
<1> USE DEF MutexInv, WordTypeOK
<1>1. /\ mtx_lock'[m].owner \notin Thread /\ ~mtx_lock'[m].recursed
      /\ \A n \in Mutex \ {m} : mtx_lock'[n] = mtx_lock[n]
  BY TurnstileAssumption, MutexAssumption DEF MTX_UNOWNED, MTX_DESTROYED, Owned
<1>2. UnlockerOwns' /\ MutualExclusion'
  BY <1>1 DEF UnlockerOwns, MutualExclusion, mtx_owner
<1>3. ASSUME NEW n \in Mutex PROVE Accounted(n)'
  <2>1. CASE n = m
    BY <1>1, <2>1 DEF Accounted
  <2>2. CASE n # m
    <3>1. Accounted(n)
      BY AccountedDef
    <3> QED
      BY <1>1, <2>2, <3>1 DEF Accounted
  <2> QED
    BY <2>1, <2>2
<1>4. RecursionAccounted'
  BY <1>3 DEF RecursionAccounted, Accounted, mtx_recursed, mtx_owner
<1> QED
  BY <1>2, <1>4

\* The store of MTX_UNOWNED on the slow path of mtx_unlock().
LEMMA ReleaseStep ==
  ASSUME MutexInv, NEW t \in Thread, Release(t)
  PROVE  MutexInv'
<1> USE DEF MutexInv, WordTypeOK
<1>0. PICK m \in Mutex :
        /\ m = cur[t] /\ pc[t] = "release" /\ Unlocking(t, m)
        /\ mtx_lock[m].owner = t /\ mtx_recurse[m] = 0
  BY DEF Release, Goto, CallHasMutex, Unlocking, UnlockerOwns, LastRelease, mtx_owner
<1>1. /\ mtx_lock' = [mtx_lock EXCEPT ![m] = MTX_UNOWNED]
      /\ pc' = [pc EXCEPT ![t] = "unpend"]
      /\ UNCHANGED <<mtx_recurse, cur, v, hold>>
  BY <1>0 DEF Release, Goto, _release_lock_quick, localVars
<1>2. hold[t][m] = 0
  <2>1. Accounted(m)
    BY AccountedDef
  <2>2. mtx_recurse[m] + 1 = hold[t][m] + 1
    BY <1>0, <2>1 DEF Accounted
  <2> QED
    BY <1>0, <2>2, Counting
<1>3. \A u \in Thread \ {t} : hold[u][m] = 0 /\ ~Unlocking(u, m)
  BY <1>0 DEF MutualExclusion, UnlockerOwns, mtx_owner
<1>4. WordTypeOK'
  BY <1>1, WordFacts DEF Points, Chained, Locked
<1>5. CallHasMutex' /\ LastRelease'
  BY <1>0, <1>1 DEF CallHasMutex, LastRelease
<1>6. \A u \in Thread, n \in Mutex :
        Unlocking(u, n)' <=> (Unlocking(u, n) /\ n # m)
  BY <1>0, <1>1, <1>3 DEF Unlocking
<1> QED
  BY <1>0, <1>1, <1>2, <1>3, <1>4, <1>5, <1>6, DisownStep

\* mtx_destroy() and mtx_init().
LEMMA LifeSteps ==
  ASSUME MutexInv, NEW t \in Thread, NEW m \in Mutex,
         MtxDestroy(t, m) \/ MtxInit(t, m)
  PROVE  MutexInv'
<1> USE DEF MutexInv, WordTypeOK
<1>1. /\ pc[t] = "idle" /\ pc' = pc /\ UNCHANGED <<cur, v>>
  BY DEF MtxDestroy, MtxInit, Goto, localVars
<1>2. \A u \in Thread, n \in Mutex : Unlocking(u, n)' <=> Unlocking(u, n)
  BY <1>1 DEF Unlocking
<1>3. CallHasMutex'
  BY <1>1 DEF CallHasMutex
<1>4. CASE MtxDestroy(t, m)
  <2>1. \A u \in Thread : ~Unlocking(u, m)
    BY <1>1, <1>4 DEF MtxDestroy, Unlocking
  <2>2. mtx_recurse[m] = 0 /\ \A u \in Thread \ {t} : hold[u][m] = 0
    <3>1. CASE hold[t][m] = 1
      <4>1. mtx_lock[m].owner = t /\ Accounted(m)
        BY <3>1, AccountedDef DEF MutualExclusion, mtx_owner
      <4>2. mtx_recurse[m] + 1 = 0 + 1
        BY <2>1, <3>1, <4>1 DEF Accounted
      <4>3. mtx_recurse[m] = 0
        BY <4>2, Counting
      <4> QED
        BY <4>1, <4>3 DEF MutualExclusion, mtx_owner
    <3>2. CASE mtx_lock[m] = MTX_UNOWNED
      <4>1. Accounted(m)
        BY AccountedDef
      <4>2. mtx_recurse[m] = 0
        BY <3>2, <4>1 DEF Accounted, MTX_UNOWNED, Owned
      <4> QED
        BY <3>2, <4>2, TurnstileAssumption
        DEF MutualExclusion, mtx_owner, MTX_UNOWNED, Owned
    <3> QED
      BY <1>4, <3>1, <3>2 DEF MtxDestroy
  <2>3. /\ hold' \in [Thread -> [Mutex -> Nat]] /\ hold'[t][m] = 0
        /\ \A u \in Thread, n \in Mutex : (u # t \/ n # m) => hold'[u][n] = hold[u][n]
    <3>1. CASE hold[t][m] = 1 /\ Unhold(t, m)
      BY <3>1 DEF Unhold
    <3>2. CASE mtx_lock[m] = MTX_UNOWNED /\ UNCHANGED hold
      BY <3>2, TurnstileAssumption DEF MutualExclusion, mtx_owner, MTX_UNOWNED, Owned
    <3> QED
      BY <1>4, <3>1, <3>2 DEF MtxDestroy
  <2>4. mtx_lock' = [mtx_lock EXCEPT ![m] = MTX_DESTROYED] /\ UNCHANGED mtx_recurse
    BY <1>4 DEF MtxDestroy
  <2>5. WordTypeOK' /\ LastRelease'
    BY <1>1, <2>3, <2>4, WordFacts DEF LastRelease
  <2>6. \A u \in Thread : hold'[u][m] = 0 /\ ~Unlocking(u, m)'
    BY <1>2, <2>1, <2>2, <2>3
  <2>7. \A u \in Thread, n \in Mutex \ {m} : hold'[u][n] = hold[u][n]
    BY <2>3
  <2> QED
    BY <1>2, <1>3, <2>2, <2>4, <2>5, <2>6, <2>7, DisownStep
<1>5. CASE MtxInit(t, m)
  <2>1. /\ mtx_lock' = [mtx_lock EXCEPT ![m] = MTX_UNOWNED]
        /\ mtx_recurse' = [mtx_recurse EXCEPT ![m] = 0]
        /\ UNCHANGED hold
    BY <1>5 DEF MtxInit
  <2>2. mtx_lock[m].owner \notin Thread
    BY <1>5, MutexAssumption DEF MtxInit, MTX_DESTROYED, Owned
  <2>3. \A u \in Thread : hold[u][m] = 0 /\ ~Unlocking(u, m)
    BY <2>2 DEF MutualExclusion, UnlockerOwns, mtx_owner
  <2>4. WordTypeOK' /\ LastRelease'
    BY <1>1, <2>1, WordFacts DEF LastRelease
  <2>5. \A u \in Thread : hold'[u][m] = 0 /\ ~Unlocking(u, m)'
    BY <1>2, <2>1, <2>3
  <2>6. mtx_recurse'[m] = 0 /\ \A n \in Mutex \ {m} : mtx_recurse'[n] = mtx_recurse[n]
    BY <2>1
  <2> QED
    BY <1>2, <1>3, <2>1, <2>4, <2>5, <2>6, DisownStep
<1> QED
  BY <1>4, <1>5

\* A step that changes nothing the invariant mentions.
LEMMA StillStep ==
  ASSUME MutexInv, UNCHANGED <<mtx_lock, mtx_recurse, pc, cur, v, hold>>
  PROVE  MutexInv'
BY DEF MutexInv, WordTypeOK, CallHasMutex, LastRelease, MutualExclusion, UnlockerOwns,
       RecursionAccounted, Unlocking, mtx_owner, mtx_recursed

\* Priorities and the scheduler do not touch mutexes.
LEMMA OtherSteps ==
  ASSUME MutexInv, NEW t \in Thread,
         \/ \E td \in Thread, prio \in NewPri : SchedPrio(t, td, prio)
         \/ Preempt(t) \/ Dispatch(t)
  PROVE  MutexInv'
<1> USE DEF mutexVars, localVars
<1>1. CASE \E td \in Thread, prio \in NewPri : SchedPrio(t, td, prio)
  <2>1. Quiet(t)
    BY <1>1 DEF SchedPrio, Quiet, Local, UnlockPath, MutexInv, WordTypeOK, Points
  <2> QED
    BY <2>1, QuietStep
<1>2. CASE Preempt(t) \/ Dispatch(t)
  BY <1>2, StillStep DEF Preempt, Dispatch
<1> QED
  BY <1>1, <1>2

\* MutexInv is inductive.
LEMMA MutexInvNext == MutexInv /\ [Next]_vars => MutexInv'
<1> SUFFICES ASSUME MutexInv, [Next]_vars PROVE MutexInv'
  OBVIOUS
<1>1. CASE UNCHANGED vars
  BY <1>1, StillStep DEF vars, mutexVars, localVars
<1>2. ASSUME NEW t \in Thread, Step(t) PROVE MutexInv'
  BY <1>2, LockPathQuiet, QuietStep, LockSteps, UnlockSleepStep, UnlockPathStep,
     ReleaseStep
  DEF Step
<1>3. ASSUME NEW t \in Thread, Client(t) PROVE MutexInv'
  BY <1>3, LockSteps, UnlockStep, LifeSteps DEF Client
<1> QED
  BY <1>1, <1>2, <1>3, OtherSteps DEF Next

\* For any number of threads and mutexes: lock words are words, recursion counts
\* never go below zero, and no thread gives back more than it took.
THEOREM WordsAreTyped == Spec => []WordTypeOK
<1>1. MutexInv => WordTypeOK
  BY DEF MutexInv
<1> QED
  BY <1>1, MutexInvInit, MutexInvNext, PTL DEF Spec

\* For any number of threads and mutexes: at most one thread holds a mutex, and
\* it is the one the lock word names.
THEOREM MutexIsExclusive == Spec => []MutualExclusion
<1>1. MutexInv => MutualExclusion
  BY DEF MutexInv
<1> QED
  BY <1>1, MutexInvInit, MutexInvNext, PTL DEF Spec

\* For any number of threads and mutexes: mtx_recurse and the bit MTX_RECURSED
\* account for every acquisition that has not been given back.
THEOREM RecursionIsAccounted == Spec => []RecursionAccounted
<1>1. MutexInv => RecursionAccounted
  BY DEF MutexInv
<1> QED
  BY <1>1, MutexInvInit, MutexInvNext, PTL DEF Spec

-----------------------------------------------------------------------------
(***************************************************************************)
(* KernMutex implements AbstractMutex.                                     *)
(***************************************************************************)

absVars == <<AbstractOwner, AbstractDepth>>

\* The abstract state of one mutex, from its lock word and recursion count.
AbsOwner(w) == IF w.owner = DESTROYED THEN NULL ELSE w.owner
AbsDepth(w, r) == IF w.owner \in Thread THEN r + 1 ELSE 0

\* The abstract state, mutex by mutex.
LEMMA AbstractState ==
  /\ AbstractOwner = [n \in Mutex |-> AbsOwner(mtx_lock[n])]
  /\ AbstractDepth = [n \in Mutex |-> AbsDepth(mtx_lock[n], mtx_recurse[n])]
  /\ AbstractOwner' = [n \in Mutex |-> AbsOwner(mtx_lock'[n])]
  /\ AbstractDepth' = [n \in Mutex |-> AbsDepth(mtx_lock'[n], mtx_recurse'[n])]
BY DEF AbstractOwner, AbstractDepth, AbsOwner, AbsDepth, mtx_owner

\* A step that leaves every owner and recursion count alone is a stutter.
LEMMA AbstractStutter ==
  ASSUME \A n \in Mutex : mtx_lock'[n].owner = mtx_lock[n].owner,
         UNCHANGED mtx_recurse
  PROVE  UNCHANGED absVars
BY AbstractState DEF absVars, AbsOwner, AbsDepth

\* A step that changes the state of mutex m only.
LEMMA AbstractChange ==
  ASSUME NEW m \in Mutex,
         \A n \in Mutex \ {m} : mtx_lock'[n] = mtx_lock[n] /\ mtx_recurse'[n] = mtx_recurse[n]
  PROVE  /\ AbstractOwner' = [AbstractOwner EXCEPT ![m] = AbsOwner(mtx_lock'[m])]
         /\ AbstractDepth' = [AbstractDepth EXCEPT ![m] =
                                AbsDepth(mtx_lock'[m], mtx_recurse'[m])]
BY AbstractState DEF AbsOwner, AbsDepth

\* Taking a free mutex.
LEMMA AbstractAcquire ==
  ASSUME MutexInv, NEW t \in Thread, NEW m \in Mutex,
         _obtain_lock(t, m), UNCHANGED mtx_recurse
  PROVE  Abstract!Acquire(t, m)
<1> USE DEF _obtain_lock, MTX_UNOWNED, Owned
<1>1. /\ mtx_lock'[m] = Owned(t) /\ mtx_recurse'[m] = 0
      /\ \A n \in Mutex \ {m} : mtx_lock'[n] = mtx_lock[n]
  BY DEF MutexInv, WordTypeOK, RecursionAccounted, mtx_recursed
<1>2. AbstractOwner[m] = NULL
  BY AbstractState DEF AbsOwner
<1>3. AbsOwner(mtx_lock'[m]) = t /\ AbsDepth(mtx_lock'[m], mtx_recurse'[m]) = 1
  BY <1>1, MutexAssumption DEF AbsOwner, AbsDepth
<1> QED
  BY <1>1, <1>2, <1>3, AbstractChange DEF Abstract!Acquire

\* Recursion by the owner.
LEMMA AbstractRecurse ==
  ASSUME MutexInv, NEW t \in Thread, NEW m \in Recursable,
         mtx_owned(t, m), Recurse(m)
  PROVE  Abstract!Recurse(t, m)
<1> USE DEF Recurse, mtx_owned, mtx_owner
<1>0. m \in Mutex /\ mtx_recurse[m] \in Nat
  BY MutexAssumption DEF MutexInv, WordTypeOK
<1>1. /\ mtx_lock'[m].owner = t /\ mtx_recurse'[m] = mtx_recurse[m] + 1
      /\ \A n \in Mutex \ {m} : mtx_lock'[n] = mtx_lock[n] /\ mtx_recurse'[n] = mtx_recurse[n]
  BY <1>0 DEF MutexInv, WordTypeOK, Word
<1>2. /\ AbstractOwner[m] = t /\ AbsOwner(mtx_lock'[m]) = t
      /\ AbstractDepth[m] = mtx_recurse[m] + 1
      /\ AbsDepth(mtx_lock'[m], mtx_recurse'[m]) = mtx_recurse[m] + 1 + 1
  BY <1>0, <1>1, AbstractState, MutexAssumption DEF AbsOwner, AbsDepth
<1>3. /\ AbstractOwner' = [AbstractOwner EXCEPT ![m] = t]
      /\ AbstractDepth' = [AbstractDepth EXCEPT ![m] = AbstractDepth[m] + 1]
  BY <1>0, <1>1, <1>2, AbstractChange
<1>4. AbstractOwner' = AbstractOwner
  BY <1>0, <1>2, <1>3, AbstractState
<1> QED
  BY <1>2, <1>3, <1>4 DEF Abstract!Recurse

\* The last release, on either path of mtx_unlock() or by mtx_destroy().
LEMMA AbstractRelease ==
  ASSUME MutexInv, NEW t \in Thread, NEW m \in Mutex,
         mtx_lock[m].owner = t, mtx_recurse[m] = 0,
         NEW w \in {MTX_UNOWNED, MTX_DESTROYED},
         mtx_lock' = [mtx_lock EXCEPT ![m] = w], UNCHANGED mtx_recurse
  PROVE  Abstract!Release(t, m)
<1>1. /\ mtx_lock'[m] = w
      /\ \A n \in Mutex \ {m} : mtx_lock'[n] = mtx_lock[n]
  BY DEF MutexInv, WordTypeOK
<1>2. AbstractOwner[m] = t /\ AbstractDepth[m] = 1
  BY AbstractState, MutexAssumption DEF AbsOwner, AbsDepth
<1>3. AbsOwner(w) = NULL /\ AbsDepth(w, mtx_recurse'[m]) = 0
  BY MutexAssumption, TurnstileAssumption
  DEF AbsOwner, AbsDepth, MTX_UNOWNED, MTX_DESTROYED, Owned
<1> QED
  BY <1>1, <1>2, <1>3, AbstractChange DEF Abstract!Release

\* One level of recursion less.
LEMMA AbstractUnrecurse ==
  ASSUME MutexInv, NEW t \in Thread, NEW m \in Mutex,
         mtx_lock[m].owner = t, mtx_recurse[m] # 0,
         mtx_recurse' = [mtx_recurse EXCEPT ![m] = @ - 1],
         \/ mtx_lock' = [mtx_lock EXCEPT ![m].recursed = FALSE]
         \/ UNCHANGED mtx_lock
  PROVE  Abstract!Unrecurse(t, m)
<1>0. mtx_recurse[m] \in Nat \ {0}
  BY DEF MutexInv, WordTypeOK
<1>1. /\ mtx_lock'[m].owner = t /\ mtx_recurse'[m] = mtx_recurse[m] - 1
      /\ \A n \in Mutex \ {m} : mtx_lock'[n] = mtx_lock[n] /\ mtx_recurse'[n] = mtx_recurse[n]
  BY DEF MutexInv, WordTypeOK, Word
<1>2. AbstractOwner[m] = t /\ AbsOwner(mtx_lock'[m]) = t
  BY <1>1, AbstractState, MutexAssumption DEF AbsOwner
<1>3. /\ AbstractDepth[m] = mtx_recurse[m] + 1
      /\ AbsDepth(mtx_lock'[m], mtx_recurse'[m]) = mtx_recurse[m] - 1 + 1
  BY <1>1, AbstractState DEF AbsDepth
<1>4. AbstractDepth[m] > 1 /\ mtx_recurse[m] - 1 + 1 = AbstractDepth[m] - 1
  BY <1>0, <1>3
<1>5. /\ AbstractOwner' = [AbstractOwner EXCEPT ![m] = t]
      /\ AbstractDepth' = [AbstractDepth EXCEPT ![m] = AbstractDepth[m] - 1]
  BY <1>1, <1>2, <1>3, <1>4, AbstractChange
<1>6. AbstractOwner' = AbstractOwner
  BY <1>2, <1>5, AbstractState
<1> QED
  BY <1>2, <1>4, <1>5, <1>6 DEF Abstract!Unrecurse

\* mtx_lock(), mtx_trylock() and the steps of their slow path.
LEMMA AbstractLock ==
  ASSUME MutexInv, NEW t \in Thread,
         \/ \E m \in Mutex : MtxLock(t, m) \/ MtxTrylock(t, m)
         \/ Obtain(t) \/ Contest(t)
  PROVE  Abstract!Next \/ UNCHANGED absVars
<1>1. ASSUME NEW m \in Mutex, MtxLock(t, m) PROVE Abstract!Next \/ UNCHANGED absVars
  <2>1. CASE _obtain_lock(t, m) /\ UNCHANGED mtx_recurse
    BY <2>1, AbstractAcquire DEF Abstract!Next
  <2>2. CASE mtx_owned(t, m) /\ Recurse(m) /\ pc[t] = "idle"
    <3>1. ~Unlocking(t, m) /\ Accounted(m)
      BY <2>2, AccountedDef DEF Unlocking, MutexInv
    <3>2. hold[t][m] = mtx_recurse[m] + 1 /\ mtx_recurse[m] \in Nat /\ hold[t][m] \in Nat
      BY <2>2, <3>1 DEF Accounted, mtx_owned, mtx_owner, MutexInv, WordTypeOK
    <3>3. hold[t][m] > 0
      BY <3>2
    <3>4. m \in Recursable
      BY <1>1, <3>3, MutexAssumption DEF MtxLock, MayLock
    <3> QED
      BY <2>2, <3>4, AbstractRecurse DEF Abstract!Next
  <2>3. CASE UNCHANGED mutexVars
    BY <2>3, AbstractStutter DEF mutexVars
  <2> QED
    BY <1>1, <2>1, <2>2, <2>3 DEF MtxLock, Goto
<1>2. ASSUME NEW m \in Mutex, MtxTrylock(t, m) PROVE Abstract!Next \/ UNCHANGED absVars
  BY <1>2, AbstractAcquire, AbstractRecurse DEF MtxTrylock, Abstract!Next
<1>3. CASE Obtain(t)
  <2>1. CASE Goto(t, "obtain", "idle") /\ _obtain_lock(t, cur[t]) /\ UNCHANGED mtx_recurse
    <3>1. cur[t] \in Mutex
      BY <2>1 DEF Goto, MutexInv, CallHasMutex
    <3> QED
      BY <2>1, <3>1, AbstractAcquire DEF Abstract!Next
  <2>2. CASE UNCHANGED <<mtx_lock, mtx_recurse>>
    BY <2>2, AbstractStutter
  <2> QED
    BY <1>3, <2>1, <2>2 DEF Obtain
<1>4. CASE Contest(t)
  <2>1. UNCHANGED mtx_recurse
    BY <1>4 DEF Contest, CancelWait, mutexVars
  <2>2. \A n \in Mutex : mtx_lock'[n].owner = mtx_lock[n].owner
    <3>1. CASE UNCHANGED mtx_lock
      BY <3>1
    <3>2. CASE mtx_lock' = [mtx_lock EXCEPT ![cur[t]].contested = TRUE]
      BY <3>2 DEF MutexInv, WordTypeOK, Word
    <3> QED
      BY <1>4, <3>1, <3>2 DEF Contest, CancelWait, mutexVars
  <2> QED
    BY <2>1, <2>2, AbstractStutter
<1> QED
  BY <1>1, <1>2, <1>3, <1>4

\* mtx_unlock() and its slow path.
LEMMA AbstractUnlock ==
  ASSUME MutexInv, NEW t \in Thread,
         \/ \E m \in Mutex : MtxUnlock(t, m)
         \/ UnlockSleep(t) \/ UnlockChain(t) \/ Broadcast(t) \/ Release(t)
  PROVE  Abstract!Next \/ UNCHANGED absVars
<1>1. ASSUME NEW m \in Mutex, MtxUnlock(t, m) PROVE Abstract!Next \/ UNCHANGED absVars
  <2>1. CASE _release_lock(t, m) /\ UNCHANGED mtx_recurse
    <3>1. mtx_lock[m].owner = t /\ mtx_recurse[m] = 0
      BY <2>1 DEF _release_lock, Owned, MutexInv, RecursionAccounted, mtx_recursed
    <3>2. Abstract!Release(t, m)
      BY <2>1, <3>1, AbstractRelease DEF _release_lock
    <3> QED
      BY <3>2 DEF Abstract!Next
  <2>2. CASE UNCHANGED <<mtx_lock, mtx_recurse>>
    BY <2>2, AbstractStutter
  <2> QED
    BY <1>1, <2>1, <2>2 DEF MtxUnlock
<1>2. CASE UnlockSleep(t)
  <2>0. PICK m \in Mutex : m = cur[t] /\ mtx_lock[m].owner = t
    BY <1>2 DEF UnlockSleep, Unlocking, MutexInv, CallHasMutex, UnlockerOwns, mtx_owner
  <2>1. CASE /\ mtx_recurse[m] # 0
             /\ mtx_recurse' = [mtx_recurse EXCEPT ![m] = @ - 1]
             /\ mtx_lock' = IF mtx_recurse[m] = 1
                            THEN [mtx_lock EXCEPT ![m].recursed = FALSE]
                            ELSE mtx_lock
    <3>1. \/ mtx_lock' = [mtx_lock EXCEPT ![m].recursed = FALSE]
          \/ UNCHANGED mtx_lock
      BY <2>1
    <3>2. Abstract!Unrecurse(t, m)
      BY <2>0, <2>1, <3>1, AbstractUnrecurse
    <3> QED
      BY <3>2 DEF Abstract!Next
  <2>2. CASE UNCHANGED mutexVars
    BY <2>2, AbstractStutter DEF mutexVars
  <2> QED
    BY <1>2, <2>0, <2>1, <2>2 DEF UnlockSleep, mtx_recursed
<1>3. CASE UnlockChain(t) \/ Broadcast(t)
  BY <1>3, AbstractStutter DEF UnlockChain, Broadcast, mutexVars
<1>4. CASE Release(t)
  <2>1. PICK m \in Mutex : m = cur[t] /\ mtx_lock[m].owner = t /\ mtx_recurse[m] = 0
    BY <1>4 DEF Release, Goto, Unlocking, MutexInv, CallHasMutex, UnlockerOwns,
                LastRelease, mtx_owner
  <2>2. Abstract!Release(t, m)
    BY <1>4, <2>1, AbstractRelease DEF Release, _release_lock_quick
  <2> QED
    BY <2>2 DEF Abstract!Next
<1> QED
  BY <1>1, <1>2, <1>3, <1>4

\* mtx_destroy() by the owner releases the mutex; otherwise nothing changes.
LEMMA AbstractLife ==
  ASSUME MutexInv, NEW t \in Thread, NEW m \in Mutex,
         MtxDestroy(t, m) \/ MtxInit(t, m)
  PROVE  Abstract!Next \/ UNCHANGED absVars
<1>1. CASE MtxDestroy(t, m)
  <2>0. /\ mtx_lock' = [mtx_lock EXCEPT ![m] = MTX_DESTROYED] /\ UNCHANGED mtx_recurse
        /\ ~Unlocking(t, m)
    BY <1>1 DEF MtxDestroy, Goto, Unlocking
  <2>1. CASE hold[t][m] = 1
    <3>1. mtx_lock[m].owner = t /\ Accounted(m)
      BY <2>1, AccountedDef DEF MutexInv, MutualExclusion, mtx_owner
    <3>2. mtx_recurse[m] + 1 = 0 + 1 /\ mtx_recurse[m] \in Nat
      BY <2>0, <2>1, <3>1 DEF Accounted, MutexInv, WordTypeOK
    <3>3. mtx_recurse[m] = 0
      BY <3>2
    <3>4. Abstract!Release(t, m)
      BY <2>0, <3>1, <3>3, AbstractRelease
    <3> QED
      BY <3>4 DEF Abstract!Next
  <2>2. CASE mtx_lock[m] = MTX_UNOWNED
    <3>1. /\ AbsOwner(mtx_lock'[m]) = AbsOwner(mtx_lock[m])
          /\ \A r \in Nat : AbsDepth(mtx_lock'[m], r) = AbsDepth(mtx_lock[m], r)
      BY <2>0, <2>2, MutexAssumption, TurnstileAssumption
      DEF AbsOwner, AbsDepth, MTX_UNOWNED, MTX_DESTROYED, Owned, MutexInv, WordTypeOK
    <3>2. \A n \in Mutex : /\ AbsOwner(mtx_lock'[n]) = AbsOwner(mtx_lock[n])
                           /\ AbsDepth(mtx_lock'[n], mtx_recurse'[n]) =
                                AbsDepth(mtx_lock[n], mtx_recurse[n])
      BY <2>0, <3>1 DEF MutexInv, WordTypeOK
    <3> QED
      BY <3>2, AbstractState DEF absVars
  <2> QED
    BY <1>1, <2>1, <2>2 DEF MtxDestroy
<1>2. CASE MtxInit(t, m)
  <2>1. /\ mtx_lock[m] = MTX_DESTROYED /\ mtx_lock' = [mtx_lock EXCEPT ![m] = MTX_UNOWNED]
        /\ mtx_recurse' = [mtx_recurse EXCEPT ![m] = 0]
    BY <1>2 DEF MtxInit
  <2>2. /\ AbsOwner(mtx_lock'[m]) = AbsOwner(mtx_lock[m])
        /\ AbsDepth(mtx_lock'[m], mtx_recurse'[m]) = AbsDepth(mtx_lock[m], mtx_recurse[m])
    BY <2>1, MutexAssumption, TurnstileAssumption
    DEF AbsOwner, AbsDepth, MTX_UNOWNED, MTX_DESTROYED, Owned, MutexInv, WordTypeOK
  <2>3. \A n \in Mutex : /\ AbsOwner(mtx_lock'[n]) = AbsOwner(mtx_lock[n])
                         /\ AbsDepth(mtx_lock'[n], mtx_recurse'[n]) =
                              AbsDepth(mtx_lock[n], mtx_recurse[n])
    BY <2>1, <2>2 DEF MutexInv, WordTypeOK
  <2> QED
    BY <2>3, AbstractState DEF absVars
<1> QED
  BY <1>1, <1>2

\* For any number of threads and mutexes: the lock words and recursion counts
\* behave like the abstract mutex, in which only the owner recurses and releases.
THEOREM MutexRefinement == Spec => ImplementsMutex
<1>1. Init => Abstract!Init
  <2> SUFFICES ASSUME Init PROVE Abstract!Init
    OBVIOUS
  <2>1. \A n \in Mutex : AbsOwner(mtx_lock[n]) = NULL /\ AbsDepth(mtx_lock[n], mtx_recurse[n]) = 0
    BY TurnstileAssumption DEF Init, AbsOwner, AbsDepth, MTX_UNOWNED, Owned
  <2> QED
    BY <2>1, AbstractState DEF Abstract!Init
<1>2. MutexInv /\ [Next]_vars => [Abstract!Next]_absVars
  <2> SUFFICES ASSUME MutexInv, [Next]_vars
               PROVE  Abstract!Next \/ UNCHANGED absVars
    OBVIOUS
  <2>1. CASE UNCHANGED vars
    BY <2>1, AbstractStutter DEF vars, mutexVars
  <2>2. ASSUME NEW t \in Thread, Step(t) PROVE Abstract!Next \/ UNCHANGED absVars
    <3>1. CASE Quiet(t)
      BY <3>1, AbstractStutter DEF Quiet
    <3> QED
      BY <2>2, <3>1, LockPathQuiet, AbstractLock, AbstractUnlock DEF Step
  <2>3. ASSUME NEW t \in Thread, Client(t) PROVE Abstract!Next \/ UNCHANGED absVars
    BY <2>3, AbstractLock, AbstractUnlock, AbstractLife DEF Client
  <2>4. ASSUME NEW t \in Thread,
               \/ \E td \in Thread, prio \in NewPri : SchedPrio(t, td, prio)
               \/ Preempt(t) \/ Dispatch(t)
        PROVE  UNCHANGED absVars
    BY <2>4, AbstractStutter DEF SchedPrio, Preempt, Dispatch, mutexVars
  <2> QED
    BY <2>1, <2>2, <2>3, <2>4 DEF Next
<1> QED
  BY <1>1, <1>2, MutexInvInit, MutexInvNext, PTL
  DEF Spec, ImplementsMutex, Abstract!Spec, absVars

-----------------------------------------------------------------------------
(***************************************************************************)
(* The contested path: waiters and owners agree on the turnstile, no       *)
(* wakeup is lost, and turnstiles are neither lost nor shared.             *)
(***************************************************************************)
\* The control points of mtx_lock() past its fast path; of the thread that has
\* looked for a turnstile and not joined it; of the thread that has taken the
\* waiters off a turnstile and not made them runnable.
LockPath  == {"obtain", "adaptive", "spin", "chain", "trywait", "check",
              "check_running", "contest", "wait", "block", "propagate", "blocked"}
Looking   == {"check", "check_running", "contest", "wait"}
Waking    == {"release", "unpend"}

\* The turnstile is in the hash table; the threads in its queue.
OnChain(ts) == \E c \in Chain : ts \in tc_turnstiles[c]
Waiting(ts) == ToSet(ts_blocked[ts][EX])

\* Thread u is waking the waiters of ts, or has made ts ready to be attached.
Releasing(u, ts) == pc[u] \in Waking /\ lts[u] = ts
Preparing(u, ts) == pc[u] \in Looking /\ lts[u] = ts /\ td_turnstile[u] = ts

\* Thread u has a turnstile that turnstile_wait() has not given away.
Spare(u) == td_turnstile[u] # NULL /\ pc[u] # "block"

\* Where thread t is, and the chain lock it has there.
ControlOf(t) ==
  /\ pc[t] = "idle" => cur[t] = NULL
  /\ pc[t] \notin {"idle", "propagate"} => cur[t] \in Mutex
  /\ pc[t] \in Chained => tc_lock[TC_HASH[cur[t]]] = t
  /\ pc[t] \in Locked => lts[t] \in Turnstiles
  /\ TD_ON_LOCK(t) => pc[t] \in {"propagate", "blocked"} /\ cur[t] \in Mutex
ControlInv == \A t \in Thread : ControlOf(t)

\* A word without an owner has no flags, and a contested mutex has a turnstile
\* or a thread that is about to attach one or has just taken it off.
MarkWord(m) ==
  /\ mtx_owner(m) \notin Thread => mtx_lock[m] \in {MTX_UNOWNED, MTX_DESTROYED}
  /\ mtx_lock[m].contested =>
       Attached(m) # {} \/ \E u \in Thread : cur[u] = m /\ pc[u] \in {"wait", "release"}

\* What thread t knows of the word of the mutex it is at: it waits for nothing
\* of its own, its copy of the word is of no use when it is out of date, and
\* MTX_CONTESTED does not go away under the chain lock.
MarkOf(t) ==
  /\ pc[t] \in LockPath /\ cur[t] \in Mutex => mtx_owner(cur[t]) \notin {t, DESTROYED}
  /\ pc[t] \in {"check_running", "contest"} =>
       /\ v[t] # MTX_UNOWNED
       /\ v[t].contested => mtx_lock[cur[t]].contested /\ mtx_owner(cur[t]) \in Thread
  /\ pc[t] = "wait" => mtx_lock[cur[t]].contested /\ mtx_owner(cur[t]) \in Thread
  /\ pc[t] = "unlock_sleep" => mtx_lock[cur[t]].contested \/ mtx_lock[cur[t]].recursed
  /\ pc[t] \in {"unlock_chain", "lookup", "release"} => mtx_lock[cur[t]].contested
MarkInv == (\A m \in Mutex : MarkWord(m)) /\ \A t \in Thread : MarkOf(t)

\* A turnstile in the hash table belongs to a contested mutex in its chain, has
\* the mutex's owner, and has one waiter more than turnstiles on its free list.
AttachedOf(ts, c) ==
  /\ ts_lockobj[ts] \in Mutex /\ TC_HASH[ts_lockobj[ts]] = c
  /\ ts_owner[ts] \in Thread
  /\ mtx_owner(ts_lockobj[ts]) = ts_owner[ts]
  /\ mtx_lock[ts_lockobj[ts]].contested
  /\ ts_pending[ts] = <<>>
  /\ Len(ts_blocked[ts][EX]) = Len(ts_free[ts]) + 1
AttachedInv == \A c \in Chain : \A ts \in tc_turnstiles[c] : AttachedOf(ts, c)

\* A mutex has at most one turnstile.
OneAttached == \A m \in Mutex : \A x, y \in Attached(m) : x = y

\* A turnstile that is not in the hash table is clean, but for what the thread
\* that is waking its waiters, or is about to attach it, has put there.
DetachedOf(ts) ==
  /\ ts_blocked[ts][EX] = <<>>
  /\ ts_free[ts] = <<>>
  /\ ts_owner[ts] # NULL => \E u \in Thread : Releasing(u, ts)
  /\ ts_pending[ts] # <<>> => \E u \in Thread : Releasing(u, ts)
  /\ ts_lockobj[ts] # NULL => \E u \in Thread : Releasing(u, ts) \/ Preparing(u, ts)
DetachedInv == \A ts \in Turnstiles : ~OnChain(ts) => DetachedOf(ts)

\* The threads on the lists of a turnstile are on its lists: queued threads have
\* given their turnstile away, pending threads have been given one.
QueueOf(ts) ==
  /\ ts_blocked[ts][TS_SHARED_QUEUE] = <<>>
  /\ Injective(ts_blocked[ts][EX]) /\ Injective(ts_pending[ts])
  /\ \A t \in Waiting(ts) :
       \/ pc[t] = "block" /\ lts[t] = ts
       \/ /\ TD_ON_LOCK(t) /\ td_blocked[t] = ts /\ cur[t] = ts_lockobj[ts]
          /\ td_turnstile[t] = NULL
  /\ \A t \in ToSet(ts_pending[ts]) :
       TD_ON_LOCK(t) /\ td_blocked[t] = ts /\ td_turnstile[t] # NULL
QueueInv == \A ts \in Turnstiles : QueueOf(ts)

\* What thread t finds in the turnstile that it works on or waits in.
LockedOf(t) ==
  /\ pc[t] \in Looking =>
       \/ /\ lts[t] = td_turnstile[t] /\ Attached(cur[t]) = {}
          /\ ts_lockobj[lts[t]] = cur[t]
       \/ lts[t] \in Attached(cur[t]) /\ lts[t] # td_turnstile[t]
  /\ pc[t] = "block" => lts[t] \in Attached(cur[t]) /\ t \in Waiting(lts[t])
  /\ pc[t] \in Waking =>
       /\ Attached(cur[t]) = {} /\ ts_lockobj[lts[t]] = cur[t]
       /\ ~OnChain(lts[t]) /\ ts_owner[lts[t]] = t
       /\ \E w \in ToSet(ts_pending[lts[t]]) : td_turnstile[w] = lts[t]
  /\ TD_ON_LOCK(t) =>
       /\ td_blocked[t] \in Turnstiles
       /\ t \in Waiting(td_blocked[t]) \/ t \in ToSet(ts_pending[td_blocked[t]])
  /\ td_turnstile[t] = NULL => TD_ON_LOCK(t) /\ t \in Waiting(td_blocked[t])
LockedInv == \A t \in Thread : LockedOf(t)

\* No turnstile is in two places, and none is lost.
PlaceInv ==
  /\ \A u, w \in Thread :
       Spare(u) /\ Spare(w) /\ td_turnstile[u] = td_turnstile[w] => u = w
  /\ \A u \in Thread : Spare(u) => ~OnChain(td_turnstile[u])
  /\ \A u \in Thread, x \in Turnstiles :
       Spare(u) => td_turnstile[u] \notin ToSet(ts_free[x])
  /\ \A x, y \in Turnstiles : OnChain(x) => x \notin ToSet(ts_free[y])
  /\ \A x, y \in Turnstiles : \A i \in DOMAIN ts_free[x], j \in DOMAIN ts_free[y] :
       ts_free[x][i] = ts_free[y][j] => x = y /\ i = j
  /\ \A ts \in Turnstiles :
       \/ OnChain(ts)
       \/ \E u \in Thread : Spare(u) /\ td_turnstile[u] = ts
       \/ \E x \in Turnstiles : ts \in ToSet(ts_free[x])

\* The inductive invariant of the contested path.
TsInv ==
  /\ TurnstileTypeOK /\ lts \in [Thread -> Turnstiles \cup {NULL}]
  /\ ControlInv /\ MarkInv /\ AttachedInv /\ OneAttached
  /\ DetachedInv /\ QueueInv /\ LockedInv /\ PlaceInv
FullInv == MutexInv /\ TsInv

USE DEF Mutex, Turnstiles

\* The hash table starts empty and every thread with a turnstile of its own.
LEMMA TsInvInit == Init => TsInv
<1> SUFFICES ASSUME Init PROVE TsInv
  OBVIOUS
<1> USE TurnstileAssumption, MutexAssumption DEF Init, TurnstileInit
<1>0. \A c \in Chain : tc_turnstiles[c] = {}
  OBVIOUS
<1>1. TurnstileTypeOK /\ lts \in [Thread -> Turnstiles \cup {NULL}]
  BY DEF TurnstileTypeOK, Queue, TS_EXCLUSIVE_QUEUE, TS_SHARED_QUEUE, Priority
<1>2. ControlInv
  BY DEF ControlInv, ControlOf, Chained, Locked, TD_ON_LOCK
<1>3. MarkInv
  BY DEF MarkInv, MarkWord, MarkOf, LockPath, mtx_owner, MTX_UNOWNED, Owned
<1>4. AttachedInv /\ OneAttached
  BY DEF AttachedInv, OneAttached, Attached
<1>5. DetachedInv /\ QueueInv
  <2>1. \A ts \in Turnstiles :
          ts_blocked[ts][EX] = <<>> /\ ts_blocked[ts][TS_SHARED_QUEUE] = <<>>
    BY DEF EX, Queue
  <2>2. Injective(<<>>) /\ ToSet(<<>>) = {}
    BY DEF Injective, ToSet
  <2> QED
    BY <2>1, <2>2 DEF DetachedInv, DetachedOf, QueueInv, QueueOf, Waiting
<1>6. LockedInv
  BY DEF LockedInv, LockedOf, Looking, Waking, TD_ON_LOCK
<1>7. PlaceInv
  <2>1. \A ts \in Turnstiles : ts_free[ts] = <<>> /\ ToSet(ts_free[ts]) = {}
    BY DEF ToSet
  <2>2. \A ts \in Turnstiles : ~OnChain(ts)
    BY <1>0 DEF OnChain
  <2>3. \A u \in Thread : Spare(u) /\ td_turnstile[u] = u
    BY DEF Spare
  <2> QED
    BY <2>1, <2>2, <2>3 DEF PlaceInv
<1> QED
  BY <1>1, <1>2, <1>3, <1>4, <1>5, <1>6, <1>7 DEF TsInv

-----------------------------------------------------------------------------
\* A step of t moves no other thread.
Others(t) ==
  \A u \in Thread \ {t} :
    pc'[u] = pc[u] /\ cur'[u] = cur[u] /\ lts'[u] = lts[u] /\ v'[u] = v[u]

\* A step of t takes no chain lock away, and blocks no other thread.
ChainKept(t) ==
  /\ \A c \in Chain : tc_lock[c] \notin {t, NULL} => tc_lock'[c] = tc_lock[c]
  /\ \A u \in Thread \ {t} : TD_ON_LOCK(u)' => TD_ON_LOCK(u)

\* The control part, for the other threads.
LEMMA ControlStep ==
  ASSUME FullInv, NEW t \in Thread, Others(t), ChainKept(t), ControlOf(t)'
  PROVE  ControlInv'
<1> SUFFICES ASSUME NEW u \in Thread \ {t} PROVE ControlOf(u)'
  BY DEF ControlInv
<1>1. /\ pc'[u] = pc[u] /\ cur'[u] = cur[u] /\ lts'[u] = lts[u]
      /\ TD_ON_LOCK(u)' => TD_ON_LOCK(u)
  BY DEF Others, ChainKept
<1>2. ControlOf(u)
  BY DEF FullInv, TsInv, ControlInv
<1>3. pc[u] \in Chained => /\ cur[u] \in Mutex /\ TC_HASH[cur[u]] \in Chain
                           /\ tc_lock[TC_HASH[cur[u]]] = u
  BY <1>2, TurnstileAssumption DEF ControlOf, Chained, Locked
<1>4. u \notin {t, NULL}
  BY TurnstileAssumption
<1>5. pc[u] \in Chained => tc_lock'[TC_HASH[cur[u]]] = u
  BY <1>3, <1>4 DEF ChainKept
<1> QED
  BY <1>1, <1>2, <1>5 DEF ControlOf

\* The chain lock is held by one thread.
LEMMA OneInChain ==
  ASSUME FullInv, NEW t \in Thread, NEW u \in Thread, pc[t] \in Chained,
         pc[u] \in Chained, TC_HASH[cur[t]] = TC_HASH[cur[u]]
  PROVE  t = u
BY DEF FullInv, TsInv, ControlInv, ControlOf

\* Steps that leave the lock words alone.
LEMMA WordsAloneStep ==
  ASSUME FullInv, NEW t \in Thread, Others(t), UNCHANGED mtx_lock, MarkOf(t)',
         \A m \in Mutex :
           (Attached(m) # {} \/ (cur[t] = m /\ pc[t] \in {"wait", "release"})) =>
             \/ Attached(m)' # {}
             \/ cur'[t] = m /\ pc'[t] \in {"wait", "release"}
  PROVE  MarkInv'
<1>1. ASSUME NEW u \in Thread \ {t} PROVE MarkOf(u)'
  BY DEF FullInv, TsInv, MarkInv, MarkOf, Others, mtx_owner
<1>2. ASSUME NEW m \in Mutex PROVE MarkWord(m)'
  <2>1. MarkWord(m)
    BY DEF FullInv, TsInv, MarkInv
  <2>2. ASSUME mtx_lock[m].contested
        PROVE  \/ Attached(m)' # {}
               \/ \E u \in Thread : cur'[u] = m /\ pc'[u] \in {"wait", "release"}
    <3>1. CASE Attached(m) # {}
      BY <3>1
    <3>2. CASE \E u \in Thread : cur[u] = m /\ pc[u] \in {"wait", "release"}
      <4>1. PICK u \in Thread : cur[u] = m /\ pc[u] \in {"wait", "release"}
        BY <3>2
      <4>2. CASE u = t
        BY <4>1, <4>2
      <4>3. CASE u # t
        BY <4>1, <4>3 DEF Others
      <4> QED
        BY <4>2, <4>3
    <3> QED
      BY <2>1, <2>2, <3>1, <3>2 DEF MarkWord
  <2> QED
    BY <2>1, <2>2 DEF MarkWord, mtx_owner
<1> QED
  BY <1>1, <1>2 DEF MarkInv

-----------------------------------------------------------------------------
\* A step of t that changes neither the hash table nor a list, and does not
\* enter or leave the part of a call in which t works on a turnstile.
Plain(t) ==
  /\ UNCHANGED <<tc_turnstiles, queueVars>>
  /\ Others(t)
  /\ ~TD_ON_LOCK(t)
  /\ \A u \in Thread : TD_ON_LOCK(u)' <=> TD_ON_LOCK(u)
  /\ pc'[t] \in Looking <=> pc[t] \in Looking
  /\ pc'[t] = "block" <=> pc[t] = "block"
  /\ pc'[t] \in Waking <=> pc[t] \in Waking
  /\ pc[t] \in Locked => cur'[t] = cur[t] /\ lts'[t] = lts[t]

\* What a plain step keeps.
LEMMA PlainStep ==
  ASSUME FullInv, NEW t \in Thread, Plain(t)
  PROVE  /\ OneAttached' /\ DetachedInv' /\ QueueInv' /\ LockedInv' /\ PlaceInv'
         /\ \A m \in Mutex : Attached(m)' = Attached(m)
<1> USE DEF FullInv, TsInv, Plain, queueVars
<1>1. \A m \in Mutex : Attached(m)' = Attached(m)
  BY DEF Attached
<1>2. \A x \in Turnstiles : (OnChain(x)' <=> OnChain(x)) /\ Waiting(x)' = Waiting(x)
  BY DEF OnChain, Waiting
<1>3. \A u \in Thread : /\ pc'[u] \in Looking <=> pc[u] \in Looking
                        /\ pc'[u] = "block" <=> pc[u] = "block"
                        /\ pc'[u] \in Waking <=> pc[u] \in Waking
                        /\ pc[u] \in Locked => cur'[u] = cur[u] /\ lts'[u] = lts[u]
                        /\ TD_ON_LOCK(u) => cur'[u] = cur[u]
  BY DEF Others
<1>4. OneAttached'
  BY <1>1 DEF OneAttached
<1>5. \A u \in Thread, x \in Turnstiles : /\ Releasing(u, x)' <=> Releasing(u, x)
                                          /\ Preparing(u, x)' <=> Preparing(u, x)
  BY <1>3 DEF Releasing, Preparing, Looking, Waking, Locked
<1>6. DetachedInv'
  BY <1>2, <1>5 DEF DetachedInv, DetachedOf
<1>7. QueueInv'
  <2> SUFFICES ASSUME NEW x \in Turnstiles PROVE QueueOf(x)'
    BY DEF QueueInv
  <2>1. QueueOf(x)
    BY DEF QueueInv
  <2>2. Waiting(x) \subseteq Thread /\ ToSet(ts_pending[x]) \subseteq Thread
    BY SetOfSeq DEF TurnstileTypeOK, Waiting, Queue, EX
  <2> QED
    BY <2>1, <2>2, <1>2, <1>3 DEF QueueOf, Locked
<1>8. LockedInv'
  <2> SUFFICES ASSUME NEW u \in Thread PROVE LockedOf(u)'
    BY DEF LockedInv
  <2>1. LockedOf(u)
    BY DEF LockedInv
  <2>2. pc[u] \in Looking \cup Waking \cup {"block"} =>
          cur[u] \in Mutex /\ lts[u] \in Turnstiles
    BY DEF ControlInv, ControlOf, Looking, Waking, Locked
  <2>3. pc[u] \in Looking \cup Waking \cup {"block"} => pc[u] \in Locked
    BY DEF Looking, Waking, Locked
  <2> QED
    BY <2>1, <2>2, <2>3, <1>1, <1>2, <1>3 DEF LockedOf
<1>9. PlaceInv'
  <2>1. \A u \in Thread : Spare(u)' <=> Spare(u)
    BY <1>3 DEF Spare
  <2>2. PlaceInv /\ td_turnstile \in [Thread -> Turnstiles \cup {NULL}]
    BY DEF TurnstileTypeOK
  <2>3. td_turnstile' = td_turnstile /\ ts_free' = ts_free
    OBVIOUS
  <2>4. \A u \in Thread : Spare(u) => td_turnstile[u] \in Turnstiles
    BY <2>2 DEF Spare
  <2> QED
    BY <2>1, <2>2, <2>3, <2>4, <1>2 DEF PlaceInv
<1> QED
  BY <1>1, <1>4, <1>6, <1>7, <1>8, <1>9

\* A plain step keeps the types of the turnstiles.
PlainTypes ==
  /\ UNCHANGED <<ts_lock, priVars>>
  /\ tc_lock' \in [Chain -> Thread \cup {NULL}]
  /\ td_state' \in [Thread -> {"running", "runq", "lock"}]
  /\ lts' \in [Thread -> Turnstiles \cup {NULL}]

\* A plain step that changes the word of at most one mutex m, to one that still
\* names the owner and the contention when m has a turnstile.
LEMMA PlainInv ==
  ASSUME FullInv, NEW t \in Thread, Plain(t), PlainTypes, ChainKept(t),
         ControlOf(t)', MarkInv',
         \A m \in Mutex : Attached(m) # {} =>
           mtx_lock'[m].contested /\ mtx_owner(m)' = mtx_owner(m)
  PROVE  TsInv'
<1>1. TurnstileTypeOK'
  BY DEF FullInv, TsInv, TurnstileTypeOK, PlainTypes, Plain, queueVars, priVars
<1>2. ControlInv'
  BY ControlStep DEF Plain
<1>3. AttachedInv'
  <2> SUFFICES ASSUME NEW c \in Chain, NEW ts \in tc_turnstiles'[c]
               PROVE  AttachedOf(ts, c)'
    BY DEF AttachedInv
  <2>1. ts \in tc_turnstiles[c] /\ AttachedOf(ts, c)
    BY DEF FullInv, TsInv, AttachedInv, Plain
  <2>2. ts \in Attached(ts_lockobj[ts])
    BY <2>1 DEF AttachedOf, Attached
  <2> QED
    BY <2>1, <2>2 DEF AttachedOf, Plain, queueVars
<1> QED
  BY <1>1, <1>2, <1>3, PlainStep DEF TsInv, PlainTypes

\* A plain step that leaves the lock words alone.
LEMMA QuietPlain ==
  ASSUME FullInv, NEW t \in Thread, Plain(t), PlainTypes, ChainKept(t),
         ControlOf(t)', MarkOf(t)', UNCHANGED mtx_lock,
         pc[t] \in {"wait", "release"} => pc'[t] = pc[t] /\ cur'[t] = cur[t]
  PROVE  TsInv'
<1>0. \A m \in Mutex : Attached(m)' = Attached(m)
  BY PlainStep
<1>1. MarkInv'
  <2>1. \A m \in Mutex :
          (Attached(m) # {} \/ (cur[t] = m /\ pc[t] \in {"wait", "release"})) =>
             \/ Attached(m)' # {}
             \/ (cur'[t] = m /\ pc'[t] \in {"wait", "release"})
    BY <1>0
  <2> QED
    BY <2>1, WordsAloneStep DEF Plain
<1>2. ASSUME NEW m \in Mutex, Attached(m) # {}
      PROVE  mtx_lock'[m].contested /\ mtx_owner(m)' = mtx_owner(m)
  <2>1. PICK ts \in tc_turnstiles[TC_HASH[m]] : ts_lockobj[ts] = m
    BY <1>2 DEF Attached
  <2>2. TC_HASH[m] \in Chain
    BY TurnstileAssumption
  <2> QED
    BY <2>1, <2>2 DEF FullInv, TsInv, AttachedInv, AttachedOf, mtx_owner
<1> QED
  BY <1>1, <1>2, PlainInv

\* A plain step that stores w in the word of m.
LEMMA WordPlain ==
  ASSUME FullInv, NEW t \in Thread, Plain(t), PlainTypes, ChainKept(t),
         ControlOf(t)', MarkOf(t)',
         NEW m \in Mutex, NEW w \in Word, mtx_lock' = [mtx_lock EXCEPT ![m] = w],
         Attached(m) # {} => w.contested /\ w.owner = mtx_owner(m),
         MarkWord(m)', \A u \in Thread \ {t} : cur[u] = m => MarkOf(u)',
         pc[t] \in {"wait", "release"} => cur[t] = m
  PROVE  TsInv'
<1>0. mtx_lock \in [Mutex -> Word] /\ \A n \in Mutex : Attached(n)' = Attached(n)
  BY PlainStep DEF FullInv, MutexInv, WordTypeOK
<1>1. mtx_lock'[m] = w /\ \A n \in Mutex \ {m} : mtx_lock'[n] = mtx_lock[n]
  BY <1>0
<1>2. ASSUME NEW n \in Mutex, Attached(n) # {}
      PROVE  mtx_lock'[n].contested /\ mtx_owner(n)' = mtx_owner(n)
  <2>1. PICK ts \in tc_turnstiles[TC_HASH[n]] : ts_lockobj[ts] = n
    BY <1>2 DEF Attached
  <2>2. TC_HASH[n] \in Chain
    BY TurnstileAssumption
  <2>3. mtx_lock[n].contested
    BY <2>1, <2>2 DEF FullInv, TsInv, AttachedInv, AttachedOf, mtx_owner
  <2> QED
    BY <1>1, <1>2, <2>3 DEF mtx_owner
<1>3. ASSUME NEW u \in Thread \ {t} PROVE MarkOf(u)'
  <2>1. CASE cur[u] = m
    BY <2>1
  <2>2. CASE cur[u] # m
    <3>1. MarkOf(u) /\ ControlOf(u)
      BY DEF FullInv, TsInv, MarkInv, ControlInv
    <3>2. pc'[u] = pc[u] /\ cur'[u] = cur[u] /\ v'[u] = v[u]
      BY DEF Plain, Others
    <3>3. cur[u] \in Mutex => mtx_lock'[cur[u]] = mtx_lock[cur[u]]
      BY <2>2, <1>1
    <3> QED
      BY <3>1, <3>2, <3>3 DEF MarkOf, mtx_owner, ControlOf
  <2> QED
    BY <2>1, <2>2
<1>4. ASSUME NEW n \in Mutex \ {m} PROVE MarkWord(n)'
  <2>1. MarkWord(n) /\ mtx_lock'[n] = mtx_lock[n] /\ Attached(n)' = Attached(n)
    BY <1>0, <1>1 DEF FullInv, TsInv, MarkInv
  <2>2. ASSUME NEW u \in Thread, cur[u] = n, pc[u] \in {"wait", "release"}
        PROVE  cur'[u] = n /\ pc'[u] \in {"wait", "release"}
    BY <2>2 DEF Plain, Others
  <2> QED
    BY <2>1, <2>2 DEF MarkWord, mtx_owner
<1>5. MarkInv'
  BY <1>3, <1>4 DEF MarkInv
<1> QED
  BY <1>2, <1>5, PlainInv

\* The steps of mtx_lock() that change neither a word nor a turnstile, and the
\* scheduler's.
LEMMA QuietSteps ==
  ASSUME FullInv, NEW t \in Thread,
         \/ Adaptive(t) \/ Spin(t) \/ TrywaitChain(t) \/ Woken(t) \/ UnlockChain(t)
         \/ Preempt(t) \/ Dispatch(t)
  PROVE  TsInv'
<1>0. /\ ControlOf(t) /\ MarkOf(t) /\ pc \in [Thread -> Points]
      /\ tc_lock \in [Chain -> Thread \cup {NULL}]
      /\ td_state \in [Thread -> {"running", "runq", "lock"}]
      /\ lts \in [Thread -> Turnstiles \cup {NULL}]
      /\ TC_HASH \in [Mutex -> Chain]
      /\ cur \in [Thread -> Mutex \cup {NULL}] /\ v \in [Thread -> Word]
  BY TurnstileAssumption DEF FullInv, MutexInv, WordTypeOK, TsInv, ControlInv,
                             MarkInv, TurnstileTypeOK
<1> USE DEF Goto, TD_IS_RUNNING, mutexVars, localVars, turnstileVars, chainVars
<1>1. CASE Adaptive(t)
  <2>1. Plain(t) /\ PlainTypes /\ ChainKept(t)
    BY <1>0, <1>1 DEF Adaptive, Plain, PlainTypes, ChainKept, Others, TD_ON_LOCK,
                      Looking, Waking, Locked
  <2>2. ControlOf(t)' /\ MarkOf(t)'
    BY <1>0, <1>1 DEF Adaptive, ControlOf, MarkOf, LockPath, Chained, Locked,
                      TD_ON_LOCK, mtx_owner
  <2> QED
    BY <1>1, <2>1, <2>2, QuietPlain DEF Adaptive
<1>2. CASE Spin(t)
  <2>1. Plain(t) /\ PlainTypes /\ ChainKept(t)
    BY <1>0, <1>2 DEF Spin, Plain, PlainTypes, ChainKept, Others, TD_ON_LOCK,
                      Looking, Waking, Locked
  <2>2. ControlOf(t)' /\ MarkOf(t)'
    BY <1>0, <1>2 DEF Spin, ControlOf, MarkOf, LockPath, Chained, Locked,
                      TD_ON_LOCK, mtx_owner
  <2> QED
    BY <1>2, <2>1, <2>2, QuietPlain DEF Spin
<1>3. CASE TrywaitChain(t)
  <2>1. Plain(t) /\ PlainTypes /\ ChainKept(t)
    BY <1>0, <1>3 DEF TrywaitChain, turnstile_chain_lock, Plain, PlainTypes,
                      ChainKept, Others, TD_ON_LOCK, Looking, Waking, Locked
  <2>2. ControlOf(t)' /\ MarkOf(t)'
    BY <1>0, <1>3 DEF TrywaitChain, turnstile_chain_lock, ControlOf, MarkOf,
                      LockPath, Chained, Locked, TD_ON_LOCK, mtx_owner
  <2> QED
    BY <1>3, <2>1, <2>2, QuietPlain DEF TrywaitChain
<1>4. CASE Woken(t)
  <2>1. Plain(t) /\ PlainTypes /\ ChainKept(t)
    BY <1>0, <1>4 DEF Woken, Plain, PlainTypes, ChainKept, Others, TD_ON_LOCK,
                      Looking, Waking, Locked
  <2>2. ControlOf(t)' /\ MarkOf(t)'
    BY <1>0, <1>4 DEF Woken, ControlOf, MarkOf, LockPath, Chained, Locked,
                      TD_ON_LOCK, mtx_owner
  <2> QED
    BY <1>4, <2>1, <2>2, QuietPlain DEF Woken
<1>5. CASE UnlockChain(t)
  <2>1. Plain(t) /\ PlainTypes /\ ChainKept(t)
    BY <1>0, <1>5 DEF UnlockChain, turnstile_chain_lock, Plain, PlainTypes,
                      ChainKept, Others, TD_ON_LOCK, Looking, Waking, Locked
  <2>2. ControlOf(t)' /\ MarkOf(t)'
    BY <1>0, <1>5 DEF UnlockChain, turnstile_chain_lock, ControlOf, MarkOf,
                      LockPath, Chained, Locked, TD_ON_LOCK, mtx_owner
  <2> QED
    BY <1>5, <2>1, <2>2, QuietPlain DEF UnlockChain
<1>6. CASE Preempt(t) \/ Dispatch(t)
  <2>1. Plain(t) /\ PlainTypes /\ ChainKept(t)
    BY <1>0, <1>6 DEF Preempt, Dispatch, Plain, PlainTypes, ChainKept, Others,
                      TD_ON_LOCK
  <2>2. ControlOf(t)' /\ MarkOf(t)'
    BY <1>0, <1>6 DEF Preempt, Dispatch, ControlOf, MarkOf, TD_ON_LOCK, mtx_owner
  <2> QED
    BY <1>6, <2>1, <2>2, QuietPlain DEF Preempt, Dispatch
<1> QED
  BY <1>1, <1>2, <1>3, <1>4, <1>5, <1>6

\* The facts about a running thread that the steps below need.
LEMMA OwnFacts ==
  ASSUME FullInv, NEW t \in Thread
  PROVE  /\ ControlOf(t) /\ MarkOf(t) /\ LockedOf(t) /\ pc \in [Thread -> Points]
         /\ tc_lock \in [Chain -> Thread \cup {NULL}]
         /\ td_state \in [Thread -> {"running", "runq", "lock"}]
         /\ lts \in [Thread -> Turnstiles \cup {NULL}]
         /\ TC_HASH \in [Mutex -> Chain]
         /\ mtx_lock \in [Mutex -> Word]
         /\ cur \in [Thread -> Mutex \cup {NULL}] /\ v \in [Thread -> Word]
         /\ \A m \in Mutex : MarkWord(m)
BY TurnstileAssumption
DEF FullInv, MutexInv, WordTypeOK, TsInv, ControlInv, MarkInv, LockedInv, TurnstileTypeOK

\* The steps of mtx_lock() under the chain lock that do not give up, the slow
\* path of mtx_lock() and mtx_unlock() being entered, and the tests.
LEMMA TestSteps ==
  ASSUME FullInv, NEW t \in Thread,
         \/ /\ mtx_lock[cur[t]] # MTX_UNOWNED
            /\ Goto(t, "check", "check_running")
            /\ v' = [v EXCEPT ![t] = mtx_lock[cur[t]]]
            /\ UNCHANGED <<turnstileVars, mutexVars, cur, lts, hold>>
         \/ /\ Goto(t, "check_running", "contest")
            /\ UNCHANGED <<turnstileVars, mutexVars, localVars, hold>>
         \/ /\ Goto(t, "contest", "wait")
            /\ v[t].contested
            /\ UNCHANGED <<turnstileVars, mutexVars, localVars, hold>>
         \/ /\ Goto(t, "obtain", "adaptive")
            /\ mtx_lock[cur[t]] # MTX_UNOWNED
            /\ UNCHANGED <<mtx_lock, localVars, hold>>
            /\ UNCHANGED <<turnstileVars, mtx_recurse>>
  PROVE  TsInv'
<1>1. Plain(t) /\ PlainTypes /\ ChainKept(t)
  BY OwnFacts DEF Plain, PlainTypes, ChainKept, Others, TD_ON_LOCK, Looking, Waking,
                  Locked,
     Goto, TD_IS_RUNNING, mutexVars, localVars, turnstileVars, chainVars
<1>2. ControlOf(t)'
  BY OwnFacts DEF ControlOf, Chained, Locked, TD_ON_LOCK,
     Goto, TD_IS_RUNNING, mutexVars, localVars, turnstileVars, chainVars
<1>3. MarkOf(t)'
  <2>0. cur[t] \in Mutex
    BY OwnFacts DEF ControlOf, Goto
  <2>1. MarkWord(cur[t])
    BY <2>0, OwnFacts
  <2>2. mtx_lock[cur[t]].contested => mtx_lock[cur[t]].owner \in Thread
    BY <2>1 DEF MarkWord, mtx_owner, MTX_UNOWNED, MTX_DESTROYED, Owned
  <2>3. /\ pc \in [Thread -> Points] /\ MarkOf(t) /\ v \in [Thread -> Word]
        /\ UNCHANGED <<cur, mtx_lock>>
    BY OwnFacts DEF localVars, mutexVars
  <2>4. CASE /\ mtx_lock[cur[t]] # MTX_UNOWNED /\ Goto(t, "check", "check_running")
             /\ v' = [v EXCEPT ![t] = mtx_lock[cur[t]]]
    BY <2>0, <2>2, <2>3, <2>4 DEF MarkOf, LockPath, mtx_owner, Goto
  <2>5. CASE Goto(t, "check_running", "contest") /\ UNCHANGED v
    BY <2>0, <2>3, <2>5 DEF MarkOf, LockPath, mtx_owner, Goto
  <2>6. CASE Goto(t, "contest", "wait") /\ v[t].contested
    BY <2>0, <2>3, <2>6 DEF MarkOf, LockPath, mtx_owner, Goto
  <2>7. CASE Goto(t, "obtain", "adaptive")
    BY <2>0, <2>3, <2>7 DEF MarkOf, LockPath, mtx_owner, Goto
  <2> QED
    BY <2>4, <2>5, <2>6, <2>7 DEF localVars
<1> QED
  BY <1>1, <1>2, <1>3, QuietPlain DEF mutexVars, Goto

\* The slow paths of mtx_lock() and mtx_unlock() are entered.
LEMMA EntrySteps ==
  ASSUME FullInv, NEW t \in Thread, NEW m \in Mutex,
         \/ /\ MayLock(t, m)
            /\ mtx_lock[m] # MTX_UNOWNED
            /\ ~mtx_owned(t, m)
            /\ Goto(t, "idle", "obtain")
         \/ /\ hold[t][m] > 0
            /\ mtx_lock[m] # Owned(t)
            /\ Goto(t, "idle", "unlock_sleep"),
         cur' = [cur EXCEPT ![t] = m],
         UNCHANGED <<turnstileVars, mtx_lock, v, lts>>
  PROVE  TsInv'
<1>1. Plain(t) /\ PlainTypes /\ ChainKept(t)
  BY OwnFacts DEF Plain, PlainTypes, ChainKept, Others, TD_ON_LOCK, Looking, Waking,
                  Locked,
     Goto, TD_IS_RUNNING, turnstileVars, chainVars
<1>2. ControlOf(t)'
  BY OwnFacts DEF ControlOf, Chained, Locked, TD_ON_LOCK,
     Goto, TD_IS_RUNNING, turnstileVars, chainVars
<1>3. MarkOf(t)'
  <2>1. CASE MayLock(t, m) /\ ~mtx_owned(t, m) /\ Goto(t, "idle", "obtain")
    BY <2>1, OwnFacts DEF MarkOf, LockPath, MayLock, mtx_owned, mtx_owner, Goto
  <2>2. CASE hold[t][m] > 0 /\ mtx_lock[m] # Owned(t) /\ Goto(t, "idle", "unlock_sleep")
    <3>1. mtx_lock[m].owner = t
      BY <2>2 DEF FullInv, MutexInv, MutualExclusion, mtx_owner
    <3>2. mtx_lock[m].contested \/ mtx_lock[m].recursed
      BY <2>2, <3>1, OwnFacts DEF Owned, Word
    <3> QED
      BY <2>2, <3>2, OwnFacts DEF MarkOf, LockPath, Goto
  <2> QED
    BY <2>1, <2>2
<1> QED
  BY <1>1, <1>2, <1>3, QuietPlain DEF Goto

\* mtx_unlock() goes on to the turnstile.
LEMMA UnlockTest ==
  ASSUME FullInv, NEW t \in Thread, ~mtx_recursed(cur[t]),
         Goto(t, "unlock_sleep", "unlock_chain"),
         UNCHANGED <<turnstileVars, mutexVars, localVars>>
  PROVE  TsInv'
<1> USE DEF Goto, TD_IS_RUNNING, mutexVars, localVars, turnstileVars, chainVars
<1>1. Plain(t) /\ PlainTypes /\ ChainKept(t)
  BY OwnFacts DEF Plain, PlainTypes, ChainKept, Others, TD_ON_LOCK, Looking, Waking,
                  Locked
<1>2. ControlOf(t)'
  BY OwnFacts DEF ControlOf, Chained, Locked, TD_ON_LOCK
<1>3. cur[t] \in Mutex
  BY OwnFacts DEF ControlOf
<1>4. mtx_lock[cur[t]].contested
  BY <1>3, OwnFacts DEF MarkOf, FullInv, MutexInv, RecursionAccounted
<1>5. MarkOf(t)'
  BY <1>4, OwnFacts DEF MarkOf, LockPath
<1> QED
  BY <1>1, <1>2, <1>5, QuietPlain

-----------------------------------------------------------------------------
\* What is known of the turnstile of a mutex.
LEMMA AttachedFacts ==
  ASSUME FullInv, NEW m \in Mutex, NEW ts \in Attached(m)
  PROVE  /\ ts \in Turnstiles /\ TC_HASH[m] \in Chain /\ ts \in tc_turnstiles[TC_HASH[m]]
         /\ OnChain(ts) /\ ts_lockobj[ts] = m /\ AttachedOf(ts, TC_HASH[m])
         /\ mtx_lock[m].contested /\ mtx_owner(m) \in Thread /\ ts_owner[ts] = mtx_owner(m)
         /\ ts_blocked[ts][EX] \in Seq(Thread)
         /\ Len(ts_blocked[ts][EX]) \in Nat /\ Len(ts_free[ts]) \in Nat
         /\ Len(ts_blocked[ts][EX]) = Len(ts_free[ts]) + 1
<1>1. ts \in tc_turnstiles[TC_HASH[m]] /\ ts_lockobj[ts] = m /\ TC_HASH[m] \in Chain
  BY TurnstileAssumption DEF Attached
<1>2. AttachedOf(ts, TC_HASH[m])
  BY <1>1 DEF FullInv, TsInv, AttachedInv
<1>3. ts \in Turnstiles
  BY <1>1 DEF FullInv, TsInv, TurnstileTypeOK
<1>4. ts_blocked[ts][EX] \in Seq(Thread) /\ ts_free[ts] \in Seq(Turnstiles)
  BY <1>3 DEF FullInv, TsInv, TurnstileTypeOK, Queue, EX
<1>5. Len(ts_blocked[ts][EX]) \in Nat /\ Len(ts_free[ts]) \in Nat
  BY <1>4, LenProperties
<1> QED
  BY <1>1, <1>2, <1>3, <1>4, <1>5 DEF OnChain, AttachedOf

\* A call returns, or a client does something that is not a call of its own.
LEMMA ReturnStep ==
  ASSUME FullInv, NEW t \in Thread, UNCHANGED turnstileVars,
         \/ Goto(t, "idle", "idle") /\ UNCHANGED localVars
         \/ Goto(t, "obtain", "idle") /\ Return(t)
         \/ Goto(t, "unlock_sleep", "idle") /\ Return(t)
  PROVE  /\ Plain(t) /\ PlainTypes /\ ChainKept(t) /\ ControlOf(t)' /\ MarkOf(t)'
         /\ pc[t] \notin {"wait", "release"}
<1> USE OwnFacts DEF Goto, TD_IS_RUNNING, localVars, turnstileVars, chainVars, Return
<1>1. Plain(t) /\ PlainTypes /\ ChainKept(t)
  BY DEF Plain, PlainTypes, ChainKept, Others, TD_ON_LOCK, Looking, Waking, Locked
<1>2. ControlOf(t)'
  BY DEF ControlOf, Chained, Locked, TD_ON_LOCK
<1>3. MarkOf(t)'
  BY DEF MarkOf, LockPath
<1> QED
  BY <1>1, <1>2, <1>3

\* Taking a free mutex.
LEMMA TakeStep ==
  ASSUME FullInv, NEW t \in Thread, NEW m \in Mutex, _obtain_lock(t, m),
         UNCHANGED turnstileVars,
         \/ Goto(t, "idle", "idle") /\ UNCHANGED localVars
         \/ Goto(t, "obtain", "idle") /\ Return(t)
  PROVE  TsInv'
<1>0. /\ mtx_lock[m] = MTX_UNOWNED /\ ~mtx_lock[m].contested /\ ~mtx_lock[m].recursed
      /\ mtx_owner(m) = NULL /\ mtx_owner(m) \notin Thread
      /\ mtx_lock' = [mtx_lock EXCEPT ![m] = Owned(t)] /\ Owned(t) \in Word
      /\ mtx_lock'[m] = Owned(t)
  BY TurnstileAssumption, WordFacts, OwnFacts
     DEF _obtain_lock, MTX_UNOWNED, Owned, mtx_owner
<1>1. Attached(m) = {}
  BY <1>0, AttachedFacts
<1>2. /\ Plain(t) /\ PlainTypes /\ ChainKept(t) /\ ControlOf(t)' /\ MarkOf(t)'
      /\ pc[t] \notin {"wait", "release"}
  BY ReturnStep
<1>3. MarkWord(m)'
  BY <1>0 DEF MarkWord, mtx_owner, Owned
<1>4. ASSUME NEW u \in Thread \ {t}, cur[u] = m PROVE MarkOf(u)'
  <2>1. MarkOf(u) /\ pc'[u] = pc[u] /\ cur'[u] = m /\ v'[u] = v[u]
    BY <1>2, <1>4, OwnFacts DEF Plain, Others
  <2>2. t \notin {u, DESTROYED}
    BY MutexAssumption
  <2> QED
    BY <1>0, <1>4, <2>1, <2>2 DEF MarkOf, mtx_owner, Owned
<1> QED
  BY <1>0, <1>1, <1>2, <1>3, <1>4, WordPlain

\* A step of the owner, or of a thread that marks the mutex, that leaves the
\* owner alone and MTX_CONTESTED set when it was.
LEMMA FlagStep ==
  ASSUME FullInv, NEW t \in Thread, NEW m \in Mutex, NEW w \in Word,
         Plain(t), PlainTypes, ChainKept(t), ControlOf(t)', MarkOf(t)',
         mtx_lock' = [mtx_lock EXCEPT ![m] = w],
         w.owner = mtx_owner(m), mtx_owner(m) \in Thread,
         w.contested => \/ mtx_lock[m].contested
                        \/ cur'[t] = m /\ pc'[t] = "wait",
         mtx_lock[m].contested => w.contested,
         w.recursed = mtx_lock[m].recursed \/ mtx_owner(m) = t,
         pc[t] \notin {"wait", "release"}
  PROVE  TsInv'
<1>0. mtx_lock'[m] = w /\ MarkWord(m)
  BY OwnFacts
<1>1. Attached(m) # {} => w.contested /\ w.owner = mtx_owner(m)
  BY AttachedFacts
<1>2. MarkWord(m)'
  <2>1. Attached(m)' = Attached(m)
    BY PlainStep
  <2>2. ASSUME w.contested
        PROVE  \/ Attached(m)' # {}
               \/ \E u \in Thread : cur'[u] = m /\ pc'[u] \in {"wait", "release"}
    <3>1. CASE mtx_lock[m].contested
      <4>1. CASE Attached(m) # {}
        BY <2>1, <4>1
      <4>2. CASE \E u \in Thread : cur[u] = m /\ pc[u] \in {"wait", "release"}
        <5>1. PICK u \in Thread : cur[u] = m /\ pc[u] \in {"wait", "release"}
          BY <4>2
        <5>2. cur'[u] = m /\ pc'[u] \in {"wait", "release"}
          BY <5>1 DEF Plain, Others
        <5> QED
          BY <5>2
      <4> QED
        BY <1>0, <3>1, <4>1, <4>2 DEF MarkWord
    <3>2. CASE cur'[t] = m /\ pc'[t] = "wait"
      BY <3>2
    <3> QED
      BY <2>2, <3>1, <3>2
  <2> QED
    BY <1>0, <2>2 DEF MarkWord, mtx_owner
<1>3. ASSUME NEW u \in Thread \ {t}, cur[u] = m PROVE MarkOf(u)'
  <2>1. MarkOf(u) /\ pc'[u] = pc[u] /\ cur'[u] = m /\ v'[u] = v[u]
    BY <1>3, OwnFacts DEF Plain, Others
  <2>2. pc[u] \in {"unlock_sleep", "unlock_chain", "lookup", "release"} => mtx_owner(m) = u
    BY <1>3 DEF FullInv, MutexInv, UnlockerOwns, Unlocking
  <2> QED
    BY <1>0, <1>3, <2>1, <2>2 DEF MarkOf, mtx_owner
<1> QED
  BY <1>0, <1>1, <1>2, <1>3, WordPlain

\* A word that says the mutex is contested is of a mutex with a turnstile, or of
\* one that another thread is at.
LEMMA ContestedBy ==
  ASSUME FullInv, NEW m \in Mutex, NEW ts \in Attached(m)
  PROVE  \E u \in Thread :
           cur[u] = m /\ pc[u] \in {"block", "propagate", "blocked"}
<1> DEFINE q == ts_blocked[ts][EX]
<1>1. q \in Seq(Thread) /\ Len(q) \in Nat /\ Len(q) >= 1 /\ ts \in Turnstiles
  BY AttachedFacts
<1>2. q[1] \in Thread /\ q[1] \in Waiting(ts)
  BY <1>1, SetOfSeq DEF Waiting
<1> DEFINE u == q[1]
<1>3. \/ pc[u] = "block" /\ lts[u] = ts
      \/ TD_ON_LOCK(u) /\ cur[u] = ts_lockobj[ts]
  BY <1>1, <1>2 DEF FullInv, TsInv, QueueInv, QueueOf
<1> HIDE DEF q
<1>4. CASE pc[u] = "block" /\ lts[u] = ts
  <2>1. ts \in Attached(cur[u])
    BY <1>2, <1>4, OwnFacts DEF LockedOf
  <2>2. ts_lockobj[ts] = cur[u] /\ ts_lockobj[ts] = m
    BY <2>1 DEF Attached
  <2> QED
    BY <1>2, <1>4, <2>2
<1>5. CASE TD_ON_LOCK(u) /\ cur[u] = ts_lockobj[ts]
  <2>1. pc[u] \in {"propagate", "blocked"}
    BY <1>2, <1>5, OwnFacts DEF ControlOf
  <2>2. ts_lockobj[ts] = m
    BY DEF Attached
  <2> QED
    BY <1>2, <1>5, <2>1, <2>2
<1> QED
  BY <1>3, <1>4, <1>5

\* A mutex becomes free, or is destroyed, when nobody depends on its word.
LEMMA FreeStep ==
  ASSUME FullInv, NEW t \in Thread, NEW m \in Mutex, NEW w \in {MTX_UNOWNED, MTX_DESTROYED},
         Plain(t), PlainTypes, ChainKept(t), ControlOf(t)', MarkOf(t)',
         mtx_lock' = [mtx_lock EXCEPT ![m] = w],
         Attached(m) = {}, pc[t] \in {"wait", "release"} => cur[t] = m,
         \A u \in Thread \ {t} : cur[u] = m =>
           /\ pc[u] \notin {"wait", "unlock_sleep", "unlock_chain", "lookup", "release"}
           /\ pc[u] \in {"check_running", "contest"} => ~v[u].contested
           /\ w = MTX_DESTROYED => pc[u] = "unpend"
  PROVE  TsInv'
<1>0. w \in Word /\ mtx_lock'[m] = w /\ ~w.contested /\ w.owner \in {NULL, DESTROYED}
  <2>1. mtx_lock \in [Mutex -> Word]
    BY OwnFacts
  <2>2. w \in Word
    BY WordFacts
  <2>3. ~w.contested /\ w.owner \in {NULL, DESTROYED}
    BY DEF MTX_UNOWNED, MTX_DESTROYED, Owned
  <2> QED
    BY <2>1, <2>2, <2>3
<1>1. MarkWord(m)'
  BY <1>0 DEF MarkWord, mtx_owner
<1>2. ASSUME NEW u \in Thread \ {t}, cur[u] = m PROVE MarkOf(u)'
  <2>1. MarkOf(u) /\ pc'[u] = pc[u] /\ cur'[u] = m /\ v'[u] = v[u]
    BY <1>2, OwnFacts DEF Plain, Others
  <2>2. CASE w = MTX_DESTROYED
    BY <1>2, <2>1, <2>2 DEF MarkOf, LockPath
  <2>3. CASE w = MTX_UNOWNED
    <3>1. w.owner = NULL /\ NULL \notin {u, DESTROYED}
      BY <2>3, TurnstileAssumption, MutexAssumption DEF MTX_UNOWNED, Owned
    <3> QED
      BY <1>0, <1>2, <2>1, <3>1 DEF MarkOf, mtx_owner
  <2> QED
    BY <2>2, <2>3
<1> QED
  BY <1>0, <1>1, <1>2, WordPlain

\* mtx_lock() and mtx_trylock() from the outside.
LEMMA LockCalls ==
  ASSUME FullInv, NEW t \in Thread, NEW m \in Mutex, MtxLock(t, m) \/ MtxTrylock(t, m)
  PROVE  TsInv'
<1>1. CASE /\ _obtain_lock(t, m) /\ Goto(t, "idle", "idle")
           /\ UNCHANGED <<turnstileVars, localVars>>
  BY <1>1, TakeStep
<1>2. CASE /\ mtx_owned(t, m) /\ Recurse(m) /\ Goto(t, "idle", "idle")
           /\ UNCHANGED <<turnstileVars, localVars>>
  <2> DEFINE w == [mtx_lock[m] EXCEPT !.recursed = TRUE]
  <2>1. /\ mtx_lock' = [mtx_lock EXCEPT ![m] = w]
        /\ w \in Word /\ w.owner = t /\ w.contested = mtx_lock[m].contested
        /\ mtx_owner(m) = t
    <3>1. mtx_lock \in [Mutex -> Word] /\ mtx_lock[m] \in Word
      BY OwnFacts
    <3>2. w \in Word /\ w.owner = mtx_lock[m].owner /\ w.contested = mtx_lock[m].contested
      BY <3>1 DEF Word
    <3> QED
      BY <1>2, <3>1, <3>2 DEF Recurse, mtx_owned, mtx_owner
  <2>2. /\ Plain(t) /\ PlainTypes /\ ChainKept(t) /\ ControlOf(t)' /\ MarkOf(t)'
        /\ pc[t] \notin {"wait", "release"}
    BY <1>2, ReturnStep
  <2> HIDE DEF w
  <2> QED
    BY <2>1, <2>2, FlagStep
<1>3. CASE /\ MayLock(t, m) /\ mtx_lock[m] # MTX_UNOWNED /\ ~mtx_owned(t, m)
           /\ Goto(t, "idle", "obtain") /\ cur' = [cur EXCEPT ![t] = m]
           /\ UNCHANGED <<turnstileVars, mtx_lock, v, lts>>
  BY <1>3, EntrySteps
<1>4. CASE MtxLock(t, m)
  BY <1>1, <1>2, <1>3, <1>4 DEF MtxLock, mutexVars
<1>5. CASE MtxTrylock(t, m)
  BY <1>1, <1>2, <1>5 DEF MtxTrylock
<1> QED
  BY <1>4, <1>5

\* Marking a mutex contested: the word is still the one that was read, so it has
\* an owner.
LEMMA MarkContested ==
  ASSUME FullInv, NEW t \in Thread, Goto(t, "contest", "wait"), ~v[t].contested,
         mtx_lock[cur[t]] = v[t],
         mtx_lock' = [mtx_lock EXCEPT ![cur[t]].contested = TRUE],
         UNCHANGED <<turnstileVars, localVars>>
  PROVE  TsInv'
<1> DEFINE m == cur[t]  w == [mtx_lock[m] EXCEPT !.contested = TRUE]
<1>0. m \in Mutex
  BY OwnFacts DEF ControlOf, Goto
<1>1. Plain(t) /\ PlainTypes /\ ChainKept(t)
  BY OwnFacts DEF Plain, PlainTypes, ChainKept, Others, TD_ON_LOCK, Looking, Waking,
                  Locked,
     Goto, TD_IS_RUNNING, localVars, turnstileVars, chainVars
<1>2. ControlOf(t)'
  BY OwnFacts DEF ControlOf, Chained, Locked, TD_ON_LOCK,
     Goto, TD_IS_RUNNING, localVars, turnstileVars, chainVars
<1>3. mtx_owner(m) \in Thread /\ mtx_owner(m) \notin {t, DESTROYED}
  <2>1. MarkWord(m) /\ v[t] # MTX_UNOWNED /\ mtx_owner(m) \notin {t, DESTROYED}
    BY <1>0, OwnFacts DEF MarkOf, LockPath, Goto
  <2> QED
    BY <2>1 DEF MarkWord, mtx_owner, MTX_DESTROYED, Owned
<1>4. /\ mtx_lock' = [mtx_lock EXCEPT ![m] = w] /\ w \in Word /\ w.owner = mtx_owner(m)
      /\ w.contested /\ w.recursed = mtx_lock[m].recursed
  <2>1. mtx_lock \in [Mutex -> Word] /\ mtx_lock[m] \in Word
    BY <1>0, OwnFacts
  <2>2. /\ w \in Word /\ w.owner = mtx_lock[m].owner /\ w.contested
        /\ w.recursed = mtx_lock[m].recursed
    BY <2>1 DEF Word
  <2> QED
    BY <1>0, <2>1, <2>2 DEF mtx_owner
<1>5. mtx_lock'[m] = w /\ cur'[t] = m /\ pc'[t] = "wait" /\ pc[t] = "contest"
  BY <1>0, <1>4, OwnFacts DEF Goto, localVars
<1> HIDE DEF m, w
<1>6. MarkOf(t)'
  BY <1>3, <1>4, <1>5 DEF MarkOf, mtx_owner
<1> QED
  BY <1>0, <1>1, <1>2, <1>3, <1>4, <1>5, <1>6, FlagStep

\* The loop head of mtx_lock().
LEMMA ObtainStep ==
  ASSUME FullInv, NEW t \in Thread, Obtain(t)
  PROVE  TsInv'
<1>1. CASE /\ Goto(t, "obtain", "idle") /\ _obtain_lock(t, cur[t]) /\ Return(t)
           /\ UNCHANGED turnstileVars
  <2>1. cur[t] \in Mutex
    BY <1>1, OwnFacts DEF ControlOf, Goto
  <2> QED
    BY <1>1, <2>1, TakeStep
<1>2. CASE /\ Goto(t, "obtain", "adaptive") /\ mtx_lock[cur[t]] # MTX_UNOWNED
           /\ UNCHANGED <<mtx_lock, localVars, hold>>
           /\ UNCHANGED <<turnstileVars, mtx_recurse>>
  BY <1>2, TestSteps
<1> QED
  BY <1>1, <1>2 DEF Obtain

\* mtx_unlock() on its fast path frees a mutex nobody waits for.
LEMMA UnlockCall ==
  ASSUME FullInv, NEW t \in Thread, NEW m \in Mutex, MtxUnlock(t, m)
  PROVE  TsInv'
<1>1. CASE /\ _release_lock(t, m) /\ Goto(t, "idle", "idle")
           /\ UNCHANGED <<localVars, turnstileVars>>
  <2>1. /\ mtx_lock[m] = Owned(t) /\ ~mtx_lock[m].contested /\ ~mtx_lock[m].recursed
        /\ mtx_lock' = [mtx_lock EXCEPT ![m] = MTX_UNOWNED]
    BY <1>1 DEF _release_lock, Owned
  <2>2. Attached(m) = {}
    BY <2>1, AttachedFacts
  <2>3. /\ Plain(t) /\ PlainTypes /\ ChainKept(t) /\ ControlOf(t)' /\ MarkOf(t)'
        /\ pc[t] \notin {"wait", "release"}
    BY <1>1, ReturnStep
  <2>4. ASSUME NEW u \in Thread \ {t}, cur[u] = m
        PROVE  /\ pc[u] \notin {"wait", "unlock_sleep", "unlock_chain", "lookup", "release"}
               /\ pc[u] \in {"check_running", "contest"} => ~v[u].contested
    BY <2>1, <2>4, OwnFacts DEF MarkOf
  <2>5. MTX_UNOWNED # MTX_DESTROYED
    BY MutexAssumption DEF MTX_UNOWNED, MTX_DESTROYED, Owned
  <2> QED
    BY <2>1, <2>2, <2>3, <2>4, <2>5, FreeStep
<1>2. CASE /\ hold[t][m] > 0 /\ mtx_lock[m] # Owned(t) /\ Goto(t, "idle", "unlock_sleep")
           /\ cur' = [cur EXCEPT ![t] = m] /\ UNCHANGED <<turnstileVars, mtx_lock, v, lts>>
  BY <1>2, EntrySteps
<1> QED
  BY <1>1, <1>2 DEF MtxUnlock

\* The test for recursion of mtx_unlock().
LEMMA UnlockSleepKeeps ==
  ASSUME FullInv, NEW t \in Thread, UnlockSleep(t)
  PROVE  TsInv'
<1> DEFINE m == cur[t]
<1>0. m \in Mutex /\ mtx_owner(m) = t
  BY OwnFacts DEF UnlockSleep, ControlOf, FullInv, MutexInv, UnlockerOwns, Unlocking
<1>1. CASE /\ mtx_lock' = IF mtx_recurse[m] = 1
                          THEN [mtx_lock EXCEPT ![m].recursed = FALSE] ELSE mtx_lock
           /\ Goto(t, "unlock_sleep", "idle") /\ Return(t) /\ UNCHANGED turnstileVars
  <2> DEFINE w == IF mtx_recurse[m] = 1 THEN [mtx_lock[m] EXCEPT !.recursed = FALSE]
                  ELSE mtx_lock[m]
  <2>0. mtx_lock \in [Mutex -> Word] /\ mtx_lock[m] \in Word
    BY <1>0, OwnFacts
  <2>1. w \in Word /\ w.owner = mtx_lock[m].owner /\ w.contested = mtx_lock[m].contested
    BY <2>0 DEF Word
  <2>2. mtx_lock' = [mtx_lock EXCEPT ![m] = w]
    BY <1>0, <1>1, <2>0
  <2>3. /\ Plain(t) /\ PlainTypes /\ ChainKept(t) /\ ControlOf(t)' /\ MarkOf(t)'
        /\ pc[t] \notin {"wait", "release"}
    BY <1>1, ReturnStep
  <2> HIDE DEF w, m
  <2>4. w.owner = mtx_owner(m) /\ mtx_owner(m) \in Thread
    BY <1>0, <2>1 DEF mtx_owner
  <2> QED
    BY <1>0, <2>1, <2>2, <2>3, <2>4, FlagStep
<1>2. CASE /\ ~mtx_recursed(m) /\ Goto(t, "unlock_sleep", "unlock_chain")
           /\ UNCHANGED <<turnstileVars, mutexVars, localVars>>
  BY <1>2, UnlockTest
<1> QED
  BY <1>1, <1>2 DEF UnlockSleep

\* _release_lock_quick() with the chain lock held and the waiters taken off.
LEMMA ReleaseKeeps ==
  ASSUME FullInv, NEW t \in Thread, Release(t)
  PROVE  TsInv'
<1> DEFINE m == cur[t]
<1>0. /\ m \in Mutex /\ pc[t] = "release" /\ pc' = [pc EXCEPT ![t] = "unpend"]
      /\ mtx_lock' = [mtx_lock EXCEPT ![m] = MTX_UNOWNED]
      /\ UNCHANGED <<turnstileVars, localVars>> /\ TD_IS_RUNNING(t)
  BY OwnFacts DEF Release, _release_lock_quick, ControlOf, Goto
<1>1. Plain(t) /\ PlainTypes /\ ChainKept(t)
  BY <1>0, OwnFacts DEF Plain, PlainTypes, ChainKept, Others, TD_ON_LOCK, Looking,
                        Waking, Locked,
     TD_IS_RUNNING, localVars, turnstileVars, chainVars
<1>2. ControlOf(t)' /\ MarkOf(t)'
  BY <1>0, OwnFacts DEF ControlOf, MarkOf, LockPath, Chained, Locked, TD_ON_LOCK,
     TD_IS_RUNNING, localVars, turnstileVars, chainVars
<1>3. Attached(m) = {}
  BY <1>0, OwnFacts DEF LockedOf, Waking
<1>4. mtx_owner(m) = t
  BY <1>0 DEF FullInv, MutexInv, UnlockerOwns, Unlocking
<1>5. ASSUME NEW u \in Thread \ {t}, cur[u] = m
      PROVE  pc[u] \notin {"wait", "check_running", "contest", "unlock_sleep",
                           "unlock_chain", "lookup", "release"}
  <2>1. pc[u] \notin {"unlock_sleep", "unlock_chain", "lookup", "release"}
    BY <1>0, <1>4, <1>5 DEF FullInv, MutexInv, UnlockerOwns, Unlocking
  <2>2. pc[u] \notin Chained
    BY <1>0, <1>5, OneInChain DEF Chained, Locked
  <2> QED
    BY <2>1, <2>2 DEF Chained, Locked
<1>6. MTX_UNOWNED # MTX_DESTROYED
  BY MutexAssumption DEF MTX_UNOWNED, MTX_DESTROYED, Owned
<1> HIDE DEF m
<1>7. pc[t] \in {"wait", "release"} => cur[t] = m
  BY DEF m
<1> QED
  BY <1>0, <1>1, <1>2, <1>3, <1>5, <1>6, <1>7, FreeStep

\* mtx_destroy() and mtx_init().
LEMMA LifeKeeps ==
  ASSUME FullInv, NEW t \in Thread, NEW m \in Mutex, MtxDestroy(t, m) \/ MtxInit(t, m)
  PROVE  TsInv'
<1>0. Goto(t, "idle", "idle") /\ UNCHANGED <<turnstileVars, localVars>>
  BY DEF MtxDestroy, MtxInit
<1>1. /\ Plain(t) /\ PlainTypes /\ ChainKept(t) /\ ControlOf(t)' /\ MarkOf(t)'
      /\ pc[t] \notin {"wait", "release"} /\ pc[t] = "idle" /\ cur[t] = NULL
  BY <1>0, ReturnStep, OwnFacts DEF Goto, ControlOf
<1>a. MTX_UNOWNED # MTX_DESTROYED
  BY MutexAssumption DEF MTX_UNOWNED, MTX_DESTROYED, Owned
<1>2. CASE MtxDestroy(t, m)
  <2>1. /\ \A u \in Thread \ {t} : cur[u] = m => pc[u] = "unpend"
        /\ mtx_lock' = [mtx_lock EXCEPT ![m] = MTX_DESTROYED]
    BY <1>2 DEF MtxDestroy
  <2>2. Attached(m) = {}
    <3> SUFFICES ASSUME NEW ts \in Attached(m) PROVE FALSE
      OBVIOUS
    <3>1. PICK u \in Thread : cur[u] = m /\ pc[u] \in {"block", "propagate", "blocked"}
      BY ContestedBy
    <3>2. u # t
      BY <1>1, <3>1
    <3> QED
      BY <2>1, <3>1, <3>2
  <2> QED
    BY <1>1, <2>1, <2>2, FreeStep
<1>3. CASE MtxInit(t, m)
  <2>1. /\ mtx_lock[m] = MTX_DESTROYED /\ ~mtx_lock[m].contested /\ ~mtx_lock[m].recursed
        /\ mtx_lock' = [mtx_lock EXCEPT ![m] = MTX_UNOWNED]
    BY <1>3 DEF MtxInit, MTX_DESTROYED, Owned
  <2>2. Attached(m) = {}
    BY <2>1, AttachedFacts
  <2>3. ASSUME NEW u \in Thread \ {t}, cur[u] = m
        PROVE  /\ pc[u] \notin {"wait", "unlock_sleep", "unlock_chain", "lookup", "release"}
               /\ pc[u] \in {"check_running", "contest"} => ~v[u].contested
    BY <2>1, <2>3, OwnFacts DEF MarkOf
  <2> QED
    BY <1>1, <1>a, <2>1, <2>2, <2>3, FreeStep
<1> QED
  BY <1>2, <1>3

-----------------------------------------------------------------------------
\* The lists of the turnstiles hold threads.
LEMMA ListFacts ==
  ASSUME FullInv, NEW x \in Turnstiles
  PROVE  /\ ts_blocked[x][EX] \in Seq(Thread) /\ ts_pending[x] \in Seq(Thread)
         /\ ts_blocked[x][TS_SHARED_QUEUE] \in Seq(Thread)
         /\ ts_free[x] \in Seq(Turnstiles)
         /\ Waiting(x) \subseteq Thread /\ ToSet(ts_pending[x]) \subseteq Thread
         /\ ToSet(ts_free[x]) \subseteq Turnstiles
         /\ QueueOf(x) /\ (~OnChain(x) => DetachedOf(x))
<1>1. /\ ts_blocked[x][EX] \in Seq(Thread) /\ ts_pending[x] \in Seq(Thread)
      /\ ts_blocked[x][TS_SHARED_QUEUE] \in Seq(Thread)
      /\ ts_free[x] \in Seq(Turnstiles)
  BY DEF FullInv, TsInv, TurnstileTypeOK, Queue, EX
<1>2. /\ Waiting(x) \subseteq Thread /\ ToSet(ts_pending[x]) \subseteq Thread
      /\ ToSet(ts_free[x]) \subseteq Turnstiles
  BY <1>1, SetOfSeq DEF Waiting
<1> QED
  BY <1>1, <1>2 DEF FullInv, TsInv, QueueInv, DetachedInv

\* No thread is twice in a queue, and blocked threads are in turnstiles.
LEMMA QueueFacts ==
  ASSUME FullInv PROVE QueuesInjective /\ BlockedOnOne
<1>1. QueuesInjective
  BY DEF FullInv, TsInv, QueueInv, QueueOf, QueuesInjective, Queue, EX, Injective
<1>2. BlockedOnOne
  BY DEF FullInv, TsInv, LockedInv, LockedOf, BlockedOnOne
<1> QED
  BY <1>1, <1>2

\* A step that only moves threads within their queues.
LEMMA ReorderStep ==
  ASSUME FullInv, NEW t \in Thread, Others(t), Reordered, TurnstileTypeOK',
         UNCHANGED <<tc_lock, tc_turnstiles, ts_lockobj, ts_owner, ts_pending, ts_free,
                     td_turnstile, td_blocked, td_state, mtx_lock, cur, lts>>,
         pc[t] \in {"idle", "propagate"}, pc'[t] \in {"idle", "propagate", "blocked"},
         ControlOf(t)', MarkOf(t)'
  PROVE  TsInv'
<1>1. \A m \in Mutex : Attached(m)' = Attached(m)
  BY DEF Attached
<1>2. \A x \in Turnstiles :
        /\ OnChain(x)' <=> OnChain(x)
        /\ Waiting(x)' = Waiting(x)
        /\ Len(ts_blocked'[x][EX]) = Len(ts_blocked[x][EX])
        /\ Injective(ts_blocked'[x][EX])
  BY DEF OnChain, Waiting, Reordered, Queue, EX
<1>3. \A x \in Turnstiles :
        /\ ts_blocked[x][EX] = <<>> => ts_blocked'[x][EX] = <<>>
        /\ ts_blocked[x][TS_SHARED_QUEUE] = <<>> => ts_blocked'[x][TS_SHARED_QUEUE] = <<>>
  <2> SUFFICES ASSUME NEW x \in Turnstiles, NEW q \in Queue, ts_blocked[x][q] = <<>>
               PROVE  ts_blocked'[x][q] = <<>>
    BY DEF Queue, EX
  <2>1. ts_blocked'[x][q] \in Seq(Thread) /\ Len(ts_blocked'[x][q]) = 0
    BY EmptySeq DEF Reordered
  <2> QED
    BY <2>1, EmptySeq
<1>4. \A u \in Thread : /\ pc'[u] \in Looking <=> pc[u] \in Looking
                        /\ pc'[u] = "block" <=> pc[u] = "block"
                        /\ pc'[u] \in Waking <=> pc[u] \in Waking
                        /\ TD_ON_LOCK(u)' <=> TD_ON_LOCK(u)
  BY DEF Others, Looking, Waking, TD_ON_LOCK
<1>5. ControlInv'
  BY ControlStep DEF ChainKept, TD_ON_LOCK
<1>6. MarkInv'
  <2>1. \A m \in Mutex :
          (Attached(m) # {} \/ (cur[t] = m /\ pc[t] \in {"wait", "release"})) =>
             \/ Attached(m)' # {}
             \/ (cur'[t] = m /\ pc'[t] \in {"wait", "release"})
    BY <1>1
  <2> QED
    BY <2>1, WordsAloneStep
<1>7. AttachedInv'
  <2> SUFFICES ASSUME NEW c \in Chain, NEW ts \in tc_turnstiles[c] PROVE AttachedOf(ts, c)'
    BY DEF AttachedInv
  <2>1. AttachedOf(ts, c) /\ ts \in Turnstiles
    BY DEF FullInv, TsInv, AttachedInv, TurnstileTypeOK
  <2> QED
    BY <2>1, <1>2 DEF AttachedOf, mtx_owner
<1>8. OneAttached'
  BY <1>1 DEF OneAttached, FullInv, TsInv
<1>9. DetachedInv'
  <2>1. \A u \in Thread, x \in Turnstiles : /\ Releasing(u, x)' <=> Releasing(u, x)
                                            /\ Preparing(u, x)' <=> Preparing(u, x)
    BY <1>4 DEF Releasing, Preparing
  <2> QED
    BY <1>2, <1>3, <2>1 DEF DetachedInv, DetachedOf, FullInv, TsInv
<1>10. QueueInv'
  <2> SUFFICES ASSUME NEW x \in Turnstiles PROVE QueueOf(x)'
    BY DEF QueueInv
  <2>1. QueueOf(x) /\ Waiting(x) \subseteq Thread /\ ToSet(ts_pending[x]) \subseteq Thread
    BY ListFacts
  <2> QED
    BY <2>1, <1>2, <1>3, <1>4 DEF QueueOf
<1>11. LockedInv'
  <2> SUFFICES ASSUME NEW u \in Thread PROVE LockedOf(u)'
    BY DEF LockedInv
  <2>1. LockedOf(u)
    BY DEF FullInv, TsInv, LockedInv
  <2>2. pc[u] \in Looking \cup Waking \cup {"block"} =>
          cur[u] \in Mutex /\ lts[u] \in Turnstiles
    BY OwnFacts DEF ControlOf, Looking, Waking, Locked
  <2> QED
    BY <2>1, <2>2, <1>1, <1>2, <1>4 DEF LockedOf
<1>12. PlaceInv'
  <2>1. \A u \in Thread : Spare(u)' <=> Spare(u)
    BY <1>4 DEF Spare
  <2>2. PlaceInv /\ td_turnstile \in [Thread -> Turnstiles \cup {NULL}]
    BY DEF FullInv, TsInv, TurnstileTypeOK
  <2>4. \A u \in Thread : Spare(u) => td_turnstile[u] \in Turnstiles
    BY <2>2 DEF Spare
  <2> QED
    BY <2>1, <2>2, <2>4, <1>2 DEF PlaceInv
<1>13. lts' \in [Thread -> Turnstiles \cup {NULL}]
  BY DEF FullInv, TsInv
<1> QED
  BY <1>5, <1>6, <1>7, <1>8, <1>9, <1>10, <1>11, <1>12, <1>13 DEF TsInv

\* propagate_priority() and sched_prio() leave everything but the order of the
\* queues alone.
LEMMA PrioritySteps ==
  ASSUME FullInv, NEW t \in Thread,
         \/ Propagate(t)
         \/ \E td \in Thread, prio \in NewPri : SchedPrio(t, td, prio)
  PROVE  TsInv'
<1>0. TurnstileTypeOK
  BY DEF FullInv, TsInv
<1>1. CASE Propagate(t)
  <2>1. propagate_priority(t) /\ UNCHANGED <<mutexVars, localVars, hold>>
    BY <1>1 DEF Propagate
  <2>2. TurnstileTypeOK' /\ Reordered
    BY <1>0, <2>1, QueueFacts, PropagateEffect
  <2>3. UNCHANGED <<tc_lock, tc_turnstiles, ts_lockobj, ts_owner, ts_pending, ts_free,
                    td_turnstile, td_blocked, td_state, mtx_lock, cur, lts, v>>
    BY <2>1 DEF propagate_priority, chainVars, mutexVars, localVars
  <2>4. /\ pc[t] = "propagate" /\ pc'[t] \in {"idle", "propagate", "blocked"}
        /\ pc'[t] = "idle" => cur[t] = NULL
        /\ pc'[t] = "blocked" => cur[t] # NULL
        /\ \A u \in Thread \ {t} : pc'[u] = pc[u]
    BY <1>1, OwnFacts DEF Propagate
  <2>5. Others(t)
    BY <2>3, <2>4 DEF Others
  <2>6. ControlOf(t)'
    BY <2>3, <2>4, OwnFacts, TurnstileAssumption
       DEF ControlOf, Chained, Locked, TD_ON_LOCK
  <2>7. MarkOf(t)'
    BY <2>3, <2>4, OwnFacts DEF MarkOf, LockPath, mtx_owner
  <2> QED
    BY <2>2, <2>3, <2>4, <2>5, <2>6, <2>7, ReorderStep
<1>2. ASSUME NEW td \in Thread, NEW prio \in NewPri, SchedPrio(t, td, prio)
      PROVE  TsInv'
  <2>1. sched_prio(t, td, prio) /\ UNCHANGED <<mutexVars, localVars, hold>>
    BY <1>2 DEF SchedPrio
  <2>2. TurnstileTypeOK' /\ Reordered
    BY <1>0, <2>1, QueueFacts, SchedPrioEffect, MutexAssumption
  <2>3. UNCHANGED <<tc_lock, tc_turnstiles, ts_lockobj, ts_owner, ts_pending, ts_free,
                    td_turnstile, td_blocked, td_state, mtx_lock, cur, lts, v>>
    BY <2>1 DEF sched_prio, chainVars, mutexVars, localVars
  <2>4. /\ pc[t] = "idle" /\ pc'[t] \in {"idle", "propagate"} /\ TD_IS_RUNNING(t)
        /\ \A u \in Thread \ {t} : pc'[u] = pc[u]
    BY <1>2, OwnFacts DEF SchedPrio
  <2>5. Others(t)
    BY <2>3, <2>4 DEF Others
  <2>6. ControlOf(t)' /\ cur[t] = NULL
    BY <2>3, <2>4, OwnFacts DEF ControlOf, Chained, Locked, TD_ON_LOCK,
                                TD_IS_RUNNING
  <2>7. MarkOf(t)'
    BY <2>3, <2>4, <2>6, TurnstileAssumption DEF MarkOf, LockPath, mtx_owner
  <2> QED
    BY <2>2, <2>3, <2>4, <2>5, <2>6, <2>7, ReorderStep
<1> QED
  BY <1>1, <1>2

-----------------------------------------------------------------------------
\* The turnstile of a running thread that has not given it away is its own, and
\* clean when the thread is not working on it.
LEMMA OwnTurnstile ==
  ASSUME FullInv, NEW t \in Thread, ~TD_ON_LOCK(t), pc[t] # "block"
  PROVE  LET x == td_turnstile[t]
         IN  /\ x \in Turnstiles /\ Spare(t) /\ ~OnChain(x) /\ DetachedOf(x)
             /\ \A u \in Thread \ {t} : ~Releasing(u, x) /\ ~Preparing(u, x)
             /\ \A u \in Thread \ {t} : Spare(u) => td_turnstile[u] # x
             /\ \A y \in Turnstiles : x \notin ToSet(ts_free[y])
             /\ pc[t] \notin Waking => ts_owner[x] = NULL /\ ts_pending[x] = <<>>
             /\ pc[t] \notin Waking \cup Looking => ts_lockobj[x] = NULL
<1> DEFINE x == td_turnstile[t]
<1>1. x \in Turnstiles /\ Spare(t)
  BY OwnFacts DEF LockedOf, Spare, FullInv, TsInv, TurnstileTypeOK
<1>2. PlaceInv
  BY DEF FullInv, TsInv
<1> HIDE DEF x
<1>3. ~OnChain(x) /\ \A y \in Turnstiles : x \notin ToSet(ts_free[y])
  BY <1>1, <1>2 DEF PlaceInv, x
<1>4. DetachedOf(x)
  BY <1>1, <1>3, ListFacts
<1>5. \A u \in Thread \ {t} : Spare(u) => td_turnstile[u] # x
  BY <1>1, <1>2 DEF PlaceInv, x
<1>6. ASSUME NEW u \in Thread \ {t} PROVE ~Releasing(u, x)
  <2> SUFFICES ASSUME Releasing(u, x) PROVE FALSE
    OBVIOUS
  <2>1. PICK w \in ToSet(ts_pending[x]) : td_turnstile[w] = x
    BY OwnFacts DEF Releasing, LockedOf
  <2>2. w \in Thread /\ TD_ON_LOCK(w)
    BY <1>1, <2>1, ListFacts DEF QueueOf
  <2>3. Spare(w)
    BY <1>1, <2>1, <2>2, OwnFacts, TurnstileAssumption DEF Spare, ControlOf
  <2>4. w # t
    BY <2>2
  <2> QED
    BY <1>5, <2>1, <2>2, <2>3, <2>4
<1>7. ASSUME NEW u \in Thread \ {t} PROVE ~Preparing(u, x)
  <2> SUFFICES ASSUME Preparing(u, x) PROVE FALSE
    OBVIOUS
  <2>1. Spare(u)
    BY <1>1, TurnstileAssumption DEF Preparing, Spare, Looking
  <2> QED
    BY <1>5, <2>1 DEF Preparing
<1>8. pc[t] \notin Waking => ts_owner[x] = NULL /\ ts_pending[x] = <<>>
  BY <1>4, <1>6 DEF DetachedOf, Releasing
<1>9. pc[t] \notin Waking \cup Looking => ts_lockobj[x] = NULL
  BY <1>4, <1>6, <1>7 DEF DetachedOf, Releasing, Preparing
<1> QED
  BY <1>1, <1>3, <1>4, <1>5, <1>6, <1>7, <1>8, <1>9 DEF x

\* A step of t that writes at most the lock of its own turnstile, which is not
\* attached, and looks for a turnstile or gives up.
LEMMA LookStep ==
  ASSUME FullInv, NEW t \in Thread, Others(t), ChainKept(t), ControlOf(t)', MarkOf(t)',
         ~TD_ON_LOCK(t), pc[t] \notin {"block", "wait"} \cup Waking,
         pc'[t] \notin {"block"} \cup Waking,
         UNCHANGED <<tc_turnstiles, ts_owner, ts_blocked, ts_pending, ts_free,
                     td_turnstile, td_blocked, td_state, priVars, mtx_lock>>,
         tc_lock' \in [Chain -> Thread \cup {NULL}],
         ts_lock' \in [Turnstiles -> Thread \cup {NULL}],
         ts_lockobj' \in [Turnstiles -> Lock \cup {NULL}],
         lts' \in [Thread -> Turnstiles \cup {NULL}],
         \A x \in Turnstiles : x # td_turnstile[t] => ts_lockobj'[x] = ts_lockobj[x],
         ts_lockobj'[td_turnstile[t]] # NULL => Preparing(t, td_turnstile[t])',
         pc'[t] \in Looking =>
           \/ /\ lts'[t] = td_turnstile[t] /\ Attached(cur'[t]) = {}
              /\ ts_lockobj'[td_turnstile[t]] = cur'[t]
           \/ lts'[t] \in Attached(cur'[t])
  PROVE  TsInv'
<1> DEFINE own == td_turnstile[t]
<1>0. /\ own \in Turnstiles /\ Spare(t) /\ ~OnChain(own) /\ DetachedOf(own)
      /\ \A u \in Thread \ {t} : ~Releasing(u, own) /\ ~Preparing(u, own)
      /\ ts_owner[own] = NULL /\ ts_pending[own] = <<>>
  BY OwnTurnstile
<1>1. TurnstileTypeOK' /\ lts' \in [Thread -> Turnstiles \cup {NULL}]
  BY DEF FullInv, TsInv, TurnstileTypeOK, priVars
<1>2. \A m \in Mutex : Attached(m)' = Attached(m)
  <2> SUFFICES ASSUME NEW m \in Mutex PROVE Attached(m)' = Attached(m)
    OBVIOUS
  <2>1. TC_HASH[m] \in Chain
    BY TurnstileAssumption
  <2>2. \A x \in tc_turnstiles[TC_HASH[m]] : x \in Turnstiles /\ x # own
    BY <2>1, <1>0 DEF OnChain, FullInv, TsInv, TurnstileTypeOK
  <2> QED
    BY <2>2 DEF Attached
<1>3. \A x \in Turnstiles : (OnChain(x)' <=> OnChain(x)) /\ Waiting(x)' = Waiting(x)
  BY DEF OnChain, Waiting
<1>4. ControlInv'
  BY ControlStep
<1>5. MarkInv'
  <2>1. \A m \in Mutex :
          (Attached(m) # {} \/ (cur[t] = m /\ pc[t] \in {"wait", "release"})) =>
             \/ Attached(m)' # {}
             \/ (cur'[t] = m /\ pc'[t] \in {"wait", "release"})
    BY <1>2 DEF Waking
  <2> QED
    BY <2>1, WordsAloneStep
<1>6. AttachedInv'
  <2> SUFFICES ASSUME NEW c \in Chain, NEW ts \in tc_turnstiles[c] PROVE AttachedOf(ts, c)'
    BY DEF AttachedInv
  <2>1. AttachedOf(ts, c) /\ ts \in Turnstiles /\ ts # own
    BY <1>0 DEF FullInv, TsInv, AttachedInv, TurnstileTypeOK, OnChain
  <2> QED
    BY <2>1 DEF AttachedOf, mtx_owner
<1>7. OneAttached'
  BY <1>2 DEF OneAttached, FullInv, TsInv
<1>8. DetachedInv'
  <2> SUFFICES ASSUME NEW x \in Turnstiles, ~OnChain(x) PROVE DetachedOf(x)'
    BY <1>3 DEF DetachedInv
  <2>0. DetachedOf(x)
    BY ListFacts
  <2>1. \A u \in Thread : Releasing(u, x) => u # t /\ Releasing(u, x)'
    BY DEF Releasing, Others
  <2>2. CASE x = own
    <3>1. ts_lockobj'[x] # NULL => Preparing(t, x)'
      BY <2>2
    <3> QED
      BY <1>0, <2>0, <2>1, <2>2, <3>1 DEF DetachedOf
  <2>3. CASE x # own
    <3>1. \A u \in Thread : Preparing(u, x) => Preparing(u, x)'
      BY <2>3 DEF Preparing, Others
    <3> QED
      BY <2>0, <2>1, <2>3, <3>1 DEF DetachedOf
  <2> QED
    BY <2>2, <2>3
<1>9. QueueInv'
  <2> SUFFICES ASSUME NEW x \in Turnstiles PROVE QueueOf(x)'
    BY DEF QueueInv
  <2>1. QueueOf(x) /\ Waiting(x) \subseteq Thread /\ ToSet(ts_pending[x]) \subseteq Thread
    BY ListFacts
  <2>2. Waiting(own) = {}
    BY <1>0 DEF DetachedOf, Waiting, ToSet
  <2>3. \A u \in Thread :
          /\ pc[u] = "block" /\ lts[u] = x => pc'[u] = "block" /\ lts'[u] = x
          /\ TD_ON_LOCK(u) => TD_ON_LOCK(u)' /\ cur'[u] = cur[u]
    BY DEF Others, TD_ON_LOCK
  <2>4. x = own \/ ts_lockobj'[x] = ts_lockobj[x]
    OBVIOUS
  <2> QED
    BY <2>1, <2>2, <2>3, <2>4, <1>3 DEF QueueOf
<1>10. LockedInv'
  <2> SUFFICES ASSUME NEW u \in Thread PROVE LockedOf(u)'
    BY DEF LockedInv
  <2>1. LockedOf(u) /\ ControlOf(u)
    BY OwnFacts
  <2>2. CASE u = t
    <3>1. TD_ON_LOCK(t)' <=> TD_ON_LOCK(t)
      BY DEF TD_ON_LOCK
    <3>2. td_turnstile[t] # NULL
      BY <1>0 DEF Spare
    <3>3. pc'[t] \in Looking => cur'[t] \in Mutex
      BY DEF ControlOf, Looking
    <3>4. ASSUME pc'[t] \in Looking
          PROVE  \/ /\ lts'[t] = td_turnstile'[t] /\ Attached(cur[t])' = {}
                    /\ ts_lockobj'[lts'[t]] = cur'[t]
                 \/ lts'[t] \in Attached(cur[t])' /\ lts'[t] # td_turnstile'[t]
      <4>1. CASE lts'[t] \in Attached(cur'[t])
        <5>1. OnChain(lts'[t]) /\ Attached(cur[t])' = Attached(cur'[t])
          BY <3>3, <3>4, <4>1, <1>2, AttachedFacts
        <5> QED
          BY <1>0, <4>1, <5>1
      <4>2. CASE /\ lts'[t] = td_turnstile[t] /\ Attached(cur'[t]) = {}
                 /\ ts_lockobj'[td_turnstile[t]] = cur'[t]
        BY <3>3, <3>4, <4>2, <1>2
      <4> QED
        BY <3>4, <4>1, <4>2
    <3> QED
      BY <2>2, <3>1, <3>2, <3>4 DEF LockedOf
  <2>3. CASE u # t
    <3>0. pc'[u] = pc[u] /\ cur'[u] = cur[u] /\ lts'[u] = lts[u] /\ (TD_ON_LOCK(u)' <=> TD_ON_LOCK(u))
      BY <2>3 DEF Others, TD_ON_LOCK
    <3>1. pc[u] \in Looking \cup Waking \cup {"block"} =>
            cur[u] \in Mutex /\ lts[u] \in Turnstiles
      BY <2>1 DEF ControlOf, Looking, Waking, Locked
    <3>2. pc[u] \in Waking => lts[u] # own
      BY <1>0, <2>3 DEF Releasing
    <3>3. pc[u] \in Looking /\ lts[u] = td_turnstile[u] => lts[u] # own
      BY <1>0, <2>3 DEF Preparing
    <3> QED
      BY <2>1, <3>0, <3>1, <3>2, <3>3, <1>2, <1>3 DEF LockedOf
  <2> QED
    BY <2>2, <2>3
<1>11. PlaceInv'
  <2>1. \A u \in Thread : Spare(u)' <=> Spare(u)
    BY DEF Spare, Others
  <2>2. PlaceInv /\ td_turnstile \in [Thread -> Turnstiles \cup {NULL}]
    BY DEF FullInv, TsInv, TurnstileTypeOK
  <2>4. \A u \in Thread : Spare(u) => td_turnstile[u] \in Turnstiles
    BY <2>2 DEF Spare
  <2> QED
    BY <2>1, <2>2, <2>4, <1>3 DEF PlaceInv
<1> QED
  BY <1>1, <1>4, <1>5, <1>6, <1>7, <1>8, <1>9, <1>10, <1>11 DEF TsInv

\* turnstile_trywait() finds the mutex's turnstile or prepares the thread's own.
LEMMA TrywaitStep ==
  ASSUME FullInv, NEW t \in Thread, Trywait(t)
  PROVE  TsInv'
<1> DEFINE own == td_turnstile[t]
<1>0. PICK ts \in Turnstiles :
        turnstile_trywait(t, cur[t], ts) /\ lts' = [lts EXCEPT ![t] = ts]
  BY DEF Trywait
<1>1. /\ pc[t] = "trywait" /\ pc' = [pc EXCEPT ![t] = "check"] /\ TD_IS_RUNNING(t)
      /\ UNCHANGED <<chainVars, ts_owner, ts_blocked, ts_pending, ts_free,
                     td_turnstile, td_blocked, td_state, priVars, mtx_lock, cur, v>>
      /\ ts_lock' = [ts_lock EXCEPT ![ts] = t]
  BY <1>0 DEF Trywait, Goto, mutexVars, turnstile_trywait
<1>2. ~TD_ON_LOCK(t) /\ cur[t] \in Mutex
  BY <1>1, OwnFacts DEF TD_ON_LOCK, TD_IS_RUNNING, ControlOf
<1>3. own \in Turnstiles /\ ~OnChain(own) /\ ts_lockobj[own] = NULL
  BY <1>1, <1>2, OwnTurnstile DEF Waking, Looking
<1>4. Others(t) /\ ChainKept(t)
  BY <1>0, <1>1, OwnFacts DEF Others, ChainKept, chainVars, TD_ON_LOCK
<1>5. ControlOf(t)' /\ MarkOf(t)'
  BY <1>0, <1>1, OwnFacts
  DEF ControlOf, MarkOf, LockPath, Chained, Locked, chainVars, mtx_owner, TD_ON_LOCK, TD_IS_RUNNING
<1>6. /\ ts_lock \in [Turnstiles -> Thread \cup {NULL}]
      /\ ts_lockobj \in [Turnstiles -> Lock \cup {NULL}]
      /\ lts \in [Thread -> Turnstiles \cup {NULL}]
      /\ tc_lock \in [Chain -> Thread \cup {NULL}]
      /\ pc \in [Thread -> Points]
  BY OwnFacts DEF FullInv, TsInv, TurnstileTypeOK
<1>7. /\ ts_lock' \in [Turnstiles -> Thread \cup {NULL}]
      /\ tc_lock' \in [Chain -> Thread \cup {NULL}]
      /\ lts' \in [Thread -> Turnstiles \cup {NULL}]
      /\ lts'[t] = ts /\ pc'[t] = "check" /\ cur'[t] = cur[t] /\ UNCHANGED tc_turnstiles
  BY <1>0, <1>1, <1>6 DEF chainVars
<1>8. CASE ts \in Attached(cur[t]) /\ UNCHANGED ts_lockobj
  BY <1>1, <1>2, <1>3, <1>4, <1>5, <1>6, <1>7, <1>8, LookStep DEF Waking, Looking
<1>9. CASE /\ Attached(cur[t]) = {} /\ ts = own
           /\ ts_lockobj' = [ts_lockobj EXCEPT ![ts] = cur[t]]
  <2>1. /\ ts_lockobj' \in [Turnstiles -> Lock \cup {NULL}]
        /\ \A x \in Turnstiles : x # own => ts_lockobj'[x] = ts_lockobj[x]
        /\ ts_lockobj'[own] = cur[t]
    BY <1>2, <1>3, <1>6, <1>9
  <2>2. Preparing(t, own)'
    BY <1>1, <1>7, <1>9 DEF Preparing, Looking
  <2> QED
    BY <1>1, <1>2, <1>4, <1>5, <1>7, <1>9, <2>1, <2>2, LookStep DEF Waking, Looking
<1> QED
  BY <1>0, <1>8, <1>9 DEF turnstile_trywait

\* turnstile_cancel() leaves the thread's own turnstile clean.
LEMMA CancelStep ==
  ASSUME FullInv, NEW t \in Thread, NEW from \in {"check", "check_running", "contest"},
         CancelWait(t, from)
  PROVE  TsInv'
<1> DEFINE own == td_turnstile[t]
           ts == lts[t]
<1>1. /\ pc[t] = from /\ pc' = [pc EXCEPT ![t] = "obtain"] /\ TD_IS_RUNNING(t)
      /\ UNCHANGED <<tc_turnstiles, ts_owner, ts_blocked, ts_pending, ts_free,
                     td_turnstile, td_blocked, td_state, priVars, mtx_lock, cur>>
      /\ ts_lock' = [ts_lock EXCEPT ![ts] = NULL]
      /\ ts_lockobj' = [ts_lockobj EXCEPT ![ts] = IF ts = own THEN NULL ELSE @]
      /\ tc_lock' = [tc_lock EXCEPT ![TC_HASH[cur[t]]] = NULL]
      /\ lts' = [lts EXCEPT ![t] = NULL] /\ v' = [v EXCEPT ![t] = MTX_UNOWNED]
  BY DEF CancelWait, Goto, mutexVars, turnstile_cancel, turnstile_chain_unlock
<1>2. ~TD_ON_LOCK(t) /\ cur[t] \in Mutex /\ ts \in Turnstiles
  BY <1>1, OwnFacts DEF TD_ON_LOCK, TD_IS_RUNNING, ControlOf, Locked
<1>3. own \in Turnstiles
  BY <1>1, <1>2, OwnTurnstile
<1>4. Others(t) /\ ChainKept(t)
  <2>1. Others(t)
    BY <1>1, OwnFacts DEF Others
  <2>2. tc_lock[TC_HASH[cur[t]]] = t
    BY <1>1, OwnFacts DEF ControlOf, Chained, Locked
  <2> QED
    BY <1>1, <2>1, <2>2, OwnFacts DEF ChainKept, TD_ON_LOCK
<1>5. ControlOf(t)' /\ MarkOf(t)'
  BY <1>1, OwnFacts
  DEF ControlOf, MarkOf, LockPath, Chained, Locked, mtx_owner, TD_ON_LOCK, TD_IS_RUNNING
<1>6. /\ ts_lock \in [Turnstiles -> Thread \cup {NULL}]
      /\ ts_lockobj \in [Turnstiles -> Lock \cup {NULL}]
      /\ lts \in [Thread -> Turnstiles \cup {NULL}]
      /\ tc_lock \in [Chain -> Thread \cup {NULL}]
      /\ pc \in [Thread -> Points]
  BY OwnFacts DEF FullInv, TsInv, TurnstileTypeOK
<1>7. /\ ts_lock' \in [Turnstiles -> Thread \cup {NULL}]
      /\ tc_lock' \in [Chain -> Thread \cup {NULL}]
      /\ lts' \in [Thread -> Turnstiles \cup {NULL}]
      /\ pc'[t] = "obtain"
  BY <1>1, <1>6
<1>8. /\ ts_lockobj' \in [Turnstiles -> Lock \cup {NULL}]
      /\ \A x \in Turnstiles : x # own => ts_lockobj'[x] = ts_lockobj[x]
  BY <1>1, <1>6
<1>9. ts_lockobj'[own] = NULL
  <2>1. CASE ts = own
    BY <1>1, <1>2, <1>6, <2>1
  <2>2. CASE ts # own
    <3>1. ts_lockobj' = ts_lockobj
      BY <1>1, <1>6, <2>2
    <3>2. ts_lockobj[own] = NULL
      <4>0. /\ DetachedOf(own)
            /\ \A u \in Thread \ {t} : ~Releasing(u, own) /\ ~Preparing(u, own)
        BY <1>1, <1>2, OwnTurnstile
      <4>1. ~Releasing(t, own) /\ ~Preparing(t, own)
        BY <1>1, <2>2 DEF Releasing, Preparing, Waking
      <4> QED
        BY <4>0, <4>1 DEF DetachedOf
    <3> QED
      BY <3>1, <3>2
  <2> QED
    BY <2>1, <2>2
<1> HIDE DEF own, ts
<1>10. /\ pc[t] \notin {"block", "wait"} \cup Waking
       /\ pc'[t] \notin {"block"} \cup Waking \cup Looking
  BY <1>1, <1>7 DEF Waking, Looking
<1> QED
  BY <1>1, <1>2, <1>4, <1>5, <1>7, <1>8, <1>9, <1>10, LookStep DEF own

\* The steps of mtx_lock() under the chain lock.
LEMMA LookingSteps ==
  ASSUME FullInv, NEW t \in Thread, Check(t) \/ CheckRunning(t) \/ Contest(t)
  PROVE  TsInv'
<1>1. CASE Check(t)
  BY <1>1, CancelStep, TestSteps DEF Check
<1>2. CASE CheckRunning(t)
  BY <1>2, CancelStep, TestSteps DEF CheckRunning
<1>3. CASE Contest(t)
  BY <1>3, CancelStep, TestSteps, MarkContested DEF Contest
<1> QED
  BY <1>1, <1>2, <1>3

-----------------------------------------------------------------------------
\* A thread outside of the queues is on no list.
LEMMA NotListed ==
  ASSUME FullInv, NEW t \in Thread, ~TD_ON_LOCK(t), pc[t] # "block", NEW x \in Turnstiles
  PROVE  t \notin Waiting(x) /\ t \notin ToSet(ts_pending[x])
BY ListFacts DEF QueueOf

\* The first waiter attaches its own turnstile to the mutex.
LEMMA FirstWaiter ==
  ASSUME FullInv, NEW t \in Thread, Wait(t), NEW m \in Mutex, m = cur[t],
         NEW ts \in Turnstiles, ts = lts[t], ts = td_turnstile[t],
         tc_turnstiles' = [tc_turnstiles EXCEPT ![TC_HASH[m]] = @ \cup {ts}],
         ts_blocked' = [ts_blocked EXCEPT ![ts][EX] = Append(@, t)],
         ts_owner' = [ts_owner EXCEPT ![ts] = mtx_owner(m)],
         UNCHANGED ts_free
  PROVE  TsInv'
<1> DEFINE c0 == TC_HASH[m]
<1>1. /\ pc[t] = "wait" /\ pc' = [pc EXCEPT ![t] = "block"] /\ TD_IS_RUNNING(t)
      /\ UNCHANGED <<tc_lock, ts_lock, ts_lockobj, ts_pending, td_turnstile,
                     td_blocked, td_state, priVars, mtx_lock, cur, lts, v>>
  BY DEF Wait, Goto, mutexVars, localVars
<1>2. /\ ~TD_ON_LOCK(t) /\ m \in Mutex /\ c0 \in Chain /\ mtx_owner(m) \in Thread
      /\ mtx_lock[m].contested
  BY <1>1, OwnFacts DEF TD_ON_LOCK, TD_IS_RUNNING, ControlOf, MarkOf
<1>3. /\ ts \in Turnstiles /\ ~OnChain(ts) /\ DetachedOf(ts)
      /\ \A u \in Thread \ {t} : ~Releasing(u, ts) /\ ~Preparing(u, ts)
      /\ \A u \in Thread \ {t} : Spare(u) => td_turnstile[u] # ts
      /\ \A y \in Turnstiles : ts \notin ToSet(ts_free[y])
      /\ ts_owner[ts] = NULL /\ ts_pending[ts] = <<>>
  BY <1>1, <1>2, OwnTurnstile DEF Waking
<1>4. Attached(m) = {} /\ ts_lockobj[ts] = m
  <2>1. lts[t] \notin Attached(cur[t])
    BY <1>2, <1>3, AttachedFacts
  <2> QED
    BY <1>1, <2>1, OwnFacts DEF LockedOf, Looking
<1>5. /\ ts_blocked \in [Turnstiles -> [Queue -> Seq(Thread)]]
      /\ tc_turnstiles \in [Chain -> SUBSET Turnstiles]
      /\ ts_owner \in [Turnstiles -> Thread \cup {NULL}]
      /\ ts_free \in [Turnstiles -> Seq(Turnstiles)]
      /\ pc \in [Thread -> Points]
      /\ EX \in Queue /\ TS_SHARED_QUEUE \in Queue /\ EX # TS_SHARED_QUEUE
  BY OwnFacts DEF FullInv, TsInv, TurnstileTypeOK, Queue, EX, TS_SHARED_QUEUE,
                  TS_EXCLUSIVE_QUEUE
<1>6. ts_blocked[ts][EX] = <<>> /\ ts_free[ts] = <<>>
  BY <1>3 DEF DetachedOf
<1>7. /\ tc_turnstiles'[c0] = tc_turnstiles[c0] \cup {ts}
      /\ \A c \in Chain \ {c0} : tc_turnstiles'[c] = tc_turnstiles[c]
      /\ tc_turnstiles' \in [Chain -> SUBSET Turnstiles]
  BY <1>2, <1>3, <1>5
<1>8. /\ ts_blocked'[ts][EX] = <<t>>
      /\ \A x \in Turnstiles \ {ts} : ts_blocked'[x] = ts_blocked[x]
      /\ ts_blocked'[ts][TS_SHARED_QUEUE] = ts_blocked[ts][TS_SHARED_QUEUE]
      /\ ts_blocked' \in [Turnstiles -> [Queue -> Seq(Thread)]]
  <2>1. Append(ts_blocked[ts][EX], t) = <<t>> /\ <<t>> \in Seq(Thread)
    BY <1>6
  <2>2. ts_blocked' = [ts_blocked EXCEPT ![ts] = [@ EXCEPT ![EX] = <<t>>]]
    BY <1>3, <1>5, <2>1
  <2>3. [ts_blocked[ts] EXCEPT ![EX] = <<t>>] \in [Queue -> Seq(Thread)]
    BY <1>3, <1>5, <2>1
  <2> QED
    BY <1>3, <1>5, <2>1, <2>2, <2>3, SMTT(40)
<1>9. /\ ts_owner'[ts] = mtx_owner(m)
      /\ \A x \in Turnstiles \ {ts} : ts_owner'[x] = ts_owner[x]
      /\ ts_owner' \in [Turnstiles -> Thread \cup {NULL}]
  BY <1>2, <1>3, <1>5
<1>10. pc'[t] = "block" /\ \A u \in Thread \ {t} : pc'[u] = pc[u]
  BY <1>1, <1>5
<1> HIDE DEF c0
<1>a. ts = lts[t] /\ ts = td_turnstile[t] /\ c0 = TC_HASH[m] /\ m = cur[t]
  BY DEF c0
<1>11. \A x \in Turnstiles : OnChain(x)' <=> OnChain(x) \/ x = ts
  BY <1>2, <1>7 DEF OnChain
<1>12. /\ Attached(m)' = {ts}
       /\ \A n \in Mutex \ {m} : Attached(n)' = Attached(n)
  <2>1. Attached(m)' = {ts}
    BY <1>a, <1>1, <1>4, <1>7 DEF Attached
  <2>2. ASSUME NEW n \in Mutex \ {m} PROVE Attached(n)' = Attached(n)
    <3>1. TC_HASH[n] \in Chain
      BY TurnstileAssumption
    <3>2. tc_turnstiles'[TC_HASH[n]] \in
            {tc_turnstiles[TC_HASH[n]], tc_turnstiles[TC_HASH[n]] \cup {ts}}
      BY <3>1, <1>7
    <3> QED
      BY <3>2, <1>1, <1>4 DEF Attached
  <2> QED
    BY <2>1, <2>2
<1>13. Waiting(ts)' = {t} /\ \A x \in Turnstiles \ {ts} : Waiting(x)' = Waiting(x)
  <2>1. ToSet(<<t>>) = {t}
    BY DEF ToSet
  <2> QED
    BY <2>1, <1>8 DEF Waiting
<1>14. Others(t) /\ ChainKept(t)
  BY <1>1, <1>10 DEF Others, ChainKept, TD_ON_LOCK
<1>15. ControlInv'
  <2>1. ControlOf(t)'
    BY <1>1, <1>10, OwnFacts DEF ControlOf, Chained, Locked, TD_ON_LOCK,
                                 TD_IS_RUNNING
  <2> QED
    BY <1>14, <2>1, ControlStep
<1>16. MarkInv'
  <2>1. MarkOf(t)'
    BY <1>1, <1>10, OwnFacts DEF MarkOf, LockPath, mtx_owner
  <2>2. \A n \in Mutex :
          (Attached(n) # {} \/ (cur[t] = n /\ pc[t] \in {"wait", "release"})) =>
             \/ Attached(n)' # {}
             \/ (cur'[t] = n /\ pc'[t] \in {"wait", "release"})
    BY <1>a, <1>12
  <2> QED
    BY <1>1, <1>14, <2>1, <2>2, WordsAloneStep
<1>17. AttachedInv'
  <2> SUFFICES ASSUME NEW c \in Chain, NEW x \in tc_turnstiles'[c] PROVE AttachedOf(x, c)'
    BY DEF AttachedInv
  <2>1. CASE x = ts
    <3>1. c = c0
      BY <2>1, <1>3, <1>7 DEF OnChain
    <3>2. Len(<<t>>) = 1 /\ Len(<<>>) = 0
      OBVIOUS
    <3> QED
      BY <2>1, <3>1, <3>2, <1>a, <1>1, <1>2, <1>3, <1>4, <1>6, <1>8, <1>9
         DEF AttachedOf, mtx_owner
  <2>2. CASE x # ts
    <3>1. x \in tc_turnstiles[c] /\ x \in Turnstiles /\ AttachedOf(x, c)
      BY <2>2, <1>5, <1>7 DEF FullInv, TsInv, AttachedInv
    <3> QED
      BY <2>2, <3>1, <1>1, <1>8, <1>9 DEF AttachedOf, mtx_owner
  <2> QED
    BY <2>1, <2>2
<1>18. OneAttached'
  BY <1>12 DEF OneAttached, FullInv, TsInv
<1>19. DetachedInv'
  <2> SUFFICES ASSUME NEW x \in Turnstiles, ~OnChain(x)' PROVE DetachedOf(x)'
    BY DEF DetachedInv
  <2>1. x # ts /\ DetachedOf(x)
    BY <1>11, ListFacts
  <2>2. \A u \in Thread : /\ Releasing(u, x) => Releasing(u, x)'
                          /\ Preparing(u, x) => Preparing(u, x)'
    BY <2>1, <1>a, <1>1, <1>10 DEF Releasing, Preparing, Waking
  <2> QED
    BY <2>1, <2>2, <1>1, <1>8, <1>9 DEF DetachedOf
<1>20. QueueInv'
  <2> SUFFICES ASSUME NEW x \in Turnstiles PROVE QueueOf(x)'
    BY DEF QueueInv
  <2>1. /\ QueueOf(x) /\ Waiting(x) \subseteq Thread
        /\ ToSet(ts_pending[x]) \subseteq Thread
        /\ t \notin Waiting(x) /\ t \notin ToSet(ts_pending[x])
    BY <1>1, <1>2, ListFacts, NotListed
  <2>2. Injective(<<t>>)
    BY DEF Injective
  <2>3. \A u \in Thread : TD_ON_LOCK(u)' <=> TD_ON_LOCK(u)
    BY <1>1 DEF TD_ON_LOCK
  <2>4. CASE x = ts
    BY <2>1, <2>2, <2>3, <2>4, <1>a, <1>1, <1>8, <1>10, <1>13 DEF QueueOf
  <2>5. CASE x # ts
    BY <2>1, <2>3, <2>5, <1>1, <1>8, <1>10, <1>13 DEF QueueOf
  <2> QED
    BY <2>4, <2>5
<1>21. LockedInv'
  <2> SUFFICES ASSUME NEW u \in Thread PROVE LockedOf(u)'
    BY DEF LockedInv
  <2>0. LockedOf(u) /\ ControlOf(u) /\ (TD_ON_LOCK(u)' <=> TD_ON_LOCK(u))
    BY <1>1, OwnFacts DEF TD_ON_LOCK
  <2>1. CASE u = t
    <3>1. ts # NULL
      BY <1>3, TurnstileAssumption
    <3> QED
      BY <2>0, <2>1, <3>1, <1>a, <1>1, <1>2, <1>10, <1>12, <1>13
         DEF LockedOf, Looking, Waking
  <2>2. CASE u # t
    <3>1. pc[u] \in Looking \cup Waking \cup {"block"} =>
            cur[u] \in Mutex /\ lts[u] \in Turnstiles /\ cur[u] # m
      <4>1. pc[u] \in Looking \cup Waking \cup {"block"} =>
              pc[u] \in Locked /\ pc[u] \in Chained /\ cur[u] \in Mutex /\ lts[u] \in Turnstiles
        BY <2>0 DEF ControlOf, Looking, Waking, Locked, Chained
      <4>2. pc[t] \in Chained
        BY <1>1 DEF Chained, Locked
      <4> QED
        BY <2>2, <4>1, <4>2, <1>a, OneInChain
    <3>2. pc[u] \in Waking => lts[u] # ts
      BY <1>3, <2>2 DEF Releasing
    <3>3. pc[u] = "block" => lts[u] # ts
      BY <2>0, <3>1, <1>3, AttachedFacts DEF LockedOf
    <3>4. TD_ON_LOCK(u) /\ u \in Waiting(td_blocked[u]) => td_blocked[u] # ts
      BY <1>6 DEF Waiting, ToSet
    <3>5. pc'[u] = pc[u] /\ cur'[u] = cur[u] /\ lts'[u] = lts[u]
      BY <2>2, <1>1, <1>10
    <3> QED
      BY <2>0, <3>1, <3>2, <3>3, <3>4, <3>5, <1>1, <1>9, <1>11, <1>12, <1>13
         DEF LockedOf
  <2> QED
    BY <2>1, <2>2
<1>22. PlaceInv'
  <2>1. \A u \in Thread : Spare(u)' <=> Spare(u) /\ u # t
    BY <1>1, <1>10 DEF Spare
  <2>2. PlaceInv /\ td_turnstile \in [Thread -> Turnstiles \cup {NULL}]
    BY DEF FullInv, TsInv, TurnstileTypeOK
  <2>3. \A u \in Thread : Spare(u) => td_turnstile[u] \in Turnstiles
    BY <2>2 DEF Spare
  <2>4. td_turnstile' = td_turnstile /\ ts_free' = ts_free
    BY <1>1
  <2> QED
    BY <2>1, <2>2, <2>3, <2>4, <1>a, <1>3, <1>11 DEF PlaceInv
<1>23. TurnstileTypeOK' /\ lts' \in [Thread -> Turnstiles \cup {NULL}]
  BY <1>1, <1>7, <1>8, <1>9 DEF FullInv, TsInv, TurnstileTypeOK, priVars
<1> QED
  BY <1>15, <1>16, <1>17, <1>18, <1>19, <1>20, <1>21, <1>22, <1>23 DEF TsInv

\* A later waiter joins the turnstile of the mutex and lends its own.
LEMMA LaterWaiter ==
  ASSUME FullInv, NEW t \in Thread, Wait(t), NEW m \in Mutex, m = cur[t],
         NEW ts \in Turnstiles, ts = lts[t], NEW own, own = td_turnstile[t], ts # own,
         ts_blocked' = [ts_blocked EXCEPT ![ts][EX] = InsertByPriority(@, t, td_priority)],
         ts_free' = [ts_free EXCEPT ![ts] = <<own>> \o @],
         UNCHANGED <<tc_turnstiles, ts_owner>>
  PROVE  TsInv'
<1> DEFINE q == ts_blocked[ts][EX]
           r == InsertByPriority(q, t, td_priority)
           f == ts_free[ts]
           g == <<own>> \o f
<1>1. /\ pc[t] = "wait" /\ pc' = [pc EXCEPT ![t] = "block"] /\ TD_IS_RUNNING(t)
      /\ UNCHANGED <<tc_lock, ts_lock, ts_lockobj, ts_pending, td_turnstile,
                     td_blocked, td_state, priVars, mtx_lock, cur, lts, v>>
  BY DEF Wait, Goto, mutexVars, localVars
<1>2. ~TD_ON_LOCK(t) /\ mtx_owner(m) \in Thread
  BY <1>1, OwnFacts DEF TD_ON_LOCK, TD_IS_RUNNING, MarkOf
<1>3. /\ own \in Turnstiles /\ Spare(t) /\ ~OnChain(own)
      /\ \A u \in Thread \ {t} : Spare(u) => td_turnstile[u] # own
      /\ \A y \in Turnstiles : own \notin ToSet(ts_free[y])
  BY <1>1, <1>2, OwnTurnstile
<1>4. ts \in Attached(m)
  BY <1>1, OwnFacts DEF LockedOf, Looking
<1>5. /\ ts_blocked \in [Turnstiles -> [Queue -> Seq(Thread)]]
      /\ ts_free \in [Turnstiles -> Seq(Turnstiles)]
      /\ td_priority \in [Thread -> Priority]
      /\ pc \in [Thread -> Points]
      /\ EX \in Queue /\ TS_SHARED_QUEUE \in Queue /\ EX # TS_SHARED_QUEUE
  BY OwnFacts DEF FullInv, TsInv, TurnstileTypeOK, Queue, EX, TS_SHARED_QUEUE,
                  TS_EXCLUSIVE_QUEUE
<1>6. q \in Seq(Thread) /\ Injective(q) /\ t \notin ToSet(q) /\ Waiting(ts) = ToSet(q)
  BY <1>1, <1>2, ListFacts, NotListed DEF QueueOf, Waiting
<1>7. /\ r \in Seq(Thread) /\ Len(r) = Len(q) + 1
      /\ ToSet(r) = ToSet(q) \cup {t} /\ Injective(r)
  BY <1>5, <1>6, InsertJoins
<1>8. /\ g \in Seq(Turnstiles) /\ Len(g) = Len(f) + 1 /\ Len(f) \in Nat
      /\ DOMAIN g = 1..(Len(f) + 1) /\ DOMAIN f = 1..Len(f)
      /\ g[1] = own /\ \A i \in 1..Len(f) : g[i + 1] = f[i]
      /\ \A i \in 1..(Len(f) + 1) : i = 1 \/ (i - 1 \in 1..Len(f) /\ g[i] = f[i - 1])
      /\ ToSet(g) = ToSet(f) \cup {own}
  <2>1. f \in Seq(Turnstiles)
    BY <1>5
  <2> HIDE DEF f
  <2> QED
    BY <1>3, <2>1, PrependEffect
<1> HIDE DEF r, g
<1>9. /\ ts_blocked'[ts][EX] = r
      /\ \A x \in Turnstiles \ {ts} : ts_blocked'[x] = ts_blocked[x]
      /\ ts_blocked'[ts][TS_SHARED_QUEUE] = ts_blocked[ts][TS_SHARED_QUEUE]
      /\ ts_blocked' \in [Turnstiles -> [Queue -> Seq(Thread)]]
  <2>2. ts_blocked' = [ts_blocked EXCEPT ![ts] = [@ EXCEPT ![EX] = r]]
    BY <1>5 DEF r
  <2>3. [ts_blocked[ts] EXCEPT ![EX] = r] \in [Queue -> Seq(Thread)]
    BY <1>5, <1>7
  <2> QED
    BY <1>5, <2>2, <2>3
<1>10. /\ ts_free'[ts] = g /\ \A x \in Turnstiles \ {ts} : ts_free'[x] = ts_free[x]
       /\ ts_free' \in [Turnstiles -> Seq(Turnstiles)]
  BY <1>5, <1>8 DEF g
<1>11. pc'[t] = "block" /\ \A u \in Thread \ {t} : pc'[u] = pc[u]
  BY <1>1, <1>5
<1>12. \A x \in Turnstiles : OnChain(x)' <=> OnChain(x)
  BY DEF OnChain
<1>13. \A n \in Mutex : Attached(n)' = Attached(n)
  BY <1>1 DEF Attached
<1>14. /\ Waiting(ts)' = Waiting(ts) \cup {t}
       /\ \A x \in Turnstiles \ {ts} : Waiting(x)' = Waiting(x)
  BY <1>6, <1>7, <1>9 DEF Waiting
<1>15. Others(t) /\ ChainKept(t)
  BY <1>1, <1>11 DEF Others, ChainKept, TD_ON_LOCK
<1>16. ControlInv'
  <2>1. ControlOf(t)'
    BY <1>1, <1>11, OwnFacts DEF ControlOf, Chained, Locked, TD_ON_LOCK,
                                 TD_IS_RUNNING
  <2> QED
    BY <1>15, <2>1, ControlStep
<1>17. MarkInv'
  <2>1. MarkOf(t)'
    BY <1>1, <1>11, OwnFacts DEF MarkOf, LockPath, mtx_owner
  <2>2. \A n \in Mutex :
          (Attached(n) # {} \/ (cur[t] = n /\ pc[t] \in {"wait", "release"})) =>
             \/ Attached(n)' # {}
             \/ (cur'[t] = n /\ pc'[t] \in {"wait", "release"})
    BY <1>4, <1>13
  <2> QED
    BY <1>1, <1>15, <2>1, <2>2, WordsAloneStep
<1>18. AttachedInv'
  <2> SUFFICES ASSUME NEW c \in Chain, NEW x \in tc_turnstiles[c] PROVE AttachedOf(x, c)'
    BY DEF AttachedInv
  <2>0. x \in Turnstiles /\ AttachedOf(x, c)
    BY DEF FullInv, TsInv, AttachedInv, TurnstileTypeOK
  <2>1. CASE x = ts
    <3>1. Len(q) = Len(f) + 1
      BY <2>0, <2>1 DEF AttachedOf
    <3>2. Len(r) = Len(g) + 1
      BY <3>1, <1>7, <1>8
    <3> QED
      BY <2>0, <2>1, <3>2, <1>1, <1>9, <1>10 DEF AttachedOf, mtx_owner
  <2>2. CASE x # ts
    BY <2>0, <2>2, <1>1, <1>9, <1>10 DEF AttachedOf, mtx_owner
  <2> QED
    BY <2>1, <2>2
<1>19. OneAttached'
  BY <1>13 DEF OneAttached, FullInv, TsInv
<1>20. DetachedInv'
  <2> SUFFICES ASSUME NEW x \in Turnstiles, ~OnChain(x) PROVE DetachedOf(x)'
    BY <1>12 DEF DetachedInv
  <2>1. x # ts /\ DetachedOf(x)
    BY <1>4, ListFacts, AttachedFacts
  <2>2. \A u \in Thread : /\ Releasing(u, x) => Releasing(u, x)'
                          /\ Preparing(u, x) => Preparing(u, x)'
    BY <2>1, <1>1, <1>11 DEF Releasing, Preparing, Waking
  <2> QED
    BY <2>1, <2>2, <1>1, <1>9, <1>10 DEF DetachedOf
<1>21. QueueInv'
  <2> SUFFICES ASSUME NEW x \in Turnstiles PROVE QueueOf(x)'
    BY DEF QueueInv
  <2>1. /\ QueueOf(x) /\ Waiting(x) \subseteq Thread
        /\ ToSet(ts_pending[x]) \subseteq Thread
        /\ t \notin Waiting(x) /\ t \notin ToSet(ts_pending[x])
    BY <1>1, <1>2, ListFacts, NotListed
  <2>3. \A u \in Thread : TD_ON_LOCK(u)' <=> TD_ON_LOCK(u)
    BY <1>1 DEF TD_ON_LOCK
  <2>4. CASE x = ts
    BY <2>1, <2>3, <2>4, <1>1, <1>7, <1>9, <1>11, <1>14 DEF QueueOf
  <2>5. CASE x # ts
    BY <2>1, <2>3, <2>5, <1>1, <1>9, <1>11, <1>14 DEF QueueOf
  <2> QED
    BY <2>4, <2>5
<1>22. LockedInv'
  <2> SUFFICES ASSUME NEW u \in Thread PROVE LockedOf(u)'
    BY DEF LockedInv
  <2>0. LockedOf(u) /\ ControlOf(u) /\ (TD_ON_LOCK(u)' <=> TD_ON_LOCK(u))
    BY <1>1, OwnFacts DEF TD_ON_LOCK
  <2>a. \A x \in Turnstiles : Waiting(x) \subseteq Waiting(x)'
    BY <1>14
  <2>1. CASE u = t
    <3>1. td_turnstile[t] # NULL
      BY <1>3 DEF Spare
    <3> QED
      BY <2>0, <2>1, <3>1, <1>1, <1>2, <1>4, <1>11, <1>13, <1>14
         DEF LockedOf, Looking, Waking
  <2>2. CASE u # t
    <3>1. pc[u] \in Looking \cup Waking \cup {"block"} =>
            cur[u] \in Mutex /\ lts[u] \in Turnstiles
      BY <2>0 DEF ControlOf, Looking, Waking, Locked
    <3>5. pc'[u] = pc[u] /\ cur'[u] = cur[u] /\ lts'[u] = lts[u]
      BY <2>2, <1>1, <1>11
    <3> QED
      BY <2>0, <2>a, <3>1, <3>5, <1>1, <1>12, <1>13 DEF LockedOf
  <2> QED
    BY <2>1, <2>2
<1>23. PlaceInv'
  <2>1. \A u \in Thread : Spare(u)' <=> Spare(u) /\ u # t
    BY <1>1, <1>11 DEF Spare
  <2>2. PlaceInv /\ td_turnstile \in [Thread -> Turnstiles \cup {NULL}]
    BY DEF FullInv, TsInv, TurnstileTypeOK
  <2>3. \A u \in Thread : Spare(u) => td_turnstile[u] \in Turnstiles
    BY <2>2 DEF Spare
  <2>4. td_turnstile' = td_turnstile
    BY <1>1
  <2>5. \A y \in Turnstiles :
          ToSet(ts_free'[y]) = ToSet(ts_free[y]) \cup (IF y = ts THEN {own} ELSE {})
    BY <1>8, <1>10
  <2>6. \A u, w \in Thread :
          Spare(u)' /\ Spare(w)' /\ td_turnstile'[u] = td_turnstile'[w] => u = w
    BY <2>1, <2>2, <2>4 DEF PlaceInv
  <2>7. \A u \in Thread : Spare(u)' => ~OnChain(td_turnstile[u])'
    BY <2>1, <2>2, <2>3, <2>4, <1>12 DEF PlaceInv
  <2>8. \A u \in Thread, x \in Turnstiles :
          Spare(u)' => td_turnstile'[u] \notin ToSet(ts_free'[x])
    <3> SUFFICES ASSUME NEW u \in Thread, NEW x \in Turnstiles, Spare(u)'
                 PROVE  td_turnstile[u] \notin ToSet(ts_free'[x])
      BY <2>4
    <3>1. Spare(u) /\ u # t
      BY <2>1
    <3>2. td_turnstile[u] \notin ToSet(ts_free[x]) /\ td_turnstile[u] # own
      BY <3>1, <2>2, <1>3 DEF PlaceInv
    <3> QED
      BY <3>2, <2>5
  <2>9. \A x, y \in Turnstiles : OnChain(x)' => x \notin ToSet(ts_free'[y])
    <3> SUFFICES ASSUME NEW x \in Turnstiles, NEW y \in Turnstiles, OnChain(x)'
                 PROVE  x \notin ToSet(ts_free'[y])
      OBVIOUS
    <3>1. x \notin ToSet(ts_free[y]) /\ x # own
      BY <2>2, <1>3, <1>12 DEF PlaceInv
    <3> QED
      BY <3>1, <2>5
  <2>10. ASSUME NEW x \in Turnstiles, NEW y \in Turnstiles,
                NEW i \in DOMAIN ts_free'[x], NEW j \in DOMAIN ts_free'[y],
                ts_free'[x][i] = ts_free'[y][j]
         PROVE  x = y /\ i = j
    <3>0. \A a, b \in Turnstiles : \A k \in DOMAIN ts_free[a], l \in DOMAIN ts_free[b] :
             ts_free[a][k] = ts_free[b][l] => a = b /\ k = l
      BY <2>2 DEF PlaceInv
    <3>1. \A y1 \in Turnstiles : \A k \in DOMAIN ts_free[y1] : ts_free[y1][k] # own
      BY <1>3 DEF ToSet
    <3>2. CASE x # ts /\ y # ts
      BY <2>10, <3>0, <3>2, <1>10
    <3>3. CASE x = ts /\ y # ts
      <4>1. g[i] = ts_free[y][j] /\ i \in 1..(Len(f) + 1) /\ j \in DOMAIN ts_free[y]
        BY <2>10, <3>3, <1>8, <1>10
      <4>2. CASE i = 1
        BY <4>1, <4>2, <3>1, <1>8
      <4>3. CASE i - 1 \in 1..Len(f) /\ g[i] = f[i - 1]
        <5>1. i - 1 \in DOMAIN ts_free[ts] /\ ts_free[ts][i - 1] = ts_free[y][j]
          BY <4>1, <4>3, <1>8
        <5>2. ts = y
          BY <4>1, <5>1, <3>0
        <5> QED
          BY <5>2, <3>3
      <4> QED
        BY <4>1, <4>2, <4>3, <1>8
    <3>4. CASE x # ts /\ y = ts
      <4>1. g[j] = ts_free[x][i] /\ j \in 1..(Len(f) + 1) /\ i \in DOMAIN ts_free[x]
        BY <2>10, <3>4, <1>8, <1>10
      <4>2. CASE j = 1
        BY <4>1, <4>2, <3>1, <1>8
      <4>3. CASE j - 1 \in 1..Len(f) /\ g[j] = f[j - 1]
        <5>1. j - 1 \in DOMAIN ts_free[ts] /\ ts_free[ts][j - 1] = ts_free[x][i]
          BY <4>1, <4>3, <1>8
        <5>2. ts = x
          BY <4>1, <5>1, <3>0
        <5> QED
          BY <5>2, <3>4
      <4> QED
        BY <4>1, <4>2, <4>3, <1>8
    <3>5. CASE x = ts /\ y = ts
      <4>1. g[i] = g[j] /\ i \in 1..(Len(f) + 1) /\ j \in 1..(Len(f) + 1)
        BY <2>10, <3>5, <1>8, <1>10
      <4>2. \A k, l \in 1..Len(f) : f[k] = f[l] => k = l
        BY <3>0, <1>8
      <4>3. \A k \in 1..Len(f) : f[k] # own
        BY <3>1, <1>8
      <4> QED
        <5>1. CASE i = 1
          <6>1. CASE j - 1 \in 1..Len(f) /\ g[j] = f[j - 1]
            BY <4>1, <4>3, <5>1, <6>1, <1>8
          <6> QED
            BY <5>1, <6>1, <4>1, <3>5, <1>8
        <5>2. CASE j = 1
          <6>1. CASE i - 1 \in 1..Len(f) /\ g[i] = f[i - 1]
            BY <4>1, <4>3, <5>2, <6>1, <1>8
          <6> QED
            BY <5>2, <6>1, <4>1, <3>5, <1>8
        <5>3. CASE i # 1 /\ j # 1
          <6>1. /\ i - 1 \in 1..Len(f) /\ g[i] = f[i - 1]
                /\ j - 1 \in 1..Len(f) /\ g[j] = f[j - 1]
            BY <4>1, <5>3, <1>8
          <6>2. i - 1 = j - 1
            BY <4>1, <4>2, <6>1
          <6>3. i \in Int /\ j \in Int
            BY <4>1, <1>8
          <6> QED
            BY <6>2, <6>3, <3>5
        <5> QED
          BY <5>1, <5>2, <5>3
    <3> QED
      BY <3>2, <3>3, <3>4, <3>5
  <2>11. ASSUME NEW x \in Turnstiles
         PROVE  \/ OnChain(x)'
                \/ \E u \in Thread : Spare(u)' /\ td_turnstile'[u] = x
                \/ \E y \in Turnstiles : x \in ToSet(ts_free'[y])
    <3>1. CASE x = own
      BY <3>1, <2>5
    <3>2. CASE x # own
      <4>1. CASE OnChain(x)
        BY <4>1, <1>12
      <4>2. ASSUME NEW u \in Thread, Spare(u), td_turnstile[u] = x
            PROVE  Spare(u)' /\ td_turnstile'[u] = x
        BY <4>2, <3>2, <2>1, <2>4
      <4>3. ASSUME NEW y \in Turnstiles, x \in ToSet(ts_free[y])
            PROVE  x \in ToSet(ts_free'[y])
        BY <4>3, <2>5
      <4> QED
        BY <4>1, <4>2, <4>3, <2>2 DEF PlaceInv
    <3> QED
      BY <3>1, <3>2
  <2> QED
    BY <2>6, <2>7, <2>8, <2>9, <2>10, <2>11 DEF PlaceInv
<1>24. TurnstileTypeOK' /\ lts' \in [Thread -> Turnstiles \cup {NULL}]
  BY <1>1, <1>9, <1>10 DEF FullInv, TsInv, TurnstileTypeOK, priVars
<1> QED
  BY <1>16, <1>17, <1>18, <1>19, <1>20, <1>21, <1>22, <1>23, <1>24 DEF TsInv

\* A thread joins the turnstile of the mutex.
LEMMA WaitStep ==
  ASSUME FullInv, NEW t \in Thread, Wait(t)
  PROVE  TsInv'
<1>1. pc[t] = "wait"
  BY DEF Wait, Goto
<1>2. cur[t] \in Mutex /\ lts[t] \in Turnstiles
  BY <1>1, OwnFacts DEF ControlOf, Locked
<1>3. PICK m \in Mutex, ts \in Turnstiles : m = cur[t] /\ ts = lts[t]
  BY <1>2
<1>4. PICK own : own = td_turnstile[t]
  OBVIOUS
<1>5. turnstile_wait_enqueue(t, m, ts, mtx_owner(m), EX)
  BY <1>3 DEF Wait, EX
<1>6. CASE ts = td_turnstile[t]
  BY <1>3, <1>5, <1>6, FirstWaiter DEF turnstile_wait_enqueue
<1>7. CASE ts # td_turnstile[t]
  BY <1>3, <1>4, <1>5, <1>7, LaterWaiter DEF turnstile_wait_enqueue
<1> QED
  BY <1>6, <1>7

\* A thread that has joined a turnstile goes to sleep and drops the chain lock.
LEMMA BlockStep ==
  ASSUME FullInv, NEW t \in Thread, Block(t)
  PROVE  TsInv'
<1>1. pc[t] = "block" /\ TD_IS_RUNNING(t) /\ ~TD_ON_LOCK(t)
  BY DEF Block, Goto, TD_IS_RUNNING, TD_ON_LOCK
<1>2. cur[t] \in Mutex /\ lts[t] \in Turnstiles
  BY <1>1, OwnFacts DEF ControlOf, Locked
<1>3. PICK m \in Mutex, ts \in Turnstiles : m = cur[t] /\ ts = lts[t]
  BY <1>2
<1>4. /\ pc' = [pc EXCEPT ![t] = "propagate"]
      /\ td_turnstile' = [td_turnstile EXCEPT ![t] = NULL]
      /\ td_blocked' = [td_blocked EXCEPT ![t] = ts]
      /\ td_state' = [td_state EXCEPT ![t] = "lock"]
      /\ prop' = [prop EXCEPT ![t] = [orig |-> ts, cur |-> ts, pri |-> td_priority[t]]]
      /\ tc_lock' = [tc_lock EXCEPT ![TC_HASH[m]] = NULL]
      /\ v' = [v EXCEPT ![t] = MTX_UNOWNED]
      /\ lts' = [lts EXCEPT ![t] = NULL]
      /\ UNCHANGED <<tc_turnstiles, ts_lock, ts_lockobj, ts_owner, ts_blocked, ts_pending,
                     ts_free, td_priority, td_base_pri, td_borrowing, mtx_lock, cur>>
  BY <1>3 DEF Block, Goto, turnstile_wait_block, turnstile_chain_unlock, mutexVars
<1>5. ts \in Attached(m) /\ t \in Waiting(ts)
  BY <1>1, <1>3, OwnFacts DEF LockedOf
<1>6. ts_lockobj[ts] = m /\ tc_lock[TC_HASH[m]] = t /\ TC_HASH[m] \in Chain
  BY <1>1, <1>3, <1>5, AttachedFacts, OwnFacts DEF ControlOf, Chained, Locked
<1>7. /\ td_turnstile \in [Thread -> Turnstiles \cup {NULL}]
      /\ td_blocked \in [Thread -> Turnstiles \cup {NULL}]
      /\ td_state \in [Thread -> {"running", "runq", "lock"}]
      /\ tc_lock \in [Chain -> Thread \cup {NULL}]
      /\ td_priority \in [Thread -> Priority]
      /\ pc \in [Thread -> Points] /\ lts \in [Thread -> Turnstiles \cup {NULL}]
      /\ v \in [Thread -> Word]
  BY OwnFacts DEF FullInv, TsInv, TurnstileTypeOK
<1>8. /\ pc'[t] = "propagate" /\ td_turnstile'[t] = NULL /\ td_blocked'[t] = ts
      /\ TD_ON_LOCK(t)' /\ lts'[t] = NULL
      /\ \A u \in Thread \ {t} :
           /\ pc'[u] = pc[u] /\ lts'[u] = lts[u] /\ v'[u] = v[u]
           /\ td_turnstile'[u] = td_turnstile[u] /\ td_blocked'[u] = td_blocked[u]
           /\ TD_ON_LOCK(u)' <=> TD_ON_LOCK(u)
  BY <1>4, <1>7 DEF TD_ON_LOCK
<1>9. \A x \in Turnstiles :
        /\ t \notin ToSet(ts_pending[x])
        /\ t \in Waiting(x) => x = ts
  BY <1>1, <1>3, ListFacts DEF QueueOf
<1>10. \A x \in Turnstiles : (OnChain(x)' <=> OnChain(x)) /\ Waiting(x)' = Waiting(x)
  BY <1>4 DEF OnChain, Waiting
<1>11. \A n \in Mutex : Attached(n)' = Attached(n)
  BY <1>4 DEF Attached
<1>12. Others(t) /\ ChainKept(t)
  BY <1>4, <1>6, <1>7, <1>8 DEF Others, ChainKept
<1>13. ControlInv'
  <2>1. ControlOf(t)'
    BY <1>3, <1>4, <1>8 DEF ControlOf, Chained, Locked, TD_ON_LOCK
  <2> QED
    BY <1>12, <2>1, ControlStep
<1>14. MarkInv'
  <2>1. MarkOf(t)'
    BY <1>1, <1>3, <1>4, <1>8, OwnFacts DEF MarkOf, LockPath, mtx_owner
  <2>2. \A n \in Mutex :
          (Attached(n) # {} \/ (cur[t] = n /\ pc[t] \in {"wait", "release"})) =>
             \/ Attached(n)' # {}
             \/ (cur'[t] = n /\ pc'[t] \in {"wait", "release"})
    BY <1>1, <1>11
  <2> QED
    BY <1>4, <1>12, <2>1, <2>2, WordsAloneStep
<1>15. AttachedInv'
  BY <1>4 DEF FullInv, TsInv, AttachedInv, AttachedOf, mtx_owner
<1>16. OneAttached'
  BY <1>11 DEF OneAttached, FullInv, TsInv
<1>17. DetachedInv'
  <2> SUFFICES ASSUME NEW x \in Turnstiles, ~OnChain(x) PROVE DetachedOf(x)'
    BY <1>10 DEF DetachedInv
  <2>1. DetachedOf(x)
    BY ListFacts
  <2>2. \A u \in Thread : /\ Releasing(u, x) => Releasing(u, x)'
                          /\ Preparing(u, x) => Preparing(u, x)'
    BY <1>1, <1>8 DEF Releasing, Preparing, Waking, Looking
  <2> QED
    BY <2>1, <2>2, <1>4 DEF DetachedOf
<1>18. QueueInv'
  <2> SUFFICES ASSUME NEW x \in Turnstiles PROVE QueueOf(x)'
    BY DEF QueueInv
  <2>1. QueueOf(x) /\ Waiting(x) \subseteq Thread /\ ToSet(ts_pending[x]) \subseteq Thread
    BY ListFacts
  <2>2. \A u \in Waiting(x) :
          \/ pc'[u] = "block" /\ lts'[u] = x
          \/ /\ TD_ON_LOCK(u)' /\ td_blocked'[u] = x /\ cur'[u] = ts_lockobj'[x]
             /\ td_turnstile'[u] = NULL
    <3> SUFFICES ASSUME NEW u \in Waiting(x), u # t
                 PROVE  \/ pc'[u] = "block" /\ lts'[u] = x
                        \/ /\ TD_ON_LOCK(u)' /\ td_blocked'[u] = x
                           /\ cur'[u] = ts_lockobj'[x] /\ td_turnstile'[u] = NULL
      BY <1>3, <1>4, <1>6, <1>8, <1>9
    <3> QED
      BY <2>1, <1>4, <1>8 DEF QueueOf
  <2>3. \A u \in ToSet(ts_pending[x]) :
          TD_ON_LOCK(u)' /\ td_blocked'[u] = x /\ td_turnstile'[u] # NULL
    BY <2>1, <1>8, <1>9 DEF QueueOf
  <2> QED
    BY <2>1, <2>2, <2>3, <1>4, <1>10 DEF QueueOf
<1>19. LockedInv'
  <2> SUFFICES ASSUME NEW u \in Thread PROVE LockedOf(u)'
    BY DEF LockedInv
  <2>1. CASE u = t
    BY <2>1, <1>5, <1>8, <1>10 DEF LockedOf, Looking, Waking
  <2>2. CASE u # t
    <3>0. LockedOf(u) /\ ControlOf(u)
      BY OwnFacts
    <3>1. pc[u] \in Looking \cup Waking \cup {"block"} =>
            cur[u] \in Mutex /\ lts[u] \in Turnstiles
      BY <3>0 DEF ControlOf, Looking, Waking, Locked
    <3>2. pc[u] \in Waking => \E w \in ToSet(ts_pending[lts[u]]) : td_turnstile'[w] = lts[u]
      <4> SUFFICES ASSUME pc[u] \in Waking
                   PROVE  \E w \in ToSet(ts_pending[lts[u]]) : td_turnstile'[w] = lts[u]
        OBVIOUS
      <4>1. PICK w \in ToSet(ts_pending[lts[u]]) : td_turnstile[w] = lts[u]
        BY <3>0 DEF LockedOf
      <4>2. w \in Thread /\ w # t
        BY <3>1, <1>9, ListFacts
      <4> QED
        BY <4>1, <4>2, <1>8
    <3>3. TD_ON_LOCK(u) => td_blocked[u] \in Turnstiles
      BY <3>0 DEF LockedOf
    <3>4. /\ pc'[u] = pc[u] /\ cur'[u] = cur[u] /\ lts'[u] = lts[u]
          /\ td_turnstile'[u] = td_turnstile[u] /\ td_blocked'[u] = td_blocked[u]
          /\ TD_ON_LOCK(u)' <=> TD_ON_LOCK(u)
      BY <2>2, <1>4, <1>8
    <3> QED
      BY <3>0, <3>1, <3>2, <3>3, <3>4, <1>4, <1>10, <1>11 DEF LockedOf
  <2> QED
    BY <2>1, <2>2
<1>20. PlaceInv'
  <2>1. \A u \in Thread : Spare(u)' <=> Spare(u)
    BY <1>1, <1>8 DEF Spare
  <2>2. \A u \in Thread : Spare(u) => u # t /\ td_turnstile'[u] = td_turnstile[u]
    BY <1>1, <1>8 DEF Spare
  <2>3. PlaceInv /\ \A u \in Thread : Spare(u) => td_turnstile[u] \in Turnstiles
    BY <1>7 DEF FullInv, TsInv, Spare
  <2>4. \A x \in Turnstiles : ts_free'[x] = ts_free[x]
    BY <1>4
  <2> QED
    BY <2>1, <2>2, <2>3, <2>4, <1>10 DEF PlaceInv
<1>21. TurnstileTypeOK' /\ lts' \in [Thread -> Turnstiles \cup {NULL}]
  BY <1>4, <1>7 DEF FullInv, TsInv, TurnstileTypeOK
<1> QED
  BY <1>13, <1>14, <1>15, <1>16, <1>17, <1>18, <1>19, <1>20, <1>21 DEF TsInv

-----------------------------------------------------------------------------
\* The owner takes the waiters off the turnstile and the turnstile off its chain.
LEMMA BroadcastStep ==
  ASSUME FullInv, NEW t \in Thread, Broadcast(t)
  PROVE  TsInv'
<1>1. pc[t] = "lookup" /\ ~TD_ON_LOCK(t) /\ pc' = [pc EXCEPT ![t] = "release"]
  BY DEF Broadcast, Goto, TD_IS_RUNNING, TD_ON_LOCK
<1>2. cur[t] \in Mutex
  BY <1>1, OwnFacts DEF ControlOf
<1>3. PICK m \in Mutex : m = cur[t]
  BY <1>2
<1>4. PICK ts \in Turnstiles :
        /\ turnstile_lookup(t, m, ts) /\ turnstile_broadcast(m, ts, EX)
        /\ lts' = [lts EXCEPT ![t] = ts]
  BY <1>3 DEF Broadcast, EX
<1>5. UNCHANGED <<tc_lock, ts_lockobj, ts_owner, td_blocked, td_state, priVars,
                  mtx_lock, cur, v>>
  BY DEF Broadcast, mutexVars
<1>6. ts \in Attached(m) /\ ts_lock' = [ts_lock EXCEPT ![ts] = t]
  BY <1>4 DEF turnstile_lookup
<1> DEFINE q == ts_blocked[ts][EX]
           f == ts_free[ts]
           all == ToSet(f) \cup {ts}
<1>7. /\ TurnstileTypeOK /\ OnChain(ts) /\ ts_lockobj[ts] = m /\ ts_owner[ts] = t
      /\ TC_HASH[m] \in Chain /\ ts_pending[ts] = <<>> /\ Len(q) = Len(f) + 1
      /\ mtx_lock[m].contested
  BY <1>1, <1>3, <1>6, AttachedFacts DEF FullInv, TsInv, MutexInv, UnlockerOwns,
                                         Unlocking, AttachedOf
<1>8. /\ Injective(q) /\ Injective(f) /\ ts \notin ToSet(f)
      /\ Waiting(ts) = ToSet(q) /\ ToSet(q) \subseteq Thread /\ ToSet(f) \subseteq Turnstiles
  <2>1. PlaceInv
    BY DEF FullInv, TsInv
  <2>2. Injective(f) /\ ts \notin ToSet(f)
    BY <1>7, <2>1 DEF PlaceInv, Injective
  <2> QED
    BY <2>2, ListFacts DEF QueueOf, Waiting
<1>9. HandsBack(m, ts)
  BY <1>4, <1>7, <1>8, BroadcastEffect
<1>10. /\ \A u \in ToSet(q) : u \in Thread /\ td_turnstile'[u] \in all
       /\ \A u, w \in ToSet(q) : td_turnstile'[u] = td_turnstile'[w] => u = w
       /\ \A x \in all : \E u \in ToSet(q) : td_turnstile'[u] = x
       /\ \A u \in Thread \ ToSet(q) : td_turnstile'[u] = td_turnstile[u]
       /\ td_turnstile' \in [Thread -> Turnstiles \cup {NULL}]
  <2>1. /\ \A u \in Thread \ ToSet(q) : td_turnstile'[u] = td_turnstile[u]
        /\ td_turnstile' \in [Thread -> Turnstiles \cup {NULL}]
    BY <1>9 DEF HandsBack
  <2>2. /\ \A u \in ToSet(q) : u \in Thread /\ td_turnstile'[u] \in all
        /\ \A u, w \in ToSet(q) : td_turnstile'[u] = td_turnstile'[w] => u = w
        /\ \A x \in all : \E u \in ToSet(q) : td_turnstile'[u] = x
    BY <1>7, <1>8, <1>9, EachIsGivenOne, SMTT(40)
  <2> QED
    BY <2>1, <2>2, Zenon
<1>11. /\ ts_pending \in [Turnstiles -> Seq(Thread)]
       /\ ts_blocked \in [Turnstiles -> [Queue -> Seq(Thread)]]
       /\ ts_free \in [Turnstiles -> Seq(Turnstiles)]
       /\ tc_turnstiles \in [Chain -> SUBSET Turnstiles]
       /\ ts_lock \in [Turnstiles -> Thread \cup {NULL}]
       /\ pc \in [Thread -> Points] /\ lts \in [Thread -> Turnstiles \cup {NULL}]
       /\ EX \in Queue /\ TS_SHARED_QUEUE \in Queue /\ EX # TS_SHARED_QUEUE
  BY <1>7, OwnFacts DEF TurnstileTypeOK, Queue, EX, TS_SHARED_QUEUE,
                        TS_EXCLUSIVE_QUEUE
<1>12. /\ ts_pending'[ts] = q /\ ts_free'[ts] = <<>>
       /\ ts_blocked'[ts][EX] = <<>>
       /\ ts_blocked'[ts][TS_SHARED_QUEUE] = ts_blocked[ts][TS_SHARED_QUEUE]
       /\ \A x \in Turnstiles \ {ts} : /\ ts_pending'[x] = ts_pending[x]
                                       /\ ts_free'[x] = ts_free[x]
                                       /\ ts_blocked'[x] = ts_blocked[x]
       /\ tc_turnstiles'[TC_HASH[m]] = tc_turnstiles[TC_HASH[m]] \ {ts}
       /\ \A c \in Chain \ {TC_HASH[m]} : tc_turnstiles'[c] = tc_turnstiles[c]
  BY <1>7, <1>9, <1>11 DEF HandsBack
<1>13. TurnstileTypeOK' /\ lts' \in [Thread -> Turnstiles \cup {NULL}]
  <2>1. /\ ts_pending' \in [Turnstiles -> Seq(Thread)]
        /\ ts_free' \in [Turnstiles -> Seq(Turnstiles)]
        /\ tc_turnstiles' \in [Chain -> SUBSET Turnstiles]
    <3>1. q \in Seq(Thread) /\ <<>> \in Seq(Turnstiles)
      BY <1>11
    <3>2. /\ ts_pending' = [ts_pending EXCEPT ![ts] = q]
          /\ ts_free' = [ts_free EXCEPT ![ts] = <<>>]
          /\ tc_turnstiles' = [tc_turnstiles EXCEPT ![TC_HASH[m]] = @ \ {ts}]
      BY <1>9 DEF HandsBack
    <3> HIDE DEF q
    <3> QED
      BY <3>1, <3>2, <1>11
  <2>2. ts_blocked' \in [Turnstiles -> [Queue -> Seq(Thread)]]
    <3>1. ts_blocked' = [ts_blocked EXCEPT ![ts] = [@ EXCEPT ![EX] = <<>>]]
      BY <1>9, <1>11 DEF HandsBack
    <3>2. [ts_blocked[ts] EXCEPT ![EX] = <<>>] \in [Queue -> Seq(Thread)]
      BY <1>11
    <3> QED
      BY <1>11, <3>1, <3>2
  <2> QED
    BY <2>1, <2>2, <1>4, <1>5, <1>6, <1>7, <1>10, <1>11 DEF TurnstileTypeOK, priVars
<1>14. /\ pc'[t] = "release" /\ lts'[t] = ts
       /\ \A u \in Thread \ {t} : pc'[u] = pc[u] /\ lts'[u] = lts[u]
  BY <1>1, <1>4, <1>11
<1> HIDE DEF q, f, all
<1>15. \A u \in ToSet(q) : /\ TD_ON_LOCK(u) /\ td_blocked[u] = ts /\ td_turnstile[u] = NULL
                           /\ u # t /\ pc[u] \in {"propagate", "blocked"}
  <2> SUFFICES ASSUME NEW u \in ToSet(q)
               PROVE  /\ TD_ON_LOCK(u) /\ td_blocked[u] = ts /\ td_turnstile[u] = NULL
                      /\ u # t /\ pc[u] \in {"propagate", "blocked"}
    OBVIOUS
  <2>1. u \in Thread /\ u \in Waiting(ts)
    BY <1>8
  <2>2. ~(pc[u] = "block" /\ lts[u] = ts)
    <3> SUFFICES ASSUME pc[u] = "block", lts[u] = ts PROVE FALSE
      OBVIOUS
    <3>1. cur[u] \in Mutex /\ lts[u] \in Attached(cur[u])
      BY <2>1, OwnFacts DEF ControlOf, LockedOf
    <3>2. cur[u] = m
      BY <3>1, <1>7, AttachedFacts
    <3>3. u = t
      BY <2>1, <3>2, <1>1, <1>3, OneInChain DEF Chained, Locked
    <3> QED
      BY <3>3, <1>1
  <2>3. TD_ON_LOCK(u) /\ td_blocked[u] = ts /\ td_turnstile[u] = NULL
    BY <2>1, <2>2, ListFacts DEF QueueOf
  <2> QED
    BY <2>1, <2>3, <1>1, OwnFacts DEF ControlOf
<1>16. \A x \in Turnstiles : OnChain(x)' <=> OnChain(x) /\ x # ts
  <2>1. \A c \in Chain : ts \in tc_turnstiles[c] => c = TC_HASH[m]
    BY <1>7 DEF FullInv, TsInv, AttachedInv, AttachedOf
  <2> QED
    BY <2>1, <1>7, <1>12 DEF OnChain
<1>17. Attached(m)' = {} /\ \A n \in Mutex \ {m} : Attached(n)' = Attached(n)
  <2>1. \A x \in Attached(m) : x = ts
    BY <1>6 DEF FullInv, TsInv, OneAttached
  <2>2. Attached(m)' = {}
    BY <2>1, <1>5, <1>12 DEF Attached
  <2>3. ASSUME NEW n \in Mutex \ {m} PROVE Attached(n)' = Attached(n)
    <3>1. TC_HASH[n] \in Chain
      BY TurnstileAssumption
    <3>2. tc_turnstiles'[TC_HASH[n]] \in
            {tc_turnstiles[TC_HASH[n]], tc_turnstiles[TC_HASH[n]] \ {ts}}
      BY <3>1, <1>12
    <3> QED
      BY <3>2, <1>5, <1>7 DEF Attached
  <2> QED
    BY <2>2, <2>3
<1>18. Waiting(ts)' = {} /\ \A x \in Turnstiles \ {ts} : Waiting(x)' = Waiting(x)
  BY <1>12 DEF Waiting, ToSet
<1>19. Others(t) /\ ChainKept(t)
  BY <1>5, <1>14 DEF Others, ChainKept, TD_ON_LOCK
<1>20. \A u \in Thread : TD_ON_LOCK(u)' <=> TD_ON_LOCK(u)
  BY <1>5 DEF TD_ON_LOCK
<1>21. ControlInv'
  <2>1. ControlOf(t)'
    BY <1>1, <1>3, <1>5, <1>14, <1>20, OwnFacts DEF ControlOf, Chained, Locked
  <2> QED
    BY <1>19, <2>1, ControlStep
<1>22. MarkInv'
  <2>1. MarkOf(t)'
    BY <1>3, <1>5, <1>7, <1>14 DEF MarkOf, LockPath
  <2>2. \A n \in Mutex :
          (Attached(n) # {} \/ (cur[t] = n /\ pc[t] \in {"wait", "release"})) =>
             \/ Attached(n)' # {}
             \/ (cur'[t] = n /\ pc'[t] \in {"wait", "release"})
    BY <1>1, <1>3, <1>5, <1>14, <1>17
  <2> QED
    BY <1>5, <1>19, <2>1, <2>2, WordsAloneStep
<1>23. AttachedInv'
  <2> SUFFICES ASSUME NEW c \in Chain, NEW x \in tc_turnstiles'[c] PROVE AttachedOf(x, c)'
    BY DEF AttachedInv
  <2>1. x \in Turnstiles
    BY <1>13 DEF TurnstileTypeOK
  <2>2. x # ts
    BY <2>1, <1>16 DEF OnChain
  <2>3. x \in tc_turnstiles[c]
    BY <1>12
  <2>4. AttachedOf(x, c)
    BY <2>3 DEF FullInv, TsInv, AttachedInv
  <2> QED
    BY <2>1, <2>2, <2>4, <1>5, <1>12 DEF AttachedOf, mtx_owner
<1>24. OneAttached'
  BY <1>17 DEF OneAttached, FullInv, TsInv
<1>25. DetachedInv'
  <2> SUFFICES ASSUME NEW x \in Turnstiles, ~OnChain(x)' PROVE DetachedOf(x)'
    BY DEF DetachedInv
  <2>1. CASE x = ts
    <3>1. Releasing(t, ts)'
      BY <1>14 DEF Releasing, Waking
    <3> QED
      BY <2>1, <3>1, <1>12 DEF DetachedOf
  <2>2. CASE x # ts
    <3>1. DetachedOf(x)
      BY <2>2, <1>16, ListFacts
    <3>2. \A u \in Thread : /\ Releasing(u, x) => Releasing(u, x)'
                            /\ Preparing(u, x) => Preparing(u, x)'
      <4>1. \A u \in Thread : pc[u] \in Looking => u \notin ToSet(q)
        BY <1>15 DEF Looking
      <4> QED
        BY <4>1, <1>1, <1>10, <1>14 DEF Releasing, Preparing, Waking, Looking
    <3> QED
      BY <2>2, <3>1, <3>2, <1>5, <1>12 DEF DetachedOf
  <2> QED
    BY <2>1, <2>2
<1>26. /\ all \subseteq Turnstiles
       /\ \A u \in ToSet(q) : td_turnstile'[u] \in Turnstiles /\ td_turnstile'[u] # NULL
  BY <1>8, <1>10, TurnstileAssumption DEF all
<1>27. \A x \in Turnstiles \ {ts} : \A u \in Waiting(x) \cup ToSet(ts_pending[x]) :
         u \notin ToSet(q)
  <2> SUFFICES ASSUME NEW x \in Turnstiles \ {ts}, NEW u \in Waiting(x) \cup ToSet(ts_pending[x]),
                      u \in ToSet(q)
               PROVE  FALSE
    OBVIOUS
  <2>1. td_blocked[u] = ts /\ pc[u] # "block"
    BY <1>15
  <2> QED
    BY <2>1, ListFacts DEF QueueOf
<1>28. QueueInv'
  <2> SUFFICES ASSUME NEW x \in Turnstiles PROVE QueueOf(x)'
    BY DEF QueueInv
  <2>1. QueueOf(x) /\ Waiting(x) \subseteq Thread /\ ToSet(ts_pending[x]) \subseteq Thread
    BY ListFacts
  <2>2. CASE x = ts
    <3>1. Injective(<<>>)
      BY DEF Injective
    <3> QED
      BY <2>1, <2>2, <3>1, <1>5, <1>8, <1>12, <1>15, <1>18, <1>20, <1>26 DEF QueueOf
  <2>3. CASE x # ts
    <3>1. \A u \in Waiting(x) \cup ToSet(ts_pending[x]) :
            /\ u \in Thread /\ td_turnstile'[u] = td_turnstile[u] /\ (TD_ON_LOCK(u)' <=> TD_ON_LOCK(u))
            /\ pc[u] = "block" => u # t /\ pc'[u] = "block" /\ lts'[u] = lts[u]
      BY <2>1, <2>3, <1>1, <1>10, <1>14, <1>20, <1>27
    <3> QED
      BY <2>1, <2>3, <3>1, <1>5, <1>12, <1>18 DEF QueueOf
  <2> QED
    BY <2>2, <2>3
<1>29. LockedInv'
  <2> SUFFICES ASSUME NEW u \in Thread PROVE LockedOf(u)'
    BY DEF LockedInv
  <2>0. LockedOf(u) /\ ControlOf(u)
    BY OwnFacts
  <2>1. CASE u = t
    <3>1. \E w \in ToSet(q) : td_turnstile'[w] = ts
      BY <1>10 DEF all
    <3>2. td_turnstile'[t] # NULL
      BY <2>0, <2>1, <1>1, <1>10, <1>15 DEF LockedOf
    <3>3. ~OnChain(ts)'
      BY <1>16
    <3> QED
      BY <2>1, <3>1, <3>2, <3>3, <1>1, <1>3, <1>5, <1>7, <1>12, <1>14, <1>17, <1>20
      DEF LockedOf, Looking, Waking
  <2>2. CASE u # t
    <3>1. pc'[u] = pc[u] /\ cur'[u] = cur[u] /\ lts'[u] = lts[u]
      BY <2>2, <1>5, <1>14
    <3>2. pc[u] \in Looking \cup Waking \cup {"block"} =>
            /\ cur[u] \in Mutex /\ lts[u] \in Turnstiles /\ cur[u] # m
            /\ u \notin ToSet(q) /\ td_turnstile'[u] = td_turnstile[u]
            /\ Attached(cur[u])' = Attached(cur[u])
      <4> SUFFICES ASSUME pc[u] \in Looking \cup Waking \cup {"block"}
                   PROVE  /\ cur[u] \in Mutex /\ lts[u] \in Turnstiles /\ cur[u] # m
                          /\ u \notin ToSet(q) /\ td_turnstile'[u] = td_turnstile[u]
                          /\ Attached(cur[u])' = Attached(cur[u])
        OBVIOUS
      <4>1. /\ pc[u] \in Chained /\ cur[u] \in Mutex /\ lts[u] \in Turnstiles
            /\ pc[u] \notin {"propagate", "blocked"}
        BY <2>0 DEF ControlOf, Looking, Waking, Locked, Chained
      <4>2. cur[u] # m
        BY <2>2, <4>1, <1>1, <1>3, OneInChain DEF Chained
      <4>3. u \notin ToSet(q)
        BY <4>1, <1>15
      <4>4. Attached(cur[u])' = Attached(cur[u])
        BY <3>1, <4>1, <4>2, <1>17
      <4> QED
        BY <4>1, <4>2, <4>3, <4>4, <1>10
    <3>3. pc[u] = "block" => Waiting(lts[u])' = Waiting(lts[u])
      <4> SUFFICES ASSUME pc[u] = "block" PROVE Waiting(lts[u])' = Waiting(lts[u])
        OBVIOUS
      <4>1. lts[u] # ts
        BY <2>0, <3>2, <1>7, AttachedFacts DEF LockedOf
      <4> QED
        BY <4>1, <3>1, <3>2, <1>18
    <3>4. pc[u] \in Waking =>
            /\ ~OnChain(lts[u])' /\ ts_pending'[lts[u]] = ts_pending[lts[u]]
            /\ \E w \in ToSet(ts_pending[lts[u]]) : td_turnstile'[w] = lts[u]
      <4> SUFFICES ASSUME pc[u] \in Waking
                   PROVE  /\ ~OnChain(lts[u])' /\ ts_pending'[lts[u]] = ts_pending[lts[u]]
                          /\ \E w \in ToSet(ts_pending[lts[u]]) : td_turnstile'[w] = lts[u]
        OBVIOUS
      <4>1. lts[u] \in Turnstiles /\ lts[u] # ts /\ ~OnChain(lts[u])
        BY <2>0, <3>2, <1>7 DEF LockedOf
      <4>2. PICK w \in ToSet(ts_pending[lts[u]]) : td_turnstile[w] = lts[u]
        BY <2>0 DEF LockedOf
      <4>3. w \in Thread \ ToSet(q)
        BY <4>1, <1>27, ListFacts
      <4>4. ~OnChain(lts[u])'
        BY <4>1, <3>1, <1>16
      <4> QED
        BY <4>1, <4>2, <4>3, <4>4, <1>10, <1>12
    <3>5. TD_ON_LOCK(u) =>
            /\ td_blocked[u] \in Turnstiles
            /\ u \in Waiting(td_blocked[u])' \/ u \in ToSet(ts_pending'[td_blocked[u]])
      <4> SUFFICES ASSUME TD_ON_LOCK(u)
                   PROVE  /\ td_blocked[u] \in Turnstiles
                          /\ u \in Waiting(td_blocked[u])' \/ u \in ToSet(ts_pending'[td_blocked[u]])
        OBVIOUS
      <4>1. /\ td_blocked[u] \in Turnstiles
            /\ u \in Waiting(td_blocked[u]) \/ u \in ToSet(ts_pending[td_blocked[u]])
        BY <2>0 DEF LockedOf
      <4>2. CASE td_blocked[u] = ts
        <5>1. ToSet(<<>>) = {}
          BY DEF ToSet
        <5> QED
          BY <4>1, <4>2, <5>1, <1>7, <1>8, <1>12
      <4>3. CASE td_blocked[u] # ts
        <5>1. Waiting(td_blocked[u])' = Waiting(td_blocked[u])
          BY <4>1, <4>3, <1>5, <1>18
        <5> QED
          BY <4>1, <4>3, <5>1, <1>12
      <4> QED
        BY <4>2, <4>3
    <3>6. td_turnstile'[u] = NULL => TD_ON_LOCK(u) /\ u \in Waiting(td_blocked[u])'
      <4> SUFFICES ASSUME td_turnstile'[u] = NULL
                   PROVE  TD_ON_LOCK(u) /\ u \in Waiting(td_blocked[u])'
        OBVIOUS
      <4>1. u \notin ToSet(q) /\ td_turnstile[u] = NULL
        BY <1>10, <1>26
      <4>2. TD_ON_LOCK(u) /\ u \in Waiting(td_blocked[u]) /\ td_blocked[u] \in Turnstiles
        BY <2>0, <4>1 DEF LockedOf
      <4>3. td_blocked[u] # ts
        BY <4>1, <4>2, <1>8
      <4>4. Waiting(td_blocked[u])' = Waiting(td_blocked[u])
        BY <4>2, <4>3, <1>5, <1>18
      <4> QED
        BY <4>2, <4>4
    <3>7. td_blocked'[u] = td_blocked[u] /\ ts_lockobj' = ts_lockobj /\ ts_owner' = ts_owner
      BY <1>5
    <3> QED
      BY <2>0, <3>1, <3>2, <3>3, <3>4, <3>5, <3>6, <3>7, <1>20 DEF LockedOf
  <2> QED
    BY <2>1, <2>2
<1>30. PlaceInv'
  <2>1. PlaceInv /\ \A u \in Thread : Spare(u) => td_turnstile[u] \in Turnstiles
    BY <1>7 DEF FullInv, TsInv, Spare, TurnstileTypeOK
  <2>2. \A u \in ToSet(q) : Spare(u)' /\ ~Spare(u) /\ u \in Thread
    BY <1>8, <1>14, <1>15, <1>26 DEF Spare
  <2>3. \A u \in Thread \ ToSet(q) :
          (Spare(u)' <=> Spare(u)) /\ td_turnstile'[u] = td_turnstile[u]
    BY <1>1, <1>10, <1>14 DEF Spare
  <2>4. \A x \in Turnstiles : ToSet(ts_free'[x]) = IF x = ts THEN {} ELSE ToSet(ts_free[x])
    BY <1>12 DEF ToSet
  <2>5. \A x \in Turnstiles : \A i \in DOMAIN ts_free'[x] :
          i \in DOMAIN ts_free[x] /\ ts_free'[x][i] = ts_free[x][i]
    BY <1>12
  <2>6. \A x \in all : /\ x \in Turnstiles /\ ~OnChain(x)'
                       /\ \A u \in Thread \ ToSet(q) : Spare(u) => td_turnstile[u] # x
                       /\ \A y \in Turnstiles \ {ts} : x \notin ToSet(ts_free[y])
    <3> SUFFICES ASSUME NEW x \in all
                 PROVE  /\ x \in Turnstiles /\ ~OnChain(x)'
                        /\ \A u \in Thread \ ToSet(q) : Spare(u) => td_turnstile[u] # x
                        /\ \A y \in Turnstiles \ {ts} : x \notin ToSet(ts_free[y])
      OBVIOUS
    <3>0. x \in Turnstiles
      BY <1>26
    <3>1. CASE x = ts
      BY <3>0, <3>1, <2>1, <1>7, <1>16 DEF PlaceInv
    <3>2. CASE x \in ToSet(ts_free[ts])
      <4>1. \A y \in Turnstiles \ {ts} : x \notin ToSet(ts_free[y])
        BY <3>2, <2>1 DEF PlaceInv, ToSet
      <4> QED
        BY <3>0, <3>2, <4>1, <2>1, <1>16 DEF PlaceInv
    <3> QED
      BY <3>1, <3>2 DEF all, f
  <2>7. ASSUME NEW u \in Thread, NEW w \in Thread, Spare(u)', Spare(w)',
               td_turnstile'[u] = td_turnstile'[w]
        PROVE  u = w
    <3>1. CASE u \in ToSet(q) /\ w \in ToSet(q)
      BY <3>1, <2>7, <1>10
    <3>2. CASE u \in ToSet(q) /\ w \notin ToSet(q)
      BY <3>2, <2>3, <2>6, <2>7, <1>10
    <3>3. CASE u \notin ToSet(q) /\ w \in ToSet(q)
      BY <3>3, <2>3, <2>6, <2>7, <1>10
    <3>4. CASE u \notin ToSet(q) /\ w \notin ToSet(q)
      BY <3>4, <2>1, <2>3, <2>7 DEF PlaceInv
    <3> QED
      BY <3>1, <3>2, <3>3, <3>4
  <2>8. ASSUME NEW u \in Thread, Spare(u)'
        PROVE  /\ ~OnChain(td_turnstile[u])'
               /\ \A x \in Turnstiles : td_turnstile'[u] \notin ToSet(ts_free'[x])
    <3>1. CASE u \in ToSet(q)
      BY <3>1, <2>4, <2>6, <1>10 DEF OnChain
    <3>2. CASE u \notin ToSet(q)
      <4>1. Spare(u) /\ td_turnstile'[u] = td_turnstile[u] /\ td_turnstile[u] \in Turnstiles
        BY <3>2, <2>1, <2>3, <2>8
      <4>2. /\ ~OnChain(td_turnstile[u])
            /\ \A x \in Turnstiles : td_turnstile[u] \notin ToSet(ts_free[x])
        BY <4>1, <2>1 DEF PlaceInv
      <4> QED
        BY <4>1, <4>2, <2>4, <1>16
    <3> QED
      BY <3>1, <3>2
  <2>9. \A x, y \in Turnstiles : OnChain(x)' => x \notin ToSet(ts_free'[y])
    BY <2>1, <2>4, <1>16 DEF PlaceInv
  <2>10. ASSUME NEW x \in Turnstiles, NEW y \in Turnstiles,
                NEW i \in DOMAIN ts_free'[x], NEW j \in DOMAIN ts_free'[y],
                ts_free'[x][i] = ts_free'[y][j]
         PROVE  x = y /\ i = j
    BY <2>1, <2>5, <2>10 DEF PlaceInv
  <2>11. ASSUME NEW x \in Turnstiles
         PROVE  \/ OnChain(x)'
                \/ \E u \in Thread : Spare(u)' /\ td_turnstile'[u] = x
                \/ \E y \in Turnstiles : x \in ToSet(ts_free'[y])
    <3>1. CASE x \in all
      BY <3>1, <2>2, <1>10
    <3>2. CASE x \notin all
      <4>0. x # ts /\ x \notin ToSet(ts_free[ts])
        BY <3>2 DEF all, f
      <4>1. CASE OnChain(x)
        BY <4>0, <4>1, <1>16
      <4>2. ASSUME NEW u \in Thread, Spare(u), td_turnstile[u] = x
            PROVE  Spare(u)' /\ td_turnstile'[u] = x
        BY <4>2, <2>2, <2>3
      <4>3. ASSUME NEW y \in Turnstiles, x \in ToSet(ts_free[y])
            PROVE  x \in ToSet(ts_free'[y])
        BY <4>0, <4>3, <2>4
      <4> QED
        BY <4>1, <4>2, <4>3, <2>1 DEF PlaceInv
    <3> QED
      BY <3>1, <3>2
  <2> QED
    BY <2>7, <2>8, <2>9, <2>10, <2>11 DEF PlaceInv
<1> QED
  BY <1>13, <1>21, <1>22, <1>23, <1>24, <1>25, <1>28, <1>29, <1>30 DEF TsInv

-----------------------------------------------------------------------------
\* The other turnstiles of a thread that wakes waiters have waiters themselves.
LEMMA OthersHaveWaiters ==
  ASSUME FullInv, NEW t \in Thread, pc[t] \in Waking
  PROVE  {turnstile_first_waiter(n) : n \in td_contested(t) \ {lts[t]}} \subseteq Thread
<1> SUFFICES ASSUME NEW n \in Turnstiles, ts_owner[n] = t, n # lts[t]
             PROVE  turnstile_first_waiter(n) \in Thread
  BY DEF td_contested
<1>1. OnChain(n)
  <2> SUFFICES ASSUME ~OnChain(n) PROVE FALSE
    OBVIOUS
  <2>1. PICK u \in Thread : Releasing(u, n)
    BY ListFacts, TurnstileAssumption DEF DetachedOf
  <2>2. u = t
    BY <2>1, OwnFacts DEF Releasing, LockedOf
  <2> QED
    BY <2>1, <2>2 DEF Releasing
<1>2. PICK c \in Chain : n \in tc_turnstiles[c]
  BY <1>1 DEF OnChain
<1>3. AttachedOf(n, c) /\ TurnstileTypeOK
  BY <1>2 DEF FullInv, TsInv, AttachedInv
<1>4. ts_blocked[n][EX] # <<>>
  <2>1. Len(ts_free[n]) \in Nat /\ Len(<<>>) = 0
    BY ListFacts, LenProperties
  <2> QED
    BY <1>3, <2>1 DEF AttachedOf
<1> QED
  BY <1>3, <1>4, FirstWaiterIsThread

\* The thread that has released a mutex makes its waiters runnable.
LEMMA UnpendStep ==
  ASSUME FullInv, NEW t \in Thread, Unpend(t)
  PROVE  TsInv'
<1>1. pc[t] = "unpend" /\ ~TD_ON_LOCK(t) /\ pc' = [pc EXCEPT ![t] = "idle"]
  BY DEF Unpend, Goto, TD_IS_RUNNING, TD_ON_LOCK
<1>2. cur[t] \in Mutex /\ lts[t] \in Turnstiles
  BY <1>1, OwnFacts DEF ControlOf, Locked
<1>3. PICK m \in Mutex, ts \in Turnstiles : m = cur[t] /\ ts = lts[t]
  BY <1>2
<1> DEFINE pend == ToSet(ts_pending[ts])
<1>4. /\ Attached(m) = {} /\ ts_lockobj[ts] = m /\ ~OnChain(ts) /\ ts_owner[ts] = t
      /\ tc_lock[TC_HASH[m]] = t /\ TC_HASH[m] \in Chain
  BY <1>1, <1>3, OwnFacts DEF LockedOf, Waking, ControlOf, Chained, Locked
<1>5. Waiting(ts) = {} /\ Waiters(ts) = {}
  <2>1. ts_blocked[ts][EX] = <<>> /\ ts_blocked[ts][TS_SHARED_QUEUE] = <<>>
    BY <1>4, ListFacts DEF DetachedOf, QueueOf
  <2>2. ToSet(<<>>) = {}
    BY DEF ToSet
  <2> QED
    BY <2>1, <2>2 DEF Waiting, Waiters, Queue, EX
<1>6. /\ ts_pending' = [ts_pending EXCEPT ![ts] = <<>>]
      /\ ts_lockobj' = [ts_lockobj EXCEPT ![ts] = NULL]
      /\ ts_owner' = [ts_owner EXCEPT ![ts] = NULL]
      /\ td_state' = [td \in Thread |-> IF td \in pend THEN "runq" ELSE td_state[td]]
      /\ td_blocked' = [td \in Thread |-> IF td \in pend THEN NULL ELSE td_blocked[td]]
      /\ ts_lock' = [ts_lock EXCEPT ![ts] = NULL]
      /\ tc_lock' = [tc_lock EXCEPT ![TC_HASH[m]] = NULL]
      /\ cur' = [cur EXCEPT ![t] = NULL]
      /\ v' = [v EXCEPT ![t] = MTX_UNOWNED]
      /\ lts' = [lts EXCEPT ![t] = NULL]
      /\ UNCHANGED <<tc_turnstiles, ts_blocked, ts_free, td_turnstile, td_base_pri, prop, mtx_lock>>
  BY <1>3, <1>5 DEF Unpend, turnstile_unpend, turnstile_chain_unlock, Return,
                    mutexVars
<1>7. td_priority' \in [Thread -> Priority] /\ td_borrowing' \in [Thread -> BOOLEAN]
  <2> DEFINE waiting == {turnstile_first_waiter(n) : n \in td_contested(t) \ {ts}}
  <2>1. waiting \subseteq Thread
    BY <1>1, <1>3, OthersHaveWaiters DEF Waking
  <2>2. sched_unlend_prio(t, Min({PRI_MAX} \cup {td_priority[w] : w \in waiting}))
    BY <1>3 DEF Unpend, turnstile_unpend
  <2>3. TurnstileTypeOK
    BY DEF FullInv, TsInv
  <2> HIDE DEF waiting
  <2> QED
    BY <2>1, <2>2, <2>3, UnlendEffect
<1>8. /\ ts_pending \in [Turnstiles -> Seq(Thread)]
      /\ ts_lockobj \in [Turnstiles -> Lock \cup {NULL}]
      /\ ts_owner \in [Turnstiles -> Thread \cup {NULL}]
      /\ ts_lock \in [Turnstiles -> Thread \cup {NULL}]
      /\ tc_lock \in [Chain -> Thread \cup {NULL}]
      /\ td_state \in [Thread -> {"running", "runq", "lock"}]
      /\ td_blocked \in [Thread -> Turnstiles \cup {NULL}]
      /\ pc \in [Thread -> Points] /\ lts \in [Thread -> Turnstiles \cup {NULL}]
      /\ cur \in [Thread -> Mutex \cup {NULL}] /\ v \in [Thread -> Word]
  BY OwnFacts DEF FullInv, TsInv, TurnstileTypeOK
<1>9. TurnstileTypeOK' /\ lts' \in [Thread -> Turnstiles \cup {NULL}]
  <2>1. <<>> \in Seq(Thread)
    OBVIOUS
  <2>2. /\ ts_pending' \in [Turnstiles -> Seq(Thread)]
        /\ ts_lockobj' \in [Turnstiles -> Lock \cup {NULL}]
        /\ ts_owner' \in [Turnstiles -> Thread \cup {NULL}]
        /\ ts_lock' \in [Turnstiles -> Thread \cup {NULL}]
        /\ tc_lock' \in [Chain -> Thread \cup {NULL}]
    BY <2>1, <1>6, <1>8
  <2>3. /\ td_state' \in [Thread -> {"running", "runq", "lock"}]
        /\ td_blocked' \in [Thread -> Turnstiles \cup {NULL}]
        /\ lts' \in [Thread -> Turnstiles \cup {NULL}]
    BY <1>6, <1>8
  <2> QED
    BY <2>2, <2>3, <1>6, <1>7 DEF FullInv, TsInv, TurnstileTypeOK
<1>10. /\ pc'[t] = "idle" /\ lts'[t] = NULL /\ cur'[t] = NULL
       /\ \A u \in Thread \ {t} :
            pc'[u] = pc[u] /\ lts'[u] = lts[u] /\ cur'[u] = cur[u] /\ v'[u] = v[u]
  BY <1>1, <1>6, <1>8
<1>11. /\ ts_pending'[ts] = <<>> /\ ts_lockobj'[ts] = NULL /\ ts_owner'[ts] = NULL
       /\ \A x \in Turnstiles \ {ts} : /\ ts_pending'[x] = ts_pending[x]
                                       /\ ts_lockobj'[x] = ts_lockobj[x]
                                       /\ ts_owner'[x] = ts_owner[x]
  BY <1>6, <1>8
<1>12. \A u \in pend : /\ u \in Thread /\ TD_ON_LOCK(u) /\ td_blocked[u] = ts
                       /\ td_turnstile[u] # NULL /\ pc[u] \in {"propagate", "blocked"}
  BY ListFacts, OwnFacts DEF QueueOf, ControlOf
<1>13. /\ \A u \in pend : ~TD_ON_LOCK(u)'
       /\ \A u \in Thread \ pend :
            (TD_ON_LOCK(u)' <=> TD_ON_LOCK(u)) /\ td_blocked'[u] = td_blocked[u]
  BY <1>6, <1>12 DEF TD_ON_LOCK
<1> HIDE DEF pend
<1>14. \A x \in Turnstiles : (OnChain(x)' <=> OnChain(x)) /\ Waiting(x)' = Waiting(x)
  BY <1>6 DEF OnChain, Waiting
<1>15. \A n \in Mutex : Attached(n)' = Attached(n)
  <2> SUFFICES ASSUME NEW n \in Mutex PROVE Attached(n)' = Attached(n)
    OBVIOUS
  <2>1. TC_HASH[n] \in Chain /\ tc_turnstiles[TC_HASH[n]] \subseteq Turnstiles
    BY TurnstileAssumption DEF FullInv, TsInv, TurnstileTypeOK
  <2>2. \A x \in tc_turnstiles[TC_HASH[n]] : x # ts /\ ts_lockobj'[x] = ts_lockobj[x]
    BY <2>1, <1>4, <1>11 DEF OnChain
  <2> QED
    BY <2>2, <1>6 DEF Attached
<1>16. Others(t) /\ ChainKept(t)
  <2>1. \A u \in Thread : TD_ON_LOCK(u)' => TD_ON_LOCK(u)
    BY <1>13
  <2> QED
    BY <2>1, <1>4, <1>6, <1>8, <1>10 DEF Others, ChainKept
<1>17. ControlInv'
  <2>1. ~TD_ON_LOCK(t)'
    BY <1>1, <1>13
  <2>2. ControlOf(t)'
    BY <2>1, <1>10 DEF ControlOf, Chained, Locked
  <2> QED
    BY <1>16, <2>2, ControlStep
<1>18. MarkInv'
  <2>1. MarkOf(t)'
    BY <1>10 DEF MarkOf, LockPath
  <2>2. \A n \in Mutex :
          (Attached(n) # {} \/ (cur[t] = n /\ pc[t] \in {"wait", "release"})) =>
             \/ Attached(n)' # {}
             \/ (cur'[t] = n /\ pc'[t] \in {"wait", "release"})
    BY <1>1, <1>15
  <2> QED
    BY <1>6, <1>16, <2>1, <2>2, WordsAloneStep
<1>19. AttachedInv'
  <2> SUFFICES ASSUME NEW c \in Chain, NEW x \in tc_turnstiles[c] PROVE AttachedOf(x, c)'
    BY <1>6 DEF AttachedInv
  <2>1. x \in Turnstiles /\ AttachedOf(x, c) /\ x # ts
    BY <1>4 DEF FullInv, TsInv, AttachedInv, TurnstileTypeOK, OnChain
  <2> QED
    BY <2>1, <1>6, <1>11 DEF AttachedOf, mtx_owner
<1>20. OneAttached'
  BY <1>15 DEF OneAttached, FullInv, TsInv
<1>21. DetachedInv'
  <2> SUFFICES ASSUME NEW x \in Turnstiles, ~OnChain(x) PROVE DetachedOf(x)'
    BY <1>14 DEF DetachedInv
  <2>1. DetachedOf(x)
    BY ListFacts
  <2>2. CASE x = ts
    BY <2>1, <2>2, <1>6, <1>11 DEF DetachedOf
  <2>3. CASE x # ts
    <3>1. \A u \in Thread : /\ Releasing(u, x) => Releasing(u, x)'
                            /\ Preparing(u, x) => Preparing(u, x)'
      BY <2>3, <1>1, <1>3, <1>6, <1>10 DEF Releasing, Preparing, Looking
    <3> QED
      BY <2>1, <2>3, <3>1, <1>6, <1>11 DEF DetachedOf
  <2> QED
    BY <2>2, <2>3
<1>22. \A x \in Turnstiles : \A u \in Waiting(x) : u \in Thread \ {t} /\ u \notin pend
  <2> SUFFICES ASSUME NEW x \in Turnstiles, NEW u \in Waiting(x)
               PROVE  u \in Thread \ {t} /\ u \notin pend
    OBVIOUS
  <2>1. u \in Thread /\ (pc[u] = "block" \/ (TD_ON_LOCK(u) /\ td_turnstile[u] = NULL))
    BY ListFacts DEF QueueOf
  <2> QED
    BY <2>1, <1>1, <1>12
<1>23. \A x \in Turnstiles \ {ts} : \A u \in ToSet(ts_pending[x]) :
         u \in Thread /\ u \notin pend
  <2> SUFFICES ASSUME NEW x \in Turnstiles \ {ts}, NEW u \in ToSet(ts_pending[x])
               PROVE  u \in Thread /\ u \notin pend
    OBVIOUS
  <2>1. u \in Thread /\ td_blocked[u] = x
    BY ListFacts DEF QueueOf
  <2> QED
    BY <2>1, <1>12
<1>24. QueueInv'
  <2> SUFFICES ASSUME NEW x \in Turnstiles PROVE QueueOf(x)'
    BY DEF QueueInv
  <2>1. QueueOf(x)
    BY ListFacts
  <2>2. Injective(<<>>) /\ ToSet(<<>>) = {}
    BY DEF Injective, ToSet
  <2>3. CASE x = ts
    BY <2>1, <2>2, <2>3, <1>5, <1>6, <1>11, <1>14 DEF QueueOf
  <2>4. CASE x # ts
    <3>1. \A u \in Waiting(x) :
            /\ pc'[u] = pc[u] /\ lts'[u] = lts[u] /\ cur'[u] = cur[u]
            /\ (TD_ON_LOCK(u)' <=> TD_ON_LOCK(u)) /\ td_blocked'[u] = td_blocked[u]
      BY <1>10, <1>13, <1>22
    <3>2. \A u \in ToSet(ts_pending[x]) :
            (TD_ON_LOCK(u)' <=> TD_ON_LOCK(u)) /\ td_blocked'[u] = td_blocked[u]
      BY <2>4, <1>13, <1>23
    <3>3. /\ ts_blocked'[x] = ts_blocked[x] /\ Waiting(x)' = Waiting(x)
          /\ ts_pending'[x] = ts_pending[x] /\ ts_lockobj'[x] = ts_lockobj[x]
          /\ \A u \in Thread : td_turnstile'[u] = td_turnstile[u]
      BY <2>4, <1>6, <1>11, <1>14
    <3>4. \A u \in Waiting(x)' :
            \/ pc'[u] = "block" /\ lts'[u] = x
            \/ /\ TD_ON_LOCK(u)' /\ td_blocked'[u] = x /\ cur'[u] = ts_lockobj'[x]
               /\ td_turnstile'[u] = NULL
      BY <2>1, <3>1, <3>3, <1>22 DEF QueueOf
    <3>5. \A u \in ToSet(ts_pending'[x]) :
            TD_ON_LOCK(u)' /\ td_blocked'[u] = x /\ td_turnstile'[u] # NULL
      BY <2>1, <2>4, <3>2, <3>3, <1>23 DEF QueueOf
    <3> QED
      BY <2>1, <3>3, <3>4, <3>5 DEF QueueOf
  <2> QED
    BY <2>3, <2>4
<1>25. LockedInv'
  <2> SUFFICES ASSUME NEW u \in Thread PROVE LockedOf(u)'
    BY DEF LockedInv
  <2>0. LockedOf(u) /\ ControlOf(u)
    BY OwnFacts
  <2>1. CASE u = t
    <3>1. ~TD_ON_LOCK(t)' /\ td_turnstile'[t] # NULL
      BY <2>0, <2>1, <1>1, <1>6, <1>13 DEF LockedOf
    <3> QED
      BY <2>1, <3>1, <1>10 DEF LockedOf, Looking, Waking
  <2>2. CASE u # t
    <3>1. /\ pc'[u] = pc[u] /\ cur'[u] = cur[u] /\ lts'[u] = lts[u]
          /\ td_turnstile'[u] = td_turnstile[u]
      BY <2>2, <1>6, <1>10
    <3>2. pc[u] \in Looking \cup Waking \cup {"block"} =>
            /\ cur[u] \in Mutex /\ lts[u] \in Turnstiles /\ cur[u] # m
            /\ Attached(cur[u])' = Attached(cur[u])
            /\ Waiting(lts[u])' = Waiting(lts[u])
      <4> SUFFICES ASSUME pc[u] \in Looking \cup Waking \cup {"block"}
                   PROVE  /\ cur[u] \in Mutex /\ lts[u] \in Turnstiles /\ cur[u] # m
                          /\ Attached(cur[u])' = Attached(cur[u])
                          /\ Waiting(lts[u])' = Waiting(lts[u])
        OBVIOUS
      <4>1. pc[u] \in Chained /\ cur[u] \in Mutex /\ lts[u] \in Turnstiles
        BY <2>0 DEF ControlOf, Looking, Waking, Locked, Chained
      <4>2. cur[u] # m
        BY <2>2, <4>1, <1>1, <1>3, OneInChain DEF Chained, Locked
      <4> QED
        BY <3>1, <4>1, <4>2, <1>14, <1>15
    <3>3. pc[u] \in Looking /\ ts_lockobj[lts[u]] = cur[u] => ts_lockobj'[lts[u]] = cur[u]
      BY <3>2, <1>4, <1>11
    <3>4. pc[u] \in Waking =>
            /\ lts[u] # ts /\ ~OnChain(lts[u])'
            /\ ts_lockobj'[lts[u]] = ts_lockobj[lts[u]]
            /\ ts_owner'[lts[u]] = ts_owner[lts[u]]
            /\ ts_pending'[lts[u]] = ts_pending[lts[u]]
      <4> SUFFICES ASSUME pc[u] \in Waking
                   PROVE  /\ lts[u] # ts /\ ~OnChain(lts[u])'
                          /\ ts_lockobj'[lts[u]] = ts_lockobj[lts[u]]
                          /\ ts_owner'[lts[u]] = ts_owner[lts[u]]
                          /\ ts_pending'[lts[u]] = ts_pending[lts[u]]
        OBVIOUS
      <4>1. lts[u] \in Turnstiles /\ lts[u] # ts /\ ~OnChain(lts[u])
        BY <2>0, <2>2, <3>2, <1>4 DEF LockedOf
      <4>2. ~OnChain(lts[u])'
        BY <4>1, <3>1, <1>14
      <4> QED
        BY <4>1, <4>2, <1>11
    <3>5. TD_ON_LOCK(u)' =>
            /\ TD_ON_LOCK(u) /\ td_blocked'[u] = td_blocked[u] /\ td_blocked[u] \in Turnstiles
            /\ Waiting(td_blocked[u])' = Waiting(td_blocked[u])
            /\ ts_pending'[td_blocked[u]] = ts_pending[td_blocked[u]]
      <4> SUFFICES ASSUME TD_ON_LOCK(u)'
                   PROVE  /\ TD_ON_LOCK(u) /\ td_blocked'[u] = td_blocked[u]
                          /\ td_blocked[u] \in Turnstiles
                          /\ Waiting(td_blocked[u])' = Waiting(td_blocked[u])
                          /\ ts_pending'[td_blocked[u]] = ts_pending[td_blocked[u]]
        OBVIOUS
      <4>1. u \notin pend /\ TD_ON_LOCK(u) /\ td_blocked'[u] = td_blocked[u]
        BY <1>13
      <4>2. /\ td_blocked[u] \in Turnstiles
            /\ u \in Waiting(td_blocked[u]) \/ u \in ToSet(ts_pending[td_blocked[u]])
        BY <2>0, <4>1 DEF LockedOf
      <4>3. td_blocked[u] # ts
        BY <4>1, <4>2, <1>5 DEF pend
      <4>4. Waiting(td_blocked[u])' = Waiting(td_blocked[u])
        BY <4>1, <4>2, <1>14
      <4> QED
        BY <4>1, <4>2, <4>3, <4>4, <1>11
    <3>6. td_turnstile[u] = NULL => TD_ON_LOCK(u)'
      BY <2>0, <1>12, <1>13 DEF LockedOf
    <3> QED
      BY <2>0, <3>1, <3>2, <3>3, <3>4, <3>5, <3>6, <1>6 DEF LockedOf
  <2> QED
    BY <2>1, <2>2
<1>26. PlaceInv'
  <2>1. \A u \in Thread : (Spare(u)' <=> Spare(u)) /\ td_turnstile'[u] = td_turnstile[u]
    BY <1>1, <1>6, <1>10 DEF Spare
  <2>2. PlaceInv /\ \A u \in Thread : Spare(u) => td_turnstile[u] \in Turnstiles
    BY DEF FullInv, TsInv, Spare, TurnstileTypeOK
  <2>3. \A x \in Turnstiles : ts_free'[x] = ts_free[x]
    BY <1>6
  <2> QED
    BY <2>1, <2>2, <2>3, <1>14 DEF PlaceInv
<1> QED
  BY <1>9, <1>17, <1>18, <1>19, <1>20, <1>21, <1>24, <1>25, <1>26 DEF TsInv

-----------------------------------------------------------------------------
\* Every step keeps the invariant.
LEMMA FullInvNext == FullInv /\ [Next]_vars => FullInv'
<1> SUFFICES ASSUME FullInv, [Next]_vars PROVE FullInv'
  OBVIOUS
<1>1. MutexInv'
  BY MutexInvNext DEF FullInv
<1>2. ASSUME UNCHANGED vars PROVE TsInv'
  <2>1. /\ UNCHANGED <<tc_lock, tc_turnstiles, ts_lock, ts_lockobj, ts_owner, ts_blocked,
                       ts_pending, ts_free, td_turnstile, td_blocked, td_state>>
        /\ UNCHANGED <<td_priority, td_base_pri, td_borrowing, prop, mtx_lock, pc, cur, v, lts>>
    BY <1>2 DEF vars, turnstileVars, chainVars, queueVars, priVars, mutexVars,
                localVars
  <2>2. TurnstileTypeOK' /\ lts' \in [Thread -> Turnstiles \cup {NULL}]
    BY <2>1 DEF FullInv, TsInv, TurnstileTypeOK
  <2>3. ControlInv' /\ MarkInv'
    BY <2>1 DEF FullInv, TsInv, ControlInv, ControlOf, TD_ON_LOCK, MarkInv,
                MarkWord,
                MarkOf, mtx_owner, Attached
  <2>4. AttachedInv' /\ OneAttached'
    BY <2>1 DEF FullInv, TsInv, AttachedInv, AttachedOf, mtx_owner, OneAttached,
                Attached
  <2>5. DetachedInv' /\ QueueInv'
    BY <2>1 DEF FullInv, TsInv, DetachedInv, DetachedOf, OnChain, Releasing,
                Preparing,
                QueueInv, QueueOf, Waiting, TD_ON_LOCK
  <2>6. LockedInv'
    BY <2>1 DEF FullInv, TsInv, LockedInv, LockedOf, OnChain, Attached, Waiting,
                TD_ON_LOCK
  <2>7. PlaceInv'
    BY <2>1 DEF FullInv, TsInv, PlaceInv, Spare, OnChain
  <2> QED
    BY <2>2, <2>3, <2>4, <2>5, <2>6, <2>7 DEF TsInv
<1>3. ASSUME NEW t \in Thread, Step(t) PROVE TsInv'
  BY <1>3, QuietSteps, ObtainStep, TrywaitStep, LookingSteps, WaitStep, BlockStep,
     PrioritySteps, UnlockSleepKeeps, BroadcastStep, ReleaseKeeps, UnpendStep
  DEF Step
<1>4. ASSUME NEW t \in Thread, Client(t) PROVE TsInv'
  BY <1>4, LockCalls, UnlockCall, LifeKeeps DEF Client
<1>5. ASSUME Next PROVE TsInv'
  <2>1. PICK t \in Thread :
          \/ Step(t)
          \/ Client(t)
          \/ \E td \in Thread, prio \in NewPri : SchedPrio(t, td, prio)
          \/ Preempt(t)
          \/ Dispatch(t)
    BY <1>5 DEF Next
  <2>2. CASE Step(t)
    BY <2>2, <1>3
  <2>3. CASE Client(t)
    BY <2>3, <1>4
  <2>4. CASE \E td \in Thread, prio \in NewPri : SchedPrio(t, td, prio)
    BY <2>4, PrioritySteps
  <2>5. CASE Preempt(t) \/ Dispatch(t)
    BY <2>5, QuietSteps
  <2> QED
    BY <2>1, <2>2, <2>3, <2>4, <2>5
<1> QED
  BY <1>1, <1>2, <1>5 DEF FullInv

\* The invariant holds in every reachable state.
LEMMA FullInvAlways == Spec => []FullInv
<1>1. Init => FullInv
  BY MutexInvInit, TsInvInit DEF FullInv
<1> QED
  BY <1>1, FullInvNext, PTL DEF Spec

\* The waiters of a turnstile are those of its exclusive queue: mutexes leave
\* the shared one empty.
LEMMA WaitersAreWaiting ==
  ASSUME FullInv, NEW ts \in Turnstiles
  PROVE  Waiters(ts) = Waiting(ts)
<1>1. ts_blocked[ts][TS_SHARED_QUEUE] = <<>>
  BY ListFacts DEF QueueOf
<1>2. ToSet(<<>>) = {}
  BY DEF ToSet
<1> QED
  BY <1>1, <1>2 DEF Waiters, Waiting, Queue, EX

\* No wakeup of a mutex is lost: a blocked thread is in the turnstile that the
\* unlock path will find, under a contested word that names the turnstile's
\* owner, or on a pending list that some thread is about to make runnable.
THEOREM WakeupsAreNotLost == Spec => []NoLostWakeup
<1>1. ASSUME FullInv, NEW t \in Thread, TD_ON_LOCK(t)
      PROVE  \/ /\ t \in Waiters(td_blocked[t])
                /\ td_blocked[t] \in Attached(cur[t])
                /\ mtx_lock[cur[t]].contested
                /\ mtx_owner(cur[t]) = ts_owner[td_blocked[t]]
             \/ /\ t \in ToSet(ts_pending[td_blocked[t]])
                /\ \E u \in Thread : pc[u] \in {"release", "unpend"} /\ lts[u] = td_blocked[t]
  <2>1. PICK ts \in Turnstiles : ts = td_blocked[t]
    BY <1>1, OwnFacts DEF LockedOf
  <2>2. t \in Waiting(ts) \/ t \in ToSet(ts_pending[ts])
    BY <1>1, <2>1, OwnFacts DEF LockedOf
  <2>3. CASE t \in Waiting(ts)
    <3>1. cur[t] \in Mutex /\ cur[t] = ts_lockobj[ts]
      BY <1>1, <2>3, ListFacts, OwnFacts DEF QueueOf, ControlOf
    <3>2. ts_blocked[ts][EX] # <<>>
      BY <2>3 DEF Waiting, ToSet
    <3>3. OnChain(ts)
      BY <1>1, <3>2, ListFacts DEF DetachedOf
    <3>4. ts \in Attached(cur[t])
      BY <1>1, <3>1, <3>3 DEF OnChain, Attached, FullInv, TsInv, AttachedInv,
                              AttachedOf
    <3>5. mtx_lock[cur[t]].contested /\ mtx_owner(cur[t]) = ts_owner[ts]
      BY <1>1, <3>1, <3>4, AttachedFacts
    <3> QED
      BY <1>1, <2>1, <2>3, <3>4, <3>5, WaitersAreWaiting
  <2>4. CASE t \in ToSet(ts_pending[ts])
    <3>1. ts_pending[ts] # <<>>
      BY <2>4 DEF ToSet
    <3>2. ~OnChain(ts)
      BY <1>1, <3>1 DEF OnChain, FullInv, TsInv, AttachedInv, AttachedOf
    <3>3. \E u \in Thread : Releasing(u, ts)
      BY <1>1, <3>1, <3>2, ListFacts DEF DetachedOf
    <3> QED
      BY <2>1, <2>4, <3>3 DEF Releasing, Waking
  <2> QED
    BY <2>2, <2>3, <2>4
<1>2. FullInv => NoLostWakeup
  BY <1>1 DEF NoLostWakeup
<1> QED
  BY <1>2, FullInvAlways, PTL

\* Waiters and owners agree on the turnstile: the owner that a waiter found in
\* the lock word is still the owner when the waiter joins the turnstile, and the
\* owner that has the chain lock finds one turnstile, which records it.
THEOREM UnlockFindsItsTurnstile == Spec => []UnlockFindsTurnstile
<1>1. ASSUME FullInv PROVE OwnerOfRecord
  <2> SUFFICES ASSUME NEW t \in Thread, pc[t] = "wait"
               PROVE  /\ mtx_owner(cur[t]) \in Thread \ {t}
                      /\ mtx_lock[cur[t]].contested
                      /\ lts[t] # td_turnstile[t] => ts_owner[lts[t]] = mtx_owner(cur[t])
    BY DEF OwnerOfRecord
  <2>1. cur[t] \in Mutex
    BY <1>1, OwnFacts DEF ControlOf
  <2>2. mtx_owner(cur[t]) \in Thread \ {t} /\ mtx_lock[cur[t]].contested
    BY <1>1, <2>1, OwnFacts DEF MarkOf, LockPath
  <2>3. lts[t] # td_turnstile[t] => lts[t] \in Attached(cur[t])
    BY <1>1, OwnFacts DEF LockedOf, Looking
  <2> QED
    BY <1>1, <2>1, <2>2, <2>3, AttachedFacts
<1>2. ASSUME FullInv, NEW t \in Thread, pc[t] = "lookup"
      PROVE  \E ts \in Turnstiles : Attached(cur[t]) = {ts} /\ ts_owner[ts] = t
  <2>1. PICK m \in Mutex : m = cur[t]
    BY <1>2, OwnFacts DEF ControlOf
  <2>2. mtx_lock[m].contested /\ mtx_owner(m) = t
    BY <1>2, <2>1, OwnFacts DEF MarkOf, FullInv, MutexInv, UnlockerOwns, Unlocking
  <2>3. Attached(m) # {}
    <3> SUFFICES ASSUME NEW u \in Thread, cur[u] = m, pc[u] \in {"wait", "release"}
                 PROVE  FALSE
      BY <1>2, <2>2, OwnFacts DEF MarkWord
    <3>1. u = t
      BY <1>2, <2>1, OneInChain DEF Chained, Locked
    <3> QED
      BY <1>2, <3>1
  <2>4. PICK ts \in Attached(m) : TRUE
    BY <2>3
  <2>5. ts \in Turnstiles /\ ts_owner[ts] = t
    BY <1>2, <2>2, AttachedFacts
  <2>6. Attached(m) = {ts}
    BY <1>2, <2>1, <2>4 DEF FullInv, TsInv, OneAttached
  <2> QED
    BY <2>1, <2>5, <2>6
<1>3. FullInv => UnlockFindsTurnstile
  BY <1>1, <1>2 DEF UnlockFindsTurnstile
<1> QED
  BY <1>3, FullInvAlways, PTL

\* A turnstile is in one place.
LEMMA OnePlace ==
  ASSUME FullInv, NEW ts \in Turnstiles
  PROVE  \E p : Places(ts) = {p}
<1> DEFINE A == {<<"thread", t>> : t \in {u \in Thread : td_turnstile[u] = ts /\ pc[u] # "block"}}
           B == {<<"chain", c>> : c \in {k \in Chain : ts \in tc_turnstiles[k]}}
           F(x) == {<<"free", x, i>> : i \in {j \in DOMAIN ts_free[x] : ts_free[x][j] = ts}}
           C == UNION {F(x) : x \in Turnstiles}
<1>1. Places(ts) = A \cup B \cup C
  BY Zenon DEF Places
<1>2. PlaceInv /\ ts # NULL
  BY TurnstileAssumption DEF FullInv, TsInv
<1>3. \A u \in Thread :
        Spare(u) /\ td_turnstile[u] = ts <=> td_turnstile[u] = ts /\ pc[u] # "block"
  BY <1>2 DEF Spare
<1>4. CASE OnChain(ts)
  <2>1. PICK c \in Chain : ts \in tc_turnstiles[c]
    BY <1>4 DEF OnChain
  <2>2. \A k \in Chain : ts \in tc_turnstiles[k] => k = c
    BY <2>1 DEF FullInv, TsInv, AttachedInv, AttachedOf
  <2>3. B = {<<"chain", c>>}
    BY <2>1, <2>2
  <2>4. A = {}
    BY <1>2, <1>3, <1>4 DEF PlaceInv
  <2>5. \A x \in Turnstiles : F(x) = {}
    BY <1>2, <1>4 DEF PlaceInv, ToSet
  <2> HIDE DEF A, B, F
  <2>6. C = {}
    BY <2>5
  <2> QED
    BY <1>1, <2>3, <2>4, <2>6
<1>5. ASSUME NEW u \in Thread, Spare(u), td_turnstile[u] = ts
      PROVE  \E p : Places(ts) = {p}
  <2>1. \A w \in Thread : td_turnstile[w] = ts /\ pc[w] # "block" => w = u
    BY <1>2, <1>3, <1>5 DEF PlaceInv
  <2>2. A = {<<"thread", u>>}
    BY <2>1, <1>3, <1>5
  <2>3. B = {}
    BY <1>2, <1>5 DEF PlaceInv, OnChain
  <2>4. \A x \in Turnstiles : F(x) = {}
    BY <1>2, <1>5 DEF PlaceInv, ToSet
  <2> HIDE DEF A, B, F
  <2>6. C = {}
    BY <2>4
  <2> QED
    BY <1>1, <2>2, <2>3, <2>6
<1>6. ASSUME NEW x \in Turnstiles, ts \in ToSet(ts_free[x])
      PROVE  \E p : Places(ts) = {p}
  <2>1. PICK i \in DOMAIN ts_free[x] : ts_free[x][i] = ts
    BY <1>6 DEF ToSet
  <2>2. A = {}
    BY <1>2, <1>3, <1>6 DEF PlaceInv
  <2>3. B = {}
    BY <1>2, <1>6 DEF PlaceInv, OnChain
  <2>4. \A y \in Turnstiles : \A j \in DOMAIN ts_free[y] :
          ts_free[y][j] = ts => y = x /\ j = i
    BY <1>2, <2>1 DEF PlaceInv
  <2>5. F(x) = {<<"free", x, i>>} /\ \A y \in Turnstiles \ {x} : F(y) = {}
    BY <2>1, <2>4
  <2> HIDE DEF A, B, F
  <2>6. C = {<<"free", x, i>>}
    BY <2>5
  <2> QED
    BY <1>1, <2>2, <2>3, <2>6
<1> QED
  BY <1>2, <1>4, <1>5, <1>6 DEF PlaceInv

\* Turnstiles are neither lost nor shared: each is in one place, with a thread,
\* in the hash table or on a free list, and the one a thread brings to a lock is
\* clean.
THEOREM TurnstilesAreConserved == Spec => []TurnstileConservation
<1>1. ASSUME FullInv PROVE TypeOK
  BY <1>1 DEF FullInv, TsInv, MutexInv, TypeOK
<1>2. ASSUME FullInv, NEW ts \in Turnstiles PROVE Cardinality(Places(ts)) = 1
  BY <1>2, OnePlace, FS_Singleton
<1>3. ASSUME FullInv PROVE SpareTurnstileClean
  <2> SUFFICES ASSUME NEW t \in Thread, pc[t] \in {"obtain", "chain", "trywait"}
               PROVE  LET ts == td_turnstile[t]
                      IN  /\ ts # NULL
                          /\ ts_lockobj[ts] = NULL /\ ts_owner[ts] = NULL
                          /\ Waiters(ts) = {} /\ ts_pending[ts] = <<>> /\ ts_free[ts] = <<>>
    BY DEF SpareTurnstileClean
  <2>1. ~TD_ON_LOCK(t)
    BY <1>3, OwnFacts DEF ControlOf
  <2>2. PICK ts \in Turnstiles : ts = td_turnstile[t]
    BY <1>3, <2>1, OwnTurnstile
  <2>3. /\ DetachedOf(ts) /\ ts_owner[ts] = NULL /\ ts_pending[ts] = <<>>
        /\ ts_lockobj[ts] = NULL
    BY <1>3, <2>1, <2>2, OwnTurnstile DEF Waking, Looking
  <2>4. Waiters(ts) = {}
    <3>1. ToSet(<<>>) = {}
      BY DEF ToSet
    <3> QED
      BY <1>3, <2>3, <3>1, WaitersAreWaiting DEF DetachedOf, Waiting
  <2> QED
    BY <2>2, <2>3, <2>4, TurnstileAssumption DEF DetachedOf
<1>4. FullInv => TurnstileConservation
  BY <1>1, <1>2, <1>3 DEF TurnstileConservation
<1> QED
  BY <1>4, FullInvAlways, PTL
=============================================================================
