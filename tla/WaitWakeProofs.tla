--------------------------- MODULE WaitWakeProofs ---------------------------
(***************************************************************************)
(* Wait and wake are a binary semaphore, for every set of threads.         *)
(***************************************************************************)
EXTENDS WaitWake, TLAPS

(***************************************************************************)
(* The initialised thread structures have their types.                     *)
(***************************************************************************)
LEMMA TypeInit == Init => TypeOK
BY DEF Init, SyncInit, TypeOK, SyncTypeOK, SyncStates, WaitPoints, WakePoints

(***************************************************************************)
(* Every step keeps the types.                                             *)
(***************************************************************************)
LEMMA TypeStep == TypeOK /\ [Next]_vars => TypeOK'
<1> SUFFICES ASSUME TypeOK, [Next]_vars PROVE TypeOK'
  OBVIOUS
<1> USE DEF TypeOK, SyncTypeOK, SyncStates, WaitPoints, WakePoints, syncVars
<1>1. ASSUME NEW t \in Threads, Create(t) \/ Start(t) \/ Wait(t) PROVE TypeOK'
  BY <1>1 DEF Create, Start, Wait, CallWait
<1>2. ASSUME NEW t \in Threads, NEW u \in Threads, Wake(t, u) PROVE TypeOK'
  BY <1>2 DEF Wake, CallWake
<1>3. ASSUME NEW t \in Threads, InWait(t) PROVE TypeOK'
  <2>1. SyncTypeOK'
    BY ZenonT(30), <1>3 DEF InWait, WaitStep, SpinHit, SpinOver, Block, Clear, SigWait
  <2>2. credit' \in [Threads -> BOOLEAN]
    BY <1>3 DEF InWait
  <2> QED BY <1>3, <2>1, <2>2 DEF InWait
<1>4. ASSUME NEW t \in Threads, InWake(t) PROVE TypeOK'
  <2>1. SyncTypeOK'
    <3>1. CASE WakeCas(t)
      BY <3>1 DEF WakeCas
    <3>2. CASE WakeIdle(t)
      BY <3>2 DEF WakeIdle
    <3>3. CASE WakeKill(t)
      BY <3>3 DEF WakeKill
    <3> QED BY <1>4, <3>1, <3>2, <3>3 DEF InWake, WakeStep
  <2> QED BY <1>4, <2>1 DEF InWake
<1>5. CASE UNCHANGED vars
  BY <1>5 DEF vars
<1> QED BY <1>1, <1>2, <1>3, <1>4, <1>5 DEF Next

-----------------------------------------------------------------------------
(***************************************************************************)
(* Creating, starting and calling keep the invariant.                      *)
(***************************************************************************)
LEMMA CallStep ==
  ASSUME WakeInv, TypeOK', NEW t \in Threads,
         Create(t) \/ Start(t) \/ Wait(t) \/ \E u \in Threads : Wake(t, u)
  PROVE  WakeInv'
<1> USE DEF WakeInv, Targets, InFlight, Undisturbed, Delivered, InCall
<1>1. CASE Create(t) \/ Start(t)
  BY <1>1 DEF Create, Start, TypeOK, syncVars
<1>2. CASE Wait(t)
  BY <1>2 DEF Wait, CallWait, TypeOK, SyncTypeOK
<1>3. ASSUME NEW u \in Threads, Wake(t, u) PROVE WakeInv'
  <2>1. /\ UNCHANGED <<sync, pending, wait, born>>
        /\ wake[t] = "out" /\ wake'[t] = "cas" /\ target'[t] = u
        /\ ~credit[u] /\ credit'[u] /\ Undisturbed(u)
        /\ \A v \in Threads \ {t} : wake'[v] = wake[v] /\ target'[v] = target[v]
        /\ \A v \in Threads \ {u} : credit'[v] = credit[v]
    BY <1>3 DEF Wake, CallWake, TypeOK, SyncTypeOK
  <2>2. \A v \in Threads : ~Targets(v, u)
    BY <2>1
  <2>3. \A v, w \in Threads : Targets(v, w)' <=> Targets(v, w) \/ (v = t /\ w = u)
    BY <2>1, <2>2
  <2>4. born[t] = "running"
    BY <1>3 DEF Wake
  <2>5. \A v \in Threads : born'[v] # "running" => ~InCall(v)'
    BY <2>1, <2>4
  <2>6. \A v, w \in Threads : Targets(v, w)' => InFlight(v, w)'
    BY <2>1, <2>2, <2>3
  <2>7. \A w \in Threads :
          credit'[w] /\ (\A v \in Threads : ~Targets(v, w)') => Delivered(w)'
    BY <2>1, <2>3
  <2> QED BY <2>1, <2>2, <2>3, <2>5, <2>6, <2>7
<1> QED BY <1>1, <1>2, <1>3

(***************************************************************************)
(* A step of the waiter: a quiet thread stays quiet, a delivered wake-up   *)
(* stays delivered until the wait that consumes it ends.                   *)
(***************************************************************************)
LEMMA InWaitStep ==
  ASSUME WakeInv, TypeOK', NEW t \in Threads, InWait(t)
  PROVE  WakeInv'
<1> USE DEF WakeInv
<1>1. /\ UNCHANGED <<wake, target, born>>
      /\ wait[t] # "out"
      /\ \A u \in Threads \ {t} : /\ sync'[u] = sync[u] /\ pending'[u] = pending[u]
                                  /\ wait'[u] = wait[u] /\ credit'[u] = credit[u]
      /\ credit'[t] = (credit[t] /\ wait'[t] # "out")
  BY DEF InWait, WaitStep, SpinHit, SpinOver, Block, Clear, SigWait, TypeOK,
         SyncTypeOK
<1>2. /\ Undisturbed(t) => Undisturbed(t)' /\ wait'[t] # "out"
                           /\ (wait[t] = "sigwait" => wait'[t] = "sigwait")
      /\ Delivered(t) => \/ wait'[t] # "out" /\ Delivered(t)'
                         \/ wait'[t] = "out" /\ Undisturbed(t)'
      /\ ~(~pending[t] /\ sync[t] = "IDLE" /\ wait[t] = "sigwait")
  BY DEF InWait, WaitStep, SpinHit, SpinOver, Block, Clear, SigWait, TypeOK,
         SyncTypeOK, Undisturbed, Delivered
<1>3. \A v, u \in Threads : Targets(v, u)' <=> Targets(v, u)
  BY <1>1 DEF Targets
<1>4. \A v \in Threads : Targets(v, t) => Undisturbed(t)
  BY <1>2 DEF Targets, InFlight, TypeOK, SyncTypeOK, WakePoints
<1>5. \A v, u \in Threads : Targets(v, u)' => InFlight(v, u)'
  BY <1>1, <1>2, <1>3, <1>4 DEF InFlight, Undisturbed, Targets, TypeOK
<1>6. \A u \in Threads : ~credit'[u] => Undisturbed(u)'
  BY <1>1, <1>2, <1>4 DEF Undisturbed, TypeOK
<1>7. \A u \in Threads :
        credit'[u] /\ (\A v \in Threads : ~Targets(v, u)') => Delivered(u)'
  <2> SUFFICES ASSUME NEW u \in Threads, credit'[u],
                      \A v \in Threads : ~Targets(v, u)'
               PROVE  Delivered(u)'
    OBVIOUS
  <2>1. credit[u] /\ (u = t => wait'[t] # "out")
    BY ZenonT(30), <1>1
  <2>2. \A v \in Threads : ~Targets(v, u)
    BY <1>3
  <2>3. Delivered(u)
    BY <2>1, <2>2
  <2>4. CASE u = t
    BY <1>2, <2>1, <2>3, <2>4
  <2>5. CASE u # t
    BY <1>1, <2>3, <2>5 DEF Delivered
  <2> QED BY <2>4, <2>5
<1>8. \A v \in Threads : born'[v] # "running" => ~InCall(v)'
  BY <1>1 DEF InCall
<1> QED BY <1>3, <1>5, <1>6, <1>7, <1>8

(***************************************************************************)
(* A step of the waker moves the wake-up on, and the last one delivers it. *)
(***************************************************************************)
LEMMA InWakeStep ==
  ASSUME WakeInv, TypeOK', NEW t \in Threads, InWake(t)
  PROVE  WakeInv'
<1> USE DEF WakeInv
<1>0. PICK u \in Threads : u = target[t]
  BY DEF TypeOK, SyncTypeOK
<1>1. /\ UNCHANGED <<wait, target, born, credit>>
      /\ Targets(t, u)
      /\ \A v \in Threads \ {t} : wake'[v] = wake[v]
      /\ \A v \in Threads \ {u} : sync'[v] = sync[v] /\ pending'[v] = pending[v]
  BY <1>0 DEF InWake, WakeStep, WakeCas, WakeIdle, WakeKill, TypeOK, SyncTypeOK,
     Targets
<1>2. InFlight(t, u) /\ credit[u] /\ \A v \in Threads \ {t} : ~Targets(v, u)
  BY <1>1 DEF InFlight
<1>3. \/ wake'[t] = "out" /\ Delivered(u)'
      \/ wake'[t] # "out" /\ InFlight(t, u)'
  BY <1>0, <1>1, <1>2 DEF InWake, WakeStep, WakeCas, WakeIdle, WakeKill, TypeOK,
     SyncTypeOK, InFlight, Delivered, Undisturbed, Targets
<1>4. \A v, w \in Threads : Targets(v, w)' => Targets(v, w)
  BY <1>1 DEF Targets
<1>5. ASSUME NEW w \in Threads, w # u
      PROVE  /\ Undisturbed(w) => Undisturbed(w)'
             /\ Delivered(w) => Delivered(w)'
             /\ \A v \in Threads : v # t /\ InFlight(v, w) => InFlight(v, w)'
  BY <1>1, <1>5 DEF Undisturbed, Delivered, InFlight
<1>6. \A v, w \in Threads : Targets(v, w)' => InFlight(v, w)'
  <2> SUFFICES ASSUME NEW v \in Threads, NEW w \in Threads, Targets(v, w)'
               PROVE  InFlight(v, w)'
    OBVIOUS
  <2>1. CASE v = t
    BY <1>0, <1>1, <1>3, <2>1 DEF Targets
  <2>2. CASE v # t
    <3>1. Targets(v, w) /\ w # u
      BY <1>2, <1>4, <2>2
    <3>2. InFlight(v, w)
      BY <3>1
    <3> HIDE DEF WakeInv
    <3> QED BY <1>5, <2>2, <3>1, <3>2
  <2> QED BY <2>1, <2>2
<1>7. \A w \in Threads : ~credit'[w] => Undisturbed(w)'
  <2> SUFFICES ASSUME NEW w \in Threads, ~credit'[w] PROVE Undisturbed(w)'
    OBVIOUS
  <2>1. w # u /\ Undisturbed(w)
    BY <1>1, <1>2
  <2> QED BY <1>5, <2>1
<1>8. \A w \in Threads :
        credit'[w] /\ (\A v \in Threads : ~Targets(v, w)') => Delivered(w)'
  <2> SUFFICES ASSUME NEW w \in Threads, credit'[w],
                      \A v \in Threads : ~Targets(v, w)'
               PROVE  Delivered(w)'
    OBVIOUS
  <2>1. CASE w = u
    <3>1. ~Targets(t, u)'
      BY <1>1, <2>1
    <3>2. wake'[t] = "out"
      BY <1>1, <3>1 DEF Targets
    <3> QED BY <1>3, <2>1, <3>2
  <2>2. CASE w # u
    <3>1. \A v \in Threads : ~Targets(v, w)
      BY <1>1, <2>2 DEF Targets
    <3>2. Delivered(w)
      BY <1>1, <3>1
    <3> HIDE DEF WakeInv
    <3> QED BY <1>5, <2>2, <3>2
  <2> QED BY <2>1, <2>2
<1>9. \A v \in Threads : born'[v] # "running" => ~InCall(v)'
  BY <1>1 DEF InCall, Targets
<1> QED BY <1>4, <1>6, <1>7, <1>8, <1>9

-----------------------------------------------------------------------------
(***************************************************************************)
(* WakeInv is inductive.                                                   *)
(***************************************************************************)
LEMMA InvInit == Init => WakeInv
<1> SUFFICES ASSUME Init PROVE WakeInv
  OBVIOUS
<1>1. TypeOK
  BY TypeInit
<1> QED BY <1>1 DEF Init, SyncInit, WakeInv, Targets, InFlight, Undisturbed,
           Delivered, InCall

(***************************************************************************)
(* Every step of a waiter or a waker keeps WakeInv.                        *)
(***************************************************************************)
LEMMA InvStep == WakeInv /\ [Next]_vars => WakeInv'
<1> SUFFICES ASSUME WakeInv, [Next]_vars PROVE WakeInv'
  OBVIOUS
<1>1. TypeOK'
  BY TypeStep DEF WakeInv
<1>2. CASE UNCHANGED vars
  BY <1>1, <1>2 DEF vars, syncVars, WakeInv, Targets, InFlight, Undisturbed,
     Delivered, InCall
<1> QED BY <1>1, <1>2, CallStep, InWaitStep, InWakeStep DEF Next

(***************************************************************************)
(* Every wake-up is in flight or delivered, exactly once: the invariant    *)
(* behind the interleavings of the exchange, the store and the signal.     *)
(***************************************************************************)
THEOREM WakeInvariant == Spec => []WakeInv
<1>1. Init => WakeInv
  BY InvInit
<1>2. WakeInv /\ [Next]_vars => WakeInv'
  BY InvStep
<1> QED BY <1>1, <1>2, PTL DEF Spec

(***************************************************************************)
(* The two assertions of __pmp_thread_wake hold as long as its callers     *)
(* issue one wake-up per wait: the thread was not UNBLOCKED already, and   *)
(* the thread that gets the signal has a tid.                              *)
(***************************************************************************)
THEOREM WakeAssertions == Spec => [](NoDoubleWake /\ SignalledHasTid)
<1>1. WakeInv => NoDoubleWake
  BY DEF WakeInv, NoDoubleWake, Targets, InFlight, Undisturbed, TypeOK,
     SyncTypeOK, WakePoints
<1>2. WakeInv => SignalledHasTid
  BY DEF WakeInv, SignalledHasTid, Targets, InFlight, InCall, TypeOK, SyncTypeOK
<1> QED BY <1>1, <1>2, WakeInvariant, PTL

(***************************************************************************)
(* Each step of the protocol is a step of the semaphore, or a stutter.     *)
(***************************************************************************)
LEMMA SemaphoreStep == WakeInv /\ [Next]_vars => [Semaphore!Next]_(Semaphore!vars)
<1> SUFFICES ASSUME WakeInv, [Next]_vars PROVE [Semaphore!Next]_(Semaphore!vars)
  OBVIOUS
<1> USE DEF WakeInv, TypeOK, SyncTypeOK, Semaphore!vars, Token, Waiting
<1>1. ASSUME NEW t \in Threads, Create(t) \/ Start(t)
      PROVE  UNCHANGED Semaphore!vars
  BY <1>1 DEF Create, Start, syncVars
<1>2. ASSUME NEW t \in Threads, Wait(t) PROVE Semaphore!StartWait(t)
  BY ZenonT(30), <1>2 DEF Wait, CallWait, InCall, Semaphore!StartWait
<1>3. ASSUME NEW t \in Threads, NEW u \in Threads, Wake(t, u)
      PROVE  UNCHANGED Semaphore!vars
  BY <1>3 DEF Wake, CallWake
<1>4. ASSUME NEW t \in Threads, InWait(t)
      PROVE  Semaphore!EndWait(t) \/ UNCHANGED Semaphore!vars
  <2>1. CASE SpinHit(t) \/ SpinOver(t) \/ Block(t)
    BY <2>1 DEF SpinHit, SpinOver, Block
  <2>2. CASE Clear(t)
    <3>1. ~pending[t] /\ sync[t] = "UNBLOCKED"
      BY <2>2 DEF Clear, Undisturbed, Delivered, InFlight, Targets, WakePoints
    <3>2. Token[t] /\ Waiting[t]
      BY ZenonT(30), <2>2, <3>1 DEF Clear
    <3>3. \A u \in Threads : /\ Token'[u] <=> (u # t /\ Token[u])
                             /\ Waiting'[u] <=> (u # t /\ Waiting[u])
      BY <2>2, <3>1 DEF Clear
    <3> QED BY ZenonT(30), <3>2, <3>3 DEF Semaphore!EndWait
  <2>3. CASE SigWait(t)
    <3>1. pending[t] /\ sync[t] = "IDLE"
      BY <2>3 DEF SigWait, Undisturbed, Delivered, InFlight, Targets, WakePoints
    <3>2. Token[t] /\ Waiting[t]
      BY <2>3, <3>1 DEF SigWait
    <3>3. \A u \in Threads : /\ Token'[u] <=> (u # t /\ Token[u])
                             /\ Waiting'[u] <=> (u # t /\ Waiting[u])
      BY ZenonT(30), <2>3, <3>1 DEF SigWait
    <3> QED BY ZenonT(30), <3>2, <3>3 DEF Semaphore!EndWait
  <2> QED BY <1>4, <2>1, <2>2, <2>3 DEF InWait, WaitStep
<1>5. ASSUME NEW t \in Threads, InWake(t)
      PROVE  Semaphore!Wake(target[t]) \/ UNCHANGED Semaphore!vars
  <2>1. Targets(t, target[t]) /\ InFlight(t, target[t])
    BY <1>5 DEF InWake, WakeStep, WakeCas, WakeIdle, WakeKill, Targets
  <2>2. CASE WakeCas(t)
    BY ZenonT(30), <2>1, <2>2, <1>5 DEF InWake, WakeCas, Semaphore!Wake, InFlight, Undisturbed
  <2>3. CASE WakeIdle(t)
    BY <2>1, <2>3, <1>5 DEF InWake, WakeIdle, InFlight, Undisturbed
  <2>4. CASE WakeKill(t)
    BY ZenonT(30), <2>1, <2>4, <1>5 DEF InWake, WakeKill, Semaphore!Wake, InFlight, Undisturbed
  <2> QED BY <1>5, <2>2, <2>3, <2>4 DEF InWake, WakeStep
<1>6. CASE UNCHANGED vars
  BY <1>6 DEF vars, syncVars
<1>7. \A t \in Threads : target[t] \in Threads
  OBVIOUS
<1> HIDE DEF WakeInv, Semaphore!vars, Token, Waiting
<1> QED BY <1>1, <1>2, <1>3, <1>4, <1>5, <1>6, <1>7 DEF Next, Semaphore!Next

(***************************************************************************)
(* __pmp_thread_wait and __pmp_thread_wake implement a binary semaphore    *)
(* per thread, which is what module ForkJoin takes them for.               *)
(***************************************************************************)
THEOREM WakeImplementsSemaphore == Spec => ImplementsSemaphore
<1>1. Init => Semaphore!Init
  BY ZenonT(30) DEF Init, SyncInit, Semaphore!Init, Token, Waiting
<1>2. WakeInv /\ [Next]_vars => [Semaphore!Next]_(Semaphore!vars)
  BY SemaphoreStep
<1> QED BY <1>1, <1>2, WakeInvariant, PTL
    DEF Spec, ImplementsSemaphore, Semaphore!Spec
=============================================================================
