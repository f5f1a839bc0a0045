---------------------------- MODULE FlyPoolProofs ----------------------------
(***************************************************************************)
(* Proofs about FlyPool for every set of Machines, every bound on the      *)
(* attempts and every target: what a call has counted is real, the runners *)
(* it knew to be busy are spared, and it implements BackendCall, the call  *)
(* that the scaler sees.                                                   *)
(***************************************************************************)
EXTENDS FlyPool, FiniteSetTheorems, TLAPS

-----------------------------------------------------------------------------
(* Counting sets of Machines.                                              *)
LEMMA MachineCount ==
  ASSUME NEW S \in SUBSET Machines
  PROVE  /\ IsFiniteSet(S)
         /\ Cardinality(S) \in Nat
         /\ Cardinality(S) \in 0..Cardinality(Machines)
         /\ \A m \in Machines :
              /\ m \in S  => Cardinality(S \ {m}) = Cardinality(S) - 1
                             /\ Cardinality(S) > 0
              /\ m \notin S => Cardinality(S \cup {m}) = Cardinality(S) + 1
  <1>1. /\ IsFiniteSet(S) /\ Cardinality(S) \in Nat
        /\ Cardinality(Machines) \in Nat /\ Cardinality(S) <= Cardinality(Machines)
    BY FlyAssumption, FS_Subset, FS_CardinalityType
  <1>2. ASSUME NEW m \in Machines
        PROVE  /\ m \in S  => Cardinality(S \ {m}) = Cardinality(S) - 1
                              /\ Cardinality(S) > 0
               /\ m \notin S => Cardinality(S \cup {m}) = Cardinality(S) + 1
    <2>1. m \in S => Cardinality(S) # 0
      BY <1>1, FS_EmptySet
    <2>2. m \in S => Cardinality(S \ {m}) = Cardinality(S) - 1
      BY <1>1, FS_RemoveElement
    <2>3. m \notin S => Cardinality(S \cup {m}) = Cardinality(S) + 1
      BY <1>1, FS_AddElement
    <2> QED
      BY <1>1, <2>1, <2>2, <2>3
  <1> QED
    BY <1>1, <1>2

(* A subset is no larger than the set.                                     *)
LEMMA SubsetCount ==
  ASSUME NEW S \in SUBSET Machines, NEW T \in SUBSET S
  PROVE  Cardinality(T) <= Cardinality(S)
  BY MachineCount, FS_Subset

(* What the change of one Machine does to the active and startable ones.   *)
LEMMA OneMachine ==
  ASSUME state \in [Machines -> States], NEW m \in Machines, NEW to \in States,
         state' = [state EXCEPT ![m] = to]
  PROVE  /\ Active' = IF to \in {"starting", "started"} THEN Active \cup {m}
                                                       ELSE Active \ {m}
         /\ Startable' = IF to = "stopped" THEN Startable \cup {m} ELSE Startable \ {m}
  BY DEF Active, Startable, States

-----------------------------------------------------------------------------
(* Type correctness.                                                       *)
LEMMA InitType == Init => TypeOK
  <1> SUFFICES ASSUME Init PROVE TypeOK
    OBVIOUS
  <1>1. state \in [Machines -> States] /\ busy = {}
    BY DEF Init, States
  <1>2. from \in 0..Cardinality(Machines)
    BY FlyAssumption, FS_CardinalityType DEF Init
  <1>3. attempt \in 1..MaxAttempts
    BY ApiAssumption DEF Init
  <1>4. busy \subseteq {m \in Machines : state[m] = "started"}
    BY <1>1
  <1>5. want \in Nat /\ moved \in Int /\ lost \in Nat
    BY DEF Init
  <1> QED
    BY <1>1, <1>2, <1>3, <1>4, <1>5 DEF Init, TypeOK

(* A list or loop request keeps the attempts within bounds.                *)
LEMMA AttemptType ==
  ASSUME attempt \in 1..MaxAttempts, NEW o \in Outcomes,
         Succeeds(o) \/ TriesAgain(o) \/ GivesUp(o)
  PROVE  attempt' \in 1..MaxAttempts
  BY ApiAssumption DEF Succeeds, TriesAgain, GivesUp, FirstAttempt

(* Returning keeps the types.                                              *)
LEMMA ReturnType ==
  ASSUME TypeOK, NEW r \in {"ok", "error"}, Return(r)
  PROVE  /\ pc' \in {"idle", "list", "busy", "start", "stop"}
         /\ want' \in Nat /\ todo' \subseteq Machines /\ errs' \in BOOLEAN
         /\ result' \in {"ok", "error"}
         /\ from' \in 0..Cardinality(Machines) /\ moved' \in Int /\ lost' \in Nat
         /\ took' \subseteq Machines
  <1>1. 0 \in 0..Cardinality(Machines)
    BY FlyAssumption, FS_CardinalityType
  <1>2. {} \subseteq Machines /\ 0 \in Nat /\ 0 \in Int /\ FALSE \in BOOLEAN
    OBVIOUS
  <1> QED
    BY <1>1, <1>2, Zenon DEF Return

(* Every step keeps the types.                                             *)
LEMMA NextType == TypeOK /\ [Next]_vars => TypeOK'
  <1> SUFFICES ASSUME TypeOK, [Next]_vars PROVE TypeOK'
    OBVIOUS
  <1> USE DEF TypeOK
  <1>1. CASE Begin
    BY <1>1 DEF Begin, apiVars, machineVars, ghostVars
  <1>2. ASSUME NEW o \in Outcomes, List(o)
        PROVE  TypeOK'
    <2>1. attempt' \in 1..MaxAttempts
      BY <1>2, AttemptType DEF List
    <2>2. CASE Succeeds(o) /\ Listed
      <3>1. /\ Active \in SUBSET Machines /\ Startable \in SUBSET Machines
            /\ Replicas \in Nat /\ Replicas \in 0..Cardinality(Machines) /\ n \in Nat
        BY MachineCount, FlyAssumption DEF Active, Startable, Replicas
      <3>2. CASE Replicas < n
        BY <1>2, <2>1, <2>2, <3>1, <3>2 DEF List, Listed, machineVars
      <3>3. CASE Replicas > n
        BY <1>2, <2>1, <2>2, <3>1, <3>3 DEF List, Listed, machineVars
      <3>4. CASE Replicas = n
        BY <1>2, <2>1, <2>2, <3>1, <3>4, ReturnType DEF List, Listed, machineVars
      <3> QED
        BY <3>1, <3>2, <3>3, <3>4
    <2>3. CASE TriesAgain(o) /\ UNCHANGED <<pc, want, todo, errs, result, ghostVars>>
      BY <1>2, <2>1, <2>3 DEF List, machineVars, ghostVars
    <2>4. CASE GivesUp(o) /\ Return("error")
      BY <1>2, <2>1, <2>4, ReturnType DEF List, machineVars
    <2> QED
      BY <1>2, <2>2, <2>3, <2>4 DEF List
  <1>3. CASE ReadBusyOk
    BY <1>3 DEF ReadBusyOk, apiVars, machineVars
  <1>4. CASE ReadBusyFail
    BY <1>4, ReturnType DEF ReadBusyFail, apiVars, machineVars
  <1>5. ASSUME NEW m \in Machines, NEW o \in Outcomes, Loop(m, o), IsNext(m)
        PROVE  /\ attempt' \in 1..MaxAttempts /\ pc' = pc /\ want' \in Nat
               /\ todo' \subseteq Machines /\ errs' \in BOOLEAN /\ result' = result
    <2>1. attempt' \in 1..MaxAttempts
      BY <1>5, AttemptType DEF Loop
    <2>2. CASE Succeeds(o) /\ want' = want - 1 /\ todo' = todo \ {m}
               /\ UNCHANGED <<pc, errs, result>>
      <3>1. want - 1 \in Nat
        BY <1>5 DEF IsNext
      <3> QED
        BY <2>1, <2>2, <3>1
    <2>3. CASE TriesAgain(o) /\ UNCHANGED <<pc, want, todo, errs, result>>
      BY <2>1, <2>3
    <2>4. CASE GivesUp(o) /\ todo' = todo \ {m} /\ errs' = TRUE
               /\ UNCHANGED <<pc, want, result>>
      BY <2>1, <2>4
    <2> QED
      BY <1>5, <2>2, <2>3, <2>4 DEF Loop
  <1>6. ASSUME NEW m \in Machines, NEW o \in Outcomes, Start(m, o)
        PROVE  TypeOK'
    <2>1. /\ attempt' \in 1..MaxAttempts /\ pc' = pc /\ want' \in Nat
          /\ todo' \subseteq Machines /\ errs' \in BOOLEAN /\ result' = result
      BY <1>5, <1>6 DEF Start
    <2>2. CASE TakesEffect(o) /\ state[m] = "stopped"
      BY <1>6, <2>1, <2>2 DEF Start, Effect, States
    <2>3. CASE ~(TakesEffect(o) /\ state[m] = "stopped")
      BY <1>6, <2>1, <2>3 DEF Start, NoEffect, ghostVars
    <2> QED
      BY <2>2, <2>3
  <1>7. ASSUME NEW m \in Machines, NEW o \in Outcomes, Stop(m, o)
        PROVE  TypeOK'
    <2>1. /\ attempt' \in 1..MaxAttempts /\ pc' = pc /\ want' \in Nat
          /\ todo' \subseteq Machines /\ errs' \in BOOLEAN /\ result' = result
      BY <1>5, <1>7 DEF Stop
    <2>2. CASE TakesEffect(o) /\ m \in Active
      BY <1>7, <2>1, <2>2 DEF Stop, Effect, States
    <2>3. CASE ~(TakesEffect(o) /\ m \in Active)
      BY <1>7, <2>1, <2>3 DEF Stop, NoEffect, ghostVars
    <2> QED
      BY <2>2, <2>3
  <1>8. CASE LoopEnds
    BY <1>8, ReturnType DEF LoopEnds, apiVars, machineVars
  <1>9. CASE Cancel
    BY <1>9 DEF Cancel, machineVars, callVars, ghostVars
  <1>10. CASE Restart
    <2>1. attempt' \in 1..MaxAttempts
      BY <1>10, ApiAssumption DEF Restart, FirstAttempt
    <2>3. cancelled' \in BOOLEAN
      BY <1>10, Zenon DEF Restart
    <2>2. Return("ok") /\ UNCHANGED <<state, busy, n>>
      BY <1>10 DEF Restart, machineVars
    <2> QED
      BY <2>1, <2>2, <2>3, ReturnType
  <1>11. ASSUME NEW m \in Machines, Boots(m) \/ Exits(m) \/ Parks(m)
         PROVE  TypeOK'
    <2>1. state' \in [Machines -> States]
      BY <1>11 DEF Boots, Exits, Parks, Becomes, States
    <2>2. busy' \subseteq {k \in Machines : state'[k] = "started"}
      BY <1>11 DEF Boots, Exits, Parks, Becomes, States
    <2> QED
      BY <1>11, <2>1, <2>2
         DEF Boots, Exits, Parks, Becomes, apiVars, callVars, ghostVars
  <1>13. ASSUME NEW m \in Machines, TakesJob(m)
         PROVE  TypeOK'
    BY <1>13 DEF TakesJob, apiVars, callVars
  <1>12. CASE UNCHANGED vars
    BY <1>12 DEF vars, apiVars, machineVars, callVars, ghostVars
  <1> QED
    BY <1>1, <1>2, <1>3, <1>4, <1>6, <1>7, <1>8, <1>9, <1>10, <1>11, <1>12,
       <1>13 DEF Next, SetReplicas, Requests, World

(* Attempts, counts and lists stay within their bounds, and only a Machine *)
(* that has started runs a job (SetReplicas, do).                          *)
THEOREM FlyTypeCorrect == Spec => []TypeOK
  <1>1. Init => TypeOK
    BY InitType
  <1>2. TypeOK /\ [Next]_vars => TypeOK'
    BY NextType
  <1> QED
    BY <1>1, <1>2, PTL DEF Spec

-----------------------------------------------------------------------------
(***************************************************************************)
(* The inductive invariant.  A Machine that is on the list to start and no *)
(* longer stopped was started by a request whose reply was lost; one that  *)
(* is on the list to stop and no longer active went by itself or by such a *)
(* request.  Counting them keeps the books balanced when the retry is      *)
(* acknowledged without an effect.                                         *)
(***************************************************************************)
Books ==
  /\ pc \in {"idle", "list"} => from = 0 /\ moved = 0 /\ lost = 0
  /\ pc = "start" => /\ n > from /\ moved >= 0
                     /\ moved + want >= n - from + Cardinality(todo \ Startable)
                     /\ moved + want <= n - from + lost
  /\ pc \in {"busy", "stop"} => /\ n < from /\ moved <= 0
                                /\ Cardinality(Active \cup todo) <= n + want
                                /\ want - moved <= from - n + lost

Spared == HasBusy /\ pc = "stop" => todo \cap busy \subseteq took

IInv == TypeOK /\ Books /\ Spared

(* The types that the counting below needs, and what it counts.            *)
LEMMA Counts ==
  ASSUME TypeOK
  PROVE  /\ n \in Nat /\ want \in Nat /\ from \in Nat /\ moved \in Int /\ lost \in Nat
         /\ Active \in SUBSET Machines /\ Startable \in SUBSET Machines
         /\ todo \in SUBSET Machines
         /\ Replicas \in Nat
         /\ (todo \ Startable) \in SUBSET Machines
         /\ (Active \cup todo) \in SUBSET Machines
         /\ Cardinality(todo \ Startable) \in Nat
         /\ Cardinality(Active \cup todo) \in Nat
  <1>1. /\ Active \in SUBSET Machines /\ Startable \in SUBSET Machines
        /\ todo \in SUBSET Machines
    BY DEF TypeOK, Active, Startable
  <1>2. /\ (todo \ Startable) \in SUBSET Machines /\ (Active \cup todo) \in SUBSET Machines
    BY <1>1
  <1>3. /\ Cardinality(Active) \in Nat
        /\ Cardinality(todo \ Startable) \in Nat /\ Cardinality(Active \cup todo) \in Nat
    BY <1>1, <1>2, MachineCount
  <1>4. n \in Nat /\ from \in Nat
    BY FlyAssumption, FS_CardinalityType DEF TypeOK
  <1> QED
    BY <1>1, <1>2, <1>3, <1>4 DEF TypeOK, Replicas

(* Starting a Machine, or failing to, keeps the books (start, do).         *)
LEMMA StartKeepsBooks ==
  ASSUME TypeOK, Books, NEW m \in Machines, NEW o \in Outcomes, Start(m, o)
  PROVE  Books'
  <1> DEFINE P == todo \ Startable
  <1>1. /\ pc = "start" /\ pc' = "start" /\ n' = n /\ from' = from
        /\ want > 0 /\ m \in todo
    BY DEF Start, IsNext, Loop, Effect, NoEffect, ghostVars
  <1>2. /\ n > from /\ moved >= 0
        /\ moved + want >= n - from + Cardinality(P)
        /\ moved + want <= n - from + lost
    BY <1>1 DEF Books
  <1>3. /\ n \in Nat /\ want \in Nat /\ from \in Nat /\ moved \in Int /\ lost \in Nat
        /\ P \in SUBSET Machines /\ Cardinality(P) \in Nat
    BY Counts
  <1>4. \/ want' = want - 1 /\ todo' = todo \ {m} /\ o = "ok"
        \/ want' = want /\ todo' = todo /\ o \in {"lost", "retryable"}
        \/ want' = want /\ todo' = todo \ {m} /\ o # "ok"
    BY DEF Start, Loop, Succeeds, TriesAgain, GivesUp, Retryable
  <1>5. SUFFICES /\ moved' >= 0
                 /\ moved' + want' >= n - from + Cardinality(todo' \ Startable')
                 /\ moved' + want' <= n - from + lost'
    BY <1>1, <1>2 DEF Books
  <1>6. CASE TakesEffect(o) /\ state[m] = "stopped"
    <2>1. /\ moved' = moved + 1 /\ lost' = IF o = "ok" THEN lost ELSE lost + 1
          /\ state' = [state EXCEPT ![m] = "starting"]
      BY <1>6 DEF Start, Effect
    <2>2. Startable' = Startable \ {m}
      BY <2>1, OneMachine DEF TypeOK, States
    <2>3. m \in Startable
      BY <1>6 DEF Startable
    <2>4. CASE todo' = todo \ {m}
      <3>1. todo' \ Startable' = P
        BY <2>2, <2>3, <2>4
      <3>2. moved' = moved + 1
        BY <2>1
      <3>3. CASE want' = want - 1 /\ o = "ok"
        <4>1. lost' = lost
          BY <2>1, <3>3
        <4>2. moved' + want' = moved + want
          BY <1>3, <3>2, <3>3
        <4>3. moved' >= 0
          BY <1>2, <1>3, <3>2
        <4>4. moved' + want' >= n - from + Cardinality(todo' \ Startable')
          BY <1>2, <3>1, <4>2
        <4>5. moved' + want' <= n - from + lost'
          BY <1>2, <4>1, <4>2
        <4> QED
          BY <4>3, <4>4, <4>5
      <3>4. CASE want' = want /\ o # "ok"
        <4>1. lost' = lost + 1
          BY <2>1, <3>4
        <4> QED
          BY <1>2, <1>3, <3>1, <3>2, <3>4, <4>1
      <3> QED
        BY <1>1, <1>4, <2>4, <3>3, <3>4
    <2>5. CASE want' = want /\ todo' = todo /\ o # "ok"
      <3>1. todo' \ Startable' = P \cup {m} /\ m \notin P
        BY <1>1, <2>2, <2>3, <2>5
      <3>2. Cardinality(todo' \ Startable') = Cardinality(P) + 1
        BY <1>3, <3>1, MachineCount
      <3> QED
        BY <1>2, <1>3, <2>1, <3>2, <2>5
    <2> QED
      BY <1>4, <2>4, <2>5
  <1>7. CASE ~(TakesEffect(o) /\ state[m] = "stopped")
    <2>1. moved' = moved /\ lost' = lost /\ state' = state
      BY <1>7 DEF Start, NoEffect, ghostVars
    <2>2. Startable' = Startable
      BY <2>1 DEF Startable
    <2>3. CASE want' = want - 1 /\ todo' = todo \ {m} /\ o = "ok"
      <3>1. m \notin Startable
        BY <1>7, <2>3 DEF Startable, TakesEffect
      <3>2. todo' \ Startable' = P \ {m} /\ m \in P
        BY <1>1, <2>2, <2>3, <3>1
      <3>3. Cardinality(todo' \ Startable') = Cardinality(P) - 1
        BY <1>3, <3>2, MachineCount
      <3> QED
        BY <1>2, <1>3, <2>1, <2>3, <3>3
    <2>4. CASE want' = want /\ (todo' = todo \/ todo' = todo \ {m})
      <3>1. (todo' \ Startable') \in SUBSET P
        BY <2>2, <2>4
      <3>2. Cardinality(todo' \ Startable') <= Cardinality(P)
        BY <1>3, <3>1, SubsetCount
      <3>3. Cardinality(todo' \ Startable') \in Nat
        BY <1>3, <3>1, MachineCount
      <3> QED
        BY <1>2, <1>3, <2>1, <2>4, <3>2, <3>3
    <2> QED
      BY <1>4, <2>3, <2>4
  <1> QED
    BY <1>6, <1>7

(* Stopping a Machine, or failing to, keeps the books (stop, do).          *)
LEMMA StopKeepsBooks ==
  ASSUME TypeOK, Books, NEW m \in Machines, NEW o \in Outcomes, Stop(m, o)
  PROVE  Books'
  <1> DEFINE A == Active \cup todo
  <1>1. /\ pc = "stop" /\ pc' = "stop" /\ n' = n /\ from' = from
        /\ want > 0 /\ m \in todo
    BY DEF Stop, IsNext, Loop, Effect, NoEffect, ghostVars
  <1>2. /\ n < from /\ moved <= 0
        /\ Cardinality(A) <= n + want
        /\ want - moved <= from - n + lost
    BY <1>1 DEF Books
  <1>3. /\ n \in Nat /\ want \in Nat /\ from \in Nat /\ moved \in Int /\ lost \in Nat
        /\ A \in SUBSET Machines /\ Cardinality(A) \in Nat
    BY Counts
  <1>4. \/ want' = want - 1 /\ todo' = todo \ {m} /\ o = "ok"
        \/ want' = want /\ todo' = todo /\ o \in {"lost", "retryable"}
        \/ want' = want /\ todo' = todo \ {m} /\ o # "ok"
    BY DEF Stop, Loop, Succeeds, TriesAgain, GivesUp, Retryable
  <1>5. SUFFICES /\ moved' <= 0
                 /\ Cardinality(Active' \cup todo') <= n + want'
                 /\ want' - moved' <= from - n + lost'
    BY <1>1, <1>2 DEF Books
  <1>6. /\ \/ moved' = moved - 1 /\ lost' = (IF o = "ok" THEN lost ELSE lost + 1)
           \/ moved' = moved /\ lost' = lost
        /\ Active' \in SUBSET Active
        /\ o = "ok" => m \notin Active'
    <2>1. CASE TakesEffect(o) /\ m \in Active
      <3>1. /\ moved' = moved + -1 /\ lost' = (IF o = "ok" THEN lost ELSE lost + 1)
            /\ state' = [state EXCEPT ![m] = "stopping"]
        BY <2>1 DEF Stop, Effect
      <3>2. Active' = Active \ {m}
        BY <3>1, OneMachine DEF TypeOK, States
      <3> QED
        BY <1>3, <3>1, <3>2
    <2>2. CASE ~(TakesEffect(o) /\ m \in Active)
      <3>1. moved' = moved /\ lost' = lost /\ state' = state
        BY <2>2 DEF Stop, NoEffect, ghostVars
      <3>2. Active' = Active
        BY <3>1 DEF Active
      <3> QED
        BY <2>2, <3>1, <3>2 DEF TakesEffect
    <2> QED
      BY <2>1, <2>2
  <1>7. (Active' \cup todo') \in SUBSET A
    BY <1>4, <1>6
  <1>8. /\ Cardinality(Active' \cup todo') <= Cardinality(A)
        /\ Cardinality(Active' \cup todo') \in Nat
    BY <1>3, <1>7, SubsetCount, MachineCount
  <1>9. CASE want' = want - 1 /\ todo' = todo \ {m} /\ o = "ok"
    <2>1. (Active' \cup todo') \in SUBSET (A \ {m}) /\ m \in A
      BY <1>1, <1>6, <1>9
    <2>2. /\ Cardinality(A \ {m}) = Cardinality(A) - 1
          /\ (A \ {m}) \in SUBSET Machines
      BY <1>3, <2>1, MachineCount
    <2>3. Cardinality(Active' \cup todo') <= Cardinality(A \ {m})
      BY <2>1, <2>2, SubsetCount
    <2> QED
      BY <1>2, <1>3, <1>6, <1>8, <1>9, <2>2, <2>3
  <1>10. CASE want' = want /\ o # "ok"
    BY <1>2, <1>3, <1>6, <1>8, <1>10
  <1> QED
    BY <1>4, <1>9, <1>10

(* Listing the Machines opens the books.                                   *)
LEMMA ListingOpensBooks ==
  ASSUME TypeOK, Books, pc = "list", n' = n, UNCHANGED machineVars, Listed
  PROVE  Books'
  <1>1. /\ n \in Nat /\ Replicas \in Nat /\ moved = 0 /\ lost = 0
        /\ Active \in SUBSET Machines
    BY Counts DEF Books
  <1>2. Startable' = Startable /\ Active' = Active
    BY DEF machineVars, Startable, Active
  <1>3. CASE Replicas < n
    <2>1. /\ pc' = "start" /\ want' = n - Replicas /\ todo' = Startable
          /\ from' = Replicas /\ moved' = 0 /\ lost' = 0
      BY <1>1, <1>3 DEF Listed, Return
    <2>2. Cardinality(todo' \ Startable') = 0
      BY <1>2, <2>1, FS_EmptySet
    <2> QED
      BY <1>1, <1>3, <2>1, <2>2 DEF Books
  <1>4. CASE Replicas > n
    <2>1. /\ pc' \in {"busy", "stop"}
          /\ want' = Replicas - n /\ todo' = Active
          /\ from' = Replicas /\ moved' = 0 /\ lost' = 0
      BY <1>1, <1>4 DEF Listed, Return
    <2>2. Cardinality(Active' \cup todo') = Replicas
      BY <1>2, <2>1 DEF Replicas
    <2> QED
      BY <1>1, <1>4, <2>1, <2>2 DEF Books
  <1>5. CASE Replicas = n
    BY <1>1, <1>5 DEF Listed, Return, Books
  <1> QED
    BY <1>1, <1>3, <1>4, <1>5

(* The Machines going their own way keep the books.                        *)
LEMMA WorldKeepsBooks ==
  ASSUME TypeOK, Books, World
  PROVE  Books'
  <1>1. /\ pc' = pc /\ n' = n /\ want' = want /\ todo' = todo
        /\ from' = from /\ moved' = moved /\ lost' = lost
    BY DEF World, Boots, Exits, Parks, Becomes, TakesJob, callVars, ghostVars
  <1>2. Startable \subseteq Startable' /\ Active' \subseteq Active
    <2>1. ASSUME NEW m \in Machines, Boots(m)
          PROVE  Startable \subseteq Startable' /\ Active' \subseteq Active
      BY <2>1 DEF Boots, Becomes, Startable, Active, TypeOK
    <2>2. ASSUME NEW m \in Machines, Exits(m)
          PROVE  Startable \subseteq Startable' /\ Active' \subseteq Active
      BY <2>2 DEF Exits, Becomes, Startable, Active, TypeOK
    <2>3. ASSUME NEW m \in Machines, Parks(m)
          PROVE  Startable \subseteq Startable' /\ Active' \subseteq Active
      BY <2>3 DEF Parks, Becomes, Startable, Active, TypeOK
    <2>4. ASSUME NEW m \in Machines, TakesJob(m)
          PROVE  Startable \subseteq Startable' /\ Active' \subseteq Active
      BY <2>4 DEF TakesJob, Startable, Active
    <2> QED
      BY <2>1, <2>2, <2>3, <2>4 DEF World
  <1>3. /\ n \in Nat /\ want \in Nat /\ from \in Nat /\ moved \in Int /\ lost \in Nat
        /\ (todo \ Startable) \in SUBSET Machines
        /\ (Active \cup todo) \in SUBSET Machines
        /\ Cardinality(todo \ Startable) \in Nat
        /\ Cardinality(Active \cup todo) \in Nat
    BY Counts
  <1>4. /\ (todo' \ Startable') \in SUBSET (todo \ Startable)
        /\ (Active' \cup todo') \in SUBSET (Active \cup todo)
    BY <1>1, <1>2
  <1>5. /\ Cardinality(todo' \ Startable') <= Cardinality(todo \ Startable)
        /\ Cardinality(Active' \cup todo') <= Cardinality(Active \cup todo)
        /\ Cardinality(todo' \ Startable') \in Nat
        /\ Cardinality(Active' \cup todo') \in Nat
    BY <1>3, <1>4, SubsetCount, MachineCount
  <1>6. pc = "start" => moved' + want' >= n' - from' + Cardinality(todo' \ Startable')
    BY <1>1, <1>3, <1>5 DEF Books
  <1>7. pc \in {"busy", "stop"} => Cardinality(Active' \cup todo') <= n' + want'
    BY <1>1, <1>3, <1>5 DEF Books
  <1> QED
    BY <1>1, <1>6, <1>7 DEF Books

(* The books balance after every step.                                     *)
LEMMA BooksStep == TypeOK /\ Books /\ [Next]_vars => Books'
  <1> SUFFICES ASSUME TypeOK, Books, [Next]_vars PROVE Books'
    OBVIOUS
  <1>1. ASSUME NEW r \in {"ok", "error"}, Return(r)
        PROVE  Books'
    BY <1>1 DEF Return, Books
  <1>2. ASSUME UNCHANGED <<state, n, pc, want, todo, from, moved, lost>>
        PROVE  Books'
    <2>1. Active' = Active /\ Startable' = Startable
      BY <1>2 DEF Active, Startable
    <2> QED
      BY <1>2, <2>1 DEF Books
  <1>3. CASE Begin
    BY <1>3 DEF Begin, ghostVars, Books
  <1>4. ASSUME NEW o \in Outcomes, List(o)
        PROVE  Books'
    <2>1. CASE Listed
      BY <1>4, <2>1, ListingOpensBooks DEF List
    <2>2. CASE Return("error")
      BY <1>1, <2>2
    <2>3. CASE UNCHANGED <<pc, want, todo, errs, result, ghostVars>>
      BY <1>2, <1>4, <2>3 DEF List, machineVars, ghostVars
    <2> QED
      BY <1>4, <2>1, <2>2, <2>3 DEF List
  <1>5. CASE ReadBusyOk
    <2>1. /\ pc = "busy" /\ pc' = "stop" /\ todo' = todo \ busy
          /\ UNCHANGED <<state, n, want, from, moved, lost>>
      BY <1>5 DEF ReadBusyOk, machineVars
    <2>2. (Active' \cup todo') \in SUBSET (Active \cup todo)
      BY <2>1 DEF Active
    <2>3. /\ Cardinality(Active' \cup todo') <= Cardinality(Active \cup todo)
          /\ Cardinality(Active' \cup todo') \in Nat
      BY <2>2, Counts, SubsetCount, MachineCount
    <2>4. Cardinality(Active' \cup todo') <= n + want
      BY <2>1, <2>3, Counts DEF Books
    <2> QED
      BY <2>1, <2>4 DEF Books
  <1>6. CASE ReadBusyFail
    BY <1>1, <1>6 DEF ReadBusyFail
  <1>7. CASE LoopEnds
    BY <1>1, <1>7 DEF LoopEnds
  <1>8. CASE Cancel
    BY <1>2, <1>8 DEF Cancel, machineVars, callVars, ghostVars
  <1>9. CASE Restart
    BY <1>1, <1>9 DEF Restart
  <1>10. CASE UNCHANGED vars
    BY <1>2, <1>10 DEF vars, machineVars, callVars, ghostVars
  <1> QED
    BY <1>3, <1>4, <1>5, <1>6, <1>7, <1>8, <1>9, <1>10, WorldKeepsBooks, StartKeepsBooks,
       StopKeepsBooks DEF Next, SetReplicas, Requests

-----------------------------------------------------------------------------
(* A busy runner still on the list to stop took its job after the read.    *)
LEMMA SparedStep == TypeOK /\ Spared /\ [Next]_vars => Spared'
  <1> SUFFICES ASSUME TypeOK, Spared, [Next]_vars, HasBusy, pc' = "stop"
               PROVE  (todo' \cap busy') \subseteq took'
    BY DEF Spared
  <1>1. ASSUME pc = "stop", todo' \subseteq todo, busy' \subseteq busy, took' = took
        PROVE  (todo' \cap busy') \subseteq took'
    BY <1>1 DEF Spared
  <1>2. CASE ReadBusyOk
    BY <1>2 DEF ReadBusyOk, machineVars
  <1>3. ASSUME NEW m \in Machines, NEW o \in Outcomes, Start(m, o) \/ Stop(m, o)
        PROVE  (todo' \cap busy') \subseteq took'
    <2>1. pc' = pc /\ todo' \subseteq todo
      BY <1>3 DEF Start, Stop, Loop
    <2>2. busy' \subseteq busy /\ took' = took
      BY <1>3 DEF Start, Stop, Effect, NoEffect, ghostVars
    <2> QED
      BY <1>1, <2>1, <2>2
  <1>4. ASSUME NEW m \in Machines, TakesJob(m)
        PROVE  (todo' \cap busy') \subseteq took'
    BY <1>4 DEF TakesJob, callVars, Spared
  <1>5. ASSUME NEW m \in Machines, Boots(m) \/ Exits(m) \/ Parks(m)
        PROVE  (todo' \cap busy') \subseteq took'
    BY <1>1, <1>5 DEF Boots, Exits, Parks, Becomes, callVars, ghostVars
  <1>6. CASE Cancel \/ UNCHANGED vars
    BY <1>1, <1>6 DEF Cancel, vars, machineVars, callVars, ghostVars
  <1>7. ASSUME Begin \/ (\E o \in Outcomes : List(o)) \/ ReadBusyFail \/ LoopEnds \/ Restart
        PROVE  FALSE
    BY <1>7 DEF Begin, List, Listed, Return, ReadBusyFail, LoopEnds, Restart
  <1> QED
    BY <1>2, <1>3, <1>4, <1>5, <1>6, <1>7 DEF Next, SetReplicas, Requests, World

(* The inductive invariant.                                                *)
THEOREM FlyInvariant == Spec => []IInv
  <1>1. Init => IInv
    <2>1. Init => Books /\ Spared
      BY DEF Init, Books, Spared
    <2> QED
      BY <2>1, InitType DEF IInv
  <1>2. IInv /\ [Next]_vars => IInv'
    BY NextType, BooksStep, SparedStep DEF IInv
  <1> QED
    BY <1>1, <1>2, PTL DEF Spec

(* While it starts Machines a call has brought up at least those it no     *)
(* longer wants; while it stops them no more are active than the target    *)
(* and those it still has to stop (start, stop, do).                       *)
THEOREM CountingIsReal == Spec => []CountedIsDone
  <1>1. IInv => CountedIsDone
    <2> SUFFICES ASSUME TypeOK, Books PROVE CountedIsDone
      BY DEF IInv
    <2>1. pc = "start" => moved + want >= n - from
      BY Counts DEF Books
    <2>2. pc = "stop" => Replicas <= n + want
      <3>1. Cardinality(Active) <= Cardinality(Active \cup todo)
        BY Counts, SubsetCount
      <3> QED
        BY <3>1, Counts DEF Books, Replicas
    <2> QED
      BY <2>1, <2>2 DEF CountedIsDone
  <1> QED
    BY <1>1, FlyInvariant, PTL

(* A scale-down stops a busy runner only if it took its job after the busy *)
(* runners were read (stop, busyRunners).                                  *)
THEOREM BusyAreSpared == Spec => BusyRunnersAreSpared
  <1>1. IInv /\ [Next]_vars
          => [HasBusy => \A m \in Machines : Stops(m) => m \in took]_vars
    <2> SUFFICES ASSUME TypeOK, Books, Spared, [Next]_vars, HasBusy,
                        NEW m \in Machines, Stops(m)
                 PROVE  m \in took
      BY DEF IInv
    <2>1. /\ pc = "stop" /\ m \in busy /\ state[m] = "started" /\ state'[m] = "stopping"
          /\ moved' < moved
      BY DEF Stops, TypeOK
    <2>2. ASSUME state' = state \/ moved' = moved
          PROVE  FALSE
      BY <2>1, <2>2, Counts
    <2>3. ASSUME NEW k \in Machines, NEW o \in Outcomes, Stop(k, o)
          PROVE  m \in took
      <3>1. state' = [state EXCEPT ![k] = "stopping"]
        BY <2>2, <2>3 DEF Stop, Effect, NoEffect
      <3>2. k = m
        BY <2>1, <3>1 DEF TypeOK
      <3> QED
        BY <2>1, <2>3, <3>2 DEF Stop, IsNext, Spared
    <2>4. CASE World
      BY <2>2, <2>4 DEF World, Boots, Exits, Parks, Becomes, TakesJob, ghostVars
    <2>5. CASE ReadBusyOk \/ ReadBusyFail \/ LoopEnds \/ Restart \/ Cancel \/ UNCHANGED vars
      BY <2>2, <2>5 DEF ReadBusyOk, ReadBusyFail, LoopEnds, Restart, Cancel, vars, machineVars
    <2>6. ASSUME Begin \/ (\E o \in Outcomes : List(o))
                 \/ (\E k \in Machines, o \in Outcomes : Start(k, o))
          PROVE  FALSE
      BY <2>1, <2>6 DEF Begin, List, Start
    <2> QED
      BY <2>3, <2>4, <2>5, <2>6 DEF Next, SetReplicas, Requests
  <1> QED
    BY <1>1, FlyInvariant, PTL DEF Spec, BusyRunnersAreSpared

-----------------------------------------------------------------------------
(* The refinement: how each step looks to the scaler.                      *)
LEMMA StepIsCallStep == IInv /\ [Next]_vars => [Call!CallNext]_(Call!callVars)
  <1> SUFFICES ASSUME TypeOK, Books, [Next]_vars
               PROVE  [Call!CallNext]_(Call!callVars)
    BY DEF IInv
  <1>1. ASSUME UNCHANGED <<Replicas, n, from, moved, lost>>,
               pc' = pc \/ (pc \notin {"idle", "list"} /\ pc' \notin {"idle", "list"})
        PROVE  UNCHANGED Call!callVars
    BY <1>1 DEF Call!callVars
  <1>2. ASSUME UNCHANGED state
        PROVE  Replicas' = Replicas
    BY <1>2 DEF Replicas, Active
  <1>3. ASSUME NEW r \in {"ok", "error"}, Return(r), UNCHANGED <<state, n>>
        PROVE  [Call!CallNext]_(Call!callVars)
    <2>1. CASE pc = "idle"
      BY <1>2, <1>3, <2>1 DEF Return, Books, Call!callVars
    <2>2. CASE pc # "idle"
      <3>1. Call!End
        BY <1>2, <1>3, <2>2 DEF Return, Call!End
      <3> QED
        BY <3>1 DEF Call!CallNext
    <2> QED
      BY <2>1, <2>2
  <1>0. Replicas' \in 0..Cardinality(Machines)
    <2>1. Active' \in SUBSET Machines
      BY DEF Active
    <2> QED
      BY <2>1, MachineCount DEF Replicas
  <1>4. CASE Begin
    <2>1. Call!Begin
      BY <1>2, <1>4 DEF Begin, Call!Begin, machineVars, ghostVars
    <2> QED
      BY <2>1 DEF Call!CallNext
  <1>5. ASSUME NEW o \in Outcomes, List(o)
        PROVE  [Call!CallNext]_(Call!callVars)
    <2>1. CASE Listed
      <3>1. CASE Replicas = n
        BY <1>3, <1>5, <2>1, <3>1, Counts DEF List, Listed, machineVars
      <3>2. CASE Replicas # n
        <4>1. Call!Count
          BY <1>2, <1>5, <2>1, <3>2, Counts DEF List, Listed, machineVars, Call!Count
        <4> QED
          BY <4>1 DEF Call!CallNext
      <3> QED
        BY <3>1, <3>2
    <2>2. CASE Return("error")
      BY <1>3, <1>5, <2>2 DEF List, machineVars
    <2>3. CASE UNCHANGED <<pc, want, todo, errs, result, ghostVars>>
      BY <1>1, <1>2, <1>5, <2>3 DEF List, machineVars, ghostVars
    <2> QED
      BY <1>5, <2>1, <2>2, <2>3 DEF List
  <1>6. CASE ReadBusyOk
    BY <1>1, <1>2, <1>6 DEF ReadBusyOk, machineVars
  <1>7. CASE ReadBusyFail \/ LoopEnds \/ Restart
    BY <1>3, <1>7 DEF ReadBusyFail, LoopEnds, Restart, machineVars
  <1>8. CASE Cancel \/ UNCHANGED vars
    BY <1>1, <1>2, <1>8 DEF Cancel, vars, machineVars, callVars, ghostVars
  <1>9. ASSUME NEW m \in Machines, NEW o \in Outcomes, Start(m, o)
        PROVE  [Call!CallNext]_(Call!callVars)
    <2>1. pc = "start" /\ pc' = pc /\ n' = n /\ from' = from
      BY <1>9 DEF Start, Loop, Effect, NoEffect, ghostVars
    <2>2. CASE TakesEffect(o) /\ state[m] = "stopped"
      <3>1. /\ state' = [state EXCEPT ![m] = "starting"]
            /\ moved' = moved + 1 /\ lost' \in {lost, lost + 1}
        BY <1>9, <2>2 DEF Start, Effect
      <3>2. Active' = Active \cup {m} /\ m \notin Active
        BY <2>2, <3>1, OneMachine DEF TypeOK, States, Active
      <3>3. Replicas' = Replicas + 1
        BY <3>2, Counts, MachineCount DEF Replicas
      <3>4. /\ n > from /\ moved' >= 0 /\ moved' + want' <= n - from + lost'
        BY <1>9, <2>1, StartKeepsBooks DEF Books
      <3>5. want' \in Nat
        BY <1>9, NextType DEF Next, SetReplicas, Requests, TypeOK
      <3>6. moved' \in 0..(n - from + lost')
        BY <3>1, <3>4, <3>5, Counts
      <3>7. Call!Move
        BY <2>1, <3>1, <3>3, <3>4, <3>6, <1>0, Counts DEF Call!Move, Call!WithinReach
      <3> QED
        BY <3>7 DEF Call!CallNext
    <2>3. CASE ~(TakesEffect(o) /\ state[m] = "stopped")
      BY <1>1, <1>2, <1>9, <2>1, <2>3 DEF Start, NoEffect, ghostVars
    <2> QED
      BY <2>2, <2>3
  <1>10. ASSUME NEW m \in Machines, NEW o \in Outcomes, Stop(m, o)
         PROVE  [Call!CallNext]_(Call!callVars)
    <2>1. pc = "stop" /\ pc' = pc /\ n' = n /\ from' = from
      BY <1>10 DEF Stop, Loop, Effect, NoEffect, ghostVars
    <2>2. CASE TakesEffect(o) /\ m \in Active
      <3>1. /\ state' = [state EXCEPT ![m] = "stopping"]
            /\ moved' = moved + -1 /\ lost' \in {lost, lost + 1}
        BY <1>10, <2>2 DEF Stop, Effect
      <3>2. Active' = Active \ {m}
        BY <2>2, <3>1, OneMachine DEF TypeOK, States
      <3>3. Replicas' = Replicas + -1
        BY <2>2, <3>2, Counts, MachineCount DEF Replicas
      <3>4. /\ n < from /\ moved' <= 0 /\ want' - moved' <= from - n + lost'
        BY <1>10, <2>1, StopKeepsBooks DEF Books
      <3>5. want' \in Nat
        BY <1>10, NextType DEF Next, SetReplicas, Requests, TypeOK
      <3>6. -moved' \in 0..(from - n + lost')
        BY <3>1, <3>4, <3>5, Counts
      <3>7. Call!Move
        BY <2>1, <3>1, <3>3, <3>4, <3>6, <1>0, Counts DEF Call!Move, Call!WithinReach
      <3> QED
        BY <3>7 DEF Call!CallNext
    <2>3. CASE ~(TakesEffect(o) /\ m \in Active)
      BY <1>1, <1>2, <1>10, <2>1, <2>3 DEF Stop, NoEffect, ghostVars
    <2> QED
      BY <2>2, <2>3
  <1>11. ASSUME NEW m \in Machines, Exits(m)
         PROVE  [Call!CallNext]_(Call!callVars)
    <2>1. Active' = Active \ {m} /\ m \in Active
      BY <1>11, OneMachine DEF Exits, Becomes, TypeOK, States, Active
    <2>2. Replicas' = Replicas - 1 /\ Replicas > 0
      BY <2>1, Counts, MachineCount DEF Replicas
    <2>3. Call!Exits
      BY <1>11, <2>2 DEF Exits, Becomes, callVars, ghostVars, Call!Exits
    <2> QED
      BY <2>3 DEF Call!CallNext
  <1>12. ASSUME NEW m \in Machines, Boots(m) \/ Parks(m)
         PROVE  [Call!CallNext]_(Call!callVars)
    <2>1. Active' = Active
      BY <1>12 DEF Boots, Parks, Becomes, TypeOK, Active
    <2> QED
      BY <1>1, <1>12, <2>1 DEF Boots, Parks, Becomes, callVars, ghostVars, Replicas
  <1>13. ASSUME NEW m \in Machines, TakesJob(m)
         PROVE  [Call!CallNext]_(Call!callVars)
    BY <1>1, <1>2, <1>13 DEF TakesJob, callVars
  <1> QED
    BY <1>4, <1>5, <1>6, <1>7, <1>8, <1>9, <1>10, <1>11, <1>12, <1>13
       DEF Next, SetReplicas, Requests, World

(* SetReplicas of the Fly pool implements the call the scaler relies on:   *)
(* it only ever moves towards the target and passes it by no more than the *)
(* effects whose replies were lost (SetReplicas, start, stop, do).         *)
THEOREM FlyPoolImplementsCall == Spec => ImplementsBackendCall
  <1>1. Init => Call!CallInit
    <2> SUFFICES ASSUME Init PROVE Call!CallInit
      OBVIOUS
    <2>1. Active \in SUBSET Machines
      BY DEF Active
    <2>2. Replicas \in 0..Cardinality(Machines)
      BY <2>1, MachineCount DEF Replicas
    <2> QED
      BY <2>2 DEF Init, Call!CallInit
  <1>2. IInv /\ [Next]_vars => [Call!CallNext]_(Call!callVars)
    BY StepIsCallStep
  <1> QED
    BY <1>1, <1>2, FlyInvariant, PTL DEF Spec, ImplementsBackendCall, Call!CallSpec

-----------------------------------------------------------------------------
(* What is proved about BackendCall, for the pool of Machines.             *)
CallProofs == INSTANCE BackendCallProofs
              WITH MaxPool <- Cardinality(Machines),
                   pool    <- Replicas,
                   stage   <- CASE pc = "idle" -> "idle"
                                [] pc = "list" -> "counting"
                                [] OTHER       -> "moving"

(* The scaler may take a call of the Fly pool for one step: what is left   *)
(* behind by its requests and retries, with Machines that exit meanwhile,  *)
(* is what one step allowed by MayReach would have left, less those exits  *)
(* (SetReplicas, start, stop, do).                                         *)
THEOREM FlyCallsActAtOnce == Spec => CallsActAtOnce
  <1>1. Cardinality(Machines) \in Nat /\ Targets \subseteq Nat
    BY FlyAssumption, FS_CardinalityType
  <1>2. CallProofs!CallSpec => CallProofs!ActsAtOnce
    BY <1>1, CallProofs!CallIsAtomic
  <1>3. Call!CallSpec => Call!ActsAtOnce
    BY <1>2, PTL
       DEF Call!CallSpec, Call!CallInit, Call!CallNext, Call!callVars,
           Call!Begin, Call!Count, Call!Move, Call!End, Call!Exits,
           Call!WithinReach, Call!ActsAtOnce, Call!Atomic!AtomicSpec,
           Call!Atomic!AtomicInit, Call!Atomic!AtomicNext,
           Call!Atomic!atomicVars, Call!Atomic!Begin, Call!Atomic!LoseReply,
           Call!Atomic!TakeEffect, Call!Atomic!Exits, Call!Atomic!MayReach,
           CallProofs!CallSpec, CallProofs!CallInit, CallProofs!CallNext,
           CallProofs!callVars, CallProofs!Begin, CallProofs!Count,
           CallProofs!Move, CallProofs!End, CallProofs!Exits,
           CallProofs!WithinReach, CallProofs!ActsAtOnce,
           CallProofs!Atomic!AtomicSpec, CallProofs!Atomic!AtomicInit,
           CallProofs!Atomic!AtomicNext, CallProofs!Atomic!atomicVars,
           CallProofs!Atomic!Begin, CallProofs!Atomic!LoseReply,
           CallProofs!Atomic!TakeEffect, CallProofs!Atomic!Exits,
           CallProofs!Atomic!MayReach
  <1> QED
    BY <1>3, FlyPoolImplementsCall, PTL DEF ImplementsBackendCall, CallsActAtOnce
=============================================================================
