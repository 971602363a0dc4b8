----------------------------- MODULE ApplyProofs -----------------------------
(***************************************************************************)
(* Proofs about Apply, for any number of writers, appliers and retries.    *)
(* The inductive invariant says who may be inside a transaction and that   *)
(* a version pinned by an applier stays valid: the log only grows.         *)
(***************************************************************************)
EXTENDS Apply, TLAPS

Valid(v) == v \in 1 .. Latest /\ log[v]

(* Exactly the holder of the lock is between BEGIN and its commit, and it  *)
(* has read the latest version.                                            *)
Exclusive ==
    \A w \in Writer : /\ pc[w] \in {"body", "commit"} <=> locker = w
                      /\ pc[w] = "commit" => seen[w] = Latest

(* What an applier has pinned, rendered or handed over validates. *)
Pinned ==
    /\ \A a \in Applier : /\ pc[a] = "collect" => Valid(seen[a])
                          /\ pc[a] = "sync" => Valid(rendered[a])
    /\ kernel # 0 => Valid(kernel)

(* Commands and applies are different procedures. *)
Roles ==
    /\ \A w \in Writer  : pc[w] \in {"idle", "begin", "body", "commit"}
    /\ \A a \in Applier : pc[a] \in {"idle", "validate", "collect", "sync"}

IInv == TypeOK /\ Exclusive /\ Pinned /\ Roles

-----------------------------------------------------------------------------
(* The log is a sequence of truth values, and a commit adds one at its end. *)
LEMMA LogGrows ==
    ASSUME TypeOK, NEW valid \in BOOLEAN, log' = Append(log, valid)
    PROVE  /\ log' \in Seq(BOOLEAN) /\ Latest \in Nat /\ Latest' = Latest + 1
           /\ \A v : Valid(v) => Valid(v)'
<1>1. log \in Seq(BOOLEAN) BY DEF TypeOK
<1>2. log' \in Seq(BOOLEAN) /\ Latest \in Nat /\ Latest' = Latest + 1
  BY <1>1 DEF Latest
<1>3. ASSUME NEW v, Valid(v) PROVE Valid(v)'
  BY <1>1, <1>2, <1>3 DEF Valid, Latest
<1> QED BY <1>2, <1>3

(* The empty database satisfies the invariant. *)
LEMMA InitIInv == Init => IInv
BY ApplyAssumption
   DEF Init, IInv, TypeOK, Exclusive, Pinned, Roles, Valid, Latest, Process

(* Types, action by action. *)
LEMMA StepTypes == TypeOK /\ [Next]_vars => TypeOK'
<1> SUFFICES ASSUME TypeOK, [Next]_vars PROVE TypeOK'
  OBVIOUS
<1> USE ApplyAssumption DEF TypeOK, Process, Goto, Close, Latest
<1>1. ASSUME NEW w \in Writer, Start(w) PROVE TypeOK'
  BY <1>1 DEF Start
<1>2. ASSUME NEW w \in Writer, Begin(w) PROVE TypeOK'
  BY <1>2 DEF Begin
<1>3. ASSUME NEW w \in Writer, Busy(w) PROVE TypeOK'
  <2>1. CASE attempt[w] = MaxRetries
    BY <1>3, <2>1 DEF Busy
  <2>2. CASE attempt[w] # MaxRetries
    <3>1. attempt[w] + 1 \in 1 .. MaxRetries
      BY <2>2
    <3> QED BY <1>3, <2>2, <3>1 DEF Busy
  <2> QED BY <2>1, <2>2
<1>4. ASSUME NEW w \in Writer, Body(w) PROVE TypeOK'
  BY <1>4 DEF Body
<1>5. ASSUME NEW w \in Writer, Raise(w) PROVE TypeOK'
  BY <1>5 DEF Raise
<1>6. ASSUME NEW w \in Writer, Commit(w) PROVE TypeOK'
  <2>1. PICK valid \in BOOLEAN : log' = Append(log, valid)
    BY <1>6 DEF Commit
  <2>2. log' \in Seq(BOOLEAN) /\ Latest' \in 1 .. MaxVersions
    BY <1>6, <2>1, LogGrows DEF Commit
  <2> QED BY <1>6, <2>2 DEF Commit
<1>7. ASSUME NEW a \in Applier, StartApply(a) PROVE TypeOK'
  BY <1>7 DEF StartApply
<1>8. ASSUME NEW a \in Applier, Validate(a) PROVE TypeOK'
  <2>1. pc' \in [Process -> {"idle", "begin", "body", "commit",
                             "validate", "collect", "sync"}]
    <3>1. CASE log[Latest]
      BY <1>8, <3>1 DEF Validate
    <3>2. CASE ~log[Latest]
      BY <1>8, <3>2 DEF Validate
    <3> QED BY <3>1, <3>2
  <2>2. seen' \in [Process -> 0 .. MaxVersions]
    BY <1>8 DEF Validate
  <2> QED BY <1>8, <2>1, <2>2 DEF Validate
<1>9. ASSUME NEW a \in Applier, Collect(a) PROVE TypeOK'
  BY <1>9 DEF Collect
<1>10. ASSUME NEW a \in Applier, Sync(a) PROVE TypeOK'
  BY <1>10 DEF Sync
<1>11. ASSUME NEW a \in Applier, SyncFails(a) PROVE TypeOK'
  BY <1>11 DEF SyncFails
<1>12. ASSUME NEW p \in Process, Crash(p) PROVE TypeOK'
  BY <1>12 DEF Crash
<1>13. CASE UNCHANGED vars
  BY <1>13 DEF vars
<1> QED
  BY <1>1, <1>2, <1>3, <1>4, <1>5, <1>6, <1>7, <1>8, <1>9, <1>10, <1>11, <1>12, <1>13
     DEF Next, WriterStep, ApplierStep

(* Mutual exclusion, and that the holder's reads stay the latest version. *)
LEMMA StepExclusive == IInv /\ [Next]_vars => Exclusive'
<1> SUFFICES ASSUME TypeOK, Exclusive, [Next]_vars PROVE Exclusive'
  BY DEF IInv
<1> USE ApplyAssumption DEF TypeOK, Exclusive, Process, Goto, Close, Latest
<1>1. ASSUME NEW w \in Writer, Start(w) \/ Begin(w) PROVE Exclusive'
  BY <1>1 DEF Start, Begin
<1>2. ASSUME NEW w \in Writer, Busy(w) PROVE Exclusive'
  BY <1>2 DEF Busy
<1>3. ASSUME NEW w \in Writer, Body(w) \/ Raise(w) PROVE Exclusive'
  BY <1>3 DEF Body, Raise
<1>4. ASSUME NEW w \in Writer, Commit(w) PROVE Exclusive'
  (* Nobody else is in a transaction, so nobody's reads become stale. *)
  BY <1>4 DEF Commit
<1>5. ASSUME NEW a \in Applier, StartApply(a) \/ ApplierStep(a) PROVE Exclusive'
  BY <1>5 DEF StartApply, ApplierStep, Validate, Collect, Sync, SyncFails
<1>6. ASSUME NEW p \in Process, Crash(p) PROVE Exclusive'
  BY <1>6 DEF Crash
<1>7. CASE UNCHANGED vars
  BY <1>7 DEF vars
<1> QED
  BY <1>1, <1>2, <1>3, <1>4, <1>5, <1>6, <1>7 DEF Next, WriterStep

(* A commit only adds to the log, so what was valid stays valid. *)
LEMMA StepPinned == IInv /\ [Next]_vars => Pinned'
<1> SUFFICES ASSUME TypeOK, Pinned, [Next]_vars PROVE Pinned'
  BY DEF IInv
<1> USE ApplyAssumption DEF Pinned, Process, Goto, Close
<1>1. ASSUME NEW w \in Writer, Commit(w) PROVE Pinned'
  <2>1. PICK valid \in BOOLEAN : log' = Append(log, valid)
    BY <1>1 DEF Commit
  <2>2. \A v : Valid(v) => Valid(v)'
    BY <2>1, LogGrows
  <2> QED BY <1>1, <2>2 DEF Commit, TypeOK
<1>2. CASE log' = log
  <2>0. \A v : Valid(v) => Valid(v)'
    BY <1>2 DEF Valid, Latest
  <2>1. ASSUME NEW w \in Writer, Start(w) \/ Begin(w) \/ Busy(w) PROVE Pinned'
    BY <2>0, <2>1 DEF Start, Begin, Busy, TypeOK
  <2>2. ASSUME NEW w \in Writer, Body(w) \/ Raise(w) PROVE Pinned'
    BY <2>0, <2>2 DEF Body, Raise, TypeOK
  <2>3. ASSUME NEW a \in Applier, Validate(a) PROVE Pinned'
    <3>1. CASE log[Latest]
      <4>1. Valid(Latest)
        BY <3>1 DEF Valid, TypeOK
      <4>2. seen'[a] = Latest /\ pc'[a] = "collect"
        BY <2>3, <3>1 DEF Validate, TypeOK
      <4>3. Valid(seen[a])'
        BY <2>0, <4>1, <4>2
      <4>4. \A b \in Applier \ {a} : pc'[b] = pc[b] /\ seen'[b] = seen[b]
        BY <2>3 DEF Validate, TypeOK
      <4>5. rendered' = rendered /\ kernel' = kernel
        BY <2>3 DEF Validate
      <4> QED BY <2>0, <4>2, <4>3, <4>4, <4>5
    <3>2. CASE ~log[Latest]
      BY <2>0, <2>3, <3>2 DEF Validate, TypeOK
    <3> QED BY <3>1, <3>2
  <2>4. ASSUME NEW a \in Applier, StartApply(a) \/ Collect(a) PROVE Pinned'
    BY <2>0, <2>4 DEF StartApply, Collect, TypeOK
  <2>5. ASSUME NEW a \in Applier, Sync(a) \/ SyncFails(a) PROVE Pinned'
    BY <2>0, <2>5 DEF Sync, SyncFails, TypeOK
  <2>6. ASSUME NEW p \in Process, Crash(p) PROVE Pinned'
    BY <2>0, <2>6 DEF Crash, TypeOK
  <2>7. CASE UNCHANGED vars
    BY <2>0, <2>7 DEF vars
  <2> QED
    BY <1>1, <2>1, <2>2, <2>3, <2>4, <2>5, <2>6, <2>7
       DEF Next, WriterStep, ApplierStep
<1>3. log' = log \/ \E w \in Writer : Commit(w)
  BY DEF Next, WriterStep, ApplierStep, Start, Begin, Busy, Body, Raise,
         StartApply, Validate, Collect, Sync, SyncFails, Crash, vars
<1> QED BY <1>1, <1>2, <1>3

(* Each action moves one process, within its own procedure. *)
LEMMA StepRoles == TypeOK /\ Roles /\ [Next]_vars => Roles'
<1>. SUFFICES ASSUME TypeOK, Roles, [Next]_vars PROVE Roles'
  OBVIOUS
<1>. USE ApplyAssumption DEF TypeOK, Roles, Process, Goto, Close
<1>1. ASSUME NEW w \in Writer, Start(w) \/ WriterStep(w) PROVE Roles'
  BY <1>1 DEF Start, WriterStep, Begin, Busy, Body, Commit, Raise
<1>2. ASSUME NEW a \in Applier, StartApply(a) \/ ApplierStep(a) PROVE Roles'
  BY <1>2 DEF StartApply, ApplierStep, Validate, Collect, Sync, SyncFails
<1>3. ASSUME NEW p \in Process, Crash(p) PROVE Roles'
  BY <1>3 DEF Crash
<1>4. CASE UNCHANGED vars
  BY <1>4 DEF vars
<1>. QED BY <1>1, <1>2, <1>3, <1>4 DEF Next

(* Every reachable state satisfies the invariant. *)
LEMMA StepIInv == IInv /\ [Next]_vars => IInv'
BY StepTypes, StepExclusive, StepPinned, StepRoles DEF IInv

LEMMA Invariance == Spec => []IInv
<1>1. IInv /\ [Next]_vars => IInv'
  BY StepIInv
<1> QED BY InitIInv, <1>1, PTL DEF Spec

(* The variables keep their types. *)
THEOREM ApplyTypes == Spec => []TypeOK
<1>1. IInv => TypeOK
  BY DEF IInv
<1> QED BY Invariance, <1>1, PTL

-----------------------------------------------------------------------------
(* Whatever is committed between its reads, an applier never gives the     *)
(* kernel a version that did not validate: read_snapshot keeps them on one *)
(* version.                                                                *)
THEOREM KernelIsValidated == Spec => []KernelValidated
<1>1. IInv => KernelValidated
  BY DEF IInv, Pinned, Valid, KernelValidated
<1> QED BY Invariance, <1>1, PTL

(* Any number of concurrent commands are serial: BEGIN EXCLUSIVE precedes  *)
(* the reads, so each commits on top of what it checked.                   *)
THEOREM CommandsAreSerial == Spec => NoLostUpdate
<1>1. IInv /\ [Next]_vars =>
        [\A w \in Writer : pc[w] = "commit" /\ log' # log /\ pc'[w] # "commit"
           => seen[w] = Latest]_vars
  BY DEF IInv, Exclusive
<1> QED BY Invariance, <1>1, PTL DEF Spec, NoLostUpdate
-----------------------------------------------------------------------------
(* Refinement.  What a process holds, and who may change it.               *)

HeldNow(p) ==
    /\ pc[p] \in {"commit", "collect"} => Holding[p] = seen[p]
    /\ pc[p] = "sync" => Holding[p] = rendered[p]
    /\ pc[p] \notin {"commit", "collect", "sync"} => Holding[p] = 0

LEMMA WhatIsHeld == \A p \in Process : HeldNow(p) /\ HeldNow(p)'
BY DEF Holding, HeldNow

(* The step of a process changes what it holds itself, if anything. *)
LEMMA OthersHold ==
    ASSUME NEW p \in Process,
           \A q \in Process \ {p} :
              /\ pc'[q] = pc[q] /\ seen'[q] = seen[q]
              /\ pc[q] = "sync" => rendered'[q] = rendered[q]
    PROVE  /\ Holding' = [Holding EXCEPT ![p] = Holding'[p]]
           /\ Holding'[p] = Holding[p] => Holding' = Holding
<1>1. \A q \in Process \ {p} : Holding'[q] = Holding[q]
  BY WhatIsHeld DEF HeldNow
<1>2. /\ Holding  = [q \in Process |-> Holding[q]]
      /\ Holding' = [q \in Process |-> Holding'[q]]
  BY DEF Holding
<1>. QED BY <1>1, <1>2

(* Every step is one of the store's, or invisible there. *)
LEMMA StoreStep ==
    ASSUME IInv, IInv', [Next]_vars PROVE [Store!Next]_(Store!store)
<1>. USE ApplyAssumption DEF IInv, TypeOK, Process, Goto, Close
<1>. DEFINE Unseen == UNCHANGED <<log, Holding, kernel>>
<1>1. ASSUME NEW w \in Writer, Start(w) \/ Begin(w) \/ Busy(w) PROVE Unseen
  <2>1. Holding'[w] = Holding[w]
    BY <1>1, WhatIsHeld DEF HeldNow, Start, Begin, Busy
  <2>. QED BY <1>1, <2>1, OthersHold DEF Start, Begin, Busy
<1>2. ASSUME NEW w \in Writer, Body(w) PROVE Store!Look(w)
  <2>1. Holding[w] = 0 /\ Holding'[w] = Latest
    BY <1>2, WhatIsHeld DEF HeldNow, Body
  <2>2. Holding' = [Holding EXCEPT ![w] = Holding'[w]]
    BY <1>2, OthersHold DEF Body
  <2>. QED BY <1>2, <2>1, <2>2 DEF Body, Store!Look, Store!Hold, Latest
<1>3. ASSUME NEW w \in Writer, Commit(w) PROVE Store!Add(w)
  <2>1. Holding[w] = Latest /\ Holding'[w] = 0
    BY <1>3, WhatIsHeld DEF HeldNow, Commit, Exclusive
  <2>2. Holding' = [Holding EXCEPT ![w] = Holding'[w]]
    BY <1>3, OthersHold DEF Commit
  <2>. QED BY <1>3, <2>1, <2>2 DEF Commit, Store!Add, Store!Forget, Latest
<1>4. ASSUME NEW w \in Writer, Raise(w) PROVE Store!GiveUp(w)
  <2>1. Holding'[w] = 0
    BY <1>4, WhatIsHeld DEF HeldNow, Raise
  <2>2. Holding' = [Holding EXCEPT ![w] = Holding'[w]]
    BY <1>4, OthersHold DEF Raise
  <2>. QED BY <1>4, <2>1, <2>2 DEF Raise, Store!GiveUp, Store!Forget
<1>5. ASSUME NEW a \in Applier, StartApply(a) \/ Collect(a) PROVE Unseen
  <2>1. Holding'[a] = Holding[a]
    BY <1>5, WhatIsHeld DEF HeldNow, StartApply, Collect
  <2>2. \A q \in Process \ {a} :       \* only appliers are ever at "sync"
           /\ pc'[q] = pc[q] /\ seen'[q] = seen[q]
           /\ pc[q] = "sync" => rendered'[q] = rendered[q]
    BY <1>5 DEF Roles, StartApply, Collect
  <2>3. Holding' = Holding
    BY <2>1, <2>2, OthersHold
  <2>. QED BY <1>5, <2>3 DEF StartApply, Collect
<1>6. ASSUME NEW a \in Applier, Validate(a) PROVE Store!Take(a) \/ Unseen
  <2>1. Holding[a] = 0 /\ Holding' = [Holding EXCEPT ![a] = Holding'[a]]
    BY <1>6, WhatIsHeld, OthersHold DEF HeldNow, Validate
  <2>2. CASE log[Latest]
    <3>1. Holding'[a] = Latest
      BY <1>6, <2>2, WhatIsHeld DEF HeldNow, Validate
    <3>. QED BY <1>6, <2>1, <2>2, <3>1 DEF Validate, Store!Take, Store!Hold, Latest
  <2>3. CASE ~log[Latest]
    <3>1. Holding'[a] = 0
      BY <1>6, <2>3, WhatIsHeld DEF HeldNow, Validate
    <3>. QED BY <1>6, <2>1, <2>3, <3>1, OthersHold DEF Validate
  <2>. QED BY <2>2, <2>3
<1>7. ASSUME NEW a \in Applier, Sync(a) PROVE Store!HandOver(a)
  <2>1. Holding[a] = rendered[a] /\ Holding[a] # 0 /\ Holding'[a] = 0
    BY <1>7, WhatIsHeld DEF HeldNow, Sync, Pinned, Valid
  <2>2. Holding' = [Holding EXCEPT ![a] = Holding'[a]]
    BY <1>7, OthersHold DEF Sync
  <2>. QED BY <1>7, <2>1, <2>2 DEF Sync, Store!HandOver, Store!Forget
<1>8. ASSUME NEW p \in Process, (p \in Applier /\ SyncFails(p)) \/ Crash(p)
      PROVE  Store!GiveUp(p)
  <2>1. Holding'[p] = 0
    BY <1>8, WhatIsHeld DEF HeldNow, SyncFails, Crash
  <2>2. \A q \in Process \ {p} :
           /\ pc'[q] = pc[q] /\ seen'[q] = seen[q]
           /\ pc[q] = "sync" => rendered'[q] = rendered[q]
    <3>1. CASE p \in Applier /\ SyncFails(p)
      BY <3>1 DEF Roles, SyncFails
    <3>2. CASE Crash(p)
      BY <3>2 DEF Roles, Crash
    <3>. QED BY <1>8, <3>1, <3>2
  <2>3. Holding' = [Holding EXCEPT ![p] = Holding'[p]]
    BY <2>2, OthersHold
  <2>. QED BY <1>8, <2>1, <2>3 DEF SyncFails, Crash, Store!GiveUp, Store!Forget
<1>9. CASE UNCHANGED vars
  BY <1>9 DEF vars, Holding, Store!store
<1>. QED
  BY <1>1, <1>2, <1>3, <1>4, <1>5, <1>6, <1>7, <1>8, <1>9
     DEF Next, WriterStep, ApplierStep, Store!Next, Store!Anyone, Store!store

(* Commands and applies are atomic: what they do could have been done by   *)
(* an append-only store with compare-and-append and validated reads.       *)
THEOREM CommandsAndAppliesAreAtomic == Spec => ImplementsStore
<1>1. Init => Store!Init
  BY DEF Init, Store!Init, Store!Anyone, Holding, Process
<1>2. IInv /\ [Next]_vars => [Store!Next]_(Store!store)
  BY StepIInv, StoreStep
<1>. QED BY <1>1, <1>2, Invariance, PTL DEF Spec, ImplementsStore, Store!Spec
-----------------------------------------------------------------------------
(* The safety half of LockReleased: the lock is never found held by anyone *)
(* but a command inside its transaction, whoever raised or died before.    *)
THEOREM LockHasOwner == Spec => [](locker # None => pc[locker] \in {"body", "commit"})
<1>1. IInv => (locker # None => pc[locker] \in {"body", "commit"})
  BY DEF IInv, TypeOK, Exclusive
<1>. QED BY Invariance, <1>1, PTL

(* The safety half of Termination: the steps a process has left before it  *)
(* is idle again, counting every attempt it may still make.                *)
Rank == [idle |-> 0, body |-> 2, commit |-> 1, validate |-> 3, collect |-> 2, sync |-> 1]

StepsLeft(p) ==
    IF pc[p] = "begin" THEN MaxRetries + 3 - attempt[p] ELSE Rank[pc[p]]

Position(p) == <<pc[p], seen[p], IF p \in Writer THEN attempt[p] ELSE rendered[p]>>

RunsDown(p) ==
    pc[p] # "idle" => StepsLeft(p)' < StepsLeft(p) \/ UNCHANGED Position(p)

(* A command or an apply has at most MaxRetries + 2 steps before it, none  *)
(* of the others adds to them, and each of its own takes at least one      *)
(* away; that it takes them is what fairness is assumed for.               *)
THEOREM EveryStepCounts ==
    Spec => /\ [](\A p \in Process : StepsLeft(p) \in 0 .. MaxRetries + 2)
            /\ [][\A p \in Process : RunsDown(p)]_vars
<1>. USE ApplyAssumption DEF Process, Rank
<1>1. IInv => \A p \in Process : StepsLeft(p) \in 0 .. MaxRetries + 2
  BY DEF IInv, TypeOK, Roles, StepsLeft
<1>2. IInv /\ [Next]_vars => [\A p \in Process : RunsDown(p)]_vars
  <2>. SUFFICES ASSUME IInv, Next, NEW p \in Process, pc[p] # "idle"
                PROVE  StepsLeft(p)' < StepsLeft(p) \/ UNCHANGED Position(p)
    BY DEF RunsDown
  <2>. USE DEF IInv, TypeOK, Roles, Goto, Close
  <2>1. ASSUME NEW w \in Writer, Start(w) PROVE UNCHANGED Position(p)
    BY <2>1 DEF Start, Position
  <2>2. ASSUME NEW w \in Writer, WriterStep(w), p # w PROVE UNCHANGED Position(p)
    BY <2>2 DEF WriterStep, Begin, Busy, Body, Commit, Raise, Position
  <2>3. ASSUME WriterStep(p), p \in Writer PROVE StepsLeft(p)' < StepsLeft(p)
    <3>1. attempt[p] \in 1 .. MaxRetries
      BY <2>3
    <3>2. CASE Busy(p) /\ attempt[p] = MaxRetries
      BY <3>2 DEF Busy, StepsLeft
    <3>3. CASE Busy(p) /\ attempt[p] # MaxRetries
      <4>1. pc'[p] = "begin" /\ attempt'[p] = attempt[p] + 1
        BY <2>3, <3>3 DEF Busy
      <4>. QED BY <3>1, <3>3, <4>1 DEF Busy, StepsLeft
    <3>4. CASE Begin(p)
      BY <3>1, <3>4 DEF Begin, StepsLeft
    <3>5. CASE Body(p) \/ Commit(p) \/ Raise(p)
      BY <3>5 DEF Body, Commit, Raise, StepsLeft
    <3>. QED BY <2>3, <3>2, <3>3, <3>4, <3>5 DEF WriterStep
  <2>4. ASSUME NEW a \in Applier, StartApply(a) PROVE UNCHANGED Position(p)
    BY <2>4 DEF StartApply, Position
  <2>5. ASSUME NEW a \in Applier, ApplierStep(a), p # a PROVE UNCHANGED Position(p)
    BY <2>5 DEF ApplierStep, Validate, Collect, Sync, SyncFails, Position
  <2>6. ASSUME ApplierStep(p), p \in Applier PROVE StepsLeft(p)' < StepsLeft(p)
    BY <2>6 DEF ApplierStep, Validate, Collect, Sync, SyncFails, StepsLeft
  <2>7. ASSUME NEW q \in Process, Crash(q), p # q PROVE UNCHANGED Position(p)
    BY <2>7 DEF Crash, Position
  <2>8. ASSUME Crash(p) PROVE StepsLeft(p)' < StepsLeft(p)
    BY <2>8 DEF Crash, StepsLeft
  <2>. QED BY <2>1, <2>2, <2>3, <2>4, <2>5, <2>6, <2>7, <2>8 DEF Next
<1>. QED BY Invariance, <1>1, <1>2, PTL DEF Spec

(* While at most one applier runs, as a single timer has it, the kernel    *)
(* never goes back to a version older than the one it was given before.    *)
Forward ==
    \A a \in Applier : /\ pc[a] = "collect" => kernel <= seen[a]
                       /\ pc[a] = "sync" => kernel <= rendered[a]

THEOREM OneApplierNeverGoesBack ==
    ASSUME \A a, b \in Applier : a = b
    PROVE  Spec => [][kernel <= kernel']_vars
<1>. USE ApplyAssumption DEF Process, TypeOK
<1>1. Init => Forward
  BY DEF Init, Forward
<1>2. IInv /\ Forward /\ [Next]_vars => Forward'
  <2>. SUFFICES ASSUME IInv, Forward, [Next]_vars PROVE Forward'
    OBVIOUS
  <2>. USE DEF IInv, Goto, Close
  <2>1. ASSUME NEW w \in Writer, Start(w) \/ WriterStep(w) PROVE Forward'
    BY <2>1 DEF Start, WriterStep, Begin, Busy, Body, Commit, Raise, Forward
  <2>2. ASSUME NEW a \in Applier, Validate(a) PROVE Forward'
    <3>1. kernel <= Latest
      BY DEF Pinned, Valid, Latest
    <3>. QED BY <2>2, <3>1 DEF Validate, Forward
  <2>3. ASSUME NEW a \in Applier, StartApply(a) \/ Collect(a) \/ SyncFails(a)
        PROVE  Forward'
    BY <2>3 DEF StartApply, Collect, SyncFails, Forward
  <2>4. ASSUME NEW a \in Applier, Sync(a) PROVE Forward'
    BY <2>4 DEF Sync, Forward           \* nobody else is applying
  <2>5. ASSUME NEW p \in Process, Crash(p) PROVE Forward'
    BY <2>5 DEF Crash, Forward
  <2>6. CASE UNCHANGED vars
    BY <2>6 DEF vars, Forward
  <2>. QED BY <2>1, <2>2, <2>3, <2>4, <2>5, <2>6 DEF Next, ApplierStep
<1>3. IInv /\ Forward /\ [Next]_vars => [kernel <= kernel']_vars
  <2>. SUFFICES ASSUME IInv, Forward, Next PROVE kernel <= kernel'
    OBVIOUS
  <2>1. kernel' = kernel \/ \E a \in Applier : Sync(a)
    BY DEF Next, WriterStep, ApplierStep, Start, Begin, Busy, Body, Commit, Raise,
           StartApply, Validate, Collect, SyncFails, Crash
  <2>. QED BY <2>1 DEF IInv, Forward, Sync, Goto
<1>. QED BY <1>1, <1>2, <1>3, Invariance, PTL DEF Spec
=============================================================================
