------------------------- MODULE RefinementProofs --------------------------
(* The generated binding implements the atomic call of AtomicCall, for    *)
(* every number of threads and parameters and every set of requested      *)
(* kinds that meet the delivery contract: every step of a thread maps to  *)
(* a step of the atomic call or to a stutter, under the mapping A that    *)
(* BindingCall defines.  Only the safety part is proved here; that every  *)
(* call returns (the fairness of AtomicCall) is checked by TLC.           *)
EXTENDS BindingCallProofs

\* What the refinement adds to DInv: while a thread is in the function its
\* variables form one function over the parameters, and an argument the
\* function does not write (an IN kind) still holds the value the caller
\* passed - neither CCall nor post() touches it.
KeptAt(t) ==
    pc[t] # "out" =>
       /\ caller[t] = [i \in P |-> caller[t][i]]
       /\ \A i \in P : ~Writes(req[i].tag) => caller[t][i] = entry[t][i]

Kept == \A t \in Threads : KeptAt(t)

RInv == DInv /\ Kept

\* The facts about the state's shape that every step below uses.
LEMMA Shape ==
    ASSUME RInv
    PROVE  /\ pc \in [Threads -> PCs]
           /\ DOMAIN caller = Threads /\ DOMAIN entry = Threads
           /\ DOMAIN cread = Threads /\ DOMAIN cwrote = Threads
BY DEF RInv, DInv, IInv, TypeOK, StateShape

\* A thread whose variables a step leaves alone keeps KeptAt.
LEMMA KeptFrame ==
    ASSUME NEW s, KeptAt(s), caller'[s] = caller[s], entry'[s] = entry[s],
           req' = req, pc'[s] # "out" => pc[s] # "out"
    PROVE  KeptAt(s)'
BY DEF KeptAt, P, N

\* A thread entering passes its arguments: entry and caller agree.
LEMMA EnterKept ==
    ASSUME RInv, NEW t \in Threads, Enter(t)
    PROVE  Kept'
<1>1. PICK a \in [P -> ArgUniverse] : caller' = [caller EXCEPT ![t] = a]
  BY DEF Enter
<1>2. /\ entry' = [entry EXCEPT ![t] = caller'[t]]
      /\ pc' = [pc EXCEPT ![t] = "entered"]
      /\ req' = req
  BY DEF Enter
<1>3. KeptAt(t)'
  <2>1. caller'[t] = a /\ entry'[t] = a
    BY <1>1, <1>2, Shape
  <2>2. QED
    BY <1>2, <2>1 DEF KeptAt, P, N
<1>4. ASSUME NEW s \in Threads, s # t PROVE KeptAt(s)'
  BY <1>1, <1>2, <1>4, Shape, KeptFrame DEF RInv, Kept
<1>5. QED
  BY <1>3, <1>4 DEF Kept

\* The C call stores only into written parameters' cells.
LEMMA CCallKept ==
    ASSUME RInv, NEW t \in Threads, CCall(t)
    PROVE  Kept'
<1>1. PICK w \in [P -> StoreUniverse] :
        caller' = [caller EXCEPT ![t] =
           [i \in P |-> IF Writes(req[i].tag) /\ Target(desc[i]) = "caller"
                        THEN w[i] ELSE caller[t][i]]]
  BY DEF CCall
<1>2. /\ pc' = [pc EXCEPT ![t] = "called"] /\ pc[t] = "prepared"
      /\ UNCHANGED <<req, entry>>
  BY DEF CCall
<1>3. KeptAt(t)'
  <2>1. KeptAt(t)
    BY DEF RInv, Kept
  <2>2. ASSUME NEW i \in P, ~Writes(req[i].tag)
        PROVE  caller'[t][i] = entry[t][i]
    BY <1>1, <1>2, <2>1, <2>2, Shape DEF KeptAt
  <2>3. QED
    BY <1>1, <1>2, <2>2, Shape DEF KeptAt, P, N
<1>4. ASSUME NEW s \in Threads, s # t PROVE KeptAt(s)'
  BY <1>1, <1>2, <1>4, Shape, KeptFrame DEF RInv, Kept
<1>5. QED
  BY <1>3, <1>4 DEF Kept

\* post() converts only into written parameters (the contract: a kind with
\* a post() is OUT or INOUT).
LEMMA PostCallKept ==
    ASSUME ContractHolds, RInv, NEW t \in Threads, PostCall(t)
    PROVE  Kept'
<1>1. /\ caller' = [caller EXCEPT ![t] =
            [i \in P |-> IF desc[i].post = "ne0" THEN PostValue(TmpOf(t, i))
                         ELSE caller[t][i]]]
      /\ pc' = [pc EXCEPT ![t] = "done"] /\ pc[t] = "called"
      /\ UNCHANGED <<req, entry>>
  BY DEF PostCall
<1>2. phase = "generated"
  BY <1>1, InsideGenerated DEF RInv, DInv
<1>3. KeptAt(t)'
  <2>1. KeptAt(t)
    BY DEF RInv, Kept
  <2>2. ASSUME NEW i \in P, ~Writes(req[i].tag)
        PROVE  caller'[t][i] = entry[t][i]
    <3>1. desc[i].post # "ne0"
      BY <1>2, <2>2, ContractDesc DEF RInv, DInv, DeliveryContract
    <3>2. QED
      BY <1>1, <2>1, <2>2, <3>1, Shape DEF KeptAt
  <2>3. QED
    BY <1>1, <2>2, Shape DEF KeptAt, P, N
<1>4. ASSUME NEW s \in Threads, s # t PROVE KeptAt(s)'
  BY <1>1, <1>4, Shape, KeptFrame DEF RInv, Kept
<1>5. QED
  BY <1>3, <1>4 DEF Kept

\* Kept is inductive, given DInv.
THEOREM KeptInductive ==
    ASSUME ContractHolds, RInv, [Next]_vars
    PROVE  Kept'
<1>1. Kept
  BY DEF RInv
<1>2. CASE Generate \/ Discard
  <2>1. \A s \in Threads : pc'[s] = "out"
    BY <1>2 DEF Generate, Discard, RInv, DInv, IInv, TypeOK, StateShape
  <2>2. QED
    BY <2>1 DEF Kept, KeptAt
<1>3. ASSUME NEW t \in Threads, PreCall(t) PROVE Kept'
  <2>1. /\ pc' = [pc EXCEPT ![t] = "prepared"] /\ pc[t] = "entered"
        /\ UNCHANGED <<req, caller, entry>>
    BY <1>3 DEF PreCall
  <2>2. QED
    BY <1>1, <2>1, Shape, KeptFrame DEF Kept
<1>4. ASSUME NEW t \in Threads, Return(t) PROVE Kept'
  <2>1. /\ pc' = [pc EXCEPT ![t] = "out"]
        /\ UNCHANGED <<req, caller, entry>>
    BY <1>4 DEF Return
  <2>2. QED
    BY <1>1, <2>1, Shape, KeptFrame DEF Kept
<1>5. CASE UNCHANGED vars
  BY <1>1, <1>5, KeptFrame DEF vars, Kept
<1>6. QED
  BY <1>2, <1>3, <1>4, <1>5, EnterKept, CCallKept, PostCallKept DEF Next

-----------------------------------------------------------------------------
(* Each step of the binding is a step of the atomic call under A.         *)

\* The abstract status and return value the mapping gives.
AStatus == [t \in Threads |-> StatusOf(t)]
ARet    == [t \in Threads |-> IF pc[t] = "out" THEN caller[t] ELSE <<>>]

\* A step of thread t inside the function, that changes no other thread's
\* variables, leaves every thread's abstract return value alone.
LEMMA RetFrame ==
    ASSUME RInv, NEW t \in Threads, NEW l \in PCs \ {"out"},
           pc' = [pc EXCEPT ![t] = l], pc[t] # "out",
           \A s \in Threads \ {t} : caller'[s] = caller[s]
    PROVE  ARet' = ARet
<1>1. \A s \in Threads : (IF pc'[s] = "out" THEN caller'[s] ELSE <<>>)
                         = (IF pc[s] = "out" THEN caller[s] ELSE <<>>)
  BY Shape
<1>2. QED
  BY <1>1 DEF ARet

\* A step of thread t that keeps it on the same side of its C call leaves
\* every thread's abstract status alone.
LEMMA StatusFrame ==
    ASSUME RInv, NEW t \in Threads, NEW l \in PCs,
           pc' = [pc EXCEPT ![t] = l], StatusOf(t)' = StatusOf(t)
    PROVE  AStatus' = AStatus
<1>1. \A s \in Threads : StatusOf(s)' = StatusOf(s)
  BY Shape DEF StatusOf
<1>2. QED
  BY <1>1 DEF AStatus

\* AtomicCall and BindingCall share the kinds' definitions of BindingKinds.
LEMMA SameKinds ==
    /\ A!ArgUniverse = ArgUniverse /\ A!StoreUniverse = StoreUniverse
    /\ \A tag : /\ A!ArgsFor(tag) = ArgsFor(tag) /\ A!CValues(tag) = CValues(tag)
                /\ A!Reads(tag) = Reads(tag) /\ A!Writes(tag) = Writes(tag)
    /\ \A tag, v : A!Encode(tag, v) = Encode(tag, v) /\ A!Decode(tag, v) = Decode(tag, v)
BY DEF A!ArgUniverse, ArgUniverse, A!StoreUniverse, StoreUniverse,
       A!ArgsFor, ArgsFor, A!CValues, CValues, A!Reads, Reads, A!Writes, Writes,
       A!Role, Role, A!CallerValues, CallerValues, A!LogicalTags, LogicalTags,
       A!CallbackTags, CallbackTags, A!OutTags, OutTags, A!InOutTags, InOutTags,
       A!Encode, Encode, A!Decode, Decode

\* Entering is the abstract Enter with the arguments the caller passed.
LEMMA EnterRefines ==
    ASSUME RInv, NEW t \in Threads, Enter(t)
    PROVE  A!Enter(t)
<1>1. PICK a \in [P -> ArgUniverse] :
        /\ \A i \in P : a[i] \in ArgsFor(req[i].tag)
        /\ caller' = [caller EXCEPT ![t] = a]
  BY DEF Enter
<1>2. /\ entry' = [entry EXCEPT ![t] = caller'[t]]
      /\ pc' = [pc EXCEPT ![t] = "entered"] /\ pc[t] = "out"
      /\ UNCHANGED <<phase, req, cread, cwrote>> /\ phase = "generated"
  BY DEF Enter
<1>3. entry' = [entry EXCEPT ![t] = a]
  BY <1>1, <1>2, Shape
<1>4. AStatus' = [AStatus EXCEPT ![t] = "in"]
  BY <1>2, Shape DEF AStatus, StatusOf, PCs
<1>5. ARet' = [ARet EXCEPT ![t] = <<>>]
  BY <1>1, <1>2, Shape DEF ARet
<1>6. AStatus[t] = "out"
  BY <1>2 DEF AStatus, StatusOf
<1>7. QED
  BY <1>1, <1>2, <1>3, <1>4, <1>5, <1>6, SameKinds
     DEF A!Enter, A!AP, P, N, AStatus, ARet

\* The C call is the abstract Call: by VisibleEncoded, C reads the encoding
\* of what the thread passed, and it stores what it stores.
LEMMA CCallRefines ==
    ASSUME ContractHolds, RInv, NEW t \in Threads, CCall(t)
    PROVE  A!Call(t)
<1>1. PICK w \in [P -> StoreUniverse] :
       LET ToCaller(i) == Writes(req[i].tag) /\ Target(desc[i]) = "caller"
       IN /\ \A i \in P : w[i] \in CValues(req[i].tag)
          /\ cread' = [cread EXCEPT ![t] =
                [i \in P |-> IF Reads(req[i].tag) THEN Visible(t, i) ELSE Undef]]
          /\ cwrote' = [cwrote EXCEPT ![t] =
                [i \in P |-> IF Writes(req[i].tag) THEN w[i] ELSE Undef]]
          /\ caller' = [caller EXCEPT ![t] =
                [i \in P |-> IF ToCaller(i) THEN w[i] ELSE caller[t][i]]]
  BY DEF CCall
<1>2. /\ pc' = [pc EXCEPT ![t] = "called"] /\ pc[t] = "prepared"
      /\ UNCHANGED <<phase, req, entry>>
  BY DEF CCall
<1>3. cread' = [cread EXCEPT ![t] =
         [i \in P |-> IF Reads(req[i].tag) THEN Encode(req[i].tag, entry[t][i])
                      ELSE Undef]]
  <2>1. \A i \in P : Reads(req[i].tag) =>
           Visible(t, i) = Encode(req[i].tag, entry[t][i])
    BY <1>2, VisibleEncoded DEF RInv
  <2>2. QED
    BY <1>1, <2>1
<1>4. ARet' = ARet
  <2>1. \A s \in Threads \ {t} : caller'[s] = caller[s]
    BY <1>1
  <2>2. QED
    BY <1>2, <2>1, RetFrame DEF PCs
<1>5. AStatus' = [AStatus EXCEPT ![t] = "done"] /\ AStatus[t] = "in"
  BY <1>2, Shape DEF AStatus, StatusOf, PCs
<1>6. \E v \in [A!AP -> A!StoreUniverse] :
         /\ \A i \in A!AP : v[i] \in A!CValues(req[i].tag)
         /\ cread' = [cread EXCEPT ![t] =
               [i \in A!AP |-> IF A!Reads(req[i].tag)
                               THEN A!Encode(req[i].tag, entry[t][i]) ELSE Undef]]
         /\ cwrote' = [cwrote EXCEPT ![t] =
               [i \in A!AP |-> IF A!Writes(req[i].tag) THEN v[i] ELSE Undef]]
  <2>1. A!AP = P
    BY DEF A!AP, P, N
  <2>2. /\ w \in [A!AP -> A!StoreUniverse]
        /\ \A i \in A!AP : w[i] \in A!CValues(req[i].tag)
    BY <1>1, <2>1, SameKinds
  <2>3. cread' = [cread EXCEPT ![t] =
               [i \in A!AP |-> IF A!Reads(req[i].tag)
                               THEN A!Encode(req[i].tag, entry[t][i]) ELSE Undef]]
    BY <1>3, <2>1, SameKinds
  <2>4. cwrote' = [cwrote EXCEPT ![t] =
               [i \in A!AP |-> IF A!Writes(req[i].tag) THEN w[i] ELSE Undef]]
    BY <1>1, <2>1, SameKinds
  <2>5. QED
    BY <2>2, <2>3, <2>4
<1>7. QED
  BY <1>2, <1>4, <1>5, <1>6 DEF A!Call, AStatus, ARet

\* Returning is the abstract Return: by Delivery the caller's OUT and
\* INOUT variables hold the decoded results, and by Kept its IN variables
\* the values it passed.
LEMMA ReturnRefines ==
    ASSUME RInv, NEW t \in Threads, Return(t)
    PROVE  A!Return(t)
<1>1. /\ pc' = [pc EXCEPT ![t] = "out"] /\ pc[t] = "done"
      /\ UNCHANGED <<phase, req, desc, caller, entry, local, saved, cread, cwrote>>
  BY DEF Return
<1>2. caller[t] = [i \in P |-> IF Writes(req[i].tag)
                               THEN Decode(req[i].tag, cwrote[t][i])
                               ELSE entry[t][i]]
  <2>1. caller[t] = [i \in P |-> caller[t][i]]
    BY <1>1 DEF RInv, Kept, KeptAt
  <2>2. ASSUME NEW i \in P, Writes(req[i].tag)
        PROVE  caller[t][i] = Decode(req[i].tag, cwrote[t][i])
    BY <1>1, <2>2 DEF RInv, DInv, Delivery, DeliveryAt
  <2>3. ASSUME NEW i \in P, ~Writes(req[i].tag)
        PROVE  caller[t][i] = entry[t][i]
    BY <1>1, <2>3 DEF RInv, Kept, KeptAt
  <2>4. QED
    BY <2>1, <2>2, <2>3
<1>3. ARet' = [ARet EXCEPT ![t] = caller[t]]
  BY <1>1, Shape DEF ARet
<1>4. AStatus' = [AStatus EXCEPT ![t] = "out"] /\ AStatus[t] = "done"
  BY <1>1, Shape DEF AStatus, StatusOf, PCs
<1>5. QED
  BY <1>1, <1>2, <1>3, <1>4, SameKinds
     DEF A!Return, A!AP, P, N, AStatus, ARet

\* AtomicCall and BindingCall share the registry of FortranType.
LEMMA SameRegistry == \A tag : A!Registered(tag) = Registered(tag)
BY DEF A!Registered, Registered, A!TYPES, TYPES, A!Imported, Imported,
       A!TagOf, TagOf, A!Registrations, Registrations

\* Generating is the abstract Generate: it fails exactly when a requested
\* tag is unknown, and moves no thread.
LEMMA GenerateRefines ==
    ASSUME Generate
    PROVE  A!Generate
<1>0. PICK n \in 1..MaxParams, m \in Modes :
        \E ps \in [1..n -> Requests] :
          /\ req' = ps
          /\ phase' = IF \A i \in 1..n : Registered(ps[i].tag)
                      THEN "generated" ELSE "failed"
  BY DEF Generate
<1>1. PICK ps \in [1..n -> Requests] :
        /\ req' = ps
        /\ phase' = IF \A i \in 1..n : Registered(ps[i].tag)
                    THEN "generated" ELSE "failed"
  BY <1>0
<1>2. /\ phase = "idle" /\ UNCHANGED <<pc, caller, entry, cread, cwrote>>
  BY DEF Generate
<1>3. AStatus' = AStatus /\ ARet' = ARet
  BY <1>2 DEF AStatus, StatusOf, ARet
<1>4. QED
  BY <1>1, <1>2, <1>3, SameRegistry DEF A!Generate, AStatus, ARet

\* Dropping the function is the abstract Discard: no thread is in it, and
\* every per-thread value is emptied.
LEMMA DiscardRefines ==
    ASSUME RInv, Discard
    PROVE  A!Discard
<1>1. /\ phase \in {"generated", "failed"} /\ \A t \in Threads : pc[t] = "out"
      /\ phase' = "idle" /\ req' = <<>> /\ pc' = pc
      /\ caller' = [t \in Threads |-> <<>>] /\ entry' = [t \in Threads |-> <<>>]
      /\ cread' = [t \in Threads |-> <<>>] /\ cwrote' = [t \in Threads |-> <<>>]
  BY DEF Discard
<1>2. /\ AStatus' = AStatus /\ \A t \in Threads : AStatus[t] = "out"
      /\ ARet' = [t \in Threads |-> <<>>]
  BY <1>1 DEF AStatus, StatusOf, ARet
<1>3. QED
  BY <1>1, <1>2 DEF A!Discard, AStatus, ARet

\* pre_c_call and post() are internal: the abstract state does not move.
LEMMA InternalStutters ==
    ASSUME RInv, NEW t \in Threads, PreCall(t) \/ PostCall(t)
    PROVE  UNCHANGED A!avars
<1>1. CASE PreCall(t)
  <2>1. /\ pc' = [pc EXCEPT ![t] = "prepared"] /\ pc[t] = "entered"
        /\ UNCHANGED <<phase, req, caller, entry, cread, cwrote>>
    BY <1>1 DEF PreCall
  <2>2. AStatus' = AStatus
    BY <2>1, Shape, StatusFrame DEF StatusOf, PCs
  <2>3. ARet' = ARet
    BY <2>1, RetFrame DEF PCs
  <2>4. QED
    BY <2>1, <2>2, <2>3 DEF A!avars, AStatus, ARet
<1>2. CASE PostCall(t)
  <2>1. /\ pc' = [pc EXCEPT ![t] = "done"] /\ pc[t] = "called"
        /\ UNCHANGED <<phase, req, entry, cread, cwrote>>
        /\ \A s \in Threads \ {t} : caller'[s] = caller[s]
    BY <1>2, Shape DEF PostCall
  <2>2. AStatus' = AStatus
    BY <2>1, Shape, StatusFrame DEF StatusOf, PCs
  <2>3. ARet' = ARet
    BY <2>1, RetFrame DEF PCs
  <2>4. QED
    BY <2>1, <2>2, <2>3 DEF A!avars, AStatus, ARet
<1>3. QED
  BY <1>1, <1>2

\* Every step of the binding is a step or a stutter of the atomic call.
THEOREM StepRefines ==
    ASSUME ContractHolds, RInv, [Next]_vars
    PROVE  [A!Next]_A!avars
<1>1. CASE Generate
  BY <1>1, GenerateRefines DEF A!Next
<1>2. CASE Discard
  BY <1>2, DiscardRefines DEF A!Next
<1>3. ASSUME NEW t \in Threads, Enter(t) \/ CCall(t) \/ Return(t)
      PROVE  A!Next
  BY <1>3, EnterRefines, CCallRefines, ReturnRefines DEF A!Next
<1>4. ASSUME NEW t \in Threads, PreCall(t) \/ PostCall(t)
      PROVE  UNCHANGED A!avars
  BY <1>4, InternalStutters
<1>5. CASE UNCHANGED vars
  BY <1>5 DEF vars, A!avars, AStatus, StatusOf, ARet
<1>6. QED
  BY <1>1, <1>2, <1>3, <1>4, <1>5 DEF Next

-----------------------------------------------------------------------------
(* What a returning thread hands back.                                     *)

\* Only Return(t) takes a thread from "done" to "out": every other step of
\* t moves it elsewhere, another thread's step or the driver's leaves it.
LEMMA OnlyReturnLeaves ==
    ASSUME RInv, [Next]_vars, NEW t \in Threads, pc[t] = "done", pc'[t] = "out"
    PROVE  Return(t)
<1>1. CASE Generate \/ Discard
  BY <1>1 DEF Generate, Discard
<1>2. ASSUME NEW s \in Threads, Enter(s) \/ PreCall(s) \/ CCall(s) \/ PostCall(s)
      PROVE  FALSE
  <2>1. \E v \in {"entered", "prepared", "called", "done"} :
            pc' = [pc EXCEPT ![s] = v]
    BY <1>2 DEF Enter, PreCall, CCall, PostCall
  <2>2. QED
    BY <2>1, Shape
<1>3. ASSUME NEW s \in Threads, Return(s), s # t PROVE FALSE
  BY <1>3, Shape DEF Return
<1>4. CASE UNCHANGED vars
  BY <1>4 DEF vars
<1>5. QED
  BY <1>1, <1>2, <1>3, <1>4 DEF Next

\* Every step that returns a thread hands it C's decoded outputs and the
\* inputs it passed.
LEMMA ReturnStepDelivers ==
    ASSUME RInv, [Next]_vars
    PROVE  ReturnsDelivered
<1> SUFFICES ASSUME NEW t \in Threads, pc[t] = "done", pc'[t] = "out",
                    NEW i \in P
             PROVE  caller'[t][i] = IF Writes(req[i].tag)
                                    THEN Decode(req[i].tag, cwrote[t][i])
                                    ELSE entry[t][i]
  BY DEF ReturnsDelivered
<1>1. caller' = caller
  BY OnlyReturnLeaves DEF Return
<1>2. Writes(req[i].tag) => caller[t][i] = Decode(req[i].tag, cwrote[t][i])
  BY DEF RInv, DInv, Delivery, DeliveryAt
<1>3. ~Writes(req[i].tag) => caller[t][i] = entry[t][i]
  BY DEF RInv, Kept, KeptAt
<1>4. QED
  BY <1>1, <1>2, <1>3

(* A call hands back what the atomic call promises (ReturnDelivers): if  *)
(* every requested kind meets the delivery contract, then whenever any   *)
(* thread returns - however its statements interleaved with the other    *)
(* threads' - each OUT or INOUT argument holds the decoding of what C    *)
(* stored for that call and each IN argument the value the thread passed. *)
THEOREM ReturnDeliversThm == ContractHolds => (Spec => ReturnDelivers)
<1> SUFFICES ASSUME ContractHolds PROVE Spec => ReturnDelivers
  OBVIOUS
<1>1. Init => RInv
  BY InitIInv DEF Init, RInv, DInv, Delivery, DeliveryAt, Kept, KeptAt
<1>2. RInv /\ [Next]_vars => RInv'
  BY DInvInductive, KeptInductive DEF RInv
<1>3. RInv /\ [Next]_vars => [ReturnsDelivered]_vars
  BY ReturnStepDelivers
<1>4. QED
  BY <1>1, <1>2, <1>3, PTL DEF Spec, ReturnDelivers

(* The generated binding refines the atomic call: if every requested kind  *)
(* meets the delivery contract, then every behaviour of the binding's      *)
(* threads - their pre_c_call, C call and post statements interleaved in   *)
(* any order - is, under the mapping A, a behaviour of AtomicCall: C reads *)
(* the encoded arguments its thread passed, and the thread returns with    *)
(* the decoded results C stored and its inputs untouched.                  *)
THEOREM Refinement == ContractHolds => (Spec => A!Spec)
<1> SUFFICES ASSUME ContractHolds PROVE Spec => A!Spec
  OBVIOUS
<1>1. Init => RInv
  BY InitIInv DEF Init, RInv, DInv, Delivery, DeliveryAt, Kept, KeptAt
<1>2. RInv /\ [Next]_vars => RInv'
  BY DInvInductive, KeptInductive DEF RInv
<1>3. Init => A!Init
  BY DEF Init, A!Init, StatusOf
<1>4. RInv /\ [Next]_vars => [A!Next]_A!avars
  BY StepRefines
<1>5. QED
  BY <1>1, <1>2, <1>3, <1>4, PTL DEF Spec, A!Spec

====
