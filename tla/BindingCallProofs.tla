------------------------- MODULE BindingCallProofs -------------------------
(* Proofs about BindingCall for every number of threads and parameters and *)
(* every set of requested kinds: the type invariant, and that a function   *)
(* whose descriptors all meet the delivery contract carries every value    *)
(* between caller and C whatever the interleaving of its callers.          *)
EXTENDS BindingCall, TLAPS

\* The descriptors are those the registry constructs for the parameter list
\* in one mode.
Built ==
    phase = "generated" =>
       /\ \A i \in P : Registered(req[i].tag)
       /\ \E m \in Modes :
             desc = [i \in P |-> Construct(req[i].tag, ParamsOf(req[i], m))]

\* The inductive invariant behind TypeOK.
IInv == TypeOK /\ Built

\* The per-thread facts behind InValueDelivered and OutValueDelivered: an
\* input is untouched until C has read it, the temporary holds its encoding
\* after pre_c_call, and what C stored is where post() or the caller finds it.
DeliveryAt(t, i) ==
    LET tag == req[i].tag
        d   == desc[i]
    IN /\ pc[t] # "out" /\ Reads(tag) => entry[t][i] \in CallerValues(tag)
       /\ pc[t] \in {"entered", "prepared"} /\ Reads(tag) =>
             caller[t][i] = entry[t][i]
       /\ pc[t] = "prepared" /\ Reads(tag) /\ Target(d) = "tmp" =>
             local[t][i] = Encode(tag, entry[t][i])
       /\ pc[t] \in {"called", "done"} /\ Reads(tag) =>
             cread[t][i] = Encode(tag, entry[t][i])
       /\ pc[t] = "called" /\ Writes(tag) /\ Target(d) = "tmp" =>
             local[t][i] = cwrote[t][i]
       /\ pc[t] = "called" /\ Writes(tag) /\ Target(d) = "caller" =>
             caller[t][i] = cwrote[t][i]
       /\ pc[t] = "done" /\ Writes(tag) =>
             caller[t][i] = Decode(tag, cwrote[t][i])

Delivery == \A t \in Threads : \A i \in P : DeliveryAt(t, i)

DInv == IInv /\ Delivery

-----------------------------------------------------------------------------
(* Facts about the constants and the descriptors.                         *)

\* A parameter of a generated function has a requested kind and a coherent
\* descriptor.
LEMMA CoherentDesc ==
    ASSUME IInv, phase = "generated", NEW i \in P
    PROVE  /\ req[i] \in Requests
           /\ Coherent(desc[i], req[i].tag)
<1>1. req[i] \in Requests
  BY DEF IInv, TypeOK, StateShape, P, N
<1>2. PICK m \in Modes :
        desc = [j \in P |-> Construct(req[j].tag, ParamsOf(req[j], m))]
  BY DEF IInv, Built
<1>3. Registered(req[i].tag)
  BY DEF IInv, Built
<1>4. QED
  BY <1>1, <1>2, <1>3, CatalogueAssumption

-----------------------------------------------------------------------------
(* The type invariant.                                                     *)

\* The initial state satisfies the inductive invariant.
LEMMA InitIInv == Init => IInv
<1> SUFFICES ASSUME Init PROVE IInv
  OBVIOUS
<1>1. StateShape
  BY ConstantsAssumption DEF Init, StateShape, N, PCs
<1>2. SavedOK /\ \A t \in Threads : ThreadOK(t)
  BY DEF Init, SavedOK, ThreadOK
<1>3. Built
  BY DEF Init, Built
<1>4. QED
  BY <1>1, <1>2, <1>3 DEF IInv, TypeOK

\* Undef belongs to the value set of every cell.
LEMMA UndefEverywhere ==
    ASSUME NEW d, NEW tag
    PROVE  /\ Undef \in TmpValues(d)
           /\ Undef \in ArgValues(tag)
           /\ Undef \in ReadValues(tag)
           /\ Undef \in WroteValues(tag)
BY DEF TmpValues, ArgValues, ReadValues, WroteValues

\* The driver generating a function preserves the invariant.
LEMMA GenerateIInv == IInv /\ Generate => IInv'
<1> SUFFICES ASSUME IInv, Generate PROVE IInv'
  OBVIOUS
<1>1. \A t \in Threads : pc[t] = "out"
  BY DEF IInv, TypeOK, StateShape, Generate
<1>2. PICK n \in 1..MaxParams, m \in Modes :
        \E ps \in [1..n -> Requests] :
           /\ req' = ps
           /\ IF \A i \in 1..n : Registered(ps[i].tag)
              THEN LET ds == [i \in 1..n |-> Construct(ps[i].tag, ParamsOf(ps[i], m))]
                   IN /\ phase' = "generated"
                      /\ desc' = ds
                      /\ saved' = [i \in 1..n |-> IF ds[i].tmp.saved THEN 0 ELSE Undef]
              ELSE /\ phase' = "failed"
                   /\ desc' = <<>>
                   /\ saved' = <<>>
  BY DEF Generate
<1>20. PICK ps \in [1..n -> Requests] :
        /\ req' = ps
        /\ IF \A i \in 1..n : Registered(ps[i].tag)
           THEN LET ds == [i \in 1..n |-> Construct(ps[i].tag, ParamsOf(ps[i], m))]
                IN /\ phase' = "generated"
                   /\ desc' = ds
                   /\ saved' = [i \in 1..n |-> IF ds[i].tmp.saved THEN 0 ELSE Undef]
           ELSE /\ phase' = "failed"
                /\ desc' = <<>>
                /\ saved' = <<>>
  BY <1>2
<1>3. UNCHANGED <<pc, caller, entry, local, cread, cwrote>>
  BY DEF Generate
<1>4. n \in Nat /\ n <= MaxParams /\ req' \in Seq(Requests) /\ Len(req') = n
  BY <1>20, ConstantsAssumption
<1>5. \A t \in Threads : ThreadOK(t)'
  BY <1>1, <1>3 DEF ThreadOK
<1>6. pc' \in [Threads -> PCs] /\ DOMAIN caller' = Threads
      /\ DOMAIN entry' = Threads /\ DOMAIN local' = Threads
      /\ DOMAIN cread' = Threads /\ DOMAIN cwrote' = Threads
  BY <1>3 DEF IInv, TypeOK, StateShape
<1>7. CASE \A i \in 1..n : Registered(ps[i].tag)
  <2> DEFINE ds == [i \in 1..n |-> Construct(ps[i].tag, ParamsOf(ps[i], m))]
  <2>1. /\ phase' = "generated"
        /\ desc' = ds
        /\ saved' = [i \in 1..n |-> IF ds[i].tmp.saved THEN 0 ELSE Undef]
    BY <1>20, <1>7
  <2>2. \A i \in 1..n : Coherent(ds[i], ps[i].tag)
    BY <1>20, <1>7, CatalogueAssumption
  <2>3. desc' \in Seq(Descriptor) /\ Len(desc') = n
    BY <2>1, <2>2, <1>4 DEF Coherent
  <2>4. StateShape'
    BY <1>4, <1>6, <2>1, <2>3 DEF StateShape, N
  <2>5. SavedOK'
    <3>1. P' = 1..n
      BY <1>4 DEF P, N
    <3>2. ASSUME NEW i \in 1..n
          PROVE  saved'[i] \in TmpValues(desc'[i])
      <4>1. CASE ds[i].tmp.saved
        BY <2>1, <2>2, <4>1 DEF Coherent, TmpValues
      <4>2. CASE ~ds[i].tmp.saved
        BY <2>1, <4>2, UndefEverywhere
      <4>3. QED
        BY <4>1, <4>2
    <3>3. QED
      BY <2>1, <3>1, <3>2 DEF SavedOK, CellsOK
  <2>6. Built'
    BY <1>20, <1>4, <1>7, <2>1 DEF Built, P, N
  <2>7. QED
    BY <1>5, <2>4, <2>5, <2>6 DEF IInv, TypeOK
<1>8. CASE ~\A i \in 1..n : Registered(ps[i].tag)
  <2>1. phase' = "failed" /\ desc' = <<>> /\ saved' = <<>>
    BY <1>20, <1>8
  <2>2. StateShape'
    BY <1>1, <1>3, <1>4, <1>6, <2>1 DEF StateShape, N
  <2>3. QED
    BY <1>5, <2>1, <2>2 DEF IInv, TypeOK, SavedOK, Built
<1>9. QED
  BY <1>7, <1>8

\* A thread entering the function preserves the invariant.
LEMMA EnterIInv ==
    ASSUME IInv, NEW t \in Threads, Enter(t)
    PROVE  IInv'
<1>1. PICK a \in [P -> ArgUniverse] :
        /\ \A i \in P : a[i] \in ArgsFor(req[i].tag)
        /\ caller' = [caller EXCEPT ![t] = a]
  BY DEF Enter
<1>2. /\ entry' = [entry EXCEPT ![t] = caller'[t]]
      /\ local' = [local EXCEPT ![t] = [i \in P |-> Undef]]
      /\ pc' = [pc EXCEPT ![t] = "entered"]
      /\ UNCHANGED <<phase, req, desc, saved, cread, cwrote>>
      /\ phase = "generated"
  BY DEF Enter
<1>3. StateShape'
  BY <1>1, <1>2 DEF IInv, TypeOK, StateShape, PCs, N
<1>4. SavedOK'
  BY <1>2 DEF IInv, TypeOK, SavedOK, CellsOK, P, N
<1>8. Built'
  BY <1>2 DEF IInv, Built, P, N
<1>5. ThreadOK(t)'
  <2>0. P' = P /\ req' = req /\ desc' = desc
    BY <1>2 DEF P, N
  <2>1. caller'[t] = a
    BY <1>1 DEF IInv, TypeOK, StateShape
  <2>2. \A i \in P : caller'[t][i] \in ArgValues(req[i].tag)
    BY <1>1, <2>1 DEF ArgValues, ArgsFor
  <2>3. /\ entry'[t] = caller'[t]
        /\ local'[t] = [i \in P |-> Undef]
        /\ pc'[t] = "entered"
    BY <1>2 DEF IInv, TypeOK, StateShape
  <2>4. \A i \in P : local'[t][i] \in TmpValues(desc[i])
    BY <2>3, UndefEverywhere
  <2>5. DOMAIN caller'[t] = P /\ DOMAIN local'[t] = P
    BY <2>1, <2>3
  <2>6. QED
    BY <2>0, <2>2, <2>3, <2>4, <2>5 DEF ThreadOK, CellsOK
<1>6. ASSUME NEW s \in Threads, s # t PROVE ThreadOK(s)'
  <2>1. /\ caller'[s] = caller[s] /\ entry'[s] = entry[s]
        /\ local'[s] = local[s] /\ pc'[s] = pc[s]
    BY <1>1, <1>2, <1>6
  <2>2. QED
    BY <1>2, <2>1 DEF IInv, TypeOK, ThreadOK, CellsOK, P, N
<1>7. QED
  BY <1>3, <1>4, <1>5, <1>6, <1>8 DEF IInv, TypeOK

\* A thread inside the function is running the generated function.
LEMMA InsideGenerated ==
    ASSUME IInv, NEW t \in Threads, pc[t] # "out"
    PROVE  phase = "generated"
BY DEF IInv, TypeOK, StateShape

\* The pre_c_call statements preserve the invariant: merge() yields an
\* integer and c_funloc() an address, whatever the caller passed.
LEMMA PreCallIInv ==
    ASSUME IInv, NEW t \in Threads, PreCall(t)
    PROVE  IInv'
<1>0. phase = "generated"
  BY InsideGenerated DEF PreCall
<1>1. PICK ch \in [P -> {0, 1}] :
        LET nv == [i \in P |-> IF desc[i].pre = "merge"
                               THEN Merge(caller[t][i], ch[i])
                               ELSE FunLoc(caller[t][i])]
        IN /\ local' = [local EXCEPT ![t] =
                 [i \in P |-> IF desc[i].pre # "none" /\ ~desc[i].tmp.saved
                              THEN nv[i] ELSE local[t][i]]]
           /\ saved' = [i \in P |-> IF desc[i].pre # "none" /\ desc[i].tmp.saved
                                    THEN nv[i] ELSE saved[i]]
  BY DEF PreCall
<1> DEFINE nv == [i \in P |-> IF desc[i].pre = "merge"
                              THEN Merge(caller[t][i], ch[i])
                              ELSE FunLoc(caller[t][i])]
<1>2. /\ local' = [local EXCEPT ![t] =
             [i \in P |-> IF desc[i].pre # "none" /\ ~desc[i].tmp.saved
                          THEN nv[i] ELSE local[t][i]]]
      /\ saved' = [i \in P |-> IF desc[i].pre # "none" /\ desc[i].tmp.saved
                               THEN nv[i] ELSE saved[i]]
  BY <1>1
<1>3. /\ pc' = [pc EXCEPT ![t] = "prepared"]
      /\ UNCHANGED <<phase, req, desc, caller, entry, cread, cwrote>>
      /\ pc[t] = "entered"
  BY DEF PreCall
<1>4. ASSUME NEW i \in P, desc[i].pre # "none"
      PROVE  nv[i] \in TmpValues(desc[i])
  <2>1. Coherent(desc[i], req[i].tag) /\ desc[i] \in Descriptor
    BY <1>0, CoherentDesc DEF Coherent
  <2>2. caller[t][i] \in ArgValues(req[i].tag)
    BY <1>3 DEF IInv, TypeOK, ThreadOK, CellsOK
  <2>3. CASE desc[i].pre = "merge"
    <3>1. desc[i].tmp.ty = "INTEGER" /\ req[i].tag \in LogicalTags
      BY <2>1, <2>3 DEF Coherent
    <3>2. caller[t][i] \in BOOLEAN \cup {Undef}
      BY <2>2, <3>1 DEF ArgValues, CallerValues
    <3>3. nv[i] \in {0, 1}
      BY <2>3, <3>2 DEF Merge
    <3>4. QED
      BY <3>1, <3>3 DEF TmpValues
  <2>4. CASE desc[i].pre = "funloc"
    <3>1. desc[i].tmp.ty = "FUNPTR" /\ req[i].tag \in CallbackTags
      BY <2>1, <2>4 DEF Coherent
    <3>2. req[i].tag \notin LogicalTags
      BY <3>1 DEF CallbackTags, LogicalTags
    <3>3. caller[t][i] \in Procs \cup {Undef}
      BY <2>2, <3>1, <3>2 DEF ArgValues, CallerValues
    <3>4. nv[i] \in {"funloc"} \X (Procs \cup {Undef})
      BY <2>4, <3>3 DEF FunLoc
    <3>5. QED
      BY <3>1, <3>4 DEF TmpValues
  <2>5. QED
    BY <1>4, <2>1, <2>3, <2>4 DEF Descriptor, PreForms
<1>5. StateShape'
  BY <1>2, <1>3 DEF IInv, TypeOK, StateShape, PCs, N
<1>6. SavedOK'
  BY <1>0, <1>2, <1>3, <1>4 DEF IInv, TypeOK, SavedOK, CellsOK, P, N
<1>7. Built'
  BY <1>3 DEF IInv, Built, P, N
<1>8. ThreadOK(t)'
  <2>0. P' = P /\ req' = req /\ desc' = desc
    BY <1>3 DEF P, N
  <2>1. local'[t] = [i \in P |-> IF desc[i].pre # "none" /\ ~desc[i].tmp.saved
                                 THEN nv[i] ELSE local[t][i]]
    BY <1>2 DEF IInv, TypeOK, StateShape
  <2>2. CellsOK(local[t], LAMBDA i : TmpValues(desc[i]))
    BY <1>3 DEF IInv, TypeOK, ThreadOK
  <2>3. \A i \in P : local'[t][i] \in TmpValues(desc[i])
    BY <1>4, <2>1, <2>2 DEF CellsOK
  <2>4. pc'[t] = "prepared"
    BY <1>3 DEF IInv, TypeOK, StateShape
  <2>5. QED
    BY <1>3, <2>0, <2>1, <2>3, <2>4 DEF IInv, TypeOK, ThreadOK, CellsOK
<1>9. ASSUME NEW s \in Threads, s # t PROVE ThreadOK(s)'
  <2>1. local'[s] = local[s] /\ pc'[s] = pc[s]
    BY <1>2, <1>3, <1>9
  <2>2. QED
    BY <1>3, <2>1 DEF IInv, TypeOK, ThreadOK, CellsOK, P, N
<1>10. QED
  BY <1>5, <1>6, <1>7, <1>8, <1>9 DEF IInv, TypeOK

\* What C reads behind a pointer of a generated function is a value of the
\* kind's C type or undefined.
LEMMA VisibleType ==
    ASSUME IInv, NEW t \in Threads, pc[t] # "out", NEW i \in P,
           Reads(req[i].tag)
    PROVE  Visible(t, i) \in ReadValues(req[i].tag)
<1> DEFINE tag == req[i].tag
           d == desc[i]
<1>0. phase = "generated"
  BY InsideGenerated
<1>1. Coherent(d, tag) /\ d \in Descriptor
  BY <1>0, CoherentDesc DEF Coherent
<1>2. /\ caller[t][i] \in ArgValues(tag)
      /\ local[t][i] \in TmpValues(d)
      /\ saved[i] \in TmpValues(d)
  BY <1>0 DEF IInv, TypeOK, ThreadOK, SavedOK, CellsOK
<1>3. CASE Target(d) = "caller"
  <2>1. tag \notin LogicalTags \cup CallbackTags \cup {"CHAR_ARRAY"}
    BY <1>1, <1>3 DEF Coherent
  <2>2. Visible(t, i) = caller[t][i]
    BY <1>3 DEF Visible
  <2>3. QED
    BY <1>2, <2>1, <2>2 DEF ArgValues, CallerValues, ReadValues
<1>4. CASE Target(d) = "tmp"
  <2>1. TmpOf(t, i) \in TmpValues(d)
    BY <1>2 DEF TmpOf
  <2>2. Visible(t, i) = TmpOf(t, i)
    BY <1>4 DEF Visible, Target
  <2>3. CASE d.tmp.ty = "INTEGER" /\ tag \in LogicalTags
    BY <2>1, <2>2, <2>3 DEF TmpValues, ReadValues
  <2>4. CASE d.tmp.ty = "FUNPTR" /\ tag \in CallbackTags
    <3>1. tag \notin LogicalTags
      BY <2>4 DEF CallbackTags, LogicalTags
    <3>2. QED
      BY <2>1, <2>2, <2>4, <3>1 DEF TmpValues, ReadValues
  <2>5. CASE d.tmp.ty = "NONE"
    BY <2>1, <2>2, <2>5 DEF TmpValues, ReadValues
  <2>6. QED
    BY <1>1, <1>4, <2>3, <2>4, <2>5 DEF Coherent
<1>5. CASE Target(d) = "expr"
  <2>1. tag = "CHAR_ARRAY"
    BY <1>1, <1>5 DEF Coherent
  <2>2. tag \notin LogicalTags \cup CallbackTags
    BY <2>1 DEF LogicalTags, CallbackTags
  <2>3. Visible(t, i) = <<caller[t][i], "NUL">>
    BY <1>5 DEF Visible, Target
  <2>4. QED
    BY <1>2, <2>1, <2>2, <2>3 DEF ArgValues, CallerValues, ReadValues
<1>6. QED
  BY <1>1, <1>3, <1>4, <1>5 DEF Target, Descriptor, ArgForms

\* The C call preserves the invariant: C stores integers only into an
\* integer temporary and values of Data only into a caller's variable that
\* holds Data.
LEMMA CCallIInv ==
    ASSUME IInv, NEW t \in Threads, CCall(t)
    PROVE  IInv'
<1>0. phase = "generated" /\ pc[t] = "prepared"
  BY InsideGenerated DEF CCall
<1>1. PICK w \in [P -> StoreUniverse] :
       LET ToCaller(i) == Writes(req[i].tag) /\ Target(desc[i]) = "caller"
           ToTmp(i)    == Writes(req[i].tag) /\ Target(desc[i]) = "tmp"
       IN /\ \A i \in P : w[i] \in CValues(req[i].tag)
          /\ cread' = [cread EXCEPT ![t] =
                [i \in P |-> IF Reads(req[i].tag) THEN Visible(t, i) ELSE Undef]]
          /\ cwrote' = [cwrote EXCEPT ![t] =
                [i \in P |-> IF Writes(req[i].tag) THEN w[i] ELSE Undef]]
          /\ caller' = [caller EXCEPT ![t] =
                [i \in P |-> IF ToCaller(i) THEN w[i] ELSE caller[t][i]]]
          /\ local' = [local EXCEPT ![t] =
                [i \in P |-> IF ToTmp(i) /\ ~desc[i].tmp.saved
                             THEN w[i] ELSE local[t][i]]]
          /\ saved' = [i \in P |-> IF ToTmp(i) /\ desc[i].tmp.saved
                                   THEN w[i] ELSE saved[i]]
  BY DEF CCall
<1> DEFINE ToCaller(i) == Writes(req[i].tag) /\ Target(desc[i]) = "caller"
           ToTmp(i)    == Writes(req[i].tag) /\ Target(desc[i]) = "tmp"
<1>2. /\ cread' = [cread EXCEPT ![t] =
             [i \in P |-> IF Reads(req[i].tag) THEN Visible(t, i) ELSE Undef]]
      /\ cwrote' = [cwrote EXCEPT ![t] =
             [i \in P |-> IF Writes(req[i].tag) THEN w[i] ELSE Undef]]
      /\ caller' = [caller EXCEPT ![t] =
             [i \in P |-> IF ToCaller(i) THEN w[i] ELSE caller[t][i]]]
      /\ local' = [local EXCEPT ![t] =
             [i \in P |-> IF ToTmp(i) /\ ~desc[i].tmp.saved
                          THEN w[i] ELSE local[t][i]]]
      /\ saved' = [i \in P |-> IF ToTmp(i) /\ desc[i].tmp.saved
                               THEN w[i] ELSE saved[i]]
  BY <1>1
<1>3. /\ pc' = [pc EXCEPT ![t] = "called"]
      /\ UNCHANGED <<phase, req, desc, entry>>
  BY DEF CCall
<1>4. ASSUME NEW i \in P
      PROVE  /\ w[i] \in CValues(req[i].tag)
             /\ ToCaller(i) => w[i] \in CallerValues(req[i].tag)
             /\ ToTmp(i) => w[i] \in TmpValues(desc[i])
  <2>1. Coherent(desc[i], req[i].tag)
    BY <1>0, CoherentDesc
  <2>2. w[i] \in CValues(req[i].tag)
    BY <1>1
  <2>3. ToCaller(i) => w[i] \in CallerValues(req[i].tag)
    BY <2>1, <2>2 DEF Coherent, CallerValues, CValues
  <2>4. ToTmp(i) => w[i] \in TmpValues(desc[i])
    BY <2>1, <2>2 DEF Coherent, TmpValues, CValues
  <2>5. QED
    BY <2>2, <2>3, <2>4
<1>5. StateShape'
  <2>1. pc' \in [Threads -> PCs]
    BY <1>3 DEF IInv, TypeOK, StateShape, PCs
  <2>2. /\ DOMAIN caller' = Threads /\ DOMAIN entry' = Threads
        /\ DOMAIN local' = Threads /\ DOMAIN cread' = Threads
        /\ DOMAIN cwrote' = Threads
    BY <1>2, <1>3 DEF IInv, TypeOK, StateShape
  <2>3. QED
    BY <1>0, <1>3, <2>1, <2>2 DEF IInv, TypeOK, StateShape, N
<1>6. SavedOK'
  BY <1>0, <1>2, <1>3, <1>4 DEF IInv, TypeOK, SavedOK, CellsOK, P, N
<1>7. Built'
  BY <1>3 DEF IInv, Built, P, N
<1>8. ThreadOK(t)'
  <2>0. P' = P /\ req' = req /\ desc' = desc
    BY <1>3 DEF P, N
  <2>1. /\ cread'[t] = [i \in P |-> IF Reads(req[i].tag) THEN Visible(t, i) ELSE Undef]
        /\ cwrote'[t] = [i \in P |-> IF Writes(req[i].tag) THEN w[i] ELSE Undef]
        /\ caller'[t] = [i \in P |-> IF ToCaller(i) THEN w[i] ELSE caller[t][i]]
        /\ local'[t] = [i \in P |-> IF ToTmp(i) /\ ~desc[i].tmp.saved
                                    THEN w[i] ELSE local[t][i]]
        /\ entry'[t] = entry[t]
        /\ pc'[t] = "called"
    BY <1>2, <1>3 DEF IInv, TypeOK, StateShape
  <2>2. /\ CellsOK(caller[t], LAMBDA i : ArgValues(req[i].tag))
        /\ CellsOK(entry[t], LAMBDA i : ArgValues(req[i].tag))
        /\ CellsOK(local[t], LAMBDA i : TmpValues(desc[i]))
    BY <1>0 DEF IInv, TypeOK, ThreadOK
  <2>3. ASSUME NEW i \in P PROVE cread'[t][i] \in ReadValues(req[i].tag)
    <3>1. CASE Reads(req[i].tag)
      <4>1. cread'[t][i] = Visible(t, i)
        BY <2>1, <3>1
      <4>2. Visible(t, i) \in ReadValues(req[i].tag)
        BY <1>0, <3>1, VisibleType
      <4>3. QED
        BY <4>1, <4>2
    <3>2. CASE ~Reads(req[i].tag)
      <4>1. cread'[t][i] = Undef
        BY <2>1, <3>2
      <4>2. QED
        BY <4>1, UndefEverywhere
    <3>3. QED
      BY <3>1, <3>2
  <2>4. \A i \in P : cwrote'[t][i] \in WroteValues(req[i].tag)
    BY <1>4, <2>1 DEF WroteValues
  <2>5. \A i \in P : caller'[t][i] \in ArgValues(req[i].tag)
    BY <1>4, <2>1, <2>2 DEF CellsOK, ArgValues
  <2>6. \A i \in P : local'[t][i] \in TmpValues(desc[i])
    BY <1>4, <2>1, <2>2 DEF CellsOK
  <2>7. QED
    BY <2>0, <2>1, <2>2, <2>3, <2>4, <2>5, <2>6 DEF ThreadOK, CellsOK
<1>9. ASSUME NEW s \in Threads, s # t PROVE ThreadOK(s)'
  <2>1. /\ caller'[s] = caller[s] /\ local'[s] = local[s]
        /\ cread'[s] = cread[s] /\ cwrote'[s] = cwrote[s] /\ pc'[s] = pc[s]
    BY <1>2, <1>3, <1>9
  <2>2. QED
    BY <1>3, <2>1 DEF IInv, TypeOK, ThreadOK, CellsOK, P, N
<1>10. QED
  BY <1>5, <1>6, <1>7, <1>8, <1>9 DEF IInv, TypeOK

\* The post statements preserve the invariant: tmp /= 0 is a LOGICAL and
\* only a logical kind's caller variable receives it.
LEMMA PostCallIInv ==
    ASSUME IInv, NEW t \in Threads, PostCall(t)
    PROVE  IInv'
<1>0. phase = "generated" /\ pc[t] = "called"
  BY InsideGenerated DEF PostCall
<1>1. /\ caller' = [caller EXCEPT ![t] =
            [i \in P |-> IF desc[i].post = "ne0" THEN PostValue(TmpOf(t, i))
                         ELSE caller[t][i]]]
      /\ pc' = [pc EXCEPT ![t] = "done"]
      /\ UNCHANGED <<phase, req, desc, entry, local, saved, cread, cwrote>>
  BY DEF PostCall
<1>2. StateShape'
  <2>1. pc' \in [Threads -> PCs]
    BY <1>1 DEF IInv, TypeOK, StateShape, PCs
  <2>2. DOMAIN caller' = Threads
    BY <1>1 DEF IInv, TypeOK, StateShape
  <2>3. QED
    BY <1>0, <1>1, <2>1, <2>2 DEF IInv, TypeOK, StateShape, N
<1>3. SavedOK' /\ Built'
  BY <1>1 DEF IInv, TypeOK, SavedOK, CellsOK, Built, P, N
<1>4. ThreadOK(t)'
  <2>0. P' = P /\ req' = req /\ desc' = desc
    BY <1>1 DEF P, N
  <2>1. caller'[t] = [i \in P |-> IF desc[i].post = "ne0" THEN PostValue(TmpOf(t, i))
                                  ELSE caller[t][i]]
    BY <1>1 DEF IInv, TypeOK, StateShape
  <2>2. ASSUME NEW i \in P PROVE caller'[t][i] \in ArgValues(req[i].tag)
    <3>1. CASE desc[i].post = "ne0"
      <4>1. req[i].tag \in LogicalTags
        BY <1>0, <3>1, CoherentDesc DEF Coherent
      <4>2. caller'[t][i] \in BOOLEAN
        BY <2>1, <3>1 DEF PostValue
      <4>3. QED
        BY <4>1, <4>2 DEF ArgValues, CallerValues
    <3>2. CASE desc[i].post # "ne0"
      BY <1>0, <2>1, <3>2 DEF IInv, TypeOK, ThreadOK, CellsOK
    <3>3. QED
      BY <3>1, <3>2
  <2>3. pc'[t] = "done" /\ entry'[t] = entry[t] /\ local'[t] = local[t]
        /\ cread'[t] = cread[t] /\ cwrote'[t] = cwrote[t]
    BY <1>1 DEF IInv, TypeOK, StateShape
  <2>4. QED
    BY <1>0, <2>0, <2>1, <2>2, <2>3 DEF IInv, TypeOK, ThreadOK, CellsOK
<1>5. ASSUME NEW s \in Threads, s # t PROVE ThreadOK(s)'
  <2>1. caller'[s] = caller[s] /\ pc'[s] = pc[s]
    BY <1>1, <1>5
  <2>2. QED
    BY <1>1, <2>1 DEF IInv, TypeOK, ThreadOK, CellsOK, P, N
<1>6. QED
  BY <1>2, <1>3, <1>4, <1>5 DEF IInv, TypeOK

\* A thread returning preserves the invariant.
LEMMA ReturnIInv ==
    ASSUME IInv, NEW t \in Threads, Return(t)
    PROVE  IInv'
<1>1. /\ pc' = [pc EXCEPT ![t] = "out"]
      /\ UNCHANGED <<phase, req, desc, caller, entry, local, saved, cread, cwrote>>
  BY DEF Return
<1>2. StateShape'
  BY <1>1 DEF IInv, TypeOK, StateShape, PCs, N
<1>3. SavedOK' /\ Built'
  BY <1>1 DEF IInv, TypeOK, SavedOK, CellsOK, Built, P, N
<1>4. ASSUME NEW s \in Threads PROVE ThreadOK(s)'
  <2>1. CASE s = t
    BY <1>1, <2>1 DEF IInv, TypeOK, StateShape, ThreadOK
  <2>2. CASE s # t
    BY <1>1, <2>2 DEF IInv, TypeOK, ThreadOK, CellsOK, P, N
  <2>3. QED
    BY <2>1, <2>2
<1>5. QED
  BY <1>2, <1>3, <1>4 DEF IInv, TypeOK

\* Dropping the function preserves the invariant: no thread is inside it.
LEMMA DiscardIInv ==
    ASSUME IInv, Discard
    PROVE  IInv'
<1>1. /\ phase' = "idle" /\ req' = <<>> /\ desc' = <<>>
      /\ \A t \in Threads : pc'[t] = "out"
      /\ pc' = pc
  BY DEF Discard
<1>2. StateShape'
  BY <1>1, ConstantsAssumption DEF Discard, IInv, TypeOK, StateShape, N
<1>3. QED
  BY <1>1, <1>2 DEF IInv, TypeOK, SavedOK, ThreadOK, Built

\* Stuttering preserves the invariant.
LEMMA StutterIInv ==
    ASSUME IInv, UNCHANGED vars
    PROVE  IInv'
BY DEF vars, IInv, TypeOK, StateShape, SavedOK, ThreadOK, CellsOK, Built, P, N

-----------------------------------------------------------------------------
(* The type invariant.                                                     *)

\* IInv is inductive: every step of the driver and of any thread keeps it.
THEOREM IInvInductive == IInv /\ [Next]_vars => IInv'
<1> SUFFICES ASSUME IInv, [Next]_vars PROVE IInv'
  OBVIOUS
<1>1. CASE Generate
  BY <1>1, GenerateIInv
<1>2. CASE Discard
  BY <1>2, DiscardIInv
<1>3. ASSUME NEW t \in Threads,
             Enter(t) \/ PreCall(t) \/ CCall(t) \/ PostCall(t) \/ Return(t)
      PROVE  IInv'
  BY <1>3, EnterIInv, PreCallIInv, CCallIInv, PostCallIInv, ReturnIInv
<1>4. CASE UNCHANGED vars
  BY <1>4, StutterIInv
<1>5. QED
  BY <1>1, <1>2, <1>3, <1>4 DEF Next

\* Type correctness of the generated function and its callers (TypeOK): in
\* every reachable state each cell a thread inside the binding uses, and
\* each SAVEd temporary, holds a value of its parameter's type or is
\* undefined -- merge() and c_funloc() fill temporaries of the right type,
\* C stores integers only into integer temporaries and tmp /= 0 only into
\* a logical, for any number of threads and parameters.
THEOREM TypeCorrect == Spec => []TypeOK
<1>1. Init => IInv
  BY InitIInv
<1>2. IInv /\ [Next]_vars => IInv'
  BY IInvInductive
<1>3. IInv => TypeOK
  BY DEF IInv
<1>4. QED
  BY <1>1, <1>2, <1>3, PTL DEF Spec

-----------------------------------------------------------------------------
(* Delivery of values under the contract.                                  *)

\* A parameter of a generated function meets the contract when every
\* requested kind does.
LEMMA ContractDesc ==
    ASSUME ContractHolds, IInv, phase = "generated", NEW i \in P
    PROVE  DeliveryContract(desc[i], req[i].tag)
<1>1. req[i] \in Requests
  BY DEF IInv, TypeOK, StateShape, P, N
<1>2. PICK m \in Modes :
        desc = [j \in P |-> Construct(req[j].tag, ParamsOf(req[j], m))]
  BY DEF IInv, Built
<1>3. Registered(req[i].tag)
  BY DEF IInv, Built
<1>4. QED
  BY <1>1, <1>2, <1>3 DEF ContractHolds

\* The facts about a thread's parameter stay true while its own cells and
\* the descriptors do not change, whatever other threads do: no thread's
\* step writes another thread's cells, and under the contract the facts do
\* not involve the SAVEd cells.
LEMMA DeliveryFrame ==
    ASSUME NEW s, NEW i, DeliveryAt(s, i),
           req' = req, desc' = desc, pc'[s] = pc[s], caller'[s] = caller[s],
           entry'[s] = entry[s], local'[s] = local[s],
           cread'[s] = cread[s], cwrote'[s] = cwrote[s]
    PROVE  DeliveryAt(s, i)'
BY DEF DeliveryAt

\* A thread entering: its input arguments are values of their kinds and
\* the cells the statements read are still the ones it passed.
LEMMA EnterDelivery ==
    ASSUME DInv, NEW t \in Threads, Enter(t)
    PROVE  Delivery'
<1>1. PICK a \in [P -> ArgUniverse] :
        /\ \A i \in P : a[i] \in ArgsFor(req[i].tag)
        /\ caller' = [caller EXCEPT ![t] = a]
  BY DEF Enter
<1>2. /\ entry' = [entry EXCEPT ![t] = caller'[t]]
      /\ local' = [local EXCEPT ![t] = [i \in P |-> Undef]]
      /\ pc' = [pc EXCEPT ![t] = "entered"]
      /\ UNCHANGED <<phase, req, desc, saved, cread, cwrote>>
  BY DEF Enter
<1>3. P' = P
  BY <1>2 DEF P, N
<1>4. ASSUME NEW i \in P PROVE DeliveryAt(t, i)'
  <2>1. pc'[t] = "entered" /\ entry'[t] = caller'[t]
    BY <1>2 DEF DInv, IInv, TypeOK, StateShape
  <2>2. Reads(req[i].tag) => caller'[t][i] \in CallerValues(req[i].tag)
    <3>1. caller'[t] = a
      BY <1>1 DEF DInv, IInv, TypeOK, StateShape
    <3>2. QED
      BY <1>1, <3>1 DEF Reads, ArgsFor
  <2>3. QED
    BY <1>2, <2>1, <2>2 DEF DeliveryAt
<1>5. ASSUME NEW s \in Threads, s # t, NEW i \in P PROVE DeliveryAt(s, i)'
  <2>1. DeliveryAt(s, i)
    BY DEF DInv, Delivery
  <2>2. /\ caller'[s] = caller[s] /\ entry'[s] = entry[s]
        /\ local'[s] = local[s] /\ pc'[s] = pc[s]
    BY <1>1, <1>2, <1>5
  <2>3. QED
    BY <1>2, <2>1, <2>2, DeliveryFrame
<1>6. QED
  BY <1>3, <1>4, <1>5 DEF Delivery

\* pre_c_call: under the contract the temporary C will read is the
\* thread's own and receives the encoding of the argument the thread passed.
LEMMA PreCallDelivery ==
    ASSUME ContractHolds, DInv, NEW t \in Threads, PreCall(t)
    PROVE  Delivery'
<1>0. phase = "generated" /\ pc[t] = "entered"
  BY InsideGenerated DEF PreCall, DInv
<1>1. PICK ch \in [P -> {0, 1}] :
        LET nv == [i \in P |-> IF desc[i].pre = "merge"
                               THEN Merge(caller[t][i], ch[i])
                               ELSE FunLoc(caller[t][i])]
        IN /\ local' = [local EXCEPT ![t] =
                 [i \in P |-> IF desc[i].pre # "none" /\ ~desc[i].tmp.saved
                              THEN nv[i] ELSE local[t][i]]]
           /\ saved' = [i \in P |-> IF desc[i].pre # "none" /\ desc[i].tmp.saved
                                    THEN nv[i] ELSE saved[i]]
  BY DEF PreCall
<1> DEFINE nv == [i \in P |-> IF desc[i].pre = "merge"
                              THEN Merge(caller[t][i], ch[i])
                              ELSE FunLoc(caller[t][i])]
<1>2. local' = [local EXCEPT ![t] =
           [i \in P |-> IF desc[i].pre # "none" /\ ~desc[i].tmp.saved
                        THEN nv[i] ELSE local[t][i]]]
  BY <1>1
<1>3. /\ pc' = [pc EXCEPT ![t] = "prepared"]
      /\ UNCHANGED <<phase, req, desc, caller, entry, cread, cwrote>>
  BY DEF PreCall
<1>4. P' = P
  BY <1>3 DEF P, N
<1>5. ASSUME NEW i \in P PROVE DeliveryAt(t, i)'
  <2> DEFINE tag == req[i].tag
             d == desc[i]
  <2>1. DeliveryAt(t, i)
    BY DEF DInv, Delivery
  <2>2. pc'[t] = "prepared" /\ caller'[t] = caller[t] /\ entry'[t] = entry[t]
    BY <1>3 DEF DInv, IInv, TypeOK, StateShape
  <2>3. Reads(tag) => /\ entry[t][i] \in CallerValues(tag)
                      /\ caller[t][i] = entry[t][i]
    BY <1>0, <2>1 DEF DeliveryAt
  <2>4. ASSUME Reads(tag), Target(d) = "tmp"
        PROVE  local'[t][i] = Encode(tag, entry[t][i])
    <3>1. DeliveryContract(d, tag)
      BY <1>0, ContractDesc DEF DInv
    <3>2. ~d.tmp.saved /\ d.pre # "none"
      BY <2>4, <3>1 DEF DeliveryContract
    <3>3. local'[t][i] = nv[i]
      BY <1>2, <3>2 DEF DInv, IInv, TypeOK, StateShape
    <3>4. CASE d.pre = "merge" /\ tag \in LogicalTags
      <4>1. entry[t][i] \in BOOLEAN /\ caller[t][i] = entry[t][i]
        BY <2>3, <2>4, <3>4 DEF CallerValues
      <4>2. caller[t][i] # Undef
        BY <4>1, ConstantsAssumption
      <4>3. QED
        BY <3>3, <3>4, <4>1, <4>2 DEF Merge, Encode
    <3>5. CASE d.pre = "funloc" /\ tag \in CallbackTags
      <4>1. tag \notin LogicalTags
        BY <3>5 DEF CallbackTags, LogicalTags
      <4>2. QED
        BY <2>3, <2>4, <3>3, <3>5, <4>1 DEF FunLoc, Encode
    <3>6. QED
      BY <2>4, <3>1, <3>4, <3>5 DEF DeliveryContract
  <2>5. QED
    BY <1>0, <1>3, <2>1, <2>2, <2>3, <2>4 DEF DeliveryAt
<1>6. ASSUME NEW s \in Threads, s # t, NEW i \in P PROVE DeliveryAt(s, i)'
  <2>1. DeliveryAt(s, i)
    BY DEF DInv, Delivery
  <2>2. local'[s] = local[s] /\ pc'[s] = pc[s]
    BY <1>2, <1>3, <1>6
  <2>3. QED
    BY <1>3, <2>1, <2>2, DeliveryFrame
<1>7. QED
  BY <1>4, <1>5, <1>6 DEF Delivery

\* What C reads behind an input's pointer of a thread that has run
\* pre_c_call is the encoding of the argument that thread passed.
LEMMA VisibleEncoded ==
    ASSUME ContractHolds, DInv, NEW t \in Threads, pc[t] = "prepared",
           NEW i \in P, Reads(req[i].tag)
    PROVE  Visible(t, i) = Encode(req[i].tag, entry[t][i])
<1> DEFINE tag == req[i].tag
           d == desc[i]
<1>0. phase = "generated"
  BY InsideGenerated DEF DInv
<1>1. /\ Coherent(d, tag) /\ d \in Descriptor
      /\ DeliveryContract(d, tag)
  BY <1>0, CoherentDesc, ContractDesc DEF Coherent, DInv
<1>2. /\ caller[t][i] = entry[t][i]
      /\ Target(d) = "tmp" => local[t][i] = Encode(tag, entry[t][i])
  BY DEF DInv, Delivery, DeliveryAt
<1>3. CASE Target(d) = "caller"
  <2>1. tag \notin LogicalTags \cup CallbackTags \cup {"CHAR_ARRAY"}
    BY <1>1, <1>3 DEF Coherent
  <2>2. QED
    BY <1>2, <1>3, <2>1 DEF Visible, Encode
<1>4. CASE Target(d) = "tmp"
  BY <1>1, <1>2, <1>4 DEF Visible, Target, TmpOf, DeliveryContract
<1>5. CASE Target(d) = "expr"
  <2>1. tag = "CHAR_ARRAY"
    BY <1>1, <1>5 DEF Coherent
  <2>2. tag \notin LogicalTags \cup CallbackTags
    BY <2>1 DEF LogicalTags, CallbackTags
  <2>3. QED
    BY <1>2, <1>5, <2>1, <2>2 DEF Visible, Target, Encode
<1>6. QED
  BY <1>1, <1>3, <1>4, <1>5 DEF Target, Descriptor, ArgForms

\* The C call: C reads the encodings, and what it stores is in the
\* thread's own temporary or variable.
LEMMA CCallDelivery ==
    ASSUME ContractHolds, DInv, NEW t \in Threads, CCall(t)
    PROVE  Delivery'
<1>0. phase = "generated" /\ pc[t] = "prepared"
  BY InsideGenerated DEF CCall, DInv
<1>1. PICK w \in [P -> StoreUniverse] :
       LET ToCaller(i) == Writes(req[i].tag) /\ Target(desc[i]) = "caller"
           ToTmp(i)    == Writes(req[i].tag) /\ Target(desc[i]) = "tmp"
       IN /\ \A i \in P : w[i] \in CValues(req[i].tag)
          /\ cread' = [cread EXCEPT ![t] =
                [i \in P |-> IF Reads(req[i].tag) THEN Visible(t, i) ELSE Undef]]
          /\ cwrote' = [cwrote EXCEPT ![t] =
                [i \in P |-> IF Writes(req[i].tag) THEN w[i] ELSE Undef]]
          /\ caller' = [caller EXCEPT ![t] =
                [i \in P |-> IF ToCaller(i) THEN w[i] ELSE caller[t][i]]]
          /\ local' = [local EXCEPT ![t] =
                [i \in P |-> IF ToTmp(i) /\ ~desc[i].tmp.saved
                             THEN w[i] ELSE local[t][i]]]
  BY DEF CCall
<1> DEFINE ToCaller(i) == Writes(req[i].tag) /\ Target(desc[i]) = "caller"
           ToTmp(i)    == Writes(req[i].tag) /\ Target(desc[i]) = "tmp"
<1>2. /\ cread' = [cread EXCEPT ![t] =
             [i \in P |-> IF Reads(req[i].tag) THEN Visible(t, i) ELSE Undef]]
      /\ cwrote' = [cwrote EXCEPT ![t] =
             [i \in P |-> IF Writes(req[i].tag) THEN w[i] ELSE Undef]]
      /\ caller' = [caller EXCEPT ![t] =
             [i \in P |-> IF ToCaller(i) THEN w[i] ELSE caller[t][i]]]
      /\ local' = [local EXCEPT ![t] =
             [i \in P |-> IF ToTmp(i) /\ ~desc[i].tmp.saved
                          THEN w[i] ELSE local[t][i]]]
  BY <1>1
<1>3. /\ pc' = [pc EXCEPT ![t] = "called"]
      /\ UNCHANGED <<phase, req, desc, entry>>
  BY DEF CCall
<1>4. P' = P
  BY <1>3 DEF P, N
<1>5. ASSUME NEW i \in P PROVE DeliveryAt(t, i)'
  <2> DEFINE tag == req[i].tag
             d == desc[i]
  <2>1. DeliveryAt(t, i)
    BY DEF DInv, Delivery
  <2>2. /\ pc'[t] = "called" /\ entry'[t] = entry[t]
        /\ cread'[t][i] = IF Reads(tag) THEN Visible(t, i) ELSE Undef
        /\ cwrote'[t][i] = IF Writes(tag) THEN w[i] ELSE Undef
        /\ caller'[t][i] = IF ToCaller(i) THEN w[i] ELSE caller[t][i]
        /\ local'[t][i] = IF ToTmp(i) /\ ~d.tmp.saved THEN w[i] ELSE local[t][i]
    BY <1>2, <1>3 DEF DInv, IInv, TypeOK, StateShape
  <2>3. ~d.tmp.saved
    BY <1>0, ContractDesc DEF DInv, DeliveryContract
  <2>4. Reads(tag) => cread'[t][i] = Encode(tag, entry[t][i])
    BY <1>0, <2>2, VisibleEncoded
  <2>5. Writes(tag) /\ Target(d) = "tmp" => local'[t][i] = cwrote'[t][i]
    BY <2>2, <2>3
  <2>6. Writes(tag) /\ Target(d) = "caller" => caller'[t][i] = cwrote'[t][i]
    BY <2>2
  <2>7. Reads(tag) => entry[t][i] \in CallerValues(tag)
    BY <1>0, <2>1 DEF DeliveryAt
  <2>8. QED
    BY <1>3, <2>2, <2>4, <2>5, <2>6, <2>7 DEF DeliveryAt
<1>6. ASSUME NEW s \in Threads, s # t, NEW i \in P PROVE DeliveryAt(s, i)'
  <2>1. DeliveryAt(s, i)
    BY DEF DInv, Delivery
  <2>2. /\ caller'[s] = caller[s] /\ local'[s] = local[s]
        /\ cread'[s] = cread[s] /\ cwrote'[s] = cwrote[s] /\ pc'[s] = pc[s]
    BY <1>2, <1>3, <1>6
  <2>3. QED
    BY <1>3, <2>1, <2>2, DeliveryFrame
<1>7. QED
  BY <1>4, <1>5, <1>6 DEF Delivery

\* post(): every output the thread's call produced is decoded into the
\* caller's variable exactly once.
LEMMA PostCallDelivery ==
    ASSUME ContractHolds, DInv, NEW t \in Threads, PostCall(t)
    PROVE  Delivery'
<1>0. phase = "generated" /\ pc[t] = "called"
  BY InsideGenerated DEF PostCall, DInv
<1>1. /\ caller' = [caller EXCEPT ![t] =
            [i \in P |-> IF desc[i].post = "ne0" THEN PostValue(TmpOf(t, i))
                         ELSE caller[t][i]]]
      /\ pc' = [pc EXCEPT ![t] = "done"]
      /\ UNCHANGED <<phase, req, desc, entry, local, saved, cread, cwrote>>
  BY DEF PostCall
<1>2. P' = P
  BY <1>1 DEF P, N
<1>3. ASSUME NEW i \in P PROVE DeliveryAt(t, i)'
  <2> DEFINE tag == req[i].tag
             d == desc[i]
  <2>1. DeliveryAt(t, i)
    BY DEF DInv, Delivery
  <2>2. /\ pc'[t] = "done"
        /\ caller'[t][i] = IF d.post = "ne0" THEN PostValue(TmpOf(t, i))
                           ELSE caller[t][i]
    BY <1>1 DEF DInv, IInv, TypeOK, StateShape
  <2>3. /\ Coherent(d, tag) /\ d \in Descriptor
        /\ DeliveryContract(d, tag)
    BY <1>0, CoherentDesc, ContractDesc DEF Coherent, DInv
  <2>4. ASSUME Writes(tag) PROVE caller'[t][i] = Decode(tag, cwrote[t][i])
    <3>1. CASE Target(d) = "tmp"
      <4>1. d.post = "ne0" /\ ~d.tmp.saved /\ tag \in LogicalTags
        BY <2>3, <2>4, <3>1 DEF DeliveryContract, Coherent
      <4>2. local[t][i] = cwrote[t][i]
        BY <1>0, <2>1, <2>4, <3>1 DEF DeliveryAt
      <4>3. QED
        BY <2>2, <4>1, <4>2 DEF PostValue, TmpOf, Decode
    <3>2. CASE Target(d) = "caller"
      <4>1. d.post # "ne0" /\ tag \notin LogicalTags
        BY <2>3, <2>4, <3>2 DEF DeliveryContract
      <4>2. caller[t][i] = cwrote[t][i]
        BY <1>0, <2>1, <2>4, <3>2 DEF DeliveryAt
      <4>3. QED
        BY <2>2, <4>1, <4>2 DEF Decode
    <3>3. CASE Target(d) = "expr"
      <4>1. tag = "CHAR_ARRAY"
        BY <2>3, <3>3 DEF Coherent
      <4>2. FALSE
        BY <2>4, <4>1 DEF Writes, Role, OutTags, InOutTags
      <4>3. QED
        BY <4>2
    <3>4. QED
      BY <2>3, <3>1, <3>2, <3>3 DEF Target, Descriptor, ArgForms
  <2>5. QED
    BY <1>0, <1>1, <2>1, <2>2, <2>4 DEF DeliveryAt
<1>4. ASSUME NEW s \in Threads, s # t, NEW i \in P PROVE DeliveryAt(s, i)'
  <2>1. DeliveryAt(s, i)
    BY DEF DInv, Delivery
  <2>2. caller'[s] = caller[s] /\ pc'[s] = pc[s]
    BY <1>1, <1>4
  <2>3. QED
    BY <1>1, <2>1, <2>2, DeliveryFrame
<1>5. QED
  BY <1>2, <1>3, <1>4 DEF Delivery

\* Returning ends the thread's obligations and touches no other thread.
LEMMA ReturnDelivery ==
    ASSUME DInv, NEW t \in Threads, Return(t)
    PROVE  Delivery'
<1>1. /\ pc' = [pc EXCEPT ![t] = "out"]
      /\ UNCHANGED <<phase, req, desc, caller, entry, local, saved, cread, cwrote>>
  BY DEF Return
<1>2. P' = P
  BY <1>1 DEF P, N
<1>3. ASSUME NEW s \in Threads, NEW i \in P PROVE DeliveryAt(s, i)'
  <2>1. CASE s = t
    <3>1. pc'[t] = "out"
      BY <1>1 DEF DInv, IInv, TypeOK, StateShape
    <3>2. QED
      BY <2>1, <3>1 DEF DeliveryAt
  <2>2. CASE s # t
    <3>1. DeliveryAt(s, i)
      BY DEF DInv, Delivery
    <3>2. pc'[s] = pc[s]
      BY <1>1, <2>2
    <3>3. QED
      BY <1>1, <3>1, <3>2, DeliveryFrame
  <2>3. QED
    BY <2>1, <2>2
<1>4. QED
  BY <1>2, <1>3 DEF Delivery

\* The driver's steps happen with no thread inside the function.
LEMMA DriverDelivery ==
    ASSUME DInv, Generate \/ Discard
    PROVE  Delivery'
<1>1. \A t \in Threads : pc[t] = "out"
  BY DEF Generate, Discard, DInv, IInv, TypeOK, StateShape
<1>2. pc' = pc
  BY DEF Generate, Discard
<1>3. QED
  BY <1>1, <1>2 DEF Delivery, DeliveryAt

\* DInv is inductive when every requested kind meets the contract.
THEOREM DInvInductive ==
    ASSUME ContractHolds
    PROVE  DInv /\ [Next]_vars => DInv'
<1> SUFFICES ASSUME DInv, [Next]_vars PROVE DInv'
  OBVIOUS
<1>1. IInv'
  BY IInvInductive DEF DInv
<1>2. CASE Generate \/ Discard
  BY <1>1, <1>2, DriverDelivery DEF DInv
<1>3. ASSUME NEW t \in Threads,
             Enter(t) \/ PreCall(t) \/ CCall(t) \/ PostCall(t) \/ Return(t)
      PROVE  DInv'
  BY <1>1, <1>3, EnterDelivery, PreCallDelivery, CCallDelivery,
     PostCallDelivery, ReturnDelivery DEF DInv
<1>4. CASE UNCHANGED vars
  <2>1. /\ req' = req /\ desc' = desc /\ pc' = pc /\ caller' = caller
        /\ entry' = entry /\ local' = local /\ cread' = cread
        /\ cwrote' = cwrote
    BY <1>4 DEF vars
  <2>2. ASSUME NEW s \in Threads, NEW i \in P PROVE DeliveryAt(s, i)'
    <3>1. DeliveryAt(s, i)
      BY DEF DInv, Delivery
    <3>2. QED
      BY <2>1, <3>1, DeliveryFrame
  <2>4. P' = P
    BY <2>1 DEF P, N
  <2>5. Delivery'
    BY <2>2, <2>4 DEF Delivery
  <2>3. QED
    BY <1>1, <2>5 DEF DInv
<1>5. QED
  BY <1>2, <1>3, <1>4 DEF Next

\* Values cross the binding intact (InValueDelivered, OutValueDelivered):
\* if every kind a function may have meets the delivery contract, then in
\* every interleaving of any number of threads, C reads the encoding of
\* each input the calling thread passed, and on return each output of
\* that thread holds the decoding of what C stored for it.
THEOREM Delivered ==
    ContractHolds => (Spec => [](InValueDelivered /\ OutValueDelivered))
<1> SUFFICES ASSUME ContractHolds PROVE Spec => [](InValueDelivered /\ OutValueDelivered)
  OBVIOUS
<1>1. Init => DInv
  BY InitIInv DEF Init, DInv, Delivery, DeliveryAt
<1>2. DInv /\ [Next]_vars => DInv'
  BY DInvInductive
<1>3. DInv => InValueDelivered /\ OutValueDelivered
  BY DEF DInv, Delivery, DeliveryAt, InValueDelivered, OutValueDelivered
<1>4. QED
  BY <1>1, <1>2, <1>3, PTL DEF Spec

(* Outputs reach the caller (OutValueDelivered), the half of Delivered  *)
(* the post() statements are responsible for: under the delivery         *)
(* contract, whenever a thread's call is done each of its OUT and INOUT  *)
(* arguments holds the decoding of what C stored for that thread, in     *)
(* every interleaving of any number of threads.                           *)
THEOREM OutDelivered == ContractHolds => (Spec => []OutValueDelivered)
<1> SUFFICES ASSUME ContractHolds PROVE Spec => []OutValueDelivered
  OBVIOUS
<1>1. Spec => [](InValueDelivered /\ OutValueDelivered)
  BY Delivered
<1>2. QED
  BY <1>1, PTL

====
