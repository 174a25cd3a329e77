---------------------------- MODULE BindingCall ----------------------------
(***************************************************************************)
(* One generated mpi_f08 binding and the threads that call it.            *)
(*                                                                         *)
(* The driver asks the registry for one descriptor per parameter and       *)
(* assembles the subroutine from their fragments (Generate).  Any number   *)
(* of application threads then run that subroutine concurrently, as MPI    *)
(* allows under MPI_THREAD_MULTIPLE: each enters with its own actual       *)
(* arguments, runs the pre_c_call statements, calls the C entry point      *)
(* through the cbinding interface, runs the post statements and returns.   *)
(* What the statements do is read off the descriptor fragments; a          *)
(* temporary whose declaration initialises it is SAVEd and so one cell for *)
(* all threads, any other temporary is a local of the calling thread.      *)
(***************************************************************************)
EXTENDS BindingKinds

VARIABLES
    phase,    \* "idle", "generated" or "failed" (unknown kind)
    req,      \* the parameter list of the generated function
    desc,     \* its descriptors, one per parameter
    pc,       \* per thread: "out", "entered", "prepared", "called", "done"
    caller,   \* per thread and parameter: the actual argument's storage
    entry,    \* per thread and parameter: the argument at entry
    local,    \* per thread and parameter: an automatic temporary
    saved,    \* per parameter: a SAVEd temporary, shared by all threads
    cread,    \* per thread and parameter: what the C function read
    cwrote    \* per thread and parameter: what the C function wrote

vars == <<phase, req, desc, pc, caller, entry, local, saved, cread, cwrote>>

N == Len(req)
P == 1..N

-----------------------------------------------------------------------------
(* What the generated statements do.                                       *)

\* Mutant: merge(0,1,name), the arguments swapped.
MergeSwapped(v, ch) == IF v = Undef THEN ch ELSE IF v THEN 0 ELSE 1

\* merge(1,0,name); of an undefined LOGICAL it yields either integer,
\* here the choice ch.
Merge(v, ch) == IF v = Undef THEN ch ELSE IF v THEN 1 ELSE 0

\* Mutant: tmp = name, the c_funloc() dropped.
FunLocDropped(v) == v

\* c_funloc(name)
FunLoc(v) == <<"funloc", v>>

\* Where argument() makes the C pointer point: the caller's variable
\* (itself or its %MPI_VAL field), the temporary, or an unnamed
\* expression value (name//c_null_char).
Target(d) == CASE d.arg \in {"name", "proj", "proj_all"} -> "caller"
               [] d.arg = "tmp"                          -> "tmp"
               [] d.arg = "nullterm"                     -> "expr"

TmpOf(t, i) == IF desc[i].tmp.saved THEN saved[i] ELSE local[t][i]

\* The value the C function finds behind its i-th pointer.
Visible(t, i) == CASE Target(desc[i]) = "caller" -> caller[t][i]
                   [] Target(desc[i]) = "tmp"    -> TmpOf(t, i)
                   [] Target(desc[i]) = "expr"   -> <<caller[t][i], "NUL">>

\* Mutant: name = tmp == 1.
PostValueEqOne(w) == w = 1

\* name = tmp /= 0
PostValue(w) == w # 0

\* The request, with the mode, as constructor arguments.
ParamsOf(r, m) == [bigcount |-> m.bigcount, gen_f90 |-> m.gen_f90,
                   count_param |-> r.count_param]

\* What the statements rely on in a descriptor of a kind: a SAVEd temporary
\* is an INTEGER; merge() fills an INTEGER temporary of a logical kind and
\* c_funloc() a c_funptr temporary of an IN callback kind; C stores integers
\* only into an INTEGER temporary of a logical kind, and values of Data only
\* into the caller's variable of a kind with values of Data; post() converts
\* into the caller's logical; C reads a logical as an integer temporary, a
\* procedure as a c_funptr temporary, a string NUL-terminated and any other
\* kind straight from the caller's variable.
Coherent(d, tag) ==
    /\ d \in Descriptor
    /\ d.tmp.saved => d.tmp.ty = "INTEGER"
    /\ d.pre = "merge" => d.tmp.ty = "INTEGER" /\ tag \in LogicalTags
    /\ d.pre = "funloc" =>
          d.tmp.ty = "FUNPTR" /\ tag \in CallbackTags /\ Role(tag) = "IN"
    /\ Writes(tag) /\ Target(d) = "tmp" =>
          d.tmp.ty = "INTEGER" /\ tag \in LogicalTags
    /\ Writes(tag) /\ Target(d) = "caller" =>
          tag \notin LogicalTags \cup CallbackTags
    /\ d.post = "ne0" => tag \in LogicalTags
    /\ Reads(tag) /\ Target(d) = "tmp" =>
          \/ d.tmp.ty = "INTEGER" /\ tag \in LogicalTags
          \/ d.tmp.ty = "FUNPTR" /\ tag \in CallbackTags
          \/ d.tmp.ty = "NONE"
    /\ Reads(tag) /\ Target(d) = "caller" =>
          tag \notin LogicalTags \cup CallbackTags \cup {"CHAR_ARRAY"}
    /\ Target(d) = "expr" => tag = "CHAR_ARRAY"

\* The descriptors of the requested kinds are coherent in every mode (TLC
\* evaluates this over the whole catalogue of a run).
ASSUME CatalogueAssumption ==
    \A r \in Requests, m \in Modes :
       Registered(r.tag) => Coherent(Construct(r.tag, ParamsOf(r, m)), r.tag)

\* The pipeline contract of one parameter (spec section 4.2): the value of
\* an input reaches C through exactly one encoding step and the value of an
\* output reaches the caller through exactly one decoding step, and the
\* temporary between them is the calling thread's own.
DeliveryContract(d, tag) ==
    /\ ~d.tmp.saved
    /\ d.pre # "none" => Reads(tag) /\ Target(d) = "tmp"
    /\ d.post = "ne0" => Writes(tag) /\ Target(d) = "tmp"
    /\ Reads(tag) /\ Target(d) = "tmp" =>
          \/ d.pre = "merge" /\ tag \in LogicalTags
          \/ d.pre = "funloc" /\ tag \in CallbackTags
    /\ Writes(tag) /\ Target(d) = "tmp" => d.post = "ne0"
    /\ Writes(tag) /\ Target(d) = "caller" => tag \notin LogicalTags

\* Every kind a run may request meets the contract in every mode.
ContractHolds ==
    \A r \in Requests, m \in Modes :
       Registered(r.tag) => DeliveryContract(Construct(r.tag, ParamsOf(r, m)), r.tag)

-----------------------------------------------------------------------------

Init ==
    /\ phase = "idle"
    /\ req = <<>>
    /\ desc = <<>>
    /\ pc = [t \in Threads |-> "out"]
    /\ caller = [t \in Threads |-> <<>>]
    /\ entry = [t \in Threads |-> <<>>]
    /\ local = [t \in Threads |-> <<>>]
    /\ saved = <<>>
    /\ cread = [t \in Threads |-> <<>>]
    /\ cwrote = [t \in Threads |-> <<>>]

\* The driver constructs one descriptor per parameter through the
\* registry; an unregistered tag aborts the function with nothing emitted.
\* A SAVEd temporary starts at its initial value 0.
Generate ==
    /\ phase = "idle"
    /\ \E n \in 1..MaxParams, m \in Modes :
       \E ps \in [1..n -> Requests] :
          /\ req' = ps
          /\ IF \A i \in 1..n : Registered(ps[i].tag)
             THEN LET ds == [i \in 1..n |-> Construct(ps[i].tag, ParamsOf(ps[i], m))]
                  IN /\ phase' = "generated"
                     /\ desc' = ds
                     /\ saved' = [i \in 1..n |-> IF ds[i].tmp.saved THEN 0 ELSE Undef]
             ELSE /\ phase' = "failed"
                  /\ desc' = <<>>
                  /\ saved' = <<>>
    /\ UNCHANGED <<pc, caller, entry, local, cread, cwrote>>

\* A thread calls the binding; an INTENT(OUT) dummy is undefined on entry.
Enter(t) ==
    /\ phase = "generated"
    /\ pc[t] = "out"
    /\ \E a \in [P -> ArgUniverse] :
          /\ \A i \in P : a[i] \in ArgsFor(req[i].tag)
          /\ caller' = [caller EXCEPT ![t] = a]
    /\ entry' = [entry EXCEPT ![t] = caller'[t]]
    /\ local' = [local EXCEPT ![t] = [i \in P |-> Undef]]
    /\ pc' = [pc EXCEPT ![t] = "entered"]
    /\ UNCHANGED <<phase, req, desc, saved, cread, cwrote>>

\* The pre_c_call statements, in parameter order; ch resolves merge() of an
\* undefined LOGICAL.
PreCall(t) ==
    /\ pc[t] = "entered"
    /\ \E ch \in [P -> {0, 1}] :
       LET nv == [i \in P |-> IF desc[i].pre = "merge"
                              THEN Merge(caller[t][i], ch[i])
                              ELSE FunLoc(caller[t][i])]
       IN /\ local' = [local EXCEPT ![t] =
                [i \in P |-> IF desc[i].pre # "none" /\ ~desc[i].tmp.saved
                             THEN nv[i] ELSE local[t][i]]]
          /\ saved' = [i \in P |-> IF desc[i].pre # "none" /\ desc[i].tmp.saved
                                   THEN nv[i] ELSE saved[i]]
    /\ pc' = [pc EXCEPT ![t] = "prepared"]
    /\ UNCHANGED <<phase, req, desc, caller, entry, cread, cwrote>>

\* The C entry point reads what its input pointers show and stores a
\* result behind each output pointer: an integer for a logical's
\* temporary, a value of Data otherwise.
CCall(t) ==
    /\ pc[t] = "prepared"
    /\ \E w \in [P -> StoreUniverse] :
       LET ToCaller(i) == Writes(req[i].tag) /\ Target(desc[i]) = "caller"
           ToTmp(i)    == Writes(req[i].tag) /\ Target(desc[i]) = "tmp"
       IN /\ \A i \in P : w[i] \in CValues(req[i].tag)
          /\ cread' = [cread EXCEPT ![t] =
                [i \in P |-> IF Reads(req[i].tag) THEN Visible(t, i) ELSE Undef]]
          /\ cwrote' = [cwrote EXCEPT ![t] =
                [i \in P |-> IF Writes(req[i].tag) THEN w[i] ELSE Undef]]
          /\ caller' = [caller EXCEPT ![t] =
                [i \in P |-> IF ToCaller(i) THEN w[i] ELSE caller[t][i]]]
          /\ local' = [local EXCEPT ![t] =
                [i \in P |-> IF ToTmp(i) /\ ~desc[i].tmp.saved
                             THEN w[i] ELSE local[t][i]]]
          /\ saved' = [i \in P |-> IF ToTmp(i) /\ desc[i].tmp.saved
                                   THEN w[i] ELSE saved[i]]
    /\ pc' = [pc EXCEPT ![t] = "called"]
    /\ UNCHANGED <<phase, req, desc, entry>>

\* Mutant: every written parameter is copied back from its temporary
\* with tmp /= 0, whether or not the kind has a post().
PostCallCopyAll(t) ==
    /\ pc[t] = "called"
    /\ caller' = [caller EXCEPT ![t] =
          [i \in P |-> IF Writes(req[i].tag) THEN PostValue(TmpOf(t, i))
                       ELSE caller[t][i]]]
    /\ pc' = [pc EXCEPT ![t] = "done"]
    /\ UNCHANGED <<phase, req, desc, entry, local, saved, cread, cwrote>>

\* The post statements, in parameter order.
PostCall(t) ==
    /\ pc[t] = "called"
    /\ caller' = [caller EXCEPT ![t] =
          [i \in P |-> IF desc[i].post = "ne0" THEN PostValue(TmpOf(t, i))
                       ELSE caller[t][i]]]
    /\ pc' = [pc EXCEPT ![t] = "done"]
    /\ UNCHANGED <<phase, req, desc, entry, local, saved, cread, cwrote>>

\* The thread returns to the application.
Return(t) ==
    /\ pc[t] = "done"
    /\ pc' = [pc EXCEPT ![t] = "out"]
    /\ UNCHANGED <<phase, req, desc, caller, entry, local, saved, cread, cwrote>>

\* The generation pass ends and its descriptors are dropped.
Discard ==
    /\ phase \in {"generated", "failed"}
    /\ \A t \in Threads : pc[t] = "out"
    /\ phase' = "idle"
    /\ req' = <<>>
    /\ desc' = <<>>
    /\ saved' = <<>>
    /\ caller' = [t \in Threads |-> <<>>]
    /\ entry' = [t \in Threads |-> <<>>]
    /\ local' = [t \in Threads |-> <<>>]
    /\ cread' = [t \in Threads |-> <<>>]
    /\ cwrote' = [t \in Threads |-> <<>>]
    /\ UNCHANGED pc

Next ==
    \/ Generate
    \/ Discard
    \/ \E t \in Threads :
          Enter(t) \/ PreCall(t) \/ CCall(t) \/ PostCall(t) \/ Return(t)

Spec == Init /\ [][Next]_vars

\* The generated statements run straight through: a thread inside the
\* function is never stopped forever.  Entering is the application's
\* choice and generating the driver's, so neither is fair.
Fairness ==
    \A t \in Threads : /\ WF_vars(PreCall(t)) /\ WF_vars(CCall(t))
                      /\ WF_vars(PostCall(t)) /\ WF_vars(Return(t))

FairSpec == Spec /\ Fairness

-----------------------------------------------------------------------------
(* Properties.                                                             *)

PCs == {"out", "entered", "prepared", "called", "done"}

\* The values a parameter's cells can hold: the caller's variable, the
\* temporary (an integer for a logical, a C function pointer for a
\* callback, none otherwise), what C reads and what C stores.
ArgValues(tag) == CallerValues(tag) \cup {Undef}
TmpValues(d) ==
    CASE d.tmp.ty = "INTEGER" -> (0..2) \cup {Undef}
      [] d.tmp.ty = "FUNPTR"  -> ({"funloc"} \X (Procs \cup {Undef})) \cup {Undef}
      [] OTHER                -> {Undef}
ReadValues(tag) ==
    {Undef} \cup
       (IF tag \in LogicalTags THEN 0..2
        ELSE IF tag \in CallbackTags THEN {"funloc"} \X (Procs \cup {Undef})
        ELSE IF tag = "CHAR_ARRAY" THEN (Data \cup {Undef}) \X {"NUL"}
        ELSE Data)
WroteValues(tag) == CValues(tag) \cup {Undef}

\* f holds, for every parameter i, a value of Vs(i).
CellsOK(f, Vs(_)) == DOMAIN f = P /\ \A i \in P : f[i] \in Vs(i)

\* The shape of the state: one descriptor per parameter, and no thread in
\* a function that is not generated.
StateShape ==
    /\ phase \in {"idle", "generated", "failed"}
    /\ req \in Seq(Requests) /\ N <= MaxParams
    /\ desc \in Seq(Descriptor)
    /\ pc \in [Threads -> PCs]
    /\ DOMAIN caller = Threads /\ DOMAIN entry = Threads
    /\ DOMAIN local = Threads /\ DOMAIN cread = Threads
    /\ DOMAIN cwrote = Threads
    /\ phase # "generated" => \A t \in Threads : pc[t] = "out"
    /\ phase = "generated" => Len(desc) = N

\* The SAVEd temporaries hold values of their types.
SavedOK == phase = "generated" => CellsOK(saved, LAMBDA i : TmpValues(desc[i]))

\* The cells of a thread inside the function hold values of their types.
ThreadOK(t) ==
    /\ pc[t] # "out" =>
          /\ CellsOK(caller[t], LAMBDA i : ArgValues(req[i].tag))
          /\ CellsOK(entry[t], LAMBDA i : ArgValues(req[i].tag))
          /\ CellsOK(local[t], LAMBDA i : TmpValues(desc[i]))
    /\ pc[t] \in {"called", "done"} =>
          /\ CellsOK(cread[t], LAMBDA i : ReadValues(req[i].tag))
          /\ CellsOK(cwrote[t], LAMBDA i : WroteValues(req[i].tag))

\* The type invariant: the generated function has one descriptor per
\* parameter, and every cell a thread in the function uses holds a value
\* of its parameter's type or is undefined.
TypeOK == StateShape /\ SavedOK /\ \A t \in Threads : ThreadOK(t)

(* Every input reaches C: once a thread has called the C entry point, C   *)
(* read, for every IN or INOUT parameter, the encoding of the value the    *)
(* caller passed (1/0 for a logical, c_funloc of a procedure, a            *)
(* NUL-terminated string) - through the argument() expression and the      *)
(* temporary pre_c_call() filled, whatever other threads did meanwhile.    *)
InValueDelivered ==
    \A t \in Threads : pc[t] \in {"called", "done"} =>
       \A i \in P : Reads(req[i].tag) =>
          cread[t][i] = Encode(req[i].tag, entry[t][i])

(* Every output reaches the caller: when a thread's call returns, every    *)
(* OUT or INOUT argument holds the decoding of what C stored (nonzero is   *)
(* .TRUE. for a logical) - through argument() and post(), whatever other   *)
(* threads did meanwhile.                                                  *)
OutValueDelivered ==
    \A t \in Threads : pc[t] = "done" =>
       \A i \in P : Writes(req[i].tag) =>
          caller[t][i] = Decode(req[i].tag, cwrote[t][i])

(* What a call hands back (an action property): when a thread returns to  *)
(* the application, each OUT or INOUT argument holds the decoding of what *)
(* C stored for this call, and each IN argument is still exactly the value *)
(* the thread passed - neither argument(), pre_c_call(), the C call nor    *)
(* post() of this or any other thread has written it.                      *)
ReturnsDelivered ==
    \A t \in Threads : pc[t] = "done" /\ pc'[t] = "out" =>
       \A i \in P : caller'[t][i] = IF Writes(req[i].tag)
                                    THEN Decode(req[i].tag, cwrote[t][i])
                                    ELSE entry[t][i]

\* Every step that returns a thread to the application delivers, as above.
ReturnDelivers == [][ReturnsDelivered]_vars

\* The Fortran type of the actual argument argument() passes; type "NONE"
\* when the expression does not compile (%MPI_VAL of a non-derived type).
ArgDecl(d) ==
    CASE d.arg = "name"                  -> d.decl
      [] d.arg \in {"proj", "proj_all"}  ->
            IF d.decl.ty = "TYPE" THEN [Int("IN") EXCEPT !.shape = d.decl.shape]
            ELSE [d.decl EXCEPT !.ty = "NONE"]
      [] d.arg = "tmp"                   -> d.tmp
      [] d.arg = "nullterm"              -> d.decl

\* An actual of Fortran type a may be passed to a dummy of type b.
Passable(a, b) ==
    /\ a.ty = b.ty /\ a.ty # "NONE"
    /\ a.ty = "INTEGER" => a.kind = b.kind
    /\ a.ty = "TYPE" => a.of = b.of

\* The C pointee type a cbinding dummy is interoperable with.
Interoperable(b, c) ==
    CASE b.ty = "INTEGER" ->
            \/ b.kind = "DEFAULT" /\ c = "Fint"
            \/ b.kind = "COUNT" /\ c = "Count"
            \/ b.kind = "ADDRESS" /\ c = "Aint"
            \/ b.kind = "OFFSET" /\ c = "Offset"
      [] b.ty = "TYPE"      -> c = "Fint"
      [] b.ty = "TKR"       -> c = "CFI"
      [] b.ty \in {"CHARACTER", "C_PTR"} -> c = "char"
      [] b.ty = "FUNPTR"    -> c \in {"copy_attr_fn", "delete_attr_fn",
                                      "errhandler_fn", "datarep_conversion_fn",
                                      "datarep_extent_fn"}
      [] OTHER              -> FALSE

(* The three layers agree on every parameter's representation: the actual *)
(* argument() passes has the type and kind of the declare_cbinding_fortran *)
(* dummy, and that dummy is interoperable with the C type c_parameter()    *)
(* gives, in every bigcount and gen_f90 variant.                           *)
AbiAgreement ==
    phase = "generated" =>
       \A i \in P : /\ Passable(ArgDecl(desc[i]), desc[i].cbind)
                   /\ Interoperable(desc[i].cbind, desc[i].cparam)

Allowed(role) == {role, "NONE"}

(* A parameter's declared intent, in the user-visible interface and in the *)
(* cbinding interface, is the direction the kind's name promises (or is    *)
(* left unstated): an OUT or INOUT argument C writes is never declared     *)
(* INTENT(IN), and an OUT kind is not declared INOUT.                      *)
IntentAgreement ==
    phase = "generated" =>
       \A i \in P : /\ desc[i].decl.intent \in Allowed(Role(req[i].tag))
                   /\ desc[i].cbind.intent \in Allowed(Role(req[i].tag))

(* No declaration a descriptor emits contains the text "(None)": a kind    *)
(* constructed without count_param declares an assumed-size array, as the  *)
(* spec's Missing Count Reference describes, never an array bound None.   *)
DeclWellFormed ==
    phase = "generated" =>
       \A i \in P : "NONE_TEXT" \notin {desc[i].decl.shape, desc[i].cbind.shape,
                                        desc[i].tmp.shape}

-----------------------------------------------------------------------------
(* The binding implements the atomic call.  A thread is "in" the abstract *)
(* call until its C call, "done" from the C call until it returns; what   *)
(* it passed is entry, what C read and stored are cread and cwrote, and   *)
(* once out its variables are what the abstract return gives it.         *)

StatusOf(t) == CASE pc[t] = "out"                      -> "out"
                 [] pc[t] \in {"entered", "prepared"}  -> "in"
                 [] pc[t] \in {"called", "done"}       -> "done"

A == INSTANCE AtomicCall
        WITH status <- [t \in Threads |-> StatusOf(t)],
             arg    <- entry,
             cin    <- cread,
             cout   <- cwrote,
             ret    <- [t \in Threads |-> IF pc[t] = "out" THEN caller[t] ELSE <<>>]

(* Every behaviour of the generated binding, under the fairness of its    *)
(* straight-line statements, is a behaviour of the atomic call with its   *)
(* fairness: however the callers' pre_c_call, C call and post statements  *)
(* interleave, each call reads the encoded arguments its thread passed,   *)
(* returns the decoded results C stored for that thread with its inputs   *)
(* untouched, and every call that was entered returns.                    *)
ImplementsAtomicCall == A!FairSpec

====
