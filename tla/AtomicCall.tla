----------------------------- MODULE AtomicCall -----------------------------
(***************************************************************************)
(* What a generated binding promises its callers (spec section 4.2): a    *)
(* call is one atomic exchange with the C entry point.  The caller passes *)
(* its arguments, C reads the encoding of every input and stores a value  *)
(* for every output in one step, and on return the caller finds the       *)
(* decoding of what C stored in each output and its inputs unchanged.     *)
(* Nothing here says how temporaries, pre_c_call or post achieve this.    *)
(***************************************************************************)
EXTENDS BindingKinds

VARIABLES
    phase,    \* "idle", "generated" or "failed"
    req,      \* the parameter list of the generated function
    status,   \* per thread: "out", "in" (called, C not yet run), "done"
    arg,      \* per thread: the arguments it passed
    cin,      \* per thread: what C read
    cout,     \* per thread: what C stored
    ret       \* per thread out of the function: what its variables hold

avars == <<phase, req, status, arg, cin, cout, ret>>

AP == 1..Len(req)

Init ==
    /\ phase = "idle"
    /\ req = <<>>
    /\ status = [t \in Threads |-> "out"]
    /\ arg = [t \in Threads |-> <<>>]
    /\ cin = [t \in Threads |-> <<>>]
    /\ cout = [t \in Threads |-> <<>>]
    /\ ret = [t \in Threads |-> <<>>]

\* The driver generates a function, or fails on an unknown kind.
Generate ==
    /\ phase = "idle"
    /\ \E n \in 1..MaxParams : \E ps \in [1..n -> Requests] :
          /\ req' = ps
          /\ phase' = IF \A i \in 1..n : Registered(ps[i].tag)
                      THEN "generated" ELSE "failed"
    /\ UNCHANGED <<status, arg, cin, cout, ret>>

Enter(t) ==
    /\ phase = "generated"
    /\ status[t] = "out"
    /\ \E a \in [AP -> ArgUniverse] :
          /\ \A i \in AP : a[i] \in ArgsFor(req[i].tag)
          /\ arg' = [arg EXCEPT ![t] = a]
    /\ status' = [status EXCEPT ![t] = "in"]
    /\ ret' = [ret EXCEPT ![t] = <<>>]
    /\ UNCHANGED <<phase, req, cin, cout>>

\* The exchange with C, in one step.
Call(t) ==
    /\ status[t] = "in"
    /\ \E w \in [AP -> StoreUniverse] :
          /\ \A i \in AP : w[i] \in CValues(req[i].tag)
          /\ cin' = [cin EXCEPT ![t] =
                [i \in AP |-> IF Reads(req[i].tag)
                              THEN Encode(req[i].tag, arg[t][i]) ELSE Undef]]
          /\ cout' = [cout EXCEPT ![t] =
                [i \in AP |-> IF Writes(req[i].tag) THEN w[i] ELSE Undef]]
    /\ status' = [status EXCEPT ![t] = "done"]
    /\ UNCHANGED <<phase, req, arg, ret>>

\* The caller gets the decoded outputs and its unchanged inputs back.
Return(t) ==
    /\ status[t] = "done"
    /\ ret' = [ret EXCEPT ![t] =
          [i \in AP |-> IF Writes(req[i].tag)
                        THEN Decode(req[i].tag, cout[t][i]) ELSE arg[t][i]]]
    /\ status' = [status EXCEPT ![t] = "out"]
    /\ UNCHANGED <<phase, req, arg, cin, cout>>

Discard ==
    /\ phase \in {"generated", "failed"}
    /\ \A t \in Threads : status[t] = "out"
    /\ phase' = "idle"
    /\ req' = <<>>
    /\ arg' = [t \in Threads |-> <<>>]
    /\ cin' = [t \in Threads |-> <<>>]
    /\ cout' = [t \in Threads |-> <<>>]
    /\ ret' = [t \in Threads |-> <<>>]
    /\ UNCHANGED status

Next ==
    \/ Generate
    \/ Discard
    \/ \E t \in Threads : Enter(t) \/ Call(t) \/ Return(t)

\* A thread that has called the binding is not stopped forever by it:
\* nothing in a generated function waits.  Calling is the application's
\* choice and generating the driver's, so neither is fair.
Fairness == \A t \in Threads : WF_avars(Call(t)) /\ WF_avars(Return(t))

Spec == Init /\ [][Next]_avars

FairSpec == Spec /\ Fairness

====
