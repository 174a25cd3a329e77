------------------------------- MODULE Naming -------------------------------
(***************************************************************************)
(* The names a generated function declares (fortran_type.py, FortranType  *)
(* base class).  The driver constructs one descriptor per parameter, whose *)
(* name is the parameter's and whose used_counters starts at 0; the        *)
(* function declares every parameter under its name, the temporary of a  *)
(* kind whose declare_tmp() is not empty under tmp_name = "c_" + name, and *)
(* every loop counter tmp_counter() hands out under name + "_i_" + n.      *)
(* Names are the strings themselves, so a collision is string equality.  *)
(***************************************************************************)
EXTENDS FortranType, Naturals, Sequences, TLC

CONSTANTS
    Names,        \* the parameter names the driver may give
    Kinds,        \* the registered tags it may request
    Variants,     \* the constructor keyword sets it may pass
    MaxParams,    \* the longest parameter list
    MaxCounters   \* how many counters one descriptor may hand out

ASSUME NamingAssumption ==
    /\ MaxParams \in Nat \ {0} /\ MaxCounters \in Nat
    /\ Kinds \subseteq DOMAIN TYPES

VARIABLES
    params,   \* the parameter list: a sequence of [name, tag]
    tmp,      \* per parameter: whether its declare_tmp() declares tmp_name
    used,     \* per descriptor: used_counters
    issued    \* per descriptor: the counter names handed out, in order

nvars == <<params, tmp, used, issued>>

P == 1..Len(params)

\* tmp_name: f'c_{self.name}'.
TmpName(i) == "c_" \o params[i].name

\* The counter name f'{self.name}_i_{self.used_counters}' for name nm and
\* count c.
CounterText(nm, c) == nm \o "_i_" \o ToString(c)

\* The name tmp_counter() returns.
CounterName(i) == CounterText(params[i].name, used[i])

\* The names parameter i's descriptor has made the function declare.
Decls(i) == <<params[i].name>> \o (IF tmp[i] THEN <<TmpName(i)>> ELSE <<>>)
              \o issued[i]

Init ==
    /\ params = <<>> /\ tmp = <<>> /\ used = <<>> /\ issued = <<>>

\* The driver constructs the descriptors of a function with distinct
\* parameter names; __init__ sets used_counters to 0.
Generate ==
    /\ params = <<>>
    /\ \E n \in 1..MaxParams, v \in Variants :
       \E ps \in [1..n -> [name : Names, tag : Kinds]] :
          /\ \A i, j \in 1..n : i # j => ps[i].name # ps[j].name
          /\ params' = ps
          /\ tmp' = [i \in 1..n |-> Construct(ps[i].tag, v).tmp.ty # "NONE"]
          /\ used' = [i \in 1..n |-> 0]
          /\ issued' = [i \in 1..n |-> <<>>]

\* Mutant: used_counters is not advanced.
TmpCounterNoIncrement(i) ==
    /\ used[i] < MaxCounters
    /\ issued' = [issued EXCEPT ![i] = Append(@, CounterName(i))]
    /\ UNCHANGED <<params, tmp, used>>

\* tmp_counter(): return the next counter name and advance used_counters.
TmpCounter(i) ==
    /\ used[i] < MaxCounters
    /\ issued' = [issued EXCEPT ![i] = Append(@, CounterName(i))]
    /\ used' = [used EXCEPT ![i] = @ + 1]
    /\ UNCHANGED <<params, tmp>>

\* The function is written out and its descriptors dropped.
Discard ==
    /\ params # <<>>
    /\ params' = <<>> /\ tmp' = <<>> /\ used' = <<>> /\ issued' = <<>>

Next == Generate \/ Discard \/ \E i \in P : TmpCounter(i)

Spec == Init /\ [][Next]_nvars

-----------------------------------------------------------------------------

(* Every name the generated function declares is declared once: no two   *)
(* parameters, temporaries (tmp_name) or loop counters (tmp_counter) of  *)
(* any of its descriptors share a name, however many counters each       *)
(* descriptor hands out - the "deterministic, collision-free auxiliary   *)
(* names" the spec promises.                                              *)
DeclaredNamesDistinct ==
    \A i, j \in P :
       \A a \in 1..Len(Decls(i)), b \in 1..Len(Decls(j)) :
          <<i, a>> # <<j, b>> => Decls(i)[a] # Decls(j)[b]

(* When the driver's names are fresh for one another: no name is another *)
(* name's tmp_name or one of its first MaxCounters counter names, the    *)
(* tmp_name of two different names differ, and counter names of         *)
(* different names or counts differ.  tmp_name and tmp_counter() look at *)
(* no other name, so this is what the names S passed in must give.       *)
NamesFresh(S) ==
    LET C == 0..MaxCounters - 1 IN
    /\ \A a, b \in S : "c_" \o a # b
    /\ \A a, b \in S : a # b => "c_" \o a # "c_" \o b
    /\ \A a, b \in S, c \in C :
          CounterText(a, c) # b /\ CounterText(a, c) # "c_" \o b
    /\ \A a, b \in S, c, d \in C :
          <<a, c>> # <<b, d>> => CounterText(a, c) # CounterText(b, d)

====
