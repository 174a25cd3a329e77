------------------------------ MODULE Registry ------------------------------
(* Importing fortran_type.py: each @FortranType.add(tag) decorator runs in *)
(* source order and stores its class in the class dictionary TYPES,        *)
(* overwriting a class registered earlier under the same tag.  Once the    *)
(* import is done the driver looks tags up with get().                     *)
EXTENDS FortranType

VARIABLES
    types,    \* FortranType.TYPES
    k,        \* the number of decorators that have run
    asked,    \* the tag of the last get()
    result    \* its outcome: a class or "KeyError"

vars == <<types, k, asked, result>>

\* Tags the driver may ask for: every tag a decorator names, and one none does.
LookupTags == {TagOf(Registrations[j]) : j \in 1..Len(Registrations)} \cup {"BOGUS"}

Init ==
    /\ types = [t \in {} |-> "none"]
    /\ k = 0
    /\ asked = "none"
    /\ result = "none"

\* The next decorator in the file runs: add(tag)(class).
Decorate ==
    /\ k < Len(Registrations)
    /\ types' = Add(types, Registrations[k + 1])
    /\ k' = k + 1
    /\ UNCHANGED <<asked, result>>

\* get(tag) after the import: the class, or the KeyError of the dict lookup.
Get(tag) ==
    /\ k = Len(Registrations)
    /\ asked' = tag
    /\ result' = IF tag \in DOMAIN types THEN types[tag] ELSE "KeyError"
    /\ UNCHANGED <<types, k>>

Next == Decorate \/ \E tag \in LookupTags : Get(tag)

Spec == Init /\ [][Next]_vars

\* The type invariant.
TypeOK ==
    /\ k \in 0..Len(Registrations)
    /\ DOMAIN types \subseteq LookupTags
    /\ \A t \in DOMAIN types : types[t] \in {Registrations[j] : j \in 1..k}
    /\ asked \in LookupTags \cup {"none"}
    /\ result \in {Registrations[j] : j \in 1..Len(Registrations)} \cup {"none", "KeyError"}

(* At every point of the import the dictionary maps each tag named so far  *)
(* to the class of the LAST decorator naming it - the overwrite semantics  *)
(* of add(); so after the import COMM_ERRHANDLER_FN is the class defined   *)
(* at line 1494, not the one at line 1347, and get() returns TYPES.        *)
ImportedDictionary ==
    /\ types = Imported(k)
    /\ asked # "none" =>
          result = IF asked \in DOMAIN TYPES THEN TYPES[asked] ELSE "KeyError"
====
