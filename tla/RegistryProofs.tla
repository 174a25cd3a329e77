--------------------------- MODULE RegistryProofs ---------------------------
(***************************************************************************)
(* Proofs about the import of fortran_type.py (module Registry): running   *)
(* the decorators in source order builds exactly the closed-form          *)
(* dictionary Imported(k), and get() after the import answers from TYPES.  *)
(* The catalogue of decorated classes (Registrations) is never expanded: *)
(* the argument holds for any sequence of classes and any TagOf.          *)
(***************************************************************************)
EXTENDS Registry, TLAPS

N == Len(Registrations)

\* Registrations is a finite sequence, so its length is a natural number.
LEMMA LenNat == N \in Nat
BY DEF N, Registrations

\* Decorator j is the last of the first m naming tag: the one whose class
\* Imported(m) holds under tag.
LastNaming(m, j, tag) ==
    /\ TagOf(Registrations[j]) = tag
    /\ \A i \in j + 1..m : TagOf(Registrations[i]) # tag

\* Imported(m) holds under each of its tags the class of the last
\* decorator naming it.
LEMMA ImportedAt ==
    ASSUME NEW m \in Nat, NEW tag \in DOMAIN Imported(m)
    PROVE  Imported(m)[tag]
             = Registrations[CHOOSE j \in 1..m : LastNaming(m, j, tag)]
BY DEF Imported, LastNaming

(* The decorator step: adding class k + 1 to the dictionary of the first  *)
(* k decorators gives the dictionary of the first k + 1.  Under the tag  *)
(* of class k + 1 the last decorator naming it is k + 1 itself; under    *)
(* any other tag the decorators naming it are the same among the first k *)
(* as among the first k + 1, so the same last one is chosen.             *)
LEMMA ImportedStep ==
    ASSUME NEW n \in Nat
    PROVE  Add(Imported(n), Registrations[n + 1]) = Imported(n + 1)
<1>1. DOMAIN Add(Imported(n), Registrations[n + 1]) = DOMAIN Imported(n + 1)
  BY DEF Add, Imported
<1>2. ASSUME NEW tag \in DOMAIN Imported(n + 1)
      PROVE  Add(Imported(n), Registrations[n + 1])[tag] = Imported(n + 1)[tag]
  <2>1. CASE tag = TagOf(Registrations[n + 1])
    <3>1. \A j \in 1..n + 1 : LastNaming(n + 1, j, tag) <=> j = n + 1
      BY <2>1 DEF LastNaming
    <3>2. (CHOOSE j \in 1..n + 1 : LastNaming(n + 1, j, tag)) = n + 1
      BY <3>1
    <3>3. Imported(n + 1)[tag] = Registrations[n + 1]
      BY <3>2, <1>2, ImportedAt
    <3>4. Add(Imported(n), Registrations[n + 1])[tag] = Registrations[n + 1]
      BY <2>1 DEF Add
    <3>5. QED
      BY <3>3, <3>4
  <2>2. CASE tag # TagOf(Registrations[n + 1])
    <3>1. tag \in DOMAIN Imported(n)
      BY <2>2, <1>2 DEF Imported
    <3>2. \A j : (j \in 1..n + 1 /\ LastNaming(n + 1, j, tag))
                   <=> (j \in 1..n /\ LastNaming(n, j, tag))
      BY <2>2 DEF LastNaming
    <3>3. (CHOOSE j \in 1..n + 1 : LastNaming(n + 1, j, tag))
            = (CHOOSE j \in 1..n : LastNaming(n, j, tag))
      BY <3>2
    <3>4. Imported(n + 1)[tag] = Imported(n)[tag]
      BY <3>1, <3>3, <1>2, ImportedAt
    <3>5. Add(Imported(n), Registrations[n + 1])[tag] = Imported(n)[tag]
      BY <2>2, <3>1 DEF Add
    <3>6. QED
      BY <3>4, <3>5
  <2>3. QED
    BY <2>1, <2>2
<1>3. QED
  BY <1>1, <1>2 DEF Add, Imported

-----------------------------------------------------------------------------
(* The inductive invariant.  TypeOK and ImportedDictionary alone are not  *)
(* inductive: a get() answered before the import ended would be followed *)
(* by decorators changing TYPES under it.  get() runs only once k = N,   *)
(* and Decorate only while k < N, so once a tag has been asked for the   *)
(* import is over; IInv adds that fact.                                   *)
IInv ==
    /\ TypeOK
    /\ ImportedDictionary
    /\ asked # "none" => k = N

LEMMA InitIInv == Init => IInv
<1> SUFFICES ASSUME Init PROVE IInv
  OBVIOUS
<1>1. TypeOK
  BY LenNat DEF Init, TypeOK, N
<1>2. types = Imported(0)
  BY DEF Init, Imported
<1>3. QED
  BY <1>1, <1>2 DEF Init, IInv, ImportedDictionary

LEMMA DecorateIInv == IInv /\ Decorate => IInv'
<1> SUFFICES ASSUME IInv, Decorate PROVE IInv'
  OBVIOUS
<1>1. k \in 0..N - 1 /\ asked = "none"
  BY LenNat DEF IInv, TypeOK, Decorate, N
<1>2. types' = Imported(k + 1)
  BY <1>1, ImportedStep DEF Decorate, IInv, ImportedDictionary
<1>3. TypeOK'
  <2>1. k' \in 0..Len(Registrations)
    BY <1>1 DEF Decorate, N
  <2>2. DOMAIN types' \subseteq LookupTags
    BY <1>1, <1>2 DEF Decorate, IInv, TypeOK, Add, LookupTags, N
  <2>3. \A t \in DOMAIN types' : types'[t] \in {Registrations[j] : j \in 1..k'}
    BY <1>1 DEF Decorate, IInv, TypeOK, Add
  <2>4. QED
    BY <2>1, <2>2, <2>3 DEF Decorate, IInv, TypeOK
<1>4. QED
  BY <1>1, <1>2, <1>3 DEF Decorate, IInv, ImportedDictionary

LEMMA GetIInv ==
    ASSUME IInv, NEW tag \in LookupTags, Get(tag)
    PROVE  IInv'
<1>1. types = TYPES
  BY DEF Get, IInv, ImportedDictionary, TYPES
<1>2. TypeOK'
  BY DEF Get, IInv, TypeOK
<1>3. QED
  BY <1>1, <1>2 DEF Get, IInv, ImportedDictionary, N

LEMMA StutterIInv == IInv /\ UNCHANGED vars => IInv'
BY DEF IInv, TypeOK, ImportedDictionary, vars, N

LEMMA IInvInductive == IInv /\ [Next]_vars => IInv'
BY DecorateIInv, GetIInv, StutterIInv DEF Next

(* The dictionary the import builds: in every reachable state TYPES so   *)
(* far holds exactly the classes Imported(k) names - the class of the   *)
(* last decorator for each tag, so the second COMM_ERRHANDLER_FN class  *)
(* replaces the first - and every get() has answered from the complete  *)
(* dictionary TYPES, a class or a KeyError.                              *)
THEOREM ImportBuildsTypes == Spec => []ImportedDictionary
BY InitIInv, IInvInductive, PTL DEF Spec, IInv

(* Type correctness of the import: k counts decorators within the file, *)
(* TYPES maps named tags to classes already decorated, and get() asks   *)
(* for and returns only tags and classes of the file or a KeyError.     *)
THEOREM RegistryTypeCorrect == Spec => []TypeOK
BY InitIInv, IInvInductive, PTL DEF Spec, IInv

====
