---------------------------- MODULE NamingProofs ----------------------------
(* Proof that a generated function declares every name once, for any      *)
(* number of parameters and counters, when the driver's names are fresh   *)
(* for one another (NamesFresh).  Strings are never taken apart: the      *)
(* argument uses only the facts NamesFresh states about tmp_name and the *)
(* counter names, and what the model's actions do to params, tmp, used   *)
(* and issued.                                                            *)
EXTENDS Naming, TLAPS

ST == INSTANCE SequenceTheorems

\* Whether parameter i declares a temporary, as a count.
TmpCount(i) == IF tmp[i] THEN 1 ELSE 0

(* The inductive invariant.  DeclaredNamesDistinct alone is not inductive: *)
(* it says nothing of the counter tmp_counter() hands out next, which is  *)
(* fresh only because used_counters has advanced past every name handed  *)
(* out so far.  NInv states that issued[i] is exactly the counter names  *)
(* for the counts 0 .. used[i] - 1.                                        *)
NInv ==
    /\ params \in Seq([name : Names, tag : Kinds])
    /\ \A i, j \in P : i # j => params[i].name # params[j].name
    /\ tmp \in [P -> BOOLEAN]
    /\ used \in [P -> 0..MaxCounters]
    /\ issued = [i \in P |-> [k \in 1..used[i] |-> CounterText(params[i].name, k - 1)]]

LEMMA InitNInv == Init => NInv
BY DEF Init, NInv, P

LEMMA GenerateNInv == NInv /\ Generate => NInv'
<1> SUFFICES ASSUME NInv, Generate PROVE NInv'
  OBVIOUS
<1>1. PICK n \in 1..MaxParams, v \in Variants :
        \E ps \in [1..n -> [name : Names, tag : Kinds]] :
          /\ \A i, j \in 1..n : i # j => ps[i].name # ps[j].name
          /\ params' = ps
          /\ tmp' = [i \in 1..n |-> Construct(ps[i].tag, v).tmp.ty # "NONE"]
          /\ used' = [i \in 1..n |-> 0]
          /\ issued' = [i \in 1..n |-> <<>>]
  BY DEF Generate
<1>2. PICK ps \in [1..n -> [name : Names, tag : Kinds]] :
          /\ \A i, j \in 1..n : i # j => ps[i].name # ps[j].name
          /\ params' = ps
          /\ tmp' = [i \in 1..n |-> Construct(ps[i].tag, v).tmp.ty # "NONE"]
          /\ used' = [i \in 1..n |-> 0]
          /\ issued' = [i \in 1..n |-> <<>>]
  BY <1>1
<1>3. n \in Nat /\ ps \in Seq([name : Names, tag : Kinds]) /\ Len(ps) = n
  <2>1. n \in Nat
    BY NamingAssumption
  <2>2. ps \in Seq([name : Names, tag : Kinds])
    <3>1. ps \in UNION {[1..m -> [name : Names, tag : Kinds]] : m \in Nat}
      BY <1>2, <2>1
    <3>2. QED
      BY <3>1, ST!SeqDef, Zenon
  <2>3. QED
    BY <2>1, <2>2
<1>4. P' = 1..n
  BY <1>2, <1>3 DEF P
<1>5. QED
  BY <1>2, <1>3, <1>4, NamingAssumption DEF NInv

LEMMA TmpCounterNInv ==
    ASSUME NInv, NEW i \in P, TmpCounter(i)
    PROVE  NInv'
<1>1. /\ used[i] < MaxCounters
      /\ issued' = [issued EXCEPT ![i] = Append(@, CounterName(i))]
      /\ used' = [used EXCEPT ![i] = @ + 1]
      /\ params' = params /\ tmp' = tmp
  BY DEF TmpCounter
<1>2. P' = P
  BY <1>1 DEF P
<1>3. Append([k \in 1..used[i] |-> CounterText(params[i].name, k - 1)],
             CounterText(params[i].name, used[i]))
        = [k \in 1..used[i] + 1 |-> CounterText(params[i].name, k - 1)]
  BY DEF NInv
<1>4. issued'[i] = [k \in 1..used'[i] |-> CounterText(params[i].name, k - 1)]
  BY <1>1, <1>3 DEF NInv, CounterName
<1>5. used' \in [P -> 0..MaxCounters]
  BY <1>1, NamingAssumption DEF NInv
<1>6. ASSUME NEW j \in P, j # i
      PROVE  issued'[j] = [k \in 1..used'[j] |-> CounterText(params[j].name, k - 1)]
  BY <1>1, <1>6 DEF NInv
<1>7. issued' = [j \in P |-> [k \in 1..used'[j] |-> CounterText(params'[j].name, k - 1)]]
  <2>1. DOMAIN issued' = P
    BY <1>1 DEF NInv
  <2>2. ASSUME NEW j \in P
        PROVE  issued'[j] = [k \in 1..used'[j] |-> CounterText(params'[j].name, k - 1)]
    <3>1. CASE j = i
      BY <3>1, <1>1, <1>4
    <3>2. CASE j # i
      BY <3>2, <1>1, <1>6
    <3>3. QED
      BY <3>1, <3>2
  <2>3. QED
    BY <2>1, <2>2, <1>1
<1>8. /\ params' \in Seq([name : Names, tag : Kinds])
      /\ \A j, k \in P' : j # k => params'[j].name # params'[k].name
      /\ tmp' \in [P' -> BOOLEAN]
  BY <1>1, <1>2 DEF NInv
<1>9. QED
  BY <1>2, <1>5, <1>7, <1>8 DEF NInv

LEMMA DiscardNInv == NInv /\ Discard => NInv'
BY DEF Discard, NInv, P

LEMMA StutterNInv == NInv /\ UNCHANGED nvars => NInv'
BY DEF NInv, nvars, P

LEMMA NInvInductive == NInv /\ [Next]_nvars => NInv'
BY InitNInv, GenerateNInv, TmpCounterNInv, DiscardNInv, StutterNInv DEF Next

-----------------------------------------------------------------------------
\* The a-th name parameter i declares: its own name, then its tmp_name if
\* it has one, then its counter names in the order handed out.
Entry(i, a) ==
    IF a = 1 THEN params[i].name
    ELSE IF tmp[i] /\ a = 2 THEN TmpName(i)
    ELSE CounterText(params[i].name, a - 2 - TmpCount(i))

\* What Decls(i) holds, slot by slot, in a state of NInv.
LEMMA DeclsAt ==
    ASSUME NInv, NEW i \in P
    PROVE  /\ Len(Decls(i)) = 1 + TmpCount(i) + used[i]
           /\ \A a \in 1..Len(Decls(i)) : Decls(i)[a] = Entry(i, a)
<1> DEFINE nm == params[i].name
<1> DEFINE Sx == {nm, TmpName(i)} \cup {CounterText(nm, c) : c \in Nat}
<1>1. /\ used[i] \in 0..MaxCounters
      /\ issued[i] = [k \in 1..used[i] |-> CounterText(nm, k - 1)]
      /\ tmp[i] \in BOOLEAN
  BY DEF NInv
<1>2. issued[i] \in Seq(Sx) /\ Len(issued[i]) = used[i]
  BY <1>1, ST!SeqDef
<1>3. ASSUME NEW a \in Nat, a > 1 + TmpCount(i), a <= 1 + TmpCount(i) + used[i]
      PROVE  issued[i][a - 1 - TmpCount(i)] = Entry(i, a)
  BY <1>1, <1>3 DEF Entry, TmpCount
<1>4. CASE tmp[i]
  <2>1. Decls(i) = <<nm, TmpName(i)>> \o issued[i]
    BY <1>4 DEF Decls
  <2>2. <<nm, TmpName(i)>> \in Seq(Sx)
    BY ST!SeqDef
  <2>3. /\ Len(Decls(i)) = 2 + used[i]
        /\ \A a \in 1..Len(Decls(i)) :
              Decls(i)[a] = IF a <= 2 THEN <<nm, TmpName(i)>>[a] ELSE issued[i][a - 2]
    BY <1>2, <2>1, <2>2, ST!ConcatProperties
  <2>4. QED
    BY <1>3, <1>4, <2>3 DEF Entry, TmpCount
<1>5. CASE ~tmp[i]
  <2>1. Decls(i) = <<nm>> \o issued[i]
    BY <1>5 DEF Decls
  <2>2. <<nm>> \in Seq(Sx)
    BY ST!SeqDef
  <2>3. /\ Len(Decls(i)) = 1 + used[i]
        /\ \A a \in 1..Len(Decls(i)) :
              Decls(i)[a] = IF a <= 1 THEN nm ELSE issued[i][a - 1]
    BY <1>2, <2>1, <2>2, ST!ConcatProperties
  <2>4. QED
    BY <1>3, <1>5, <2>3 DEF Entry, TmpCount
<1>6. QED
  BY <1>1, <1>4, <1>5

-----------------------------------------------------------------------------
(* Every declared name is a form of one driver name: the name itself (slot *)
(* 0), its tmp_name (slot 1) or its counter name for a count c (slot c+2). *)
Slots == 0..MaxCounters + 1

Form(x, s) == CASE s = 0 -> x
                [] s = 1 -> "c_" \o x
                [] OTHER -> CounterText(x, s - 2)

\* The slot of the a-th name parameter i declares.
SlotOf(i, a) == IF a = 1 THEN 0 ELSE IF tmp[i] /\ a = 2 THEN 1
                ELSE a - TmpCount(i)

\* Fresh names give distinct forms to distinct (name, slot) pairs.
LEMMA FormsDistinct ==
    ASSUME NamesFresh(Names), NEW x \in Names, NEW y \in Names,
           NEW s \in Slots, NEW t \in Slots, <<x, s>> # <<y, t>>
    PROVE  Form(x, s) # Form(y, t)
<1> DEFINE C == 0..MaxCounters - 1
<1>1. /\ \A a, b \in Names : "c_" \o a # b
      /\ \A a, b \in Names : a # b => "c_" \o a # "c_" \o b
      /\ \A a, b \in Names, c \in C :
            CounterText(a, c) # b /\ CounterText(a, c) # "c_" \o b
      /\ \A a, b \in Names, c, d \in C :
            <<a, c>> # <<b, d>> => CounterText(a, c) # CounterText(b, d)
  BY DEF NamesFresh
<1>2. /\ Form(x, 0) = x /\ Form(x, 1) = "c_" \o x
      /\ Form(y, 0) = y /\ Form(y, 1) = "c_" \o y
      /\ s \notin {0, 1} => Form(x, s) = CounterText(x, s - 2)
      /\ t \notin {0, 1} => Form(y, t) = CounterText(y, t - 2)
  BY DEF Form
<1>3. /\ s \notin {0, 1} => s - 2 \in C
      /\ t \notin {0, 1} => t - 2 \in C
      /\ s \notin {0, 1} /\ t \notin {0, 1} /\ s # t => s - 2 # t - 2
  BY NamingAssumption DEF Slots
<1>4. CASE s = 0 /\ t = 0
  BY <1>2, <1>4
<1>5. CASE s = 0 /\ t = 1
  BY <1>1, <1>2, <1>5
<1>6. CASE s = 1 /\ t = 0
  BY <1>1, <1>2, <1>6
<1>7. CASE s = 1 /\ t = 1
  BY <1>1, <1>2, <1>7
<1>8. CASE s \in {0, 1} /\ t \notin {0, 1}
  BY <1>1, <1>2, <1>3, <1>8
<1>9. CASE s \notin {0, 1} /\ t \in {0, 1}
  BY <1>1, <1>2, <1>3, <1>9
<1>10. CASE s \notin {0, 1} /\ t \notin {0, 1}
  BY <1>1, <1>2, <1>3, <1>10
<1>11. QED
  BY <1>4, <1>5, <1>6, <1>7, <1>8, <1>9, <1>10 DEF Slots

\* The a-th name parameter i declares is the form of its name for the slot
\* SlotOf(i, a).
LEMMA EntryForm ==
    ASSUME NInv, NEW i \in P, NEW a \in 1..Len(Decls(i))
    PROVE  /\ Decls(i)[a] = Form(params[i].name, SlotOf(i, a))
           /\ SlotOf(i, a) \in Slots
           /\ params[i].name \in Names
<1>1. /\ Len(Decls(i)) = 1 + TmpCount(i) + used[i]
      /\ Decls(i)[a] = Entry(i, a)
  BY DeclsAt
<1>2. used[i] \in 0..MaxCounters /\ tmp[i] \in BOOLEAN /\ MaxCounters \in Nat
  BY NamingAssumption DEF NInv
<1>3. params[i].name \in Names
  <2>1. \A q \in Seq([name : Names, tag : Kinds]) :
           \A k \in 1..Len(q) : q[k] \in [name : Names, tag : Kinds]
    BY ST!LenProperties
  <2>2. QED
    BY <2>1 DEF NInv, P
<1>4. CASE a = 1
  <2>1. SlotOf(i, a) = 0 /\ Entry(i, a) = params[i].name
    BY <1>4 DEF SlotOf, Entry
  <2>2. Form(params[i].name, 0) = params[i].name
    BY DEF Form
  <2>3. QED
    BY <1>1, <1>2, <1>3, <2>1, <2>2 DEF Slots
<1>5. CASE a # 1 /\ tmp[i] /\ a = 2
  <2>1. SlotOf(i, a) = 1 /\ Entry(i, a) = "c_" \o params[i].name
    BY <1>5 DEF SlotOf, Entry, TmpName
  <2>2. Form(params[i].name, 1) = "c_" \o params[i].name
    BY DEF Form
  <2>3. QED
    BY <1>1, <1>2, <1>3, <2>1, <2>2 DEF Slots
<1>6. CASE a # 1 /\ ~(tmp[i] /\ a = 2)
  <2>1. /\ SlotOf(i, a) = a - TmpCount(i)
        /\ Entry(i, a) = CounterText(params[i].name, a - 2 - TmpCount(i))
    BY <1>6 DEF SlotOf, Entry
  <2>2. a - TmpCount(i) \in 2..MaxCounters + 1
    BY <1>1, <1>2, <1>6 DEF TmpCount
  <2>3. Form(params[i].name, a - TmpCount(i))
          = CounterText(params[i].name, a - 2 - TmpCount(i))
    BY <1>2, <2>2 DEF Form, TmpCount
  <2>4. QED
    BY <1>1, <1>2, <1>3, <2>1, <2>2, <2>3 DEF Slots
<1>7. QED
  BY <1>4, <1>5, <1>6

\* Within one parameter, different places hold different slots.
LEMMA SlotInjective ==
    ASSUME NInv, NEW i \in P, NEW a \in 1..Len(Decls(i)),
           NEW b \in 1..Len(Decls(i)), a # b
    PROVE  SlotOf(i, a) # SlotOf(i, b)
<1>1. tmp[i] \in BOOLEAN /\ Len(Decls(i)) = 1 + TmpCount(i) + used[i]
  BY DeclsAt DEF NInv
<1>2. QED
  BY <1>1 DEF SlotOf, TmpCount

\* In a state of NInv, fresh names make every declared name distinct.
LEMMA NInvDistinct ==
    ASSUME NInv, NamesFresh(Names)
    PROVE  DeclaredNamesDistinct
<1> SUFFICES ASSUME NEW i \in P, NEW j \in P,
                    NEW a \in 1..Len(Decls(i)), NEW b \in 1..Len(Decls(j)),
                    <<i, a>> # <<j, b>>
             PROVE  Decls(i)[a] # Decls(j)[b]
  BY DEF DeclaredNamesDistinct
<1>1. /\ Decls(i)[a] = Form(params[i].name, SlotOf(i, a))
      /\ Decls(j)[b] = Form(params[j].name, SlotOf(j, b))
      /\ SlotOf(i, a) \in Slots /\ SlotOf(j, b) \in Slots
      /\ params[i].name \in Names /\ params[j].name \in Names
  BY EntryForm
<1>2. <<params[i].name, SlotOf(i, a)>> # <<params[j].name, SlotOf(j, b)>>
  <2>1. CASE i = j
    BY <2>1, SlotInjective
  <2>2. CASE i # j
    BY <2>2 DEF NInv
  <2>3. QED
    BY <2>1, <2>2
<1>3. QED
  BY <1>1, <1>2, FormsDistinct

(* Every name a generated function declares is declared once             *)
(* (DeclaredNamesDistinct), for any number of parameters and any         *)
(* MaxCounters, provided the driver's names are fresh for one another:   *)
(* TmpCounter's increment of used_counters keeps the counter names it    *)
(* hands out apart from every name declared before.                       *)
THEOREM NamesDistinct == NamesFresh(Names) => (Spec => []DeclaredNamesDistinct)
<1> SUFFICES ASSUME NamesFresh(Names) PROVE Spec => []DeclaredNamesDistinct
  OBVIOUS
<1>1. NInv => DeclaredNamesDistinct
  BY NInvDistinct
<1>2. QED
  BY <1>1, InitNInv, NInvInductive, PTL DEF Spec

====
