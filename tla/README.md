# A TLA+ model of the mpi_f08 binding descriptors

This directory holds a verification development for
`src/mpi/ompi/mpi/bindings/ompi_bindings/fortran_type.py`. That file is the
catalogue of Fortran parameter kinds from which Open MPI's binding generator
builds every `mpi_f08` (and, with `gen_f90`, legacy) Fortran subroutine.

## The system

The file has four parts, and they interact as follows.

* **The registry** (`FortranType.add`, `get`, `construct`, lines 22-48). The
  `@FortranType.add(tag)` decorator runs at import time, once per class in
  file order, and stores the class in the dictionary `TYPES` under its tag.
  `get` looks a tag up and raises `KeyError` if it is missing. `construct`
  instantiates the class with `(name, count_param, bigcount, gen_f90)`.
* **The catalogue** (the 92 decorated classes, lines 116-1606). Each class
  answers the generator's questions about one parameter kind:
  * `declare()`: the Fortran dummy;
  * `declare_cbinding_fortran()`: the dummy of the `BIND(C)` interface;
  * `declare_tmp()`: a temporary;
  * `argument()`: the actual passed to C;
  * `pre_c_call()` / `post()`: conversions before and after the C call;
  * `c_parameter()`: the C prototype's parameter;
  * `use()` / `include()`: imports.
* **The naming helpers** (`tmp_name`, `tmp_name2`, `tmp_counter`, lines
  55-69). Each descriptor carries its parameter's `name`, and `used_counters`
  starts at 0 in `__init__`. `tmp_name` is `c_`+name. `tmp_counter()`
  returns name+`_i_`+`used_counters` and advances the counter.
* **The generated subroutine at run time.** The driver and templates that
  paste these fragments together are not under `src/`. Their order of
  emission comes from spec section 4.2: declarations, then all
  `pre_c_call()` statements, then the C call through `argument()`, then all
  `post()` statements. What the statements do is Fortran semantics:
  * a variable declared with an initialiser is implicitly `SAVE`d, so one
    cell is shared by every thread;
  * an `INTENT(OUT)` dummy is undefined on entry;
  * `merge(1,0,x)` and `x = c_x /= 0` convert between `LOGICAL` and C
    integers;
  * `c_funloc` takes a procedure's C address.

  Under `MPI_THREAD_MULTIPLE`, any number of threads may run one generated
  subroutine at once.

## Modules

| Module | Models | State and actions |
|---|---|---|
| `FortranType` | registry and catalogue | Constant definitions only. Each class family is an operator mapping `[bigcount, gen_f90, count_param]` to a descriptor record (`decl`, `cbind`, `tmp`, `arg`, `pre`, `post`, `cparam`, `use`, `include`, `predecl`). Text is abstracted to what the properties distinguish: type, kind, `of` (the derived type), intent, shape, argument form, conversion form and C type. Subclass overrides are record updates of the base descriptor, mirroring the class hierarchy. `Registrations` is the decorator list in file order. `Add` is `add()`'s dictionary store, and `TYPES == Imported(Len(Registrations))` is its closed form. |
| `Registry` | the import | `types` and `k` step through the decorators (`Decorate`, one per decorator). `Get(tag)` then returns the class or `"KeyError"`. |
| `BindingKinds` | the kinds' directions and values | `CONSTANTS` of the execution model (`Threads`, `Requests`, `Modes`, `MaxParams`, `Data`, `Procs`, `Undef`) and what both the abstract and the detailed model need: `Role`, `Reads`, `Writes`, the caller's and C's values, `Encode` and `Decode`. |
| `AtomicCall` | what a call promises (spec 4.2) | The abstract specification. `status`, `arg`, `cin`, `cout` and `ret` per thread. `Enter` passes arguments, and `Call` is the whole exchange with C in one step: C reads `Encode` of each input and stores a value for each output. `Return` gives the caller `Decode` of each output and its inputs unchanged. It has weak fairness on `Call` and `Return`. |
| `BindingCall` | one generated function and its callers | `phase`, `req` and `desc` are the driver's. `Generate` constructs one descriptor per parameter, or fails on an unknown tag. `Discard` drops the function. Per thread there are `pc`, `caller`, `entry` and `local` (automatic temporaries), `cread` and `cwrote` (what C read and stored). Per parameter there is `saved` (the `SAVE`d temporary). The thread actions are `Enter` → `PreCall` → `CCall` → `PostCall` → `Return`, each the whole block of statements of that phase, in parameter order. |
| `MCBindingCall` | model values and request sets | Which kinds, modes and `count_param` forms each run asks for. It also holds a TLC-checked `ASSUME` that the concurrent run's kinds meet the delivery contract, and that across the catalogue exactly `LOGICAL`, `LOGICAL_OUT` and `LOGICAL_ARRAY_OUT` do not. |
| `BindingCallProofs` | proofs | The inductive invariants and the TLAPS proofs of the type invariant and of delivery. |
| `RefinementProofs` | proofs | The TLAPS proof that `BindingCall` refines `AtomicCall`, and of the action property `ReturnDelivers`. |
| `RegistryProofs` | proofs | The TLAPS proofs that the import builds `Imported(k)` (`ImportedDictionary`) and of `Registry`'s `TypeOK`. |
| `Naming` | the names a generated function declares | `params` (names and tags), `tmp` (whether the kind's `declare_tmp()` declares `tmp_name`, taken from the `FortranType` descriptor), `used` (`used_counters`) and `issued` (the counter names handed out). `Generate` constructs the descriptors, `TmpCounter(i)` is `tmp_counter()`, and `Discard` ends the function. Names are strings, so a collision is string equality. |
| `MCNaming` | name sets | Collision-free names (`x`, `x_i`, `y`) and a colliding pair (`x`, `c_x`). A TLC-checked `ASSUME NamesFreshness` says that `NamesFresh` holds of the first set and fails for the second. |
| `NamingProofs` | proofs | The TLAPS proof that every declared name is declared once (`NamesDistinct`). |

`PROJECT.json` `map` names the source lines behind every definition.
`spec_modelled` marks the definitions that model the driver and templates,
which are not under `src/`. These are `Init`, `Enter`, `Return`, `Discard`
and `Fairness`, and `Naming`'s `Init` and `Discard`. `AtomicCall` and
`BindingKinds` state the spec's contract and are not mapped to code.

### Semantic choices

* **An undefined value** is the model value `Undef`. `merge` of an undefined
  logical returns either integer (`PreCall`'s choice `ch`). This is
  nondeterminism over what a compiler may produce.
* **C stores** an integer in `0..2` into a logical's temporary. Values 0, 1
  and a nonzero value other than 1 are enough to tell `/= 0` from `== 1`. It
  stores a member of `Data` into anything else.
* **`argument()` of a string**, `name//c_null_char`, makes C read
  `<<value, "NUL">>`. `c_funloc(f)` is `<<"funloc", f>>`. A handle's
  `%MPI_VAL` is the handle's value itself. Each conversion is modelled by
  what it does.

## Properties

The properties are in `BindingCall` and `Registry`.

* `ImportedDictionary`: after any prefix of the import, `types` is the
  dictionary in which each tag maps to the last class registered under it.
  `get` returns exactly `TYPES[tag]` or `KeyError`. This covers the double
  registration of `COMM_ERRHANDLER_FN` at lines 1348 and 1494.
* `InValueDelivered`: once a thread has called C, C read the encoding of
  every input that thread passed. This holds whatever other threads did.
* `OutValueDelivered`: when a thread returns, each of its outputs holds the
  decoding of what C stored for that thread.
* `AbiAgreement`: the actual `argument()` passes has the type and kind of
  the cbinding dummy, and that dummy is interoperable with `c_parameter()`.
  This relates three methods that are overridden independently.
* `IntentAgreement`: the dummy's intent and the cbinding dummy's intent
  agree with the direction the MPI standard gives the kind.
* `DeclWellFormed`: no declaration formats a missing `count_param`.
* `ImplementsAtomicCall`: `A!FairSpec`, where `A` is `AtomicCall` under
  the mapping below. Every behaviour of the interleaved threads is a
  behaviour of the atomic call, and every call that is entered returns.
  It is the liveness property.
* `ReturnDelivers` (an action property): in every step in which a thread
  returns, each of its `OUT` and `INOUT` arguments holds the decoding of
  what C stored for that call, and each `IN` argument is exactly the value
  the thread passed. It relates the returned state to the values at entry
  and at the C call.
* `DeclaredNamesDistinct` (`Naming`): the list of every name a generated
  function declares has no duplicates. That list holds each parameter, the
  `tmp_name` of each kind with a temporary, and each name `tmp_counter()`
  has handed out. `NamesFresh(S)` (in `Naming`) states what the names `S`
  the driver passes must give for this to hold. No name is another name's
  `tmp_name` or one of its first `MaxCounters` counter names. Different
  names have different `tmp_name`s. Counter names of different names or
  counts differ. `tmp_name` and `tmp_counter()` look at no other name, so
  nothing weaker on the names suffices.
* `TypeOK`: one type invariant per module.

**The refinement mapping** (`BindingCall`, `A == INSTANCE AtomicCall WITH
...`):

* a thread is `"in"` the abstract call while `pc` is `entered` or
  `prepared`, and `"done"` from `CCall` until it returns;
* `arg` is `entry`, `cin` is `cread` and `cout` is `cwrote`;
* `ret` is the caller's variables while the thread is out, and `<<>>`
  inside.

So `PreCall` and `PostCall` are stutters. `CCall` is the abstract `Call`,
and `Return` is the abstract `Return`.

## Runs

| Run | Result | What it shows |
|---|---|---|
| `registry_import` | pass, 185 states | The decorator sequence builds `TYPES`, and `get` agrees with it. |
| `modern_catalogue` | pass, 5708 states | Every non-defective kind, in both `bigcount` variants of `mpi_f08` mode and with `count_param` in {None, `n`, a named length}, has agreeing layers and delivers values. The run uses 1 thread and 1 parameter, under `FairSpec`, and also checks `ReturnDelivers` and `ImplementsAtomicCall`. `ReturnDelivers` is proved for any number of threads; the run, with one thread, is where its mutant shows. |
| `legacy_catalogue` | pass | The same check of `AbiAgreement` in `gen_f90` mode. |
| `concurrent_callers` | pass, 190679 states, about 3 minutes | Two threads and two parameters, drawn from an automatic logical temporary, a `c_funloc` temporary, a string, an `%MPI_VAL` handle, a written count and a buffer. Interleaved calls never exchange values. Under `FairSpec` they refine atomic calls that all return (`ImplementsAtomicCall`). |
| `naming_declarations` | pass, 901 states | Functions of up to two parameters named `x`, `x_i` or `y`, of a logical, a callback and an integer kind, with up to three counters per descriptor, declare no name twice. |
| `naming_collision` | violation | See findings. |
| `saved_logical_in_race` | violation | See findings. |
| `saved_logical_out_race` | violation | See findings. |
| `logical_array_out_lost` | violation | See findings. |
| `handle_abi` | violation | See findings. `FILE_OUT` in `mpi_f08` mode, and `COMM` and `REQUEST_INOUT` in `gen_f90` mode, are requested together. Each alone violates `AbiAgreement`. |
| `intent_mismatch` | violation | See findings. Both `RANK_OUT` and `OP_INOUT` are requested, and each alone violates the property. |
| `logical_array_no_count` | violation | See findings. |

The violation runs each check one property on the kinds that break it. The
catalogue runs exclude exactly those kinds (`DefectiveTags`,
`LegacyDefectiveTags`, `InterpolatingTags` in `MCBindingCall`), so that they
show the rest of the catalogue is sound.

### Findings

Details and line numbers are in `PROJECT.json` `findings`.

* **`LOGICAL` and `LOGICAL_OUT` race.** `declare_tmp()` emits
  `INTEGER :: c_x = 0`, which is implicitly `SAVE`d.
  * With two threads, one thread's `merge` can overwrite the other's before
    its C call.
  * For `LOGICAL_OUT`, another thread's C store can land between a thread's
    C call and its `post()`.
* **`LOGICAL_ARRAY_OUT` never copies out.** It has a `pre_c_call()` that
  reads the undefined `INTENT(OUT)` argument, and no `post()`.
* **`FILE_OUT` in `mpi_f08` mode** passes a `TYPE(MPI_File)` actual to an
  `INTEGER` cbinding dummy.
* **Legacy mode.**
  * `COMM`, `GROUP` and `SESSION` apply `%MPI_VAL` to a plain `INTEGER`.
  * `REQUEST_INOUT` and `REQUEST_ARRAY_INOUT` keep `TYPE(MPI_Request)`.
* **`RANK_OUT` is `INTENT(INOUT)`.** The class name `IntOutType` is bound
  twice, so `RankType` inherits the INOUT class.
* **`OP_INOUT`'s cbinding dummy is `INTENT(IN)`.**
* **A missing `count_param` is formatted as `None`** in `LOGICAL_ARRAY`,
  `LOGICAL_ARRAY_OUT` and `REQUEST_ARRAY(_INOUT)`.
* **`tmp_name` can collide with a parameter.** It is `c_`+name, whatever
  the function's other names are. A parameter `c_x` next to a `LOGICAL` `x`
  is declared twice. The spec calls the auxiliary names collision-free.

### Bounds

* **The catalogue is enumerated completely.** Every tag, both `bigcount`
  values, each mode, and `count_param` in {None, a variable, a named
  constant} are covered. These are all the forms the methods branch on.
* **The concurrent run uses 2 threads and 2 parameters.** That is the
  smallest instance in which one thread's step can fall between another's
  steps, and in which two parameters of different kinds share a function.
  Two values per data set (`d1`, `d2`, `f1`, `f2`) suffice to tell one
  thread's value from another's.
* **The naming run** uses three names, chosen so that one (`x_i`) looks
  like another's counter prefix without being one, and up to three counters
  per descriptor. Two parameters are the smallest instance in which one
  parameter's name can meet another's temporary or counter.
* **The proofs below remove these bounds** for the dynamic behaviour.

### Fairness

`FairSpec` adds weak fairness on `PreCall`, `CCall`, `PostCall` and
`Return` of every thread. The generated subroutine is straight-line code:
once a thread has entered, each block of statements is enabled in its phase
and nothing in the file waits. `Enter` (the application's choice to call)
and `Generate`/`Discard` (the driver's) get no fairness.

`AtomicCall`'s matching fairness is on `Call` and `Return`.
`ImplementsAtomicCall` checks it, so the runs show that every call that is
entered returns. The runs also check deadlock: the driver can always
`Generate` or `Discard`.

### Mutants

Every property of a passing run has a mutant in `PROJECT.json` that TLC
catches. Examples:

* `merge` arguments swapped;
* `c_funloc` dropped;
* `post()` testing `== 1`;
* post() copying back every written parameter (which also breaks
  `ImplementsAtomicCall` on one thread);
* `tmp_counter()` without `used_counters += 1`;
* a narrowed C count;
* `add()` keeping the first class or keying by class name.

## Proofs (TLAPS)

* **`TypeCorrect`**: `Spec => []TypeOK` for every set of threads,
  `MaxParams`, data, procedures and requested kinds.
  * **Assumptions.** `ConstantsAssumption` and `CatalogueAssumption`. The
    latter says that every requested kind's descriptor is `Coherent`: a
    `SAVE`d temporary is an integer, `merge` feeds an integer temporary of a
    logical kind, and so on. TLC evaluates it over the whole catalogue in
    every run.
  * **Inductive invariant.** `IInv == TypeOK /\ Built`. `Built` says that
    the descriptors are the registry's for the requested kinds. Without it,
    the per-descriptor facts of `CatalogueAssumption` cannot be applied to
    `desc`. `IInv` was checked with TLC as an invariant of the
    `modern_catalogue`, `legacy_catalogue` and `concurrent_callers`
    configurations before it was proved. `DInv` and `RInv` were checked the
    same way on `concurrent_callers`, whose kinds meet the contract.
  * **Structure.** There is one lemma per action (`GenerateIInv` …
    `StutterIInv`), combined in `IInvInductive`.
* **`Delivered`**:
  `ContractHolds => (Spec => [](InValueDelivered /\ OutValueDelivered))`.
  * **Contract.** `ContractHolds` says that every requested kind meets
    `DeliveryContract`:
    * no `SAVE`d temporary;
    * an input read through a temporary is encoded by `merge` or `c_funloc`;
    * an output written to a temporary is decoded by `post()`;
    * an output written to the caller's variable is not a logical.
  * **Inductive invariant.** `DInv == IInv /\ Delivery`. `Delivery` holds,
    for every thread and parameter, the facts of each phase:
    * the input is unchanged until C reads it;
    * the automatic temporary holds its encoding after `pre_c_call`;
    * what C stored is in the thread's own temporary or variable until
      `post()`.
  * **Frame argument.** `DeliveryFrame` carries a thread's facts across
    another thread's step. Under the contract those facts never mention the
    shared `saved` cells. That is exactly what fails for `LOGICAL` and
    `LOGICAL_OUT`, which TLC exhibits as the two race runs.
  * **The hypothesis is not vacuous.** `MCBindingCall`'s `ASSUME
    ConcurrentContract` makes TLC check that the concurrent run's kinds meet
    the contract in every mode. It also checks that all kinds but the three
    logical ones do.

* **`OutDelivered`**: `ContractHolds => (Spec => []OutValueDelivered)`,
  the `post()` half of `Delivered`, stated on its own.

* **`Refinement`** (`RefinementProofs`):
  `ContractHolds => (Spec => A!Spec)`. This is the safety part of
  `ImplementsAtomicCall`, for every set of threads, parameters and kinds.
  * **Inductive invariant.** `RInv == DInv /\ Kept`. `Kept` adds what
    `Delivery` does not say: while a thread is inside, its variables form one
    function over the parameters, and every `IN` argument still holds the
    value passed. Neither `CCall` nor `post()` writes an `IN` argument;
    under the contract `post()` exists only for outputs.
  * **Step lemmas.** `EnterRefines`, `CCallRefines` and `ReturnRefines` show
    the three steps that move the abstract state. `InternalStutters` covers
    `PreCall` and `PostCall`, and `GenerateRefines` and `DiscardRefines`
    cover the driver. `StepRefines` combines them.
  * **C's view.** `CCallRefines` rests on `VisibleEncoded` from
    `BindingCallProofs`: under the contract, what C sees through
    `argument()` is the encoding of what the thread passed.
  * **Shared definitions.** `SameKinds` and `SameRegistry` state that the
    instance's copies of the `BindingKinds` and registry definitions are
    the ones `BindingCall` uses.

* **`ReturnDeliversThm`** (`RefinementProofs`):
  `ContractHolds => (Spec => ReturnDelivers)`. `OnlyReturnLeaves` shows
  that only `Return(t)` takes a thread from `done` to `out`. `Return`
  leaves `caller` alone, so `ReturnStepDelivers` takes the output half
  from `Delivery`'s `done` clause and the input half from `Kept`. Both
  hold by `RInv`. The final step is `PTL`.

* **`ImportBuildsTypes`** and **`RegistryTypeCorrect`** (`RegistryProofs`):
  `Spec => []ImportedDictionary` and `Spec => []TypeOK` for `Registry`.
  * **The key lemma.** `ImportedStep` says
    `Add(Imported(n), Registrations[n+1]) = Imported(n+1)` for every
    `n \in Nat`.
    * Under the tag of class `n+1`, the last decorator naming it is
      `n+1` itself.
    * Under any other tag, the decorators naming it are the same among the
      first `n` and the first `n+1`, so the same `CHOOSE` is made.
  * **Inductive invariant.** `IInv == TypeOK /\ ImportedDictionary /\
    (asked # "none" => k = N)`. The last conjunct is needed because
    `get()` runs only after the import. Without it, a decorator could run
    after an answered `get()` and change `TYPES` under it. TLC checked
    `IInv` on the `Registry` run (185 states) first.
  * **Generality.** `Registrations` is never expanded, so the result holds
    for any list of decorated classes and any `TagOf`. Overwrite semantics,
    including the double `COMM_ERRHANDLER_FN`, is proved rather than
    enumerated.

* **`NamesDistinct`** (`NamingProofs`):
  `NamesFresh(Names) => (Spec => []DeclaredNamesDistinct)`. It holds for
  any number of parameters and any `MaxCounters`.
  * **Inductive invariant.** `DeclaredNamesDistinct` alone is not
    inductive: it says nothing of the name `tmp_counter()` hands out next.
    `NInv` adds that `issued[i]` is exactly the counter names for the
    counts `0 .. used[i] - 1`, that parameter names are distinct, and the
    types of `params`, `tmp` and `used`. Because `used_counters` has
    advanced past every count handed out, the next counter name is new.
    TLC checked `NInv` on the `naming_declarations` configuration
    (901 states) before it was proved. `InitNInv` … `StutterNInv` give one
    lemma per action.
  * **Slots.** `DeclsAt` says what `Decls(i)` holds at every position:
    the name, then `tmp_name` if the kind has a temporary, then the counter
    names in order. `EntryForm` recasts each entry as `Form(name, slot)`:
    slot `0` is the name, `1` is `tmp_name`, and `c + 2` is the counter
    name for count `c`. `SlotInjective` shows that different positions of one
    parameter have different slots.
  * **The string facts.** `FormsDistinct` derives, from `NamesFresh`
    alone, that different (name, slot) pairs give different strings. The
    proof never takes a string apart or evaluates `ToString`.
  * **The hypothesis is not vacuous.** `MCNaming`'s `ASSUME
    NamesFreshness` makes TLC check that `NamesFresh` holds of the names of
    the passing run (`x`, `x_i`, `y`). It also checks that it fails for
    `x` with `c_x`, the pair of the `naming_collision` run.

The proofs treat the catalogue through these hypotheses. They never expand a
class's descriptor, so they hold for any catalogue with coherent descriptors.

### What stays with TLC

* The catalogue facts themselves are finite computations over constant
  records, checked by TLC on the catalogue runs:
  * `CatalogueAssumption`, `ContractHolds` and `ConcurrentContract`;
  * `AbiAgreement`, `IntentAgreement` and `DeclWellFormed`, which are
    per-descriptor facts: since every descriptor of a reachable state is
    the registry's construction for its request (`Built`), they hold of
    every generated function exactly when they hold of each requested kind
    in each mode, which is what the catalogue runs enumerate;
  * which kinds violate them (the violation runs).
  A proof would only unfold the 92 class records; lifting the per-kind
  fact to reachable states holds by the shape of `Generate` and says
  nothing about the code, so it is not stated as a theorem.
* That `TYPES` itself equals `Imported(Len(Registrations))` is a
  definition. The proved step lemma shows the decorators build it.
* Liveness and `ENABLED` are out of TLAPS's reach. That every entered call
  returns (the fairness part of `ImplementsAtomicCall`) is checked by TLC
  only, on the modern and concurrent runs.
* Whether a given set of names is fresh (`NamesFresh`) is a fact about
  strings built with `ToString`. The provers do not evaluate `ToString`, so
  TLC checks it for the run's names.
* Induction over data (recursive definitions) is not used by the proved
  modules.

## Not modelled

* **`tmp_name2` and `fn_api_name`.** `tmp_name2` (`c_`+name+`2`) is a pure
  helper that no class in the file calls, so it declares nothing.
  `fn_api_name` formats through `util.ext_api_func_name`, which is not under
  `src/`.
* **Formatting, wording and layout** of the emitted code, apart from what
  the properties distinguish.
* **The C side** beyond reading and storing one value per pointer.
