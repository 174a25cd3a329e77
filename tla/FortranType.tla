---------------------------- MODULE FortranType ----------------------------
(***************************************************************************)
(* The descriptor catalogue of ompi_bindings/fortran_type.py.              *)
(*                                                                         *)
(* Every class of the file becomes a record of the fragments its contract  *)
(* methods return, abstracted from text to what decides whether the        *)
(* generated binding compiles and moves values correctly:                  *)
(*   decl / cbind / tmp : a declaration, [ty, kind, of, intent, shape,     *)
(*                        async] (declare, declare_cbinding_fortran,       *)
(*                        declare_tmp)                                     *)
(*   arg     : what argument() passes: the dummy itself ("name"), its      *)
(*             %MPI_VAL field ("proj"), the field of every element         *)
(*             ("proj_all"), the temporary ("tmp") or name//c_null_char    *)
(*             ("nullterm")                                                *)
(*   pre     : pre_c_call(): none, tmp = merge(1,0,name), tmp = c_funloc() *)
(*   post    : post(): none, or name = tmp /= 0                            *)
(*   use     : the symbols use() imports; include: include()               *)
(*   cparam  : the pointee type of c_parameter()                           *)
(*   predecl : whether interface_predeclare() emits the ignore-TKR line    *)
(* A descriptor depends on the constructor arguments bigcount, gen_f90    *)
(* (legacy, integer-handle mode) and count_param; name and fn_name only    *)
(* label the text and are left out here.                                   *)
(***************************************************************************)
EXTENDS Naturals, Sequences

\* count_param=None, the constructor's default.
CONSTANT None

\* The named constants the driver passes as count_param, besides a
\* parameter name ("n") and None.
NamedLengths == {"MPI_MAX_OBJECT_NAME", "MPI_MAX_PORT_NAME",
                 "MPI_MAX_ERROR_STRING", "MPI_MAX_PROCESSOR_NAME",
                 "MPI_MAX_LIBRARY_VERSION_STRING", "MPI_STATUS_SIZE"}
CountParams == {None, "n"} \cup NamedLengths

ASSUME NoneAssumption == None \notin {"n"} \cup NamedLengths

\* The constructor arguments that change a descriptor.
Params == [bigcount : BOOLEAN, gen_f90 : BOOLEAN, count_param : CountParams]

-----------------------------------------------------------------------------
(* Abstract fragments.                                                     *)

FTypes  == {"INTEGER", "LOGICAL", "CHARACTER", "TKR", "TYPE", "PROC",
            "C_PTR", "FUNPTR", "NONE"}
FKinds  == {"DEFAULT", "COUNT", "ADDRESS", "OFFSET", "C_CHAR"}
Intents == {"IN", "OUT", "INOUT", "NONE"}
\* SCALAR, (*), (count_param), the text "(None)", (MPI_STATUS_SIZE),
\* (MPI_STATUS_SIZE,*), and CHARACTER(LEN=*) / CHARACTER(LEN=count_param).
Shapes  == {"SCALAR", "ASSUMED", "SIZED", "NONE_TEXT", "STATUS",
            "STATUS_ASSUMED", "LEN_ASSUMED", "LEN_SIZED"}
ArgForms  == {"name", "proj", "proj_all", "tmp", "nullterm"}
PreForms  == {"none", "merge", "funloc"}
PostForms == {"none", "ne0"}
CTypes  == {"Fint", "Count", "Aint", "Offset", "CFI", "char",
            "copy_attr_fn", "delete_attr_fn", "errhandler_fn",
            "datarep_conversion_fn", "datarep_extent_fn", "fortran_text"}
Includes == {"", "mpif-config.h"}

Decl == [ty : FTypes, kind : FKinds, of : STRING, intent : Intents,
         shape : Shapes, async : BOOLEAN, saved : BOOLEAN]
Descriptor == [predecl : BOOLEAN, decl : Decl, cbind : Decl, tmp : Decl,
               arg : ArgForms, use : SUBSET STRING, include : Includes,
               pre : PreForms, post : PostForms, cparam : CTypes]

D(ty, kind, of, intent, shape) ==
    [ty |-> ty, kind |-> kind, of |-> of, intent |-> intent,
     shape |-> shape, async |-> FALSE, saved |-> FALSE]
Int(intent)        == D("INTEGER", "DEFAULT", "", intent, "SCALAR")
Typed(of, intent)  == D("TYPE", "DEFAULT", of, intent, "SCALAR")
FunPtr             == D("FUNPTR", "DEFAULT", "", "NONE", "SCALAR")
NoTmp              == D("NONE", "DEFAULT", "", "NONE", "SCALAR")

\* Mutant: the None test of the size is dropped.
SizeInterp(p) == IF p.count_param = None THEN "NONE_TEXT" ELSE "SIZED"

\* size = '*' if self.count_param == None else self.count_param
Size(p) == IF p.count_param = None THEN "ASSUMED" ELSE "SIZED"
\* f'({self.count_param})' with no None test: renders "(None)".
Interp(p) == IF p.count_param = None THEN "NONE_TEXT" ELSE "SIZED"

\* The defaults of the FortranType base class: no predeclaration, no
\* temporary, cbinding = declare(), argument = name, nothing imported.
Base(decl, cparam) ==
    [predecl |-> FALSE, decl |-> decl, cbind |-> decl, tmp |-> NoTmp,
     arg |-> "name", use |-> {}, include |-> "", pre |-> "none",
     post |-> "none", cparam |-> cparam]

-----------------------------------------------------------------------------
(* The families of classes.                                                *)

\* BUFFER* (BufferType and subclasses) and VBUFFER*/WBUFFER* classes.
Buffer(intent, async, predecl) ==
    [Base([D("TKR", "DEFAULT", "", intent, "SCALAR") EXCEPT !.async = async],
          "CFI") EXCEPT !.predecl = predecl]

CptrOut == [Base(D("C_PTR", "DEFAULT", "", "OUT", "SCALAR"), "char")
              EXCEPT !.use = {"C_PTR"}]

\* Mutant: c_parameter() ignores bigcount.
CountNarrowC(intent, p) ==
    [Base(D("INTEGER", IF p.bigcount THEN "COUNT" ELSE "DEFAULT", "",
            intent, "SCALAR"), "Fint")
       EXCEPT !.use = IF p.gen_f90 THEN {} ELSE {"MPI_COUNT_KIND"},
              !.include = IF p.gen_f90 THEN "mpif-config.h" ELSE ""]

\* COUNT, COUNT_INOUT, COUNT_OUT.
Count(intent, p) ==
    [Base(D("INTEGER", IF p.bigcount THEN "COUNT" ELSE "DEFAULT", "",
            intent, "SCALAR"),
          IF p.bigcount THEN "Count" ELSE "Fint")
       EXCEPT !.use = IF p.gen_f90 THEN {} ELSE {"MPI_COUNT_KIND"},
              !.include = IF p.gen_f90 THEN "mpif-config.h" ELSE ""]

PartitionedCount(p) ==
    [Base(D("INTEGER", "COUNT", "", "IN", "SCALAR"), "Count")
       EXCEPT !.use = IF p.gen_f90 THEN {} ELSE {"MPI_COUNT_KIND"}]

\* A handle whose argument() always projects %MPI_VAL
\* (COMM, GROUP, SESSION and their subclasses).
ProjectingHandle(of, intent, p) ==
    [Base(IF p.gen_f90 THEN Int(intent) ELSE Typed(of, intent), "Fint")
       EXCEPT !.cbind = Int(intent), !.arg = "proj",
              !.use = IF p.gen_f90 THEN {} ELSE {of}]

\* Mutant: argument() projects %MPI_VAL in both modes.
HandleAlwaysProj(of, intent, p) == ProjectingHandle(of, intent, p)

\* A handle whose argument() projects only when gen_f90 is False
\* (DATATYPE, REQUEST, OP, WIN, ERRHANDLER); cbind is its own intent.
Handle(of, intent, p) ==
    [ProjectingHandle(of, intent, p)
       EXCEPT !.arg = IF p.gen_f90 THEN "name" ELSE "proj"]

\* A handle with the default cbinding and argument (FILE, INFO, MESSAGE).
PlainHandle(of, intent, p) ==
    [Base(IF p.gen_f90 THEN Int(intent) ELSE Typed(of, intent), "Fint")
       EXCEPT !.use = IF p.gen_f90 THEN {} ELSE {of}]

DatatypeArray(p) ==
    [Base(IF p.gen_f90 THEN [Int("IN") EXCEPT !.shape = "ASSUMED"]
          ELSE [Typed("MPI_Datatype", "IN") EXCEPT !.shape = "ASSUMED"],
          "Fint")
       EXCEPT !.use = IF p.gen_f90 THEN {} ELSE {"MPI_Datatype"}]

\* Mutant: the intent is dropped from the INTEGER declaration.
IntScalarIn(intent) == Base(Int("IN"), "Fint")

IntScalar(intent) == Base(Int(intent), "Fint")

\* LOGICAL, LOGICAL_ARRAY, LOGICAL_OUT, LOGICAL_ARRAY_OUT. The scalar
\* classes declare 'INTEGER :: c_x = 0': an initialised local variable has
\* the SAVE attribute in Fortran, so that temporary is static (saved).
Logical(intent, shape, saved, pre, post) ==
    [Base(D("LOGICAL", "DEFAULT", "", intent, shape), "Fint")
       EXCEPT !.tmp = [Int("NONE") EXCEPT !.shape = shape, !.saved = saved],
              !.cbind = [Int(intent) EXCEPT !.shape = shape],
              !.arg = "tmp", !.pre = pre, !.post = post]

\* STATUS, STATUS_OUT, STATUS_INOUT.
Status(intent, p) ==
    [Base(IF p.gen_f90 THEN [Int(intent) EXCEPT !.shape = "STATUS"]
          ELSE Typed("MPI_Status", intent), "Fint")
       EXCEPT !.use = IF p.gen_f90 THEN {} ELSE {"MPI_Status"},
              !.include = IF p.gen_f90 THEN "mpif-config.h" ELSE ""]

RequestInOut(p) ==
    [Handle("MPI_Request", "INOUT", p)
       EXCEPT !.decl = Typed("MPI_Request", "INOUT")]

\* REQUEST_ARRAY and REQUEST_ARRAY_INOUT.
RequestArray(intent, p) ==
    [Base(IF p.gen_f90
          THEN IF intent = "IN" THEN [Int("IN") EXCEPT !.shape = "ASSUMED"]
               ELSE [Typed("MPI_Request", intent) EXCEPT !.shape = "ASSUMED"]
          ELSE [Typed("MPI_Request", intent) EXCEPT !.shape = Interp(p)],
          "Fint")
       EXCEPT !.cbind = [Int(intent) EXCEPT
                           !.shape = IF p.gen_f90 THEN "ASSUMED" ELSE Interp(p)],
              !.arg = IF p.gen_f90 THEN "name" ELSE "proj_all",
              !.use = IF p.gen_f90 THEN {} ELSE {"MPI_Request"}]

StatusArray(p) ==
    [Base(IF p.gen_f90 THEN [Int("OUT") EXCEPT !.shape = "STATUS_ASSUMED"]
          ELSE [Typed("MPI_Status", "OUT") EXCEPT !.shape = "ASSUMED"], "Fint")
       EXCEPT !.use = IF p.gen_f90 THEN {} ELSE {"MPI_Status"},
              !.include = IF p.gen_f90 THEN "mpif-config.h" ELSE ""]

\* INT_ARRAY and its subclasses; kind and C type are the overridable parts.
IntArray(intent, kind, ctype, p) ==
    [Base(D("INTEGER", kind, "", intent, Size(p)), ctype)
       EXCEPT !.use = IF p.count_param = "MPI_STATUS_SIZE"
                      THEN {"MPI_STATUS_SIZE"} ELSE {}]

CountArray(p) ==
    [IntArray("IN", IF p.bigcount THEN "COUNT" ELSE "DEFAULT",
              IF p.bigcount THEN "Count" ELSE "Fint", p)
       EXCEPT !.use = IF p.bigcount THEN {"MPI_COUNT_KIND"} ELSE {}]

AintCountArray(p) ==
    [IntArray("IN", IF p.bigcount THEN "COUNT" ELSE "ADDRESS",
              IF p.bigcount THEN "Count" ELSE "Aint", p)
       EXCEPT !.use = IF p.bigcount THEN {"MPI_COUNT_KIND"}
                      ELSE {"MPI_ADDRESS_KIND"},
              !.include = IF p.gen_f90 THEN "mpif-config.h" ELSE ""]

\* AINT, AINT_OUT and OFFSET, OFFSET_OUT share one shape.
FixedWide(kind, sym, ctype, intent, p) ==
    [Base(D("INTEGER", kind, "", intent, "SCALAR"), ctype)
       EXCEPT !.use = IF p.gen_f90 THEN {} ELSE {sym},
              !.include = IF p.gen_f90 THEN "mpif-config.h" ELSE ""]

\* AINT_COUNT, AINT_COUNT_INOUT, AINT_COUNT_OUT.
AintCount(intent, p) ==
    [Base(D("INTEGER", IF p.bigcount THEN "COUNT" ELSE "ADDRESS", "",
            intent, "SCALAR"),
          IF p.bigcount THEN "Count" ELSE "Aint")
       EXCEPT !.use = IF p.bigcount THEN {"MPI_COUNT_KIND"}
                      ELSE IF intent = "IN" /\ p.gen_f90 THEN {}
                      ELSE {"MPI_ADDRESS_KIND"},
              !.include = IF intent = "IN" /\ p.gen_f90
                          THEN "mpif-config.h" ELSE ""]

AintArray(p) ==
    [Base([D("INTEGER", "ADDRESS", "", "IN", Size(p)) EXCEPT !.async = TRUE],
          "Aint")
       EXCEPT !.use = {"MPI_ADDRESS_KIND"}]

\* DISP, DISP_OUT, DISP_ARRAY.
Disp(intent, shape, p) ==
    [Base(D("INTEGER", IF p.bigcount THEN "ADDRESS" ELSE "DEFAULT", "",
            intent, shape),
          IF p.bigcount THEN "Aint" ELSE "Fint")
       EXCEPT !.use = IF p.bigcount THEN {"MPI_ADDRESS_KIND"} ELSE {}]

CharArray ==
    [Base(D("CHARACTER", "DEFAULT", "", "IN", "LEN_ASSUMED"), "char")
       EXCEPT !.use = {"c_char", "c_null_char"},
              !.cbind = D("CHARACTER", "C_CHAR", "", "IN", "ASSUMED"),
              !.arg = "nullterm"]

CharArrayOut(p) ==
    [Base(D("CHARACTER", "DEFAULT", "", "OUT",
            IF p.count_param = None THEN "LEN_ASSUMED" ELSE "LEN_SIZED"),
          "char")
       EXCEPT !.use = {"c_char"} \cup (IF p.count_param \in NamedLengths
                                      THEN {p.count_param} ELSE {}),
              !.cbind = D("CHARACTER", "C_CHAR", "", "OUT", "ASSUMED")]

\* The callback classes: a procedure captured with c_funloc into a
\* c_funptr temporary.
CallbackFn(iface, ctype, p) ==
    [Base(D("PROC", "DEFAULT", IF p.gen_f90 THEN "" ELSE iface, "NONE",
            "SCALAR"), ctype)
       EXCEPT !.cbind = FunPtr, !.arg = "tmp", !.tmp = FunPtr,
              !.use = IF p.gen_f90 THEN {}
                      ELSE {iface, "c_funloc", "c_funptr"},
              !.pre = "funloc"]

\* The first class registered as COMM_ERRHANDLER_FN.
CommErrhandlerFnFirst(p) ==
    [CallbackFn("MPI_Comm_copy_errhandler_function", "fortran_text", p)
       EXCEPT !.cbind = Int("IN"),
              !.arg = IF p.gen_f90 THEN "name" ELSE "proj",
              !.use = IF p.gen_f90 THEN {}
                      ELSE {"MPI_Comm_errhandler_function", "c_funloc",
                            "c_funptr"}]

SessionErrhandlerFn(p) ==
    [CallbackFn("MPI_Session_errhandler_function", "errhandler_fn", p)
       EXCEPT !.use = {"MPI_Session_errhandler_function", "c_funloc",
                       "c_funptr"}]

-----------------------------------------------------------------------------
(* Every class, named by the tag its decorator registers it under; the     *)
(* class first registered as COMM_ERRHANDLER_FN is COMM_ERRHANDLER_FN_1348. *)
Catalogue(p) == [
    BUFFER              |-> Buffer("IN", FALSE, TRUE),
    BUFFER_ASYNC        |-> Buffer("IN", TRUE, TRUE),
    BUFFER_OUT          |-> Buffer("NONE", FALSE, TRUE),
    BUFFER_ASYNC_OUT    |-> Buffer("NONE", TRUE, TRUE),
    VBUFFER             |-> Buffer("IN", FALSE, FALSE),
    VBUFFER_OUT         |-> Buffer("NONE", FALSE, FALSE),
    WBUFFER             |-> Buffer("IN", FALSE, FALSE),
    WBUFFER_OUT         |-> Buffer("NONE", FALSE, FALSE),
    C_PTR_OUT           |-> CptrOut,
    COUNT               |-> Count("IN", p),
    COUNT_INOUT         |-> Count("INOUT", p),
    COUNT_OUT           |-> Count("OUT", p),
    PARTITIONED_COUNT   |-> PartitionedCount(p),
    DATATYPE            |-> Handle("MPI_Datatype", "IN", p),
    DATATYPE_OUT        |-> Handle("MPI_Datatype", "OUT", p),
    DATATYPE_INOUT      |-> Handle("MPI_Datatype", "INOUT", p),
    DATATYPE_ARRAY      |-> DatatypeArray(p),
    INT                 |-> IntScalar("IN"),
    INT_OUT             |-> IntScalar("OUT"),
    INT_INOUT           |-> IntScalar("INOUT"),
    RANK                |-> IntScalar("IN"),
    \* RankType(IntOutType) inherits the INT_INOUT class, which rebound the
    \* name IntOutType after the INT_OUT class was defined.
    RANK_OUT            |-> IntScalar("INOUT"),
    TAG                 |-> IntScalar("IN"),
    INDEX_OUT           |-> IntScalar("OUT"),
    LOGICAL             |-> Logical("IN", "SCALAR", TRUE, "merge", "none"),
    LOGICAL_ARRAY       |-> Logical("IN", Interp(p), FALSE, "merge", "none"),
    LOGICAL_OUT         |-> Logical("OUT", "SCALAR", TRUE, "none", "ne0"),
    LOGICAL_ARRAY_OUT   |-> Logical("OUT", Interp(p), FALSE, "merge", "none"),
    COMM                |-> ProjectingHandle("MPI_Comm", "IN", p),
    COMM_OUT            |-> ProjectingHandle("MPI_Comm", "OUT", p),
    COMM_INOUT          |-> ProjectingHandle("MPI_Comm", "INOUT", p),
    GROUP               |-> ProjectingHandle("MPI_Group", "IN", p),
    GROUP_OUT           |-> ProjectingHandle("MPI_Group", "OUT", p),
    GROUP_INOUT         |-> ProjectingHandle("MPI_Group", "INOUT", p),
    SESSION             |-> ProjectingHandle("MPI_Session", "IN", p),
    SESSION_OUT         |-> ProjectingHandle("MPI_Session", "OUT", p),
    SESSION_INOUT       |-> ProjectingHandle("MPI_Session", "INOUT", p),
    STATUS              |-> Status("NONE", p),
    STATUS_OUT          |-> Status("OUT", p),
    STATUS_INOUT        |-> Status("INOUT", p),
    REQUEST             |-> Handle("MPI_Request", "IN", p),
    REQUEST_OUT         |-> Handle("MPI_Request", "OUT", p),
    REQUEST_INOUT       |-> RequestInOut(p),
    REQUEST_ARRAY       |-> RequestArray("IN", p),
    REQUEST_ARRAY_INOUT |-> RequestArray("INOUT", p),
    STATUS_ARRAY        |-> StatusArray(p),
    INT_ARRAY           |-> IntArray("IN", "DEFAULT", "Fint", p),
    INT_ARRAY_OUT       |-> IntArray("OUT", "DEFAULT", "Fint", p),
    INT_ARRAY_INOUT     |-> IntArray("INOUT", "DEFAULT", "Fint", p),
    COUNT_ARRAY         |-> CountArray(p),
    AINT_COUNT_ARRAY    |-> AintCountArray(p),
    AINT                |-> FixedWide("ADDRESS", "MPI_ADDRESS_KIND", "Aint", "IN", p),
    AINT_OUT            |-> FixedWide("ADDRESS", "MPI_ADDRESS_KIND", "Aint", "OUT", p),
    AINT_COUNT          |-> AintCount("IN", p),
    AINT_COUNT_INOUT    |-> AintCount("INOUT", p),
    AINT_COUNT_OUT      |-> AintCount("OUT", p),
    AINT_ARRAY          |-> AintArray(p),
    DISP                |-> Disp("IN", "SCALAR", p),
    DISP_OUT            |-> Disp("OUT", "SCALAR", p),
    DISP_ARRAY          |-> Disp("IN", Size(p), p),
    OP                  |-> Handle("MPI_Op", "IN", p),
    OP_INOUT            |-> [Handle("MPI_Op", "INOUT", p) EXCEPT !.cbind = Int("IN")],
    WIN                 |-> Handle("MPI_Win", "IN", p),
    WIN_OUT             |-> Handle("MPI_Win", "OUT", p),
    WIN_INOUT           |-> Handle("MPI_Win", "INOUT", p),
    FILE                |-> PlainHandle("MPI_File", "IN", p),
    FILE_OUT            |-> [PlainHandle("MPI_File", "OUT", p) EXCEPT !.cbind = Int("OUT")],
    INFO                |-> PlainHandle("MPI_Info", "IN", p),
    INFO_OUT            |-> PlainHandle("MPI_Info", "OUT", p),
    INFO_INOUT          |-> PlainHandle("MPI_Info", "INOUT", p),
    OFFSET              |-> FixedWide("OFFSET", "MPI_OFFSET_KIND", "Offset", "IN", p),
    OFFSET_OUT          |-> FixedWide("OFFSET", "MPI_OFFSET_KIND", "Offset", "OUT", p),
    CHAR_ARRAY          |-> CharArray,
    CHAR_ARRAY_OUT      |-> CharArrayOut(p),
    MESSAGE_OUT         |-> PlainHandle("MPI_Message", "OUT", p),
    MESSAGE_INOUT       |-> PlainHandle("MPI_Message", "INOUT", p),
    ERRHANDLER          |-> Handle("MPI_Errhandler", "IN", p),
    ERRHANDLER_OUT      |-> Handle("MPI_Errhandler", "OUT", p),
    ERRHANDLER_INOUT    |-> Handle("MPI_Errhandler", "INOUT", p),
    COMM_ERRHANDLER_FN_1348 |-> CommErrhandlerFnFirst(p),
    COMM_COPY_ATTR_FN   |-> CallbackFn("MPI_Comm_copy_attr_function", "copy_attr_fn", p),
    TYPE_COPY_ATTR_FN   |-> CallbackFn("MPI_Type_copy_attr_function", "copy_attr_fn", p),
    WIN_COPY_ATTR_FN    |-> CallbackFn("MPI_Win_copy_attr_function", "copy_attr_fn", p),
    COMM_DELETE_ATTR_FN |-> CallbackFn("MPI_Comm_delete_attr_function", "delete_attr_fn", p),
    TYPE_DELETE_ATTR_FN |-> CallbackFn("MPI_Type_delete_attr_function", "delete_attr_fn", p),
    WIN_DELETE_ATTR_FN  |-> CallbackFn("MPI_Win_delete_attr_function", "delete_attr_fn", p),
    COMM_ERRHANDLER_FN  |-> CallbackFn("MPI_Comm_errhandler_function", "errhandler_fn", p),
    FILE_ERRHANDLER_FN  |-> CallbackFn("MPI_File_errhandler_function", "errhandler_fn", p),
    SESSION_ERRHANDLER_FN |-> SessionErrhandlerFn(p),
    WIN_ERRHANDLER_FN   |-> CallbackFn("MPI_Win_errhandler_function", "errhandler_fn", p),
    DATAREP_CONVERSION_FN |-> CallbackFn("MPI_Datarep_conversion_function", "datarep_conversion_fn", p),
    DATAREP_EXTENT_FN   |-> CallbackFn("MPI_Datarep_extent_function", "datarep_extent_fn", p)
  ]

-----------------------------------------------------------------------------
(* The registry: FortranType.TYPES, filled by the @FortranType.add         *)
(* decorators as the module is imported, in source order.                 *)

\* The decorated classes in the order the file defines them.
Registrations == <<
    "BUFFER", "BUFFER_ASYNC", "BUFFER_OUT", "BUFFER_ASYNC_OUT", "VBUFFER",
    "VBUFFER_OUT", "WBUFFER", "WBUFFER_OUT", "C_PTR_OUT", "COUNT",
    "COUNT_INOUT", "COUNT_OUT", "PARTITIONED_COUNT", "DATATYPE",
    "DATATYPE_OUT", "DATATYPE_INOUT", "DATATYPE_ARRAY", "INT", "INT_OUT",
    "INT_INOUT", "RANK", "RANK_OUT", "TAG", "INDEX_OUT", "LOGICAL",
    "LOGICAL_ARRAY", "LOGICAL_OUT", "LOGICAL_ARRAY_OUT", "COMM", "COMM_OUT",
    "COMM_INOUT", "GROUP", "GROUP_OUT", "GROUP_INOUT", "SESSION",
    "SESSION_OUT", "SESSION_INOUT", "STATUS", "STATUS_OUT", "STATUS_INOUT",
    "REQUEST", "REQUEST_OUT", "REQUEST_INOUT", "REQUEST_ARRAY",
    "REQUEST_ARRAY_INOUT", "STATUS_ARRAY", "INT_ARRAY", "INT_ARRAY_OUT",
    "INT_ARRAY_INOUT", "COUNT_ARRAY", "AINT_COUNT_ARRAY", "AINT", "AINT_OUT",
    "AINT_COUNT", "AINT_COUNT_INOUT", "AINT_COUNT_OUT", "AINT_ARRAY", "DISP",
    "DISP_OUT", "DISP_ARRAY", "OP", "OP_INOUT", "WIN", "WIN_OUT",
    "WIN_INOUT", "FILE", "FILE_OUT", "INFO", "INFO_OUT", "INFO_INOUT",
    "OFFSET", "OFFSET_OUT", "CHAR_ARRAY", "CHAR_ARRAY_OUT", "MESSAGE_OUT",
    "MESSAGE_INOUT", "ERRHANDLER", "ERRHANDLER_OUT", "ERRHANDLER_INOUT",
    "COMM_ERRHANDLER_FN_1348", "COMM_COPY_ATTR_FN", "TYPE_COPY_ATTR_FN",
    "WIN_COPY_ATTR_FN", "COMM_DELETE_ATTR_FN", "TYPE_DELETE_ATTR_FN",
    "WIN_DELETE_ATTR_FN", "COMM_ERRHANDLER_FN", "FILE_ERRHANDLER_FN",
    "SESSION_ERRHANDLER_FN", "WIN_ERRHANDLER_FN", "DATAREP_CONVERSION_FN",
    "DATAREP_EXTENT_FN" >>

\* The tag a class's decorator names.
TagOf(cls) == IF cls = "COMM_ERRHANDLER_FN_1348" THEN "COMM_ERRHANDLER_FN"
              ELSE cls

\* Mutant: add() stores the class under its own name, not the tag.
AddByClass(types, cls) ==
    [t \in DOMAIN types \cup {cls} |-> IF t = cls THEN cls ELSE types[t]]

\* Mutant: add() keeps the first class registered under a tag.
AddKeepFirst(types, cls) ==
    IF TagOf(cls) \in DOMAIN types THEN types
    ELSE [t \in DOMAIN types \cup {TagOf(cls)} |->
             IF t = TagOf(cls) THEN cls ELSE types[t]]

\* add(type_name)(class_): cls.TYPES[type_name] = class_, overwriting.
Add(types, cls) ==
    [t \in DOMAIN types \cup {TagOf(cls)} |->
        IF t = TagOf(cls) THEN cls ELSE types[t]]

\* TYPES after the first k decorators have run: every tag one of them names
\* maps to the class of the last of them naming it.
Imported(k) ==
    [tag \in {TagOf(Registrations[j]) : j \in 1..k} |->
        Registrations[CHOOSE j \in 1..k :
                         /\ TagOf(Registrations[j]) = tag
                         /\ \A i \in j + 1..k : TagOf(Registrations[i]) # tag]]

\* The dictionary after the import; Registry checks that the decorators
\* build it.
TYPES == Imported(Len(Registrations))

\* get(type_name): cls.TYPES[type_name], a KeyError for an unknown tag.
Registered(tag) == tag \in DOMAIN TYPES

\* construct(type_name, **kwargs): type_(**kwargs).
Construct(tag, p) == Catalogue(p)[TYPES[tag]]

====
