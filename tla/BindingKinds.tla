---------------------------- MODULE BindingKinds ----------------------------
(***************************************************************************)
(* The parameters of a generated binding and what the MPI API promises of *)
(* each parameter kind, independently of how the descriptors implement it *)
(* (spec section 4.2): its direction, the values on either side and how a *)
(* value crosses between Fortran and C.                                    *)
(***************************************************************************)
EXTENDS FortranType, FiniteSets

CONSTANTS
    Threads,     \* the application threads calling the binding
    Requests,    \* the [tag, count_param] pairs the driver may pass
    Modes,       \* the [bigcount, gen_f90] variants it generates
    MaxParams,   \* the longest parameter list of a generated function
    Data,        \* values of non-logical, non-procedure arguments
    Procs,       \* procedures passed to callback parameters
    Undef        \* the value of an undefined variable

ASSUME ConstantsAssumption ==
    /\ IsFiniteSet(Threads) /\ Threads # {}
    /\ Requests \subseteq [tag : STRING, count_param : CountParams]
    /\ Modes \subseteq [bigcount : BOOLEAN, gen_f90 : BOOLEAN] /\ Modes # {}
    /\ MaxParams \in Nat \ {0}
    /\ Undef \notin Data \cup Procs \cup BOOLEAN \cup Nat

(* What the API promises of each kind (spec section 4.2): its direction,   *)
(* the values on either side and how a value crosses.                      *)

OutTags == {"BUFFER_OUT", "BUFFER_ASYNC_OUT", "VBUFFER_OUT", "WBUFFER_OUT",
            "C_PTR_OUT", "COUNT_OUT", "DATATYPE_OUT", "INT_OUT", "RANK_OUT",
            "INDEX_OUT", "LOGICAL_OUT", "LOGICAL_ARRAY_OUT", "COMM_OUT",
            "GROUP_OUT", "SESSION_OUT", "STATUS", "STATUS_OUT",
            "REQUEST_OUT", "STATUS_ARRAY", "INT_ARRAY_OUT", "AINT_OUT",
            "AINT_COUNT_OUT", "DISP_OUT", "WIN_OUT", "FILE_OUT", "INFO_OUT",
            "OFFSET_OUT", "CHAR_ARRAY_OUT", "MESSAGE_OUT", "ERRHANDLER_OUT"}
InOutTags == {"COUNT_INOUT", "DATATYPE_INOUT", "INT_INOUT", "COMM_INOUT",
              "GROUP_INOUT", "SESSION_INOUT", "STATUS_INOUT",
              "REQUEST_INOUT", "REQUEST_ARRAY_INOUT", "INT_ARRAY_INOUT",
              "AINT_COUNT_INOUT", "OP_INOUT", "WIN_INOUT", "INFO_INOUT",
              "MESSAGE_INOUT", "ERRHANDLER_INOUT"}
LogicalTags == {"LOGICAL", "LOGICAL_ARRAY", "LOGICAL_OUT", "LOGICAL_ARRAY_OUT"}
CallbackTags == {"COMM_COPY_ATTR_FN", "TYPE_COPY_ATTR_FN", "WIN_COPY_ATTR_FN",
                 "COMM_DELETE_ATTR_FN", "TYPE_DELETE_ATTR_FN",
                 "WIN_DELETE_ATTR_FN", "COMM_ERRHANDLER_FN",
                 "FILE_ERRHANDLER_FN", "SESSION_ERRHANDLER_FN",
                 "WIN_ERRHANDLER_FN", "DATAREP_CONVERSION_FN",
                 "DATAREP_EXTENT_FN"}

Role(tag) == IF tag \in OutTags THEN "OUT"
             ELSE IF tag \in InOutTags THEN "INOUT" ELSE "IN"
Reads(tag)  == Role(tag) # "OUT"
Writes(tag) == Role(tag) # "IN"

\* The caller's values, and the values the C side stores back.
CallerValues(tag) == IF tag \in LogicalTags THEN BOOLEAN
                     ELSE IF tag \in CallbackTags THEN Procs ELSE Data
CValues(tag) == IF tag \in LogicalTags THEN 0..2 ELSE Data

\* What a caller passes for a parameter: nothing defined for an output.
ArgsFor(tag) == IF Role(tag) = "OUT" THEN {Undef} ELSE CallerValues(tag)

\* Every value a caller passes or C stores.
ArgUniverse   == BOOLEAN \cup Procs \cup Data \cup {Undef}
StoreUniverse == (0..2) \cup Data

\* What C must receive for a caller value: 1/0 for a logical, the
\* procedure's C address for a callback, a NUL-terminated string for an
\* input string, the value itself otherwise.
Encode(tag, v) ==
    IF tag \in LogicalTags THEN (IF v THEN 1 ELSE 0)
    ELSE IF tag \in CallbackTags THEN <<"funloc", v>>
    ELSE IF tag = "CHAR_ARRAY" THEN <<v, "NUL">>
    ELSE v

\* What the caller must see for a value C stored: nonzero is .TRUE.
Decode(tag, w) == IF tag \in LogicalTags THEN w # 0 ELSE w

====
