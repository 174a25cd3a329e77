--------------------------- MODULE MCBindingCall ---------------------------
(* Instances of BindingCall for TLC: the requested kinds, the generation   *)
(* modes and the values callers pass.                                      *)
EXTENDS BindingCall

CONSTANTS t1, t2, d1, d2, f1, f2

MCData  == {d1, d2}
MCProcs == {f1, f2}

\* Every tag the registry knows, and one it does not.
AllTags == DOMAIN TYPES \cup {"BOGUS"}

ModernModes == [bigcount : BOOLEAN, gen_f90 : {FALSE}]
LegacyModes == [bigcount : BOOLEAN, gen_f90 : {TRUE}]

\* count_param absent, a dummy name, and a named length constant.
MCCountParams == {None, "n", "MPI_MAX_OBJECT_NAME"}

Req(tags, cps) == [tag : tags, count_param : cps]

\* Kinds that emit "(None)" when constructed without count_param.
InterpolatingTags == {"LOGICAL_ARRAY", "LOGICAL_ARRAY_OUT", "REQUEST_ARRAY",
                      "REQUEST_ARRAY_INOUT"}

\* The kinds whose descriptors disagree with the spec in any mode.
DefectiveTags == {"RANK_OUT", "OP_INOUT", "LOGICAL_ARRAY_OUT", "FILE_OUT"}

\* The handle kinds whose gen_f90 variant disagrees with itself.
LegacyDefectiveTags ==
    {"COMM", "COMM_OUT", "COMM_INOUT", "GROUP", "GROUP_OUT", "GROUP_INOUT",
     "SESSION", "SESSION_OUT", "SESSION_INOUT", "REQUEST_INOUT",
     "REQUEST_ARRAY_INOUT"}

\* The whole catalogue less the defective kinds, with every count_param
\* the kind takes without emitting "(None)".
CatalogueRequests(bad) ==
    Req(AllTags \ bad, MCCountParams) \ Req(InterpolatingTags, {None})

ModernRequests == CatalogueRequests(DefectiveTags)
LegacyRequests == CatalogueRequests(DefectiveTags \cup LegacyDefectiveTags)

\* A handful of kinds with every kind of argument path: a logical through an
\* automatic temporary, a callback through c_funloc, a NUL-terminated
\* string, a handle through %MPI_VAL, a written count and a buffer.
ConcurrentRequests ==
    Req({"LOGICAL_ARRAY", "COMM_COPY_ATTR_FN", "CHAR_ARRAY", "REQUEST_INOUT",
         "COUNT_OUT", "BUFFER"}, {"n"})

\* The concurrent run's kinds meet the delivery contract in every mode, and
\* across the catalogue exactly the three logical classes with a SAVEd
\* temporary or without post() do not.
ASSUME ConcurrentContract ==
    /\ \A r \in ConcurrentRequests, m \in ModernModes \cup LegacyModes :
          DeliveryContract(Construct(r.tag, ParamsOf(r, m)), r.tag)
    /\ {r.tag : r \in {r \in Req(DOMAIN TYPES, MCCountParams) :
                        \E m \in ModernModes \cup LegacyModes :
                           ~DeliveryContract(Construct(r.tag, ParamsOf(r, m)),
                                             r.tag)}}
       = {"LOGICAL", "LOGICAL_OUT", "LOGICAL_ARRAY_OUT"}

\* Requests of the violation runs.
SavedLogicalInRequests == Req({"LOGICAL"}, {None})
SavedLogicalRequests   == Req({"LOGICAL_OUT"}, {None})
LogicalArrayOutRequests == Req({"LOGICAL_ARRAY_OUT"}, {"n"})
IntentRequests         == Req({"RANK_OUT", "OP_INOUT"}, {None})
\* One handle kind per kind of ABI defect: FILE_OUT (mpi_f08), COMM and
\* REQUEST_INOUT (gen_f90).
HandleAbiRequests      == Req({"FILE_OUT", "COMM", "REQUEST_INOUT"}, {None})
AllModes               == ModernModes \cup LegacyModes
NoCountRequests        == Req({"LOGICAL_ARRAY"}, {None})
====
