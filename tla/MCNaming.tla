------------------------------ MODULE MCNaming ------------------------------
(* Instances of Naming: a logical (INTEGER temporary), a callback         *)
(* (c_funptr temporary) and an integer (no temporary), in both gen_f90    *)
(* variants.                                                              *)
EXTENDS Naming

MCKinds    == {"LOGICAL", "COMM_COPY_ATTR_FN", "INT"}
MCVariants == [bigcount : {FALSE}, gen_f90 : BOOLEAN, count_param : {None}]

\* Names that share a prefix or contain "_i_" without being another
\* name's temporary or counter.
PlainNames     == {"x", "x_i", "y"}
\* A parameter named like another parameter's temporary.
CollidingNames == {"x", "c_x"}

\* The plain names are fresh for one another, the colliding ones are not:
\* "c_x" is the tmp_name of "x".
ASSUME NamesFreshness ==
    NamesFresh(PlainNames) /\ ~NamesFresh(CollidingNames)
====
