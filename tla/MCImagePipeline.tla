-------------------------- MODULE MCImagePipeline --------------------------
(* Constants of the instances of ImagePipeline.                            *)
EXTENDS ImagePipeline

S(b, s, k) == [build |-> b, sign |-> s, skip |-> k]

\* Revision 1 of a section fails, revision 2 works.
GoodRevsDef == {2}

\* Images to be waited for, checked, built, signed, and built and signed.
AllSpecs == {S(0, 0, FALSE), S(0, 0, TRUE), S(1, 0, FALSE), S(2, 0, FALSE),
             S(0, 2, FALSE), S(2, 2, FALSE)}

\* An image leaves or joins the Module, a section that fails is repaired, or one
\* is dropped.
RepairEdits == {<<None, S(2, 2, FALSE)>>} \cup (AllSpecs \X {None})
               \cup {<<S(1, 0, FALSE), S(2, 0, FALSE)>>, <<S(2, 2, FALSE), S(2, 0, FALSE)>>}

FewSpecs == {S(1, 0, FALSE), S(2, 0, FALSE), S(2, 2, FALSE)}
FewEdits == {<<S(1, 0, FALSE), S(2, 0, FALSE)>>, <<S(2, 2, FALSE), None>>}
=============================================================================
