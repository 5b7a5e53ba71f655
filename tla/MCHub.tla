------------------------------- MODULE MCHub -------------------------------
EXTENDS Hub

MCTrimSuffix == [k \in RawKernels \cup {EmptyKernel} |-> IF k = "k1+" THEN "k1" ELSE k]

MCKernels == {MCTrimSuffix[k] : k \in DOMAIN MCTrimSuffix}

Image(i, sections) == [image |-> i, sections |-> sections]

\* A regexp that matches every kernel, the empty one too, with an image per
\* kernel that is built.
PerKernel == [k \in MCKernels |->
    CASE k = "k1" -> Image("x1", TRUE) [] k = "k2" -> Image("x2", TRUE) [] OTHER -> Failed]

\* One image for k1 and k2, which is not built.
Shared == [k \in MCKernels |-> IF k = EmptyKernel THEN NoMatch ELSE Image("y", FALSE)]

\* A regexp that matches k1, which is built, and the empty version.
OnlyK1 == [PerKernel EXCEPT !["k2"] = NoMatch]

MCSpecs == {Shared, OnlyK1}

OneSpec == {PerKernel}
=============================================================================
