--------------------------- MODULE MCScheduledPods ---------------------------
EXTENDS ScheduledPods

\* One section or none, since the schema refuses both.
OneSection == {{}, {"devicePlugin"}, {"dra"}}

\* A section is added or taken away; another takes its place in two edits, or
\* in one.
InTwoEdits == {e \in OneSection \X OneSection : {} \in {e[1], e[2]}}

InOneEdit == OneSection \X OneSection
=============================================================================
