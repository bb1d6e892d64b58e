-------------------------- MODULE MCObjectCatalog --------------------------
EXTENDS ObjectCatalog, TLC

\* Slots, segments and threads of one kind are interchangeable.
Symmetry == Permutations(Slot) \cup Permutations(Segment)
              \cup Permutations(Writer) \cup Permutations(Reader)
=============================================================================
