----------------------------- MODULE MCProducts -----------------------------
EXTENDS Products, TLC
Symmetry == Permutations(Procs) \cup Permutations(Ch)
MCRateModes == {5000000}
MCRanges == {<<-5000, 5000>>}
MCInputs == {[rate |-> 156250, range |-> [c \in Ch |-> <<0, 5000>>]],
             [rate |-> 7, range |-> [c \in Ch |-> <<0, 5000>>]]}
MCOutputs == {[wave |-> 3, volt |-> 5120, freq |-> 0]}
MCTimings == {[seg |-> 1, brp |-> 1], [seg |-> 258, brp |-> 1024]}
MCTriggers == {[enable |-> TRUE, logic |-> 1, id |-> 2308]}
MCFrames == {{"RTR", "EFF"}}
=============================================================================
