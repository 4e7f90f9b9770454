--------------------------- MODULE MCFlatlandWorld ---------------------------
(* FlatlandWorld on a small world, for TLC.                                *)
EXTENDS FlatlandWorld, TLC

CONSTANTS p1, p2, m1, m2, full, twice, throws, off, broken, unlisted, oddname, oddkey

On(type) == [type |-> type, enabled |-> TRUE]
Off(type) == [type |-> type, enabled |-> FALSE]

PluginLists == (full   :> <<On("Bumper"), On("BoolSensor")>>)
            @@ (twice  :> <<On("Bumper"), On("Bumper")>>)
            @@ (throws :> <<On("BoolSensor"), On("Faulty")>>)
            @@ (off    :> <<Off("Bumper"), On("BoolSensor")>>)
            @@ (oddkey :> <<On("BoolSensor"), On("OddKey")>>)
            @@ (broken :> <<>>) @@ (unlisted :> <<>>) @@ (oddname :> <<>>)
MCPlugins == [file \in Files |-> PluginLists[file]]

Symmetry == Permutations(Ptrs)
=============================================================================
