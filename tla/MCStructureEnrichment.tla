----------------------- MODULE MCStructureEnrichment -----------------------
(***************************************************************************)
(* Three ids, acquired by plans that share chunks, that slice the same ids *)
(* otherwise, or that want fewer of them.                                  *)
(***************************************************************************)
EXTENDS StructureEnrichment

MCPlans == {Slices(<<1, 2, 3>>, 2), Slices(<<1, 2, 3>>, 1), Slices(<<1, 2>>, 2)}

MCAnswers ==
    [docs : {{}, {1}, {2}, {1, 2}, {3}, {1, NoId}, {1, Foreign}}, duplicated : BOOLEAN]
=============================================================================
