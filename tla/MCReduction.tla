---------------------------- MODULE MCReduction ----------------------------
(***************************************************************************)
(* An instance of Reduction for TLC: a folder with a file and a folder     *)
(* with a file in it, beside a folder with a file.                         *)
(***************************************************************************)
EXTENDS Reduction

MCDirs == {<<1>>, <<1, 1>>, <<2>>}
MCSlots == {<<1, 1, 1>>, <<1, 2>>, <<2, 1>>}
MCBatches == {{<<1>>, <<2>>}, {<<1, 1>>, <<1, 2>>}, {<<1, 1, 1>>}, {<<2, 1>>}}

\* Three files, two of them under any two names, or one under all three.
MCLinkings ==
    {[s \in MCSlots |-> CASE s = <<1, 1, 1>> -> 1 [] s = <<1, 2>> -> b [] s = <<2, 1>> -> c] :
        <<b, c>> \in {<<1, 1>>, <<1, 2>>, <<2, 1>>, <<2, 2>>, <<2, 3>>}}

\* Seven runs of one record each, in any order: enough for the last merge to take
\* more than one round.
ASSUME TieredMergeSorts ==
    LET Record(k) == [key |-> <<k>>]
        Accept(levels, k) == AcceptInputRun(levels, {Record(k)})
    IN  \A order \in Permutations(1..7) :
            MergeTieredFamily(FoldLeft(Accept, NoRuns, order)) = [k \in 1..7 |-> Record(k)]

MCBytes(f) == 2 ^ (f - 1)
=============================================================================
