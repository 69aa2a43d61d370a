----------------------------- MODULE MCHeaders -----------------------------
(***************************************************************************)
(* All pages of a given number of nodes, with elements of a few levels and *)
(* few different texts.                                                    *)
(***************************************************************************)
EXTENDS Headers

CONSTANTS
    Length,     \* nodes of a page
    Levels,     \* levels of its headers
    Words       \* its texts

ASSUME WordsAssumption == NoText \notin Words

\* How deep each node is, in document order.
Depths ==
    {d \in [1..Length -> 1..Length] :
        d[1] = 1 /\ \A i \in 2..Length : d[i] <= d[i - 1] + 1}

SmallOutlines ==
    {[i \in 1..Length |->
        CHOOSE k \in i..Length : /\ \A j \in (i + 1)..k : d[j] > d[i]
                                 /\ k < Length => d[k + 1] <= d[i]] : d \in Depths}

\* 9 stands for every tag that is neither a header's nor <h0>.
SmallLabels ==
    [level : Levels \cup {9}, text : {NoText}] \cup [level : {9}, text : Words]

=============================================================================
