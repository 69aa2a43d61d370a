----------------------------- MODULE MCCrawler -----------------------------
(***************************************************************************)
(* Small sites for Crawler: a root, pages of its host that may be followed, *)
(* and links that may not be: another host's, and one that an exclude      *)
(* pattern matches.                                                        *)
(***************************************************************************)
EXTENDS Crawler, TLC

CONSTANTS
    MaxLinks,   \* bound on the links of a page
    Inside      \* the pages this instance's options let a crawl follow

\* The links a page may have in these instances: at most MaxLinks that may be
\* followed or lead back to the root, and all of those that may not be.
Barred == Pages \ (Inside \cup {Root})
FewLinks ==
    {S \cup Barred : S \in {T \in SUBSET (Inside \cup {Root}) :
                                Cardinality(T) <= MaxLinks}}

\* Reference: the pages within d links of the root.
Within[d \in 0..Depth] ==
    IF d = 0 THEN {Root}
    ELSE Within[d - 1] \cup
         (Inside \cap UNION {links[u] : u \in Within[d - 1]})

\* A crawl of a site whose pages all load, ended neither by the context nor
\* by the page limit, has visited exactly the pages of the reference.
ExactlyReachable ==
    at = "done" /\ ~expired /\ scraped = Len(summary) /\ scraped < Limit =>
        visited = Within[Depth]

=============================================================================
