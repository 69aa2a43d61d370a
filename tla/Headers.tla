------------------------------ MODULE Headers ------------------------------
(***************************************************************************)
(* The extractor cuts a page into modules, one for each header: all the    *)
(* text from the header to the next one of the same or a higher level.     *)
(* Where a module ends is computed twice, by findNextBoundary from the     *)
(* list of all headers and, this is what counts, by                        *)
(* extractContentBetweenHeaders while it goes through the elements that    *)
(* share the header's parent.                                              *)
(***************************************************************************)
EXTENDS Integers, Sequences, FiniteSets

CONSTANTS
    Outlines,   \* the trees of pages: for each node the last one inside it
    Labels,     \* what a node may be: an element or a text
    NoText      \* the text of an element, which has none of its own

\* Document order: an element is followed by the nodes inside it.
ASSUME OutlineAssumption ==
    \A d \in Outlines :
        /\ Len(d) \in Nat
        /\ DOMAIN d = 1..Len(d)
        /\ \A i \in DOMAIN d : /\ d[i] \in i..Len(d)
                              /\ \A k \in i..d[i] : d[k] <= d[i]
ASSUME LabelAssumption == \A l \in Labels : l.level \in Nat

VARIABLES
    page,       \* the elements and texts of the page in document order
    at,         \* "find", "loop" or "done"
    todo,       \* the headers the loop has not come to
    modules     \* the modules: the header and the texts of the content

vars == <<page, at, todo, modules>>

\* A node: its text if it is one, NoText if it is an element; the digit after
\* the h of a tag with two letters, a greater number for every other tag; the
\* last node inside it, itself if it has none.
Nodes == DOMAIN page
Texts == {i \in Nodes : page[i].text # NoText}
Elements == Nodes \ Texts
Inside(i) == i..page[i].last

\* What Text() returns: the texts in the element, those of the elements
\* inside it included.
TextsIn(i) == Inside(i) \cap Texts
TextOf(p, i) ==
    SelectSeq([k \in 1..(p[i].last - i + 1) |-> p[i + k - 1].text],
              LAMBDA t : t # NoText)
Text(i) == TextOf(page, i)

\* Everything inside the innermost element around h, and the elements among
\* it: Parent().Elements("*") returns no text nodes.
Around(h) == {p \in Elements : p < h /\ h \in Inside(p)}
ParentNodes(h) ==
    IF Around(h) = {} THEN Nodes
    ELSE LET parent == CHOOSE p \in Around(h) : \A q \in Around(h) : q <= p
         IN  Inside(parent) \ {parent}
ParentElements(h) == ParentNodes(h) \cap Elements

\* findAllHeaders
IsHeader(i) == page[i].level \in 1..6
Headers == {i \in Elements : IsHeader(i)}

-----------------------------------------------------------------------------
(* Where a section ends.                                                   *)

\* findNextBoundary: the first header after h of the same or a higher level;
\* the position after the page stands for -1.
FindNextBoundary(h) ==
    LET Closing == {i \in Headers : i > h /\ page[i].level <= page[h].level}
    IN  IF Closing = {} THEN Len(page) + 1
        ELSE CHOOSE i \in Closing : \A k \in Closing : i <= k

\* Mutant of Ends: only a higher level ends a section.
EndsHigher(i, h) == page[i].level < page[h].level

\* Mutant of Ends: only the same level ends a section.
EndsSame(i, h) == page[i].level = page[h].level

\* The stopping condition looks at the tag: <h0>, which findAllHeaders does
\* not know, stops it as well.
Ends(i, h) == page[i].level <= page[h].level

\* extractContentBetweenHeaders: the header is found again by its text, the
\* content begins with the element after that, and goes on to the first
\* element that ends the section.  The whole text of each element on the way
\* is written, also what lies beyond the end of the section.
Found(i, h) == \E k \in ParentElements(h) : k < i /\ Text(k) = Text(h)
Ended(i, h) == \E k \in ParentElements(h) : k <= i /\ Found(k, h) /\ Ends(k, h)

Collected(h) == {i \in ParentElements(h) : Found(i, h) /\ ~Ended(i, h)}
Content(h) == UNION {TextsIn(i) : i \in Collected(h)}

-----------------------------------------------------------------------------

Module(h, content) == [header |-> h, content |-> content]

\* Mutant of Added: empty modules are kept.
AddedAlways(m) == modules' = Append(modules, m)

Added(m) ==
    modules' = IF m.content = {} THEN modules ELSE Append(modules, m)

\* A page without headers is a single module: the text of its body.
SingleModule ==
    /\ at = "find"
    /\ Headers = {}
    /\ Added(Module(0, Texts))
    /\ at' = "done"
    /\ UNCHANGED <<page, todo>>

FindHeaders ==
    /\ at = "find"
    /\ Headers # {}
    /\ todo' = Headers
    /\ at' = "loop"
    /\ UNCHANGED <<page, modules>>

\* Mutant of IsNext: the loop ends before the last header.
IsNextButOne(h) == \E k \in todo : k > h /\ \A i \in todo : h <= i

IsNext(h) == \A i \in todo : h <= i

ExtractModule(h) ==
    /\ at = "loop"
    /\ IsNext(h)
    /\ Added(Module(h, Content(h)))
    /\ todo' = todo \ {h}
    /\ UNCHANGED <<page, at>>

Finish ==
    /\ at = "loop"
    /\ ~\E h \in todo : IsNext(h)
    /\ at' = "done"
    /\ UNCHANGED <<page, todo, modules>>

Init ==
    /\ \E d \in Outlines : \E l \in [DOMAIN d -> Labels] :
          /\ \A i \in DOMAIN d : l[i].text # NoText => d[i] = i
          /\ page = [i \in DOMAIN d |-> [level |-> l[i].level,
                                        text |-> l[i].text, last |-> d[i]]]
    /\ at = "find"
    /\ todo = {}
    /\ modules = <<>>

Next == SingleModule \/ FindHeaders \/ (\E h \in todo : ExtractModule(h)) \/ Finish

Spec == Init /\ [][Next]_vars

-----------------------------------------------------------------------------
(* Properties.                                                             *)

\* Every module stands for a header, or for the page, and has content.
TypeOK ==
    /\ at \in {"find", "loop", "done"}
    /\ todo \subseteq Headers
    /\ modules \in Seq([header : Headers \cup {0},
                       content : (SUBSET Texts) \ {{}}])

Extracted == {modules[k] : k \in DOMAIN modules}

\* No element before h that has the same parent shows the same text, and
\* nothing ends a section but headers.
Unmistaken(h) ==
    /\ \A k \in ParentElements(h) : k < h => Text(k) # Text(h)
    /\ \A i \in Elements : page[i].level # 0

\* Text t is in an element beside header h: neither bare in their parent nor
\* bare in the header.
InElementBeside(t, h) == \E e \in ParentElements(h) \ {h} : t \in Inside(e)

\* Text t lies beyond b, in an element of the section of h that holds b.
Overhangs(t, h, b) ==
    \E e \in ParentElements(h) : h < e /\ e < b /\ {b, t} \subseteq Inside(e)

\* What the content has to do with the boundary that findNextBoundary finds
\* in the whole page: no text is from before the header, none is from beyond
\* the boundary except the rest of an element that holds the boundary, and
\* what lies between and is in an element beside the header is there.
SectionIsBetween ==
    \A m \in Extracted :
        LET h == m.header
            b == FindNextBoundary(h)
        IN  h # 0 /\ Unmistaken(h) =>
              /\ \A t \in m.content :
                    h < t /\ (t < b \/ Overhangs(t, h, b))
              /\ \A t \in Texts :
                    h < t /\ t < b /\ InElementBeside(t, h) => t \in m.content

\* Sections of one parent lie within each other or apart: a section that
\* holds a header's text holds all of that header's section, and no other
\* text is in two of them, overhanging texts included.
SectionsNest ==
    \A m, n \in Extracted :
        /\ m.header # 0 /\ m.header < n.header
        /\ ParentElements(m.header) = ParentElements(n.header)
        /\ Unmistaken(m.header) /\ Unmistaken(n.header)
        /\ TextsIn(n.header) # {}
        => IF TextsIn(n.header) \subseteq m.content
           THEN n.content \subseteq m.content
           ELSE n.content \cap m.content = {}

\* Which texts cannot be lost: all of a page without headers, and those in an
\* element beside the last header before them.  Others may be: text before the
\* first header, text bare in the parent of its header, text outside that
\* parent, and text after a header that repeats an earlier text.
TextIsKept ==
    at = "done" =>
        \A t \in Texts :
            \/ Headers = {}
            \/ \E h \in Headers : /\ h < t /\ \A k \in Headers : k < t => k <= h
                                  /\ Unmistaken(h)
                                  /\ InElementBeside(t, h)
            => \E m \in Extracted : t \in m.content

=============================================================================
