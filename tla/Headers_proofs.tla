--------------------------- MODULE Headers_proofs ---------------------------
(***************************************************************************)
(* The two computations of a section agree, on pages of any size.          *)
(***************************************************************************)
EXTENDS Headers, WellFoundedInduction, TLAPS

-----------------------------------------------------------------------------
(* Least and greatest elements, which the two CHOOSEs of the model pick.   *)

Less == {p \in Nat \X Nat : p[1] < p[2]}

LEMMA LessWellFounded == IsWellFoundedOn(Less, Nat)
  BY NatLessThanWellFounded DEF OpToRel, Less

LEMMA Least ==
  ASSUME NEW S \in SUBSET Nat, S # {}
  PROVE  \E x \in S : \A y \in S : x <= y
<1>1. PICK x \in S : \A y \in S : <<y, x>> \notin Less
  BY LessWellFounded, WFMin
<1>2. \A y \in S : /\ <<y, x>>[1] = y /\ <<y, x>>[2] = x
                   /\ <<y, x>> \in Nat \X Nat
  OBVIOUS
<1>3. \A y \in S : ~(y < x)
  BY <1>1, <1>2 DEF Less
<1> QED
  BY <1>3

LEMMA Greatest ==
  ASSUME NEW n \in Nat, NEW S \in SUBSET (0..n), S # {}
  PROVE  \E x \in S : \A y \in S : y <= x
<1> DEFINE D == {n - x : x \in S}
<1>1. D \in SUBSET Nat /\ D # {}
  OBVIOUS
<1>2. PICK d \in D : \A e \in D : d <= e
  <2> HIDE DEF D
  <2> QED
    BY <1>1, Least
<1>3. PICK x \in S : d = n - x
  OBVIOUS
<1>4. \A y \in S : n - x <= n - y
  BY <1>2, <1>3
<1> QED
  BY <1>4

-----------------------------------------------------------------------------
(* What the proofs use of a page.                                          *)

IsPage ==
  /\ Len(page) \in Nat
  /\ Nodes = 1..Len(page)
  /\ \A i \in Nodes : /\ page[i].level \in Nat
                      /\ page[i].last \in i..Len(page)

LEMMA InitIsPage == Init => IsPage
<1> SUFFICES ASSUME Init PROVE IsPage
  OBVIOUS
<1>0. PICK d \in Outlines : \E l \in [DOMAIN d -> Labels] :
         page = [i \in DOMAIN d |-> [level |-> l[i].level,
                                    text |-> l[i].text, last |-> d[i]]]
  BY DEF Init
<1>1. PICK l \in [DOMAIN d -> Labels] :
         page = [i \in DOMAIN d |-> [level |-> l[i].level,
                                    text |-> l[i].text, last |-> d[i]]]
  BY <1>0
<1>2. Len(d) \in Nat /\ DOMAIN d = 1..Len(d)
  BY OutlineAssumption
<1>3. \A i \in DOMAIN d : d[i] \in i..Len(d) /\ l[i].level \in Nat
  BY OutlineAssumption, LabelAssumption
<1>4. /\ DOMAIN page = 1..Len(d)
      /\ \A i \in 1..Len(d) : page[i].level = l[i].level /\ page[i].last = d[i]
  BY <1>1, <1>2
<1>5. Len(page) = Len(d)
  BY <1>1, <1>2
<1> QED
  BY <1>2, <1>3, <1>4, <1>5 DEF IsPage, Nodes

\* The nodes around a header are consecutive, and its parent is innermost: no
\* element before the header among them holds it.
LEMMA ParentIsInterval ==
  ASSUME IsPage, NEW h \in Elements
  PROVE  /\ \E a, b \in Nat : /\ ParentNodes(h) = a..b
                              /\ h \in a..b
                              /\ a..b \subseteq Nodes
         /\ \A e \in ParentElements(h) : e < h => h \notin Inside(e)
<1>1. /\ Len(page) \in Nat
      /\ Nodes = 1..Len(page)
      /\ Elements \subseteq Nodes
      /\ \A i \in Nodes : page[i].last \in i..Len(page)
  BY DEF IsPage, Elements
<1>2. CASE Around(h) = {}
  <2>1. ParentNodes(h) = 1..Len(page)
    BY <1>1, <1>2 DEF ParentNodes
  <2>2. \A e \in ParentElements(h) : e < h => h \notin Inside(e)
    BY <1>2 DEF ParentElements, Around
  <2> QED
    BY <1>1, <2>1, <2>2
<1>3. CASE Around(h) # {}
  <2> DEFINE parent == CHOOSE p \in Around(h) : \A q \in Around(h) : q <= p
  <2>1. Around(h) \in SUBSET (0..Len(page))
    <3>1. Around(h) \subseteq 1..Len(page)
      BY <1>1 DEF Around
    <3> QED
      BY <1>1, <3>1
  <2>2. \E p \in Around(h) : \A q \in Around(h) : q <= p
    BY <1>1, <1>3, <2>1, Greatest
  <2>3. parent \in Around(h) /\ \A q \in Around(h) : q <= parent
    BY <2>2
  <2>4. /\ parent \in 1..Len(page) /\ parent < h
        /\ h \in parent..page[parent].last
        /\ page[parent].last \in parent..Len(page)
    BY <1>1, <2>3 DEF Around, Inside
  <2>5. ParentNodes(h) = (parent..page[parent].last) \ {parent}
    BY <1>3 DEF ParentNodes, Inside
  <2> HIDE DEF parent
  <2>6. ParentNodes(h) = (parent + 1)..page[parent].last
    BY <1>1, <2>4, <2>5
  <2>7. ASSUME NEW e \in ParentElements(h), e < h, h \in Inside(e) PROVE FALSE
    <3>1. e \in Around(h)
      BY <2>7 DEF ParentElements, Around
    <3>2. e <= parent /\ e \in (parent + 1)..page[parent].last
      BY <2>3, <2>6, <3>1 DEF ParentElements
    <3> QED
      BY <1>1, <2>4, <3>2
  <2>8. /\ parent + 1 \in Nat /\ page[parent].last \in Nat
        /\ h \in (parent + 1)..page[parent].last
        /\ (parent + 1)..page[parent].last \subseteq Nodes
    BY <1>1, <2>4
  <2> QED
    BY <2>6, <2>7, <2>8
<1> QED
  BY <1>2, <1>3

LEMMA BoundaryIsFirst ==
  ASSUME IsPage, NEW h \in Headers, \A k \in Elements : page[k].level # 0
  PROVE  /\ FindNextBoundary(h) \in Nat
         /\ \A i \in Nodes : h < i =>
              (i < FindNextBoundary(h) <=>
                 ~\E k \in Elements : h < k /\ k <= i /\ Ends(k, h))
<1> DEFINE Closing == {k \in Headers : k > h /\ page[k].level <= page[h].level}
<1>1. /\ Len(page) \in Nat /\ Nodes = 1..Len(page)
      /\ Elements \subseteq Nodes /\ Headers \subseteq Elements
      /\ \A k \in Elements : page[k].level \in Nat
  BY DEF IsPage, Elements, Headers
<1>2. \A k \in Elements : k \in Closing <=> h < k /\ Ends(k, h)
  BY <1>1 DEF Ends, Headers, IsHeader
<1>3. CASE Closing = {}
  <2>1. FindNextBoundary(h) = Len(page) + 1
    BY <1>3 DEF FindNextBoundary
  <2> QED
    BY <1>1, <1>2, <1>3, <2>1
<1>4. CASE Closing # {}
  <2> DEFINE b == CHOOSE k \in Closing : \A j \in Closing : k <= j
  <2>1. FindNextBoundary(h) = b
    BY <1>4 DEF FindNextBoundary
  <2>2. Closing \in SUBSET Elements
    BY <1>1
  <2> HIDE DEF Closing
  <2>3. \E k \in Closing : \A j \in Closing : k <= j
    BY <1>1, <1>4, <2>2, Least
  <2>4. b \in Closing /\ \A j \in Closing : b <= j
    BY <2>3
  <2> HIDE DEF b
  <2>5. b \in Nat /\ \A i \in Nodes : i < b <=> ~\E k \in Closing : k <= i
    BY <1>1, <2>2, <2>4
  <2> QED
    BY <1>2, <2>1, <2>2, <2>5
<1> QED
  BY <1>3, <1>4

-----------------------------------------------------------------------------

\* Where no earlier text misleads it, the walk through the parent's elements
\* collects those between the header and its boundary.
LEMMA CollectedIsBetween ==
  ASSUME IsPage, NEW h \in Headers, Unmistaken(h)
  PROVE  Collected(h) = {i \in ParentElements(h) :
                           h < i /\ i < FindNextBoundary(h)}
<1>1. /\ Headers \subseteq Elements /\ Elements \subseteq Nodes
      /\ Nodes \subseteq Nat
  BY DEF IsPage, Elements, Headers
<1>2. PICK a \in Nat, b \in Nat : /\ ParentNodes(h) = a..b
                                  /\ h \in a..b
                                  /\ a..b \subseteq Nodes
  BY <1>1, ParentIsInterval
<1>3. /\ \A i : i \in ParentElements(h) <=> i \in a..b /\ i \in Elements
      /\ h \in ParentElements(h)
  BY <1>1, <1>2 DEF ParentElements
<1>4. \A i \in ParentElements(h) : Found(i, h) <=> h < i
  BY <1>1, <1>3 DEF Found, Unmistaken
<1>5. \A i \in ParentElements(h) : Ended(i, h) <=>
        \E k \in Elements : h < k /\ k <= i /\ Ends(k, h)
  <2> TAKE i \in ParentElements(h)
  <2>1. ASSUME Ended(i, h)
        PROVE  \E k \in Elements : h < k /\ k <= i /\ Ends(k, h)
    BY <1>3, <1>4, <2>1 DEF Ended
  <2>2. ASSUME NEW k \in Elements, h < k, k <= i, Ends(k, h)
        PROVE  Ended(i, h)
    <3>1. k \in ParentElements(h)
      BY <1>1, <1>2, <1>3, <2>2
    <3> QED
      BY <1>4, <2>2, <3>1 DEF Ended
  <2> QED
    BY <2>1, <2>2
<1>6. \A i \in ParentElements(h) :
         h < i => (~Ended(i, h) <=> i < FindNextBoundary(h))
  BY <1>1, <1>3, <1>5, BoundaryIsFirst DEF Unmistaken
<1> QED
  BY <1>4, <1>6 DEF Collected

-----------------------------------------------------------------------------

ModuleOf == [header : Headers \cup {0}, content : SUBSET Texts]

\* Every module is the section of its header.
SectionsInv ==
  /\ IsPage
  /\ todo \subseteq Headers
  /\ modules \in Seq(ModuleOf)
  /\ \A m \in Extracted : m.header # 0 => m.content = Content(m.header)

LEMMA ContentIsTexts == \A h : Content(h) \in SUBSET Texts
  BY DEF Content, TextsIn

LEMMA AddedSection ==
  ASSUME SectionsInv, UNCHANGED page,
         NEW h \in Headers \cup {0}, NEW content \in SUBSET Texts,
         h # 0 => content = Content(h),
         Added(Module(h, content))
  PROVE  /\ modules' \in Seq(ModuleOf)
         /\ \A m \in Extracted' : m.header # 0 => m.content = Content(m.header)
<1> DEFINE new == Module(h, content)
<1>1. new \in ModuleOf /\ new.header = h /\ new.content = content
  BY DEF Module, ModuleOf
<1>2. modules \in Seq(ModuleOf)
  BY DEF SectionsInv
<1> HIDE DEF new
<1>3. modules' = modules \/ modules' = Append(modules, new)
  BY DEF Added, new
<1>4. modules' \in Seq(ModuleOf)
  BY <1>1, <1>2, <1>3
<1>5. \A m \in Extracted' : m \in Extracted \/ m = new
  BY <1>1, <1>2, <1>3 DEF Extracted
<1>6. \A m \in Extracted' : m.header # 0 => m.content = Content(m.header)
  BY <1>1, <1>5 DEF SectionsInv
<1> QED
  BY <1>4, <1>6

\* The page stays as it is, and so does everything defined on it.
LEMMA PageFrame ==
  ASSUME UNCHANGED page
  PROVE  /\ Texts' = Texts /\ Headers' = Headers
         /\ IsPage' = IsPage /\ ModuleOf' = ModuleOf
         /\ \A h : Content(h)' = Content(h)
<1>1. /\ Nodes' = Nodes /\ Texts' = Texts /\ Elements' = Elements
      /\ Headers' = Headers /\ IsPage' = IsPage /\ ModuleOf' = ModuleOf
  BY DEF Nodes, Texts, Elements, Headers, IsHeader, IsPage, ModuleOf
<1>2. \A h : ParentElements(h)' = ParentElements(h)
  <2>1. \A h : Around(h)' = Around(h)
    BY <1>1 DEF Around, Inside
  <2>2. \A h : ParentNodes(h)' = ParentNodes(h)
    BY <1>1, <2>1 DEF ParentNodes, Inside
  <2> QED
    BY <1>1, <2>2 DEF ParentElements
<1>3. \A i : /\ Text(i)' = Text(i) /\ TextsIn(i)' = TextsIn(i)
            /\ \A h : Ends(i, h)' = Ends(i, h)
  BY <1>1 DEF Text, TextsIn, Inside, Ends
<1>4. \A i, h : Found(i, h)' = Found(i, h)
  BY <1>2, <1>3 DEF Found
<1>5. \A i, h : Ended(i, h)' = Ended(i, h)
  BY <1>2, <1>3, <1>4 DEF Ended
<1>6. \A h : Collected(h)' = Collected(h)
  BY <1>2, <1>4, <1>5 DEF Collected
<1>7. \A h : Content(h)' = Content(h)
  BY <1>3, <1>6 DEF Content
<1> QED
  BY <1>1, <1>7

LEMMA SectionsKept == SectionsInv /\ [Next]_vars => SectionsInv'
<1> SUFFICES ASSUME SectionsInv, [Next]_vars PROVE SectionsInv'
  OBVIOUS
<1>1. UNCHANGED page
  BY DEF Next, SingleModule, FindHeaders, ExtractModule, Finish, vars
<1>2. /\ IsPage' /\ ModuleOf' = ModuleOf
      /\ Texts' = Texts /\ Headers' = Headers
      /\ \A h : Content(h)' = Content(h)
  BY <1>1, PageFrame DEF SectionsInv
<1>3. ASSUME UNCHANGED modules, todo' \subseteq Headers PROVE SectionsInv'
  BY <1>2, <1>3 DEF SectionsInv, Extracted
<1>4. CASE UNCHANGED vars
  BY <1>3, <1>4 DEF vars, SectionsInv
<1>5. CASE SingleModule
  <2>1. Added(Module(0, Texts)) /\ UNCHANGED todo
    BY <1>5 DEF SingleModule
  <2> QED
    BY <1>1, <1>2, <2>1, AddedSection DEF SectionsInv
<1>6. CASE FindHeaders
  BY <1>3, <1>6 DEF FindHeaders
<1>7. ASSUME NEW h \in todo, ExtractModule(h) PROVE SectionsInv'
  <2>1. Added(Module(h, Content(h))) /\ todo' = todo \ {h}
    BY <1>7 DEF ExtractModule
  <2>2. h \in Headers \cup {0} /\ Content(h) \in SUBSET Texts
    BY ContentIsTexts DEF SectionsInv
  <2> QED
    BY <1>1, <1>2, <2>1, <2>2, AddedSection DEF SectionsInv
<1>8. CASE Finish
  BY <1>3, <1>8 DEF Finish, SectionsInv
<1> QED
  BY <1>4, <1>5, <1>6, <1>7, <1>8 DEF Next

LEMMA SectionsAlways == Spec => []SectionsInv
<1>1. Init => SectionsInv
  BY InitIsPage DEF Init, SectionsInv, Extracted
<1> QED
  BY <1>1, SectionsKept, PTL DEF Spec

-----------------------------------------------------------------------------

LEMMA ExtractedSection ==
  ASSUME SectionsInv, NEW m \in Extracted, m.header # 0
  PROVE  m.header \in Headers /\ m.content = Content(m.header)
<1>1. PICK k \in DOMAIN modules : m = modules[k]
  BY DEF Extracted
<1>2. modules \in Seq(ModuleOf)
  BY DEF SectionsInv
<1>3. m \in ModuleOf
  BY <1>1, <1>2
<1> QED
  BY <1>3 DEF ModuleOf, SectionsInv

\* A module's text lies between its header and the boundary that
\* findNextBoundary finds in the whole page, but for the rest of an element
\* that holds the boundary, and all the text in elements beside the header
\* is there that lies between; on every page, for every header whose text no
\* earlier element of its parent repeats.
THEOREM SectionsAgree == Spec => []SectionIsBetween
<1>1. SectionsInv => SectionIsBetween
  <2> SUFFICES ASSUME SectionsInv,
                      NEW m \in Extracted, m.header # 0, Unmistaken(m.header)
               PROVE  LET h == m.header
                          b == FindNextBoundary(h)
                      IN  /\ \A t \in m.content :
                                h < t /\ (t < b \/ Overhangs(t, h, b))
                          /\ \A t \in Texts :
                                h < t /\ t < b /\ InElementBeside(t, h)
                                => t \in m.content
    BY DEF SectionIsBetween
  <2> DEFINE h == m.header
             b == FindNextBoundary(h)
  <2>1. h \in Headers /\ m.content = Content(h) /\ IsPage
    BY ExtractedSection DEF SectionsInv
  <2>2. b \in Nat
    BY <2>1, BoundaryIsFirst DEF Unmistaken
  <2>3. Collected(h) = {i \in ParentElements(h) : h < i /\ i < b}
    BY <2>1, CollectedIsBetween
  <2>4. /\ h \in Nat /\ h \in Elements /\ Texts \subseteq Nat
        /\ ParentElements(h) \subseteq Nat
        /\ \A i \in ParentElements(h) : page[i].last \in Nat
    BY <2>1 DEF IsPage, Headers, Elements, Texts, ParentElements
  <2> HIDE DEF h, b
  <2>5. ASSUME NEW t \in m.content
        PROVE  h < t /\ (t < b \/ Overhangs(t, h, b))
    <3>1. PICK i \in Collected(h) : t \in TextsIn(i)
      BY <2>1, <2>5 DEF Content
    <3>2. /\ i \in ParentElements(h) /\ h < i /\ i < b
          /\ t \in Inside(i) /\ t \in Texts
      BY <2>3, <3>1 DEF TextsIn
    <3>3. i <= t /\ t <= page[i].last /\ t \in Nat /\ i \in Nat
      BY <2>4, <3>2 DEF Inside
    <3>4. ASSUME ~(t < b) PROVE b \in Inside(i)
      BY <2>2, <2>4, <3>2, <3>3, <3>4 DEF Inside
    <3> QED
      BY <2>2, <2>4, <3>2, <3>3, <3>4 DEF Overhangs
  <2>6. ASSUME NEW t \in Texts, h < t, t < b, InElementBeside(t, h)
        PROVE  t \in m.content
    <3>1. PICK e \in ParentElements(h) \ {h} : t \in Inside(e)
      BY <2>6 DEF InElementBeside
    <3>2. e <= t /\ t <= page[e].last /\ e \in Nat /\ t \in Nat
      BY <2>4, <3>1 DEF Inside
    <3>3. ~(e < h)
      <4>1. ASSUME e < h PROVE h \in Inside(e)
        BY <2>4, <2>6, <3>1, <3>2, <4>1 DEF Inside
      <4> QED
        BY <2>1, <2>4, <3>1, <4>1, ParentIsInterval
    <3>4. h < e /\ e < b
      BY <2>2, <2>4, <2>6, <3>1, <3>2, <3>3
    <3>5. e \in Collected(h) /\ t \in TextsIn(e)
      BY <2>3, <2>6, <3>1, <3>4 DEF TextsIn
    <3> QED
      BY <2>1, <3>5 DEF Content
  <2> QED
    BY <2>5, <2>6 DEF h, b
<1> QED
  BY <1>1, SectionsAlways, PTL

-----------------------------------------------------------------------------

\* A header beyond the section of another header of its parent is beyond all
\* the text of that section, overhanging text included: an element of the
\* section that reached the header would be around it, inside its parent.
LEMMA Apart ==
  ASSUME IsPage, NEW h \in Headers, NEW g \in Headers, h < g,
         Unmistaken(h), ParentElements(h) = ParentElements(g),
         g \notin Collected(h), NEW t \in Content(h)
  PROVE  t < g
<1>1. /\ g \in Elements /\ Elements \subseteq Nodes
      /\ h \in Nat /\ g \in Nat /\ Nodes \subseteq Nat
      /\ \A i \in Nodes : page[i].last \in Nat
  BY DEF IsPage, Headers, Elements
<1>2. g \in ParentElements(h)
  BY <1>1, ParentIsInterval DEF ParentElements
<1>3. FindNextBoundary(h) \in Nat
  BY BoundaryIsFirst DEF Unmistaken
<1>4. ~(g < FindNextBoundary(h))
  BY <1>2, CollectedIsBetween
<1>5. PICK i \in Collected(h) : t \in TextsIn(i)
  BY DEF Content
<1>6. i \in ParentElements(g) /\ i < FindNextBoundary(h)
  BY <1>5, CollectedIsBetween
<1>7. i \in Nodes /\ i \in Nat /\ t \in i..page[i].last
  BY <1>1, <1>5, <1>6 DEF ParentElements, TextsIn, Inside
<1>8. i < g
  BY <1>1, <1>3, <1>4, <1>6, <1>7
<1>9. g \notin i..page[i].last
  BY <1>1, <1>6, <1>8, ParentIsInterval DEF Inside
<1> QED
  BY <1>1, <1>7, <1>8, <1>9

LEMMA Nested ==
  ASSUME IsPage, NEW h \in Headers, NEW g \in Headers, h < g,
         Unmistaken(h), Unmistaken(g),
         ParentElements(h) = ParentElements(g), g \in Collected(h)
  PROVE  Collected(g) \subseteq Collected(h)
<1>1. /\ Headers \subseteq Elements /\ Elements \subseteq Nodes
      /\ Nodes \subseteq Nat /\ h \in Nat /\ g \in Nat
      /\ \A k \in Elements : page[k].level \in Nat
      /\ ParentElements(h) \subseteq Elements
  BY DEF IsPage, Headers, Elements, ParentElements
<1>2. g < FindNextBoundary(h)
  BY CollectedIsBetween
<1>3. ~\E k \in Elements : h < k /\ k <= g /\ Ends(k, h)
  BY <1>1, <1>2, BoundaryIsFirst DEF Unmistaken
<1>4. page[h].level < page[g].level
  BY <1>1, <1>3 DEF Ends
<1>5. ASSUME NEW i \in Collected(g) PROVE i \in Collected(h)
  <2>1. /\ i \in ParentElements(h) /\ i \in Nodes /\ i \in Nat
        /\ g < i /\ i < FindNextBoundary(g)
    BY <1>1, <1>5, CollectedIsBetween
  <2>2. ~\E k \in Elements : g < k /\ k <= i /\ Ends(k, g)
    BY <2>1, BoundaryIsFirst DEF Unmistaken
  <2>3. ASSUME NEW k \in Elements, h < k, k <= i, Ends(k, h) PROVE FALSE
    <3>1. k \in Nat /\ ~(k <= g)
      BY <1>1, <1>3, <2>3
    <3>2. g < k
      BY <1>1, <3>1
    <3>3. Ends(k, g)
      BY <1>1, <1>4, <2>3 DEF Ends
    <3> QED
      BY <2>2, <2>3, <3>2, <3>3
  <2>4. h < i
    BY <1>1, <2>1
  <2>5. i < FindNextBoundary(h)
    BY <2>1, <2>3, <2>4, BoundaryIsFirst DEF Unmistaken
  <2> QED
    BY <2>1, <2>4, <2>5, CollectedIsBetween
<1> QED
  BY <1>5

\* Modules of one parent share text only where one header's text is in the
\* section of the other, which then holds the whole of it; the text that
\* overhangs a section included, on every page.
THEOREM SectionsNested == Spec => []SectionsNest
<1>1. SectionsInv => SectionsNest
  <2> SUFFICES ASSUME SectionsInv, NEW m \in Extracted, NEW n \in Extracted,
                      m.header # 0, m.header < n.header,
                      ParentElements(m.header) = ParentElements(n.header),
                      Unmistaken(m.header), Unmistaken(n.header),
                      TextsIn(n.header) # {}
               PROVE  IF TextsIn(n.header) \subseteq m.content
                      THEN n.content \subseteq m.content
                      ELSE n.content \cap m.content = {}
    BY DEF SectionsNest
  <2> DEFINE h == m.header
             g == n.header
  <2>1. h \in Headers /\ m.content = Content(h) /\ IsPage
    BY ExtractedSection DEF SectionsInv
  <2>2. /\ Headers \subseteq Nat /\ 0 \notin Headers
        /\ Texts \subseteq Nat
    BY <2>1 DEF IsPage, Headers, Elements, Texts
  <2>3. ASSUME g = 0 PROVE FALSE
    <3>1. h \in Nat /\ h < 0
      BY <2>1, <2>2, <2>3
    <3> QED
      BY <3>1
  <2>4. g \in Headers /\ n.content = Content(g)
    BY <2>3, ExtractedSection
  <2> HIDE DEF h, g
  <2>h. /\ h < g /\ ParentElements(h) = ParentElements(g)
        /\ Unmistaken(h) /\ Unmistaken(g) /\ TextsIn(g) # {}
    BY DEF h, g
  <2>5. CASE g \in Collected(h)
    <3>1. Collected(g) \subseteq Collected(h)
      BY <2>1, <2>4, <2>5, <2>h, Nested
    <3>2. TextsIn(g) \subseteq m.content /\ n.content \subseteq m.content
      BY <2>1, <2>4, <2>5, <3>1 DEF Content
    <3> QED
      BY <3>2 DEF g
  <2>6. CASE g \notin Collected(h)
    <3>1. \A t \in m.content : t < g
      BY <2>1, <2>4, <2>6, <2>h, Apart
    <3>2. \A t \in TextsIn(g) : t \in Nat /\ ~(t < g)
      BY <2>2, <2>4 DEF TextsIn, Inside
    <3>3. ~(TextsIn(g) \subseteq m.content)
      BY <2>h, <3>1, <3>2
    <3>4. \A t \in n.content : ~(t < g)
      <4>1. ASSUME NEW t \in n.content PROVE ~(t < g)
        <5>1. PICK i \in Collected(g) : t \in TextsIn(i)
          BY <2>4 DEF Content
        <5>2. g < i /\ i \in Nat
          BY <2>1, <2>4, <2>h, CollectedIsBetween
             DEF ParentElements, Elements, IsPage
        <5>3. i <= t /\ t \in Nat
          BY <2>2, <5>1, <5>2 DEF TextsIn, Inside
        <5> QED
          BY <2>2, <2>4, <5>2, <5>3
      <4> QED
        BY <4>1
    <3> QED
      BY <3>1, <3>3, <3>4 DEF g
  <2> QED
    BY <2>5, <2>6
<1> QED
  BY <1>1, SectionsAlways, PTL

-----------------------------------------------------------------------------
(* What cannot be lost: a header that the loop is done with has its        *)
(* module, unless its section is empty, and no module is.                  *)

KeptInv ==
  /\ at \in {"find", "loop", "done"}
  /\ at # "loop" => todo = {}
  /\ \A m \in Extracted : m.content # {}
  /\ at # "find" =>
       \A h \in Headers \ todo : Content(h) # {} =>
                                   \E m \in Extracted : m.content = Content(h)
  /\ at = "loop" => Headers # {}
  /\ at = "done" /\ Headers = {} /\ Texts # {} =>
       \E m \in Extracted : m.content = Texts

LEMMA AddedKept ==
  ASSUME SectionsInv, NEW h \in Headers \cup {0},
         NEW content \in SUBSET Texts, Added(Module(h, content))
  PROVE  /\ Extracted \subseteq Extracted'
         /\ \A m \in Extracted' : \/ m \in Extracted
                                  \/ m.content = content /\ content # {}
         /\ content # {} => \E m \in Extracted' : m.content = content
<1> DEFINE new == Module(h, content)
<1>1. new \in ModuleOf /\ new.content = content
  BY DEF Module, ModuleOf
<1>2. modules \in Seq(ModuleOf)
  BY DEF SectionsInv
<1>3. \/ content = {} /\ modules' = modules
      \/ content # {} /\ modules' = Append(modules, new)
  BY <1>1 DEF Added
<1> HIDE DEF new
<1>4. CASE content = {}
  BY <1>3, <1>4 DEF Extracted
<1>5. CASE content # {}
  <2>1. /\ DOMAIN modules \subseteq DOMAIN modules'
        /\ \A k \in DOMAIN modules : modules'[k] = modules[k]
        /\ \A k \in DOMAIN modules' : k \in DOMAIN modules \/ modules'[k] = new
        /\ \E k \in DOMAIN modules' : modules'[k] = new
    BY <1>1, <1>2, <1>3, <1>5
  <2> QED
    BY <1>1, <1>5, <2>1 DEF Extracted
<1> QED
  BY <1>4, <1>5

LEMMA KeptNext == SectionsInv /\ KeptInv /\ [Next]_vars => KeptInv'
<1> SUFFICES ASSUME SectionsInv, KeptInv, [Next]_vars PROVE KeptInv'
  OBVIOUS
<1>1. /\ Texts' = Texts /\ Headers' = Headers
      /\ \A h : Content(h)' = Content(h)
  <2>1. UNCHANGED page
    BY DEF Next, SingleModule, FindHeaders, ExtractModule, Finish, vars
  <2> QED
    BY <2>1, PageFrame
<1>2. CASE SingleModule
  <2>1. /\ Added(Module(0, Texts)) /\ UNCHANGED todo /\ Headers = {}
        /\ at = "find" /\ at' = "done"
    BY <1>2 DEF SingleModule
  <2>2. /\ \A m \in Extracted' : m.content # {}
        /\ Texts # {} => \E m \in Extracted' : m.content = Texts
    BY <2>1, AddedKept DEF KeptInv
  <2> QED
    BY <1>1, <2>1, <2>2 DEF KeptInv
<1>3. CASE FindHeaders
  BY <1>1, <1>3 DEF FindHeaders, KeptInv, Extracted
<1>4. ASSUME NEW h \in todo, ExtractModule(h) PROVE KeptInv'
  <2>1. /\ Added(Module(h, Content(h))) /\ todo' = todo \ {h}
        /\ at = "loop" /\ at' = "loop"
    BY <1>4 DEF ExtractModule
  <2>2. h \in Headers /\ Content(h) \in SUBSET Texts
    BY ContentIsTexts DEF SectionsInv
  <2>3. /\ Extracted \subseteq Extracted'
        /\ \A m \in Extracted' : m \in Extracted \/ m.content # {}
        /\ Content(h) # {} => \E m \in Extracted' : m.content = Content(h)
    BY <2>1, <2>2, AddedKept
  <2>4. \A g \in Headers \ todo' :
           Content(g) # {} => \E m \in Extracted' : m.content = Content(g)
    BY <2>1, <2>3 DEF KeptInv
  <2> QED
    BY <1>1, <2>1, <2>3, <2>4 DEF KeptInv
<1>5. CASE Finish
  <2>1. /\ at = "loop" /\ at' = "done" /\ UNCHANGED <<page, todo, modules>>
        /\ ~\E h \in todo : IsNext(h)
    BY <1>5 DEF Finish
  <2>2. todo = {}
    <3>1. todo \in SUBSET Nat
      BY DEF SectionsInv, IsPage, Headers, Elements
    <3> QED
      BY <2>1, <3>1, Least DEF IsNext
  <2> QED
    BY <1>1, <2>1, <2>2 DEF KeptInv, Extracted
<1>6. CASE UNCHANGED vars
  BY <1>1, <1>6 DEF vars, KeptInv, Extracted
<1> QED
  BY <1>2, <1>3, <1>4, <1>5, <1>6 DEF Next

LEMMA KeptAlways == Spec => []KeptInv
<1>1. Init => KeptInv
  BY DEF Init, KeptInv, Extracted
<1> QED
  BY <1>1, SectionsAlways, KeptNext, PTL DEF Spec

\* Every module stands for a header of the page, or for the page, and holds
\* some text.
THEOREM ModulesTyped == Spec => []TypeOK
<1>1. SectionsInv /\ KeptInv => TypeOK
  <2> SUFFICES ASSUME SectionsInv, KeptInv
               PROVE  modules \in Seq([header : Headers \cup {0},
                                       content : (SUBSET Texts) \ {{}}])
    BY DEF TypeOK, SectionsInv, KeptInv
  <2> DEFINE N == [header : Headers \cup {0}, content : (SUBSET Texts) \ {{}}]
  <2>1. modules \in Seq(ModuleOf)
    BY DEF SectionsInv
  <2>2. \A m \in ModuleOf : m.content # {} => m \in N
    <3> SUFFICES ASSUME NEW m \in ModuleOf, m.content # {} PROVE m \in N
      OBVIOUS
    <3>1. /\ m = [header |-> m.header, content |-> m.content]
          /\ m.header \in Headers \cup {0}
          /\ m.content \in (SUBSET Texts) \ {{}}
      BY DEF ModuleOf
    <3> QED
      BY <3>1
  <2>3. \A k \in DOMAIN modules : modules[k].content # {}
    BY DEF KeptInv, Extracted
  <2> HIDE DEF N
  <2>4. \A k \in DOMAIN modules : modules[k] \in N
    BY <2>1, <2>2, <2>3
  <2>5. modules \in Seq(N)
    BY <2>1, <2>4
  <2> QED
    BY <2>5 DEF N
<1> QED
  BY <1>1, SectionsAlways, KeptAlways, PTL

\* Of a page without headers no text is lost, and none that is in an element
\* beside the last header before it: the loop skips no header, and no section
\* ends before a text that no other header precedes.
THEOREM TextKept == Spec => []TextIsKept
<1>1. SectionsInv /\ KeptInv => TextIsKept
  <2> SUFFICES ASSUME SectionsInv, KeptInv, at = "done", NEW t \in Texts,
                      \/ Headers = {}
                      \/ \E h \in Headers :
                            /\ h < t /\ \A k \in Headers : k < t => k <= h
                            /\ Unmistaken(h)
                            /\ InElementBeside(t, h)
               PROVE  \E m \in Extracted : t \in m.content
    BY DEF TextIsKept
  <2>1. CASE Headers = {}
    BY <2>1 DEF KeptInv
  <2>2. ASSUME NEW h \in Headers, h < t, \A k \in Headers : k < t => k <= h,
               Unmistaken(h), InElementBeside(t, h)
        PROVE  \E m \in Extracted : t \in m.content
    <3>1. /\ IsPage /\ Nodes \subseteq Nat /\ t \in Nodes /\ h \in Nat
          /\ h \in Elements /\ Headers \subseteq Nat
          /\ Elements \subseteq Nat /\ t \in Nat
          /\ \A i \in Nodes : page[i].level \in Nat /\ page[i].last \in Nat
      BY DEF SectionsInv, IsPage, Elements, Headers, Texts
    <3>2. PICK e \in ParentElements(h) \ {h} : t \in Inside(e)
      BY <2>2 DEF InElementBeside
    <3>3. /\ e \in Elements /\ e \in Nodes /\ e \in Nat
          /\ e <= t /\ t <= page[e].last
      <4>1. e \in Elements /\ t \in e..page[e].last
        BY <3>2 DEF Inside, ParentElements
      <4>2. e \in Nodes
        BY <4>1 DEF Elements
      <4>3. e \in Nat /\ page[e].last \in Nat
        BY <3>1, <4>2
      <4>4. e <= t /\ t <= page[e].last
        BY <4>1, <4>3
      <4> QED
        BY <4>1, <4>2, <4>3, <4>4
    <3>4. h < e
      <4>1. ASSUME e < h PROVE h \in Inside(e)
        BY <2>2, <3>1, <3>3, <4>1 DEF Inside
      <4>2. ~(e < h)
        BY <3>1, <3>2, <4>1, ParentIsInterval
      <4> QED
        BY <3>1, <3>2, <3>3, <4>2
    <3>5. ASSUME NEW k \in Elements, h < k, k <= e, Ends(k, h) PROVE FALSE
      <4>1. k \in Headers
        BY <2>2, <3>1, <3>5 DEF Ends, Headers, IsHeader, Unmistaken, Elements
      <4>2. k \in Nat /\ k # t
        BY <3>1, <3>5 DEF Elements
      <4>3. k < t
        BY <3>1, <3>3, <3>5, <4>2
      <4> QED
        BY <2>2, <3>1, <3>5, <4>1, <4>2, <4>3
    <3>6. e < FindNextBoundary(h)
      BY <2>2, <3>1, <3>3, <3>4, <3>5, BoundaryIsFirst DEF Unmistaken
    <3>7. e \in Collected(h)
      BY <2>2, <3>1, <3>2, <3>4, <3>6, CollectedIsBetween
    <3>8. t \in Content(h)
      BY <3>2, <3>7 DEF Content, TextsIn
    <3>9. at # "find" /\ todo = {}
      BY DEF KeptInv
    <3> QED
      BY <3>8, <3>9 DEF KeptInv
  <2> QED
    BY <2>1, <2>2
<1> QED
  BY <1>1, SectionsAlways, KeptAlways, PTL

=============================================================================
