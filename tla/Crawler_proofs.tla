--------------------------- MODULE Crawler_proofs ---------------------------
(***************************************************************************)
(* Proofs about Crawler: its types, that no URL is loaded twice, that the  *)
(* page limit holds, that the crawl is breadth first, that it misses no    *)
(* page, and that it visits the pages of the reference of MCCrawler, for   *)
(* every site, depth and page limit.                                       *)
(***************************************************************************)
EXTENDS MCCrawler, FiniteSetTheorems, WellFoundedInduction, TLAPS

Summary == [url : Pages, depth : Nat, success : BOOLEAN]

\* The jobs made of a page's links are jobs.
LEMMA NewJobsType ==
    ASSUME NEW found \in LinkSets, NEW d \in Nat
    PROVE  NewJobs(found, d) \subseteq Job
  BY SiteAssumption DEF NewJobs, CrawlJob, Job

\* A job's entry in the summary is an entry.
LEMMA SummaryType ==
    ASSUME NEW job \in Job, NEW ok \in BOOLEAN
    PROVE  PageSummary(job, ok) \in Summary
  BY DEF Job, PageSummary, Summary

\* A sequence stays one of its set when it gets one more element.
LEMMA AppendType ==
    ASSUME NEW S, NEW s \in Seq(S), NEW e \in S
    PROVE  Append(s, e) \in Seq(S)
  OBVIOUS

\* Every variable keeps its type.
THEOREM CrawlTypes == Spec => []TypeOK
<1>1. Init => TypeOK
  <2> HAVE Init
  <2>1. CrawlJob(Root, 0) \in Job
    BY SiteAssumption DEF CrawlJob, Job
  <2>2. summary \in Seq(Summary)
    BY DEF Init
  <2>3. links \in [Pages -> SUBSET Pages]
    BY DEF Init
  <2> QED
    BY <2>1, <2>2, <2>3 DEF Init, TypeOK, Summary
<1>2. TypeOK /\ [Next]_vars => TypeOK'
  <2> SUFFICES ASSUME TypeOK, [Next]_vars PROVE TypeOK'
    OBVIOUS
  <2>1. CASE TakeLevel
    BY <2>1 DEF TakeLevel, TypeOK
  <2>2. CASE LastLevel
    BY <2>2 DEF LastLevel, TypeOK
  <2>3. CASE ContextDone
    BY <2>3 DEF ContextDone, TypeOK
  <2>4. CASE EndLevel
    BY <2>4 DEF EndLevel, TypeOK
  <2>5. ASSUME NEW job \in current, SkipVisited(job) PROVE TypeOK'
    BY <2>5 DEF SkipVisited, Takes, TypeOK
  <2>6. ASSUME NEW job \in current, PageFails(job) PROVE TypeOK'
    <3>1. job \in Job /\ job.url \in Pages
      BY DEF TypeOK, Job
    <3>2. PageSummary(job, FALSE) \in Summary
      BY <3>1, SummaryType
    <3>3. summary' \in Seq(Summary)
      <4>1. summary \in Seq(Summary)
        BY DEF TypeOK, Summary
      <4>2. summary' = Append(summary, PageSummary(job, FALSE))
        BY <2>6 DEF PageFails
      <4> QED
        BY <3>2, <4>1, <4>2, AppendType
    <3> QED
      BY <2>6, <3>1, <3>3 DEF PageFails, TypeOK, Summary
  <2>7. ASSUME NEW job \in current, ScrapeOne(job) PROVE TypeOK'
    <3>1. job \in Job /\ job.url \in Pages /\ job.depth \in Nat
      BY DEF TypeOK, Job
    <3>2. PageSummary(job, TRUE) \in Summary
      BY <3>1, SummaryType
    <3>3. summary' \in Seq(Summary)
      <4>1. summary \in Seq(Summary)
        BY DEF TypeOK, Summary
      <4>2. summary' = Append(summary, PageSummary(job, TRUE))
        BY <2>7 DEF ScrapeOne
      <4> QED
        BY <3>2, <4>1, <4>2, AppendType
    <3>4. PICK found \in LinkSets :
            /\ links' = [links EXCEPT ![job.url] = found]
            /\ pending' = IF job.depth < Depth
                          THEN pending \cup NewJobs(found, job.depth + 1)
                          ELSE pending
      BY <2>7 DEF ScrapeOne
    <3>5. pending' \subseteq Job
      BY <3>1, <3>4, NewJobsType DEF TypeOK
    <3>6. links' \in [Pages -> SUBSET Pages]
      BY <3>4, SiteAssumption DEF TypeOK
    <3>7. /\ scraped' = scraped + 1 /\ visited' = visited \cup {job.url}
          /\ current' = current \ {job} /\ UNCHANGED <<at, depth, expired>>
      BY <2>7 DEF ScrapeOne
    <3> QED
      BY <3>1, <3>3, <3>5, <3>6, <3>7 DEF TypeOK, Summary
  <2>8. CASE Expire
    BY <2>8 DEF Expire, TypeOK
  <2>9. CASE UNCHANGED vars
    BY <2>9 DEF vars, TypeOK
  <2> QED
    BY <2>1, <2>2, <2>3, <2>4, <2>5, <2>6, <2>7, <2>8, <2>9
    DEF Next, Crawl
<1> QED
  BY <1>1, <1>2, PTL DEF Spec

\* What one more entry for an unvisited page does to VisitedOnce.
LEMMA VisitOnce ==
    ASSUME TypeOK, VisitedOnce,
           NEW job \in Job, NEW ok \in BOOLEAN,
           job.url \notin visited,
           visited' = visited \cup {job.url},
           summary' = Append(summary, PageSummary(job, ok))
    PROVE  VisitedOnce'
<1> DEFINE n == Len(summary)
<1>1. summary \in Seq(Summary) /\ n \in Nat
  BY DEF TypeOK, Summary
<1>2. PageSummary(job, ok) \in Summary /\ PageSummary(job, ok).url = job.url
  BY SummaryType DEF PageSummary
<1>3. /\ Len(summary') = n + 1
      /\ summary'[n + 1].url = job.url
      /\ \A i \in 1..n : summary'[i] = summary[i]
  BY <1>1, <1>2
<1>4. Listed' = Listed \cup {n + 1} /\ n + 1 \notin Listed
  BY <1>1, <1>3 DEF Listed
<1>5. \A i \in Listed : summary'[i] = summary[i]
  BY <1>3 DEF Listed
<1>6. \A i \in Listed : summary[i].url \in visited
  BY DEF VisitedOnce
<1>7. ASSUME NEW i \in Listed', NEW k \in Listed',
             summary'[i].url = summary'[k].url
      PROVE  i = k
  <2>1. CASE i \in Listed /\ k \in Listed
    BY <1>5, <1>7, <2>1 DEF VisitedOnce
  <2>2. CASE i = n + 1 /\ k \in Listed
    BY <1>3, <1>5, <1>6, <1>7, <2>2
  <2>3. CASE i \in Listed /\ k = n + 1
    BY <1>3, <1>5, <1>6, <1>7, <2>3
  <2> QED
    BY <1>4, <1>7, <2>1, <2>2, <2>3
<1>8. visited' = {summary'[i].url : i \in Listed'}
  <2>1. \A u : u \in visited <=> \E i \in Listed : u = summary'[i].url
    <3>1. visited = {summary[i].url : i \in Listed}
      BY DEF VisitedOnce
    <3> QED
      BY <1>5, <3>1
  <2>2. \A u : u \in visited' <=> \E i \in Listed' : u = summary'[i].url
    <3> TAKE u
    <3>1. u \in visited' <=> u \in visited \/ u = job.url
      OBVIOUS
    <3>2. (\E i \in Listed' : u = summary'[i].url)
            <=> (\E i \in Listed : u = summary'[i].url)
                  \/ u = summary'[n + 1].url
      BY <1>4
    <3> QED
      BY <1>3, <2>1, <3>1, <3>2
  <2> QED
    BY <2>2
<1> QED
  BY <1>7, <1>8 DEF VisitedOnce

\* No URL is loaded twice in a crawl: processDepthLevel marks it as visited
\* before it loads it, and looks before it marks.
THEOREM LoadedOnce == Spec => []VisitedOnce
<1>1. Init => VisitedOnce
  BY DEF Init, VisitedOnce, Listed
<1>2. TypeOK /\ VisitedOnce /\ [Next]_vars => VisitedOnce'
  <2> SUFFICES ASSUME TypeOK, VisitedOnce, [Next]_vars PROVE VisitedOnce'
    OBVIOUS
  <2>1. ASSUME NEW job \in current, PageFails(job) PROVE VisitedOnce'
    <3>1. job \in Job
      BY DEF TypeOK
    <3> QED
      BY <2>1, <3>1, VisitOnce DEF PageFails, Unvisited
  <2>2. ASSUME NEW job \in current, ScrapeOne(job) PROVE VisitedOnce'
    <3>1. job \in Job
      BY DEF TypeOK
    <3> QED
      BY <2>2, <3>1, VisitOnce DEF ScrapeOne, Unvisited
  <2>3. CASE UNCHANGED <<visited, summary>>
    BY <2>3 DEF VisitedOnce, Listed
  <2>4. CASE TakeLevel \/ LastLevel \/ ContextDone \/ EndLevel \/ Expire
    BY <2>3, <2>4 DEF TakeLevel, LastLevel, ContextDone, EndLevel, Expire
  <2>5. ASSUME NEW job \in current, SkipVisited(job) PROVE VisitedOnce'
    BY <2>3, <2>5 DEF SkipVisited
  <2>6. CASE UNCHANGED vars
    BY <2>3, <2>6 DEF vars
  <2> QED
    BY <2>1, <2>2, <2>4, <2>5, <2>6 DEF Next, Crawl
<1> QED
  BY <1>1, <1>2, CrawlTypes, PTL DEF Spec

\* The entries of the summary that are successes.
Successes == {i \in Listed : summary[i].success}

\* What one more entry does to the successes.
LEMMA CountOne ==
    ASSUME TypeOK,
           NEW job \in Job, NEW ok \in BOOLEAN,
           summary' = Append(summary, PageSummary(job, ok))
    PROVE  /\ Cardinality(Successes) \in Nat
           /\ Cardinality(Successes') = IF ok THEN Cardinality(Successes) + 1
                                       ELSE Cardinality(Successes)
<1> DEFINE n == Len(summary)
<1>1. summary \in Seq(Summary) /\ n \in Nat
  BY DEF TypeOK, Summary
<1>2. PageSummary(job, ok) \in Summary /\ PageSummary(job, ok).success = ok
  BY SummaryType DEF PageSummary
<1>3. /\ Len(summary') = n + 1
      /\ summary'[n + 1].success = ok
      /\ \A i \in 1..n : summary'[i] = summary[i]
  BY <1>1, <1>2
<1>4. Listed' = Listed \cup {n + 1} /\ n + 1 \notin Listed
  BY <1>1, <1>3 DEF Listed
<1>5. \A i \in Listed : summary'[i].success = summary[i].success
  BY <1>3 DEF Listed
<1>6. IsFiniteSet(Successes)
  <2>1. IsFiniteSet(1..n)
    BY <1>1, FS_Interval
  <2> QED
    BY <2>1, FS_Subset DEF Successes, Listed
<1>7. n + 1 \notin Successes
  BY <1>4 DEF Successes
<1>8. Successes' = IF ok THEN Successes \cup {n + 1} ELSE Successes
  BY <1>3, <1>4, <1>5 DEF Successes
<1>9. Cardinality(Successes) \in Nat
  BY <1>6, FS_CardinalityType
<1>10. Cardinality(Successes \cup {n + 1}) = Cardinality(Successes) + 1
  BY <1>6, <1>7, FS_AddElement
<1> QED
  BY <1>8, <1>9, <1>10

\* The page limit holds, and the reported number of pages is the number of
\* successes listed, in whatever order pages fail and load.
THEOREM WithinLimit == Spec => []LimitHolds
<1> DEFINE Counted == scraped = Cardinality(Successes)
<1>0. Limit \in Nat /\ Limit > 0
  BY OptionAssumption DEF Limit
<1>1. Init => LimitHolds
  <2> HAVE Init
  <2>1. {i \in Listed : summary[i].success} = {}
    BY DEF Init, Listed
  <2> QED
    BY <1>0, <2>1, FS_EmptySet DEF Init, LimitHolds, Report
<1>2. TypeOK /\ LimitHolds /\ [Next]_vars => LimitHolds'
  <2> SUFFICES ASSUME TypeOK, LimitHolds, [Next]_vars PROVE LimitHolds'
    OBVIOUS
  <2>0. scraped <= Limit /\ Counted /\ scraped \in Nat
    BY DEF LimitHolds, Report, Successes, TypeOK
  <2>1. ASSUME NEW job \in current, PageFails(job) PROVE LimitHolds'
    <3>1. job \in Job
      BY DEF TypeOK
    <3>2. /\ summary' = Append(summary, PageSummary(job, FALSE))
          /\ scraped' = scraped
      BY <2>1 DEF PageFails
    <3>3. Cardinality(Successes') = Cardinality(Successes)
      BY <3>1, <3>2, CountOne
    <3> QED
      BY <2>0, <3>2, <3>3 DEF LimitHolds, Report, Successes, Limit
  <2>2. ASSUME NEW job \in current, ScrapeOne(job) PROVE LimitHolds'
    <3>1. job \in Job
      BY DEF TypeOK
    <3>2. /\ summary' = Append(summary, PageSummary(job, TRUE))
          /\ scraped' = scraped + 1
          /\ scraped < Limit
      BY <2>2 DEF ScrapeOne, Takes
    <3>3. Cardinality(Successes') = Cardinality(Successes) + 1
      BY <3>1, <3>2, CountOne
    <3>4. scraped' <= Limit /\ scraped' = Cardinality(Successes')
      BY <1>0, <2>0, <3>2, <3>3
    <3> QED
      BY <3>4 DEF LimitHolds, Report, Successes, Limit
  <2>3. CASE UNCHANGED <<scraped, summary>>
    BY <2>3 DEF LimitHolds, Report, Listed, Limit
  <2>4. CASE TakeLevel \/ LastLevel \/ ContextDone \/ EndLevel \/ Expire
    BY <2>3, <2>4 DEF TakeLevel, LastLevel, ContextDone, EndLevel, Expire
  <2>5. ASSUME NEW job \in current, SkipVisited(job) PROVE LimitHolds'
    BY <2>3, <2>5 DEF SkipVisited
  <2>6. CASE UNCHANGED vars
    BY <2>3, <2>6 DEF vars
  <2> QED
    BY <2>1, <2>2, <2>4, <2>5, <2>6 DEF Next, Crawl
<1> QED
  BY <1>1, <1>2, CrawlTypes, PTL DEF Spec

-----------------------------------------------------------------------------
(* The order of the crawl.  Between two levels the pending jobs are those  *)
(* of the next level, and inside a level the new ones belong to the level  *)
(* after it; every job was found on a page one level up; and every link    *)
(* that may be followed is visited or has its job.                         *)

FoundOn(j) ==
    /\ j.depth = 0 => j.url = Root
    /\ j.depth > 0 => \E k \in Listed : /\ LeadsTo(k, j.url)
                                        /\ summary[k].depth = j.depth - 1

Expanded(k, u) ==
    \/ u \in visited
    \/ CrawlJob(u, summary[k].depth + 1) \in pending \cup current

LevelInv ==
    /\ \A j \in current : j.depth = depth
    /\ \A j \in pending : j.depth = IF at = "jobs" THEN depth + 1 ELSE depth
    /\ at = "level" => current = {}
    /\ at = "jobs" => depth <= Depth
    /\ Root \in visited \/ CrawlJob(Root, 0) \in pending \cup current
    /\ \A j \in pending \cup current : FoundOn(j)
    /\ \A k \in Listed, u \in Pages :
          LeadsTo(k, u) /\ summary[k].depth < Depth => Expanded(k, u)
    /\ \A k \in Listed : summary[k].depth <= depth

BreadthInv ==
    /\ at # "done" => LevelInv
    /\ ShortestDepth
    /\ NothingMissed

\* What visiting a page does to the list: one entry more, of the job's depth
\* and of a URL that was not listed; the links of the listed pages stay.
LEMMA VisitAppends ==
    ASSUME TypeOK, VisitedOnce, NEW job \in current,
           PageFails(job) \/ ScrapeOne(job),
           NEW n, n = Len(summary)
    PROVE  /\ n \in Nat /\ Listed = 1..n
           /\ Listed' = Listed \cup {n + 1} /\ n + 1 \notin Listed
           /\ \A i \in Listed : summary'[i] = summary[i]
           /\ \A i \in Listed : summary[i].url # job.url
           /\ \A i \in Listed : summary[i] \in Summary
           /\ summary'[n + 1].url = job.url
           /\ summary'[n + 1].depth = job.depth
           /\ summary'[n + 1].success <=> ScrapeOne(job)
           /\ \A k \in Listed, u \in Pages : LeadsTo(k, u)' <=> LeadsTo(k, u)
<1>1. summary \in Seq(Summary) /\ n \in Nat
  BY DEF TypeOK, Summary
<1>2. job \in Job /\ job.url \in Pages /\ job.depth \in Nat
  BY DEF TypeOK, Job
<1>3. PICK ok \in BOOLEAN : /\ summary' = Append(summary, PageSummary(job, ok))
                            /\ ok <=> ScrapeOne(job)
  <2>1. ~(PageFails(job) /\ ScrapeOne(job))
    <3> SUFFICES ASSUME PageFails(job), ScrapeOne(job) PROVE FALSE
      OBVIOUS
    <3>1. scraped' = scraped /\ scraped' = scraped + 1
      BY DEF PageFails, ScrapeOne
    <3> QED
      BY <3>1 DEF TypeOK
  <2> QED
    BY <2>1 DEF PageFails, ScrapeOne
<1>4. PageSummary(job, ok) \in Summary
  BY <1>2, SummaryType
<1>5. /\ Len(summary') = n + 1
      /\ summary'[n + 1] = PageSummary(job, ok)
      /\ \A i \in 1..n : summary'[i] = summary[i]
  BY <1>1, <1>3, <1>4
<1>6. Listed = 1..n /\ Listed' = Listed \cup {n + 1} /\ n + 1 \notin Listed
  BY <1>1, <1>5 DEF Listed
<1>7. \A i \in Listed : summary'[i] = summary[i]
  BY <1>5, <1>6
<1>8. \A i \in Listed : summary[i].url # job.url
  BY DEF PageFails, ScrapeOne, Unvisited, VisitedOnce
<1>9. \A i \in Listed : summary[i] \in Summary
  BY <1>1, <1>6
<1>10. \A u \in Pages : u # job.url => links'[u] = links[u]
  BY <1>2 DEF PageFails, ScrapeOne, TypeOK
<1>11. \A k \in Listed, u \in Pages : LeadsTo(k, u)' <=> LeadsTo(k, u)
  <2> TAKE k \in Listed, u \in Pages
  <2>1. summary[k].url \in Pages
    BY <1>9 DEF Summary
  <2>2. links'[summary'[k].url] = links[summary[k].url]
    BY <1>7, <1>8, <1>10, <2>1
  <2> QED
    BY <1>7, <2>2 DEF LeadsTo
<1> QED
  BY <1>1, <1>3, <1>5, <1>6, <1>7, <1>8, <1>9, <1>11 DEF PageSummary

\* A page u, listed as number i with depth d, is listed with its distance.
Short(i, u, d) ==
    /\ d = 0 <=> u = Root
    /\ d > 0 => \E k \in 1..(i - 1) : /\ LeadsTo(k, u)
                                      /\ summary[k].depth = d - 1
    /\ \A k \in Listed : LeadsTo(k, u) => d <= summary[k].depth + 1

LEMMA ShortestIsShort ==
    ShortestDepth <=>
        \A i \in Listed : Short(i, summary[i].url, summary[i].depth)
  BY DEF ShortestDepth, Short

\* So is a visited page: it was found one level up, and if a page of an
\* earlier level led to it, it would have been visited on the level after.
LEMMA ShortestVisit ==
    ASSUME TypeOK, VisitedOnce, BreadthInv, NEW job \in current,
           PageFails(job) \/ ScrapeOne(job)
    PROVE  ShortestDepth'
<1>1. at = "jobs" /\ at' = "jobs" /\ job.url \notin visited
  BY DEF PageFails, ScrapeOne, Takes, Unvisited
<1>2. LevelInv
  BY <1>1 DEF BreadthInv
<1>3. /\ job.depth = depth /\ depth <= Depth /\ FoundOn(job)
      /\ job.url \in Pages /\ depth \in Nat
  BY <1>1, <1>2 DEF LevelInv, TypeOK, Job
<1>4. PICK n :
      /\ n \in Nat /\ Listed = 1..n
      /\ Listed' = Listed \cup {n + 1} /\ n + 1 \notin Listed
      /\ \A i \in Listed : summary'[i] = summary[i]
      /\ \A i \in Listed : summary[i].url # job.url
      /\ \A i \in Listed : summary[i] \in Summary
      /\ summary'[n + 1].url = job.url
      /\ summary'[n + 1].depth = job.depth
      /\ \A k \in Listed, u \in Pages : LeadsTo(k, u)' <=> LeadsTo(k, u)
  BY VisitAppends
<1>5. \A i \in Listed : /\ summary[i].url \in Pages
                        /\ summary[i].depth \in Nat
                        /\ summary[i].depth <= depth
  BY <1>2, <1>4 DEF LevelInv, Summary
<1>6. ASSUME NEW i \in Listed, NEW u \in Pages, NEW d \in Nat,
             u = summary[i].url, d = summary[i].depth
      PROVE  Short(i, u, d)'
  <2>1. Short(i, u, d)
    BY <1>6, ShortestIsShort DEF BreadthInv
  <2>2. \A k \in 1..(i - 1) : k \in Listed
    BY <1>4
  <2>3. ASSUME NEW k \in Listed', LeadsTo(k, u)'
        PROVE  d <= summary'[k].depth + 1
    <3>1. CASE k \in Listed
      BY <1>4, <2>1, <2>3, <3>1 DEF Short
    <3>2. CASE k = n + 1
      BY <1>3, <1>4, <1>5, <1>6, <3>2
    <3> QED
      BY <1>4, <2>3, <3>1, <3>2
  <2>4. d > 0 => \E k \in 1..(i - 1) : /\ LeadsTo(k, u)'
                                       /\ summary'[k].depth = d - 1
    BY <1>4, <2>1, <2>2 DEF Short
  <2> QED
    BY <2>1, <2>3, <2>4 DEF Short
<1>7. ASSUME NEW u \in Pages, u = job.url
      PROVE  Short(n + 1, u, job.depth)'
  <2>1. depth = 0 => u = Root
    BY <1>3, <1>7 DEF FoundOn
  <2>2. u = Root => depth = 0
    <3>1. CrawlJob(Root, 0) \in pending \cup current => depth = 0
      BY <1>1, <1>2, <1>3 DEF LevelInv, CrawlJob
    <3> QED
      BY <1>1, <1>2, <1>7, <3>1 DEF LevelInv
  <2>3. depth > 0 => \E k \in 1..((n + 1) - 1) :
                        /\ LeadsTo(k, u)'
                        /\ summary'[k].depth = depth - 1
    BY <1>3, <1>4, <1>7 DEF FoundOn
  <2>4. ASSUME NEW k \in Listed', LeadsTo(k, u)'
        PROVE  depth <= summary'[k].depth + 1
    <3>1. CASE k = n + 1
      BY <1>3, <1>4, <3>1
    <3>2. CASE k \in Listed
      <4>1. LeadsTo(k, u)
        BY <1>4, <2>4, <3>2
      <4>2. CASE summary[k].depth < Depth
        <5>1. CrawlJob(u, summary[k].depth + 1) \in pending \cup current
          BY <1>1, <1>2, <1>7, <3>2, <4>1, <4>2 DEF LevelInv, Expanded
        <5>2. summary[k].depth + 1 \in {depth, depth + 1}
          BY <1>1, <1>2, <5>1 DEF LevelInv, CrawlJob
        <5> QED
          BY <1>3, <1>4, <1>5, <3>2, <5>2
      <4>3. CASE ~(summary[k].depth < Depth)
        BY <1>3, <1>4, <1>5, <3>2, <4>3, OptionAssumption
      <4> QED
        BY <4>2, <4>3
    <3> QED
      BY <1>4, <2>4, <3>1, <3>2
  <2> QED
    BY <1>3, <2>1, <2>2, <2>3, <2>4 DEF Short
<1>8. \A i \in Listed' : \A u, d :
         u = summary'[i].url /\ d = summary'[i].depth => Short(i, u, d)'
  BY <1>3, <1>4, <1>5, <1>6, <1>7
<1>9. (\A i \in Listed : \A u, d :
          u = summary[i].url /\ d = summary[i].depth => Short(i, u, d))'
  BY <1>8
<1> QED
  BY <1>9 DEF ShortestDepth, Short

\* A visit keeps the levels in order: the jobs it adds are of the next level
\* and were found on this page, and the page's own job has become an entry.
LEMMA LevelVisit ==
    ASSUME TypeOK, VisitedOnce, BreadthInv, NEW job \in current,
           PageFails(job) \/ ScrapeOne(job)
    PROVE  LevelInv'
<1>1. at = "jobs" /\ at' = "jobs" /\ depth' = depth
      /\ visited' = visited \cup {job.url} /\ current' = current \ {job}
  BY DEF PageFails, ScrapeOne, Takes
<1>2. LevelInv
  BY <1>1 DEF BreadthInv
<1>3. /\ job.depth = depth /\ depth <= Depth
      /\ job.url \in Pages /\ depth \in Nat
      /\ job = CrawlJob(job.url, depth)
  BY <1>1, <1>2 DEF LevelInv, TypeOK, Job, CrawlJob
<1>4. PICK n :
      /\ n \in Nat /\ Listed = 1..n
      /\ Listed' = Listed \cup {n + 1} /\ n + 1 \notin Listed
      /\ \A i \in Listed : summary'[i] = summary[i]
      /\ \A i \in Listed : summary[i] \in Summary
      /\ summary'[n + 1].url = job.url
      /\ summary'[n + 1].depth = job.depth
      /\ summary'[n + 1].success <=> ScrapeOne(job)
      /\ \A k \in Listed, u \in Pages : LeadsTo(k, u)' <=> LeadsTo(k, u)
  BY VisitAppends
<1>5. PICK found :
      /\ found \subseteq Pages
      /\ ScrapeOne(job) => links'[job.url] = found
      /\ pending' = IF ScrapeOne(job) /\ depth < Depth
                    THEN pending \cup NewJobs(found, depth + 1) ELSE pending
  <2>1. CASE ScrapeOne(job)
    <3>1. PICK S \in LinkSets :
             /\ links' = [links EXCEPT ![job.url] = S]
             /\ pending' = IF depth < Depth
                           THEN pending \cup NewJobs(S, depth + 1) ELSE pending
      BY <1>3, <2>1 DEF ScrapeOne
    <3>2. links'[job.url] = S /\ S \subseteq Pages
      BY <1>3, <3>1, SiteAssumption DEF TypeOK
    <3> QED
      BY <2>1, <3>1, <3>2
  <2>2. CASE ~ScrapeOne(job)
    BY <2>2 DEF PageFails
  <2> QED
    BY <2>1, <2>2
<1>6. \A u \in Pages : LeadsTo(n + 1, u)' =>
         ScrapeOne(job) /\ u \in found /\ Follow(u)
  BY <1>4, <1>5 DEF LeadsTo, Follow
<1>7. \A u \in Pages :
         ScrapeOne(job) /\ u \in found /\ Follow(u) => LeadsTo(n + 1, u)'
  BY <1>4, <1>5 DEF LeadsTo, Follow
<1>8. \A j \in pending' : j \in pending \/
         (/\ ScrapeOne(job)
          /\ \E u \in found : Follow(u) /\ j = CrawlJob(u, depth + 1))
  BY <1>5 DEF NewJobs
<1>9. \A j \in pending' : j.depth = depth + 1
  BY <1>1, <1>2, <1>8 DEF LevelInv, CrawlJob
<1>10. \A j \in current' : j.depth = depth
  BY <1>1, <1>2 DEF LevelInv
<1>11. \A u \in Pages : \A d : CrawlJob(u, d) \in pending \cup current =>
          u \in visited' \/ CrawlJob(u, d) \in pending' \cup current'
  BY <1>1, <1>5 DEF CrawlJob
<1>12. Root \in visited' \/ CrawlJob(Root, 0) \in pending' \cup current'
  BY <1>1, <1>2, <1>11, SiteAssumption DEF LevelInv
<1>13. ASSUME NEW j \in pending' \cup current' PROVE FoundOn(j)'
  <2>1. CASE j \in pending \cup current
    <3>1. FoundOn(j) /\ j.url \in Pages
      BY <1>2, <2>1 DEF LevelInv, TypeOK, Job
    <3> QED
      BY <1>4, <3>1 DEF FoundOn
  <2>2. CASE j \notin pending \cup current
    <3>1. PICK u \in found : /\ ScrapeOne(job) /\ Follow(u)
                             /\ j = CrawlJob(u, depth + 1)
      BY <1>1, <1>8, <2>2
    <3>2. j.url = u /\ j.depth = depth + 1
      BY <3>1 DEF CrawlJob
    <3>3. LeadsTo(n + 1, u)'
      BY <1>5, <1>7, <3>1
    <3> QED
      BY <1>3, <1>4, <3>2, <3>3 DEF FoundOn
  <2> QED
    BY <2>1, <2>2
<1>14. ASSUME NEW k \in Listed', NEW u \in Pages, NEW d, d = summary'[k].depth,
              LeadsTo(k, u)', d < Depth
       PROVE  u \in visited' \/ CrawlJob(u, d + 1) \in pending' \cup current'
  <2>1. CASE k \in Listed
    BY <1>1, <1>2, <1>4, <1>11, <1>14, <2>1 DEF LevelInv, Expanded
  <2>2. CASE k = n + 1
    <3>1. ScrapeOne(job) /\ u \in found /\ Follow(u) /\ d = depth
      BY <1>3, <1>4, <1>6, <1>14, <2>2
    <3> QED
      BY <1>5, <1>14, <3>1 DEF NewJobs
  <2> QED
    BY <1>4, <2>1, <2>2
<1>15. \A k \in Listed' : summary'[k].depth <= depth
  BY <1>2, <1>3, <1>4 DEF LevelInv
<1> QED
  BY <1>1, <1>3, <1>9, <1>10, <1>12, <1>13, <1>14, <1>15
     DEF LevelInv, Expanded

LEMMA ListedDepth == TypeOK => \A k \in Listed : summary[k].depth \in Nat
<1> SUFFICES ASSUME TypeOK, NEW k \in Listed PROVE summary[k].depth \in Nat
  OBVIOUS
<1>1. summary \in Seq(Summary)
  BY DEF TypeOK, Summary
<1>2. summary[k] \in Summary
  BY <1>1 DEF Listed
<1> QED
  BY <1>2 DEF Summary

\* Steps that visit nothing.
LEMMA ListStands ==
    ASSUME UNCHANGED <<summary, links>>
    PROVE  /\ Listed' = Listed
           /\ \A k, u : LeadsTo(k, u)' <=> LeadsTo(k, u)
           /\ \A j : FoundOn(j)' <=> FoundOn(j)
           /\ ShortestDepth' <=> ShortestDepth
  BY DEF Listed, LeadsTo, FoundOn, ShortestDepth, Follow

LEMMA BreadthInit == Init => BreadthInv
<1> SUFFICES ASSUME Init PROVE BreadthInv
  OBVIOUS
<1>1. Listed = {}
  BY DEF Init, Listed
<1>2. LevelInv
  BY <1>1 DEF Init, LevelInv, FoundOn, CrawlJob
<1>3. ShortestDepth /\ NothingMissed
  BY <1>1 DEF Init, ShortestDepth, NothingMissed
<1> QED
  BY <1>2, <1>3 DEF BreadthInv

LEMMA BreadthNext ==
    ASSUME TypeOK, VisitedOnce, BreadthInv, [Next]_vars
    PROVE  BreadthInv'
<1>1. ASSUME NEW job \in current, PageFails(job) \/ ScrapeOne(job)
      PROVE  BreadthInv'
  <2>1. at' = "jobs"
    BY <1>1 DEF PageFails, ScrapeOne, Takes
  <2> QED
    BY <1>1, <2>1, ShortestVisit, LevelVisit DEF BreadthInv, NothingMissed
<1>2. ASSUME NEW job \in current, SkipVisited(job) PROVE BreadthInv'
  <2>1. /\ at = "jobs" /\ job.url \in visited /\ current' = current \ {job}
        /\ UNCHANGED <<at, depth, pending, visited, summary, links>>
    BY <1>2 DEF SkipVisited, Takes
  <2>2. LevelInv
    BY <2>1 DEF BreadthInv
  <2>3. \A u, d : CrawlJob(u, d) \in pending \cup current =>
           u \in visited \/ CrawlJob(u, d) \in pending' \cup current'
    BY <2>1 DEF CrawlJob
  <2>4. LevelInv'
    BY <2>1, <2>2, <2>3, ListStands DEF LevelInv, Expanded
  <2> QED
    BY <2>1, <2>4, ListStands DEF BreadthInv, NothingMissed
<1>3. CASE TakeLevel
  <2>1. /\ at = "level" /\ at' = "jobs" /\ depth <= Depth
        /\ current' = {j \in pending : j.depth = depth}
        /\ pending' = pending \ current'
        /\ UNCHANGED <<depth, visited, summary, links>>
    BY <1>3 DEF TakeLevel
  <2>2. LevelInv
    BY <2>1 DEF BreadthInv
  <2>3. current = {} /\ current' = pending /\ pending' = {}
    BY <2>1, <2>2 DEF LevelInv
  <2>4. LevelInv'
    BY <2>1, <2>2, <2>3, ListStands DEF LevelInv, Expanded
  <2> QED
    BY <2>1, <2>4, ListStands DEF BreadthInv, NothingMissed
<1>4. CASE LastLevel
  <2>1. /\ at = "level" /\ at' = "done" /\ depth > Depth
        /\ UNCHANGED <<visited, summary, links>>
    BY <1>4 DEF LastLevel
  <2>2. LevelInv
    BY <2>1 DEF BreadthInv
  <2>3. \A u, d : CrawlJob(u, d) \in pending \cup current => d = depth
    BY <2>1, <2>2 DEF LevelInv, CrawlJob
  <2>4. Depth >= 0 => Root \in visited
    BY <2>1, <2>2, <2>3, OptionAssumption DEF LevelInv, TypeOK
  <2>5. ASSUME NEW k \in Listed, NEW u \in Pages, LeadsTo(k, u),
               summary[k].depth < Depth
        PROVE  u \in visited
    <3>1. summary[k].depth \in Nat
      BY ListedDepth
    <3>2. summary[k].depth + 1 # depth
      BY <2>1, <2>5, <3>1, OptionAssumption DEF TypeOK
    <3> QED
      BY <2>2, <2>3, <2>5, <3>2 DEF LevelInv, Expanded
  <2>6. NothingMissed'
    BY <2>1, <2>4, <2>5, ListStands DEF NothingMissed
  <2> QED
    BY <2>1, <2>6, ListStands DEF BreadthInv
<1>5. CASE ContextDone
  BY <1>5, ListStands DEF ContextDone, BreadthInv, NothingMissed
<1>6. CASE EndLevel
  <2>1. /\ at = "jobs" /\ current' = {}
        /\ current = {} \/ scraped >= Limit
        /\ at' = IF scraped >= Limit THEN "done" ELSE "level"
        /\ depth' = IF scraped >= Limit THEN depth ELSE depth + 1
        /\ UNCHANGED <<pending, visited, scraped, summary, links, expired>>
    BY <1>6 DEF EndLevel
  <2>2. LevelInv
    BY <2>1 DEF BreadthInv
  <2>3. CASE scraped >= Limit
    <3>1. Limit \in Nat
      BY OptionAssumption DEF Limit
    <3>2. NothingMissed'
      BY <2>1, <2>3, <3>1 DEF NothingMissed, TypeOK, Limit
    <3> QED
      BY <2>1, <2>3, <3>2, ListStands DEF BreadthInv
  <2>4. CASE ~(scraped >= Limit)
    <3>1. /\ current = {} /\ current' = {} /\ at' = "level"
          /\ depth' = depth + 1
      BY <2>1, <2>4
    <3>2. \A k \in Listed : summary[k].depth <= depth'
      <4>1. \A k \in Listed : summary[k].depth \in Nat
        BY ListedDepth
      <4> QED
        BY <2>2, <3>1, <4>1 DEF LevelInv, TypeOK
    <3>3. LevelInv'
      BY <2>1, <2>2, <3>1, <3>2, ListStands DEF LevelInv, Expanded
    <3> QED
      BY <2>1, <3>1, <3>3, ListStands DEF BreadthInv, NothingMissed
  <2> QED
    BY <2>3, <2>4
<1>7. CASE Expire
  <2>1. at # "done"
        /\ UNCHANGED <<at, depth, pending, current, visited, summary, links>>
    BY <1>7 DEF Expire
  <2>2. LevelInv'
    BY <2>1, ListStands DEF BreadthInv, LevelInv, Expanded
  <2> QED
    BY <2>1, <2>2, ListStands DEF BreadthInv, NothingMissed
<1>8. CASE UNCHANGED vars
  <2>1. UNCHANGED <<at, depth, pending, current, visited, scraped, summary,
                    links, expired>>
    BY <1>8 DEF vars
  <2>2. at # "done" => LevelInv'
    BY <2>1, ListStands DEF BreadthInv, LevelInv, Expanded
  <2>3. NothingMissed'
    BY <2>1, ListStands DEF BreadthInv, NothingMissed, Limit
  <2> QED
    BY <2>1, <2>2, <2>3, ListStands DEF BreadthInv
<1> QED
  BY <1>1, <1>2, <1>3, <1>4, <1>5, <1>6, <1>7, <1>8 DEF Next, Crawl

LEMMA BreadthAlways == Spec => []BreadthInv
<1>1. TypeOK /\ VisitedOnce /\ BreadthInv /\ [Next]_vars => BreadthInv'
  BY BreadthNext
<1> QED
  BY BreadthInit, <1>1, CrawlTypes, LoadedOnce, PTL DEF Spec

\* The crawl is breadth first: what is listed, and stored with the modules,
\* as a page's depth is its distance from the root over the pages that could
\* be loaded, although pages of one level are taken in any order and a link
\* to a page may be found on several levels.
THEOREM DepthIsDistance == Spec => []ShortestDepth
<1>1. BreadthInv => ShortestDepth
  BY DEF BreadthInv
<1> QED
  BY <1>1, BreadthAlways, PTL

\* A crawl that neither the context nor the page limit ended has loaded all
\* it should: processDepthLevel expands every level but the last.
THEOREM CrawlIsComplete == Spec => []NothingMissed
<1>1. BreadthInv => NothingMissed
  BY DEF BreadthInv
<1> QED
  BY <1>1, BreadthAlways, PTL

-----------------------------------------------------------------------------
(* Why the crawl ends: the fairness apart, which only says that it goes on, *)
(* every step of it brings the end nearer, in the lexicographic order of    *)
(* the levels left, the place in the level, and the jobs left on it.        *)

Advances ==
    \/ at' = "done"
    \/ at = "level" /\ at' = "jobs" /\ depth' = depth
    \/ /\ at = "jobs" /\ at' = "jobs" /\ depth' = depth
       /\ Cardinality(current') < Cardinality(current)
    \/ /\ at = "jobs" /\ at' = "level"
       /\ depth' = depth + 1 /\ depth' <= Depth + 1

CrawlAdvances == [][Crawl => at # "done" /\ Advances]_vars

\* The jobs left on a level are finitely many, as they have one depth.
LEMMA LevelIsFinite ==
    ASSUME IsFiniteSet(Pages), TypeOK, BreadthInv, at = "jobs"
    PROVE  IsFiniteSet(current)
<1> DEFINE S == {CrawlJob(u, depth) : u \in Pages}
           f == [u \in Pages |-> CrawlJob(u, depth)]
<1>1. IsFiniteSet(S)
  <2>1. f \in Surjection(Pages, S)
    BY DEF Surjection
  <2> HIDE DEF f, S
  <2> QED
    BY <2>1, FS_Surjection
<1>2. ASSUME NEW j \in current PROVE j \in S
  <2>1. j \in Job /\ j.depth = depth
    BY DEF TypeOK, BreadthInv, LevelInv
  <2> QED
    BY <2>1 DEF Job, CrawlJob
<1> QED
  BY <1>1, <1>2, FS_Subset

\* Every step of the crawl advances it, although a page adds jobs: they
\* belong to the next level, and there are Depth + 1 levels.  So no crawl of
\* finitely many pages goes on for ever, whatever their links.
THEOREM EveryStepAdvances ==
    ASSUME IsFiniteSet(Pages)
    PROVE  Spec => CrawlAdvances
<1>1. TypeOK /\ BreadthInv /\ [Next]_vars =>
         [Crawl => at # "done" /\ Advances]_vars
  <2> SUFFICES ASSUME TypeOK, BreadthInv, Crawl
               PROVE  at # "done" /\ Advances
    OBVIOUS
  <2>1. CASE TakeLevel
    BY <2>1 DEF TakeLevel, Advances
  <2>2. CASE LastLevel \/ ContextDone
    BY <2>2 DEF LastLevel, ContextDone, Advances
  <2>3. CASE EndLevel
    <3>1. at = "jobs" /\ depth <= Depth /\ depth \in Nat
      BY <2>3 DEF EndLevel, BreadthInv, LevelInv, TypeOK
    <3> QED
      BY <2>3, <3>1, OptionAssumption DEF EndLevel, Advances
  <2>4. ASSUME NEW job \in current,
               SkipVisited(job) \/ PageFails(job) \/ ScrapeOne(job)
        PROVE  at # "done" /\ Advances
    <3>1. /\ at = "jobs" /\ at' = "jobs" /\ depth' = depth
          /\ current' = current \ {job}
      BY <2>4 DEF SkipVisited, PageFails, ScrapeOne, Takes
    <3>2. IsFiniteSet(current)
      BY <3>1, LevelIsFinite
    <3>3. /\ Cardinality(current \ {job}) = Cardinality(current) - 1
          /\ Cardinality(current) \in Nat
      BY <3>2, FS_RemoveElement, FS_CardinalityType
    <3>4. Cardinality(current') < Cardinality(current)
      BY <3>1, <3>3
    <3> QED
      BY <3>1, <3>4 DEF Advances
  <2> QED
    BY <2>1, <2>2, <2>3, <2>4 DEF Crawl
<1> QED
  BY <1>1, CrawlTypes, BreadthAlways, PTL DEF Spec, CrawlAdvances

-----------------------------------------------------------------------------
(* The reference.  Within is a recursive function: the choice of a function *)
(* that satisfies its equation.  That there is one is proved for 0..n, from *)
(* the least n without one.                                                *)

Less == {p \in Nat \X Nat : p[1] < p[2]}

\* A set of numbers that is not empty has a least one.
LEMMA Least ==
    ASSUME NEW B \in SUBSET Nat, B # {}
    PROVE  \E n \in B : \A m \in B : ~(m < n)
<1>1. IsWellFoundedOn(Less, Nat)
  BY NatLessThanWellFounded DEF OpToRel, Less
<1>2. PICK n \in B : \A m \in B : <<m, n>> \notin Less
  BY <1>1, WFMin
<1> QED
  BY <1>2 DEF Less

\* The pages within d links, if g gives those within fewer.
Reach(g, d) ==
    IF d = 0 THEN {Root}
    ELSE g[d - 1] \cup (Inside \cap UNION {links[u] : u \in g[d - 1]})

IsReach(g, n) == g = [d \in 0..n |-> Reach(g, d)]

LEMMA ReachExists == \A n \in Nat : \E g : IsReach(g, n)
<1> DEFINE Bad == {n \in Nat : ~ \E g : IsReach(g, n)}
<1>1. ASSUME Bad # {} PROVE FALSE
  <2>1. PICK n \in Bad : \A m \in Bad : ~(m < n)
    <3>1. Bad \in SUBSET Nat
      OBVIOUS
    <3> HIDE DEF Bad
    <3> QED
      BY <1>1, <3>1, Least
  <2>2. CASE n = 0
    <3> DEFINE g == [d \in 0..0 |-> {Root}]
    <3>1. \A d \in 0..0 : Reach(g, d) = {Root}
      BY DEF Reach
    <3>2. IsReach(g, 0)
      <4> HIDE DEF g
      <4>1. g = [d \in 0..0 |-> {Root}]
        BY DEF g
      <4> QED
        BY <3>1, <4>1 DEF IsReach
    <3> QED
      BY <2>1, <2>2, <3>2
  <2>3. CASE n # 0
    <3>1. n \in Nat /\ n - 1 \in Nat /\ n - 1 < n
      BY <2>1, <2>3
    <3>2. PICK g : IsReach(g, n - 1)
      BY <2>1, <3>1
    <3> DEFINE h == [d \in 0..n |-> Reach(g, d)]
    <3>3. \A d \in 0..(n - 1) : d \in 0..n /\ g[d] = Reach(g, d)
      BY <3>1, <3>2 DEF IsReach
    <3>4. \A d \in 0..(n - 1) : h[d] = g[d]
      BY <3>3
    <3> HIDE DEF h
    <3>5. \A d \in 0..n : d # 0 => d - 1 \in 0..(n - 1)
      BY <3>1
    <3>6. \A d \in 0..n : Reach(h, d) = Reach(g, d)
      BY <3>4, <3>5 DEF Reach
    <3>7. IsReach(h, n)
      BY <3>6 DEF h, IsReach
    <3> QED
      BY <2>1, <3>7
  <2> QED
    BY <2>2, <2>3
<1> QED
  BY <1>1

\* The reference satisfies its equation.
LEMMA WithinEquation ==
    ASSUME Depth \in Nat, NEW d \in 0..Depth
    PROVE  Within[d] = Reach(Within, d)
<1> DEFINE Chosen == CHOOSE g : IsReach(g, Depth)
<1>1. Within = Chosen
  BY DEF Within, IsReach, Reach
<1>2. \E g : IsReach(g, Depth)
  BY ReachExists
<1>3. IsReach(Chosen, Depth)
  BY <1>2, Zenon
<1>4. IsReach(Within, Depth)
  BY <1>1, <1>3
<1> DEFINE W == Within
<1>5. W = [e \in 0..Depth |-> Reach(W, e)]
  BY <1>4 DEF IsReach
<1> HIDE DEF W
<1>6. W[d] = Reach(W, d)
  BY <1>5
<1> QED
  BY <1>6 DEF W

\* No page is listed deeper than the options allow: a level past the last is
\* never taken, and a job of the last level leaves none behind.
NoDeeper == \A k \in Listed : summary[k].depth <= Depth

LEMMA DepthBound == Spec => []NoDeeper
<1>1. Init => NoDeeper
  BY DEF Init, NoDeeper, Listed
<1>2. TypeOK /\ VisitedOnce /\ BreadthInv /\ NoDeeper /\ [Next]_vars => NoDeeper'
  <2> SUFFICES ASSUME TypeOK, VisitedOnce, BreadthInv, NoDeeper, [Next]_vars
               PROVE  NoDeeper'
    OBVIOUS
  <2>1. ASSUME NEW job \in current, PageFails(job) \/ ScrapeOne(job)
        PROVE  NoDeeper'
    <3>1. at = "jobs"
      BY <2>1 DEF PageFails, ScrapeOne, Takes
    <3>2. job.depth <= Depth
      BY <3>1 DEF BreadthInv, LevelInv
    <3>3. PICK n : /\ Listed' = Listed \cup {n + 1}
                   /\ \A i \in Listed : summary'[i] = summary[i]
                   /\ summary'[n + 1].depth = job.depth
      BY <2>1, VisitAppends
    <3> QED
      BY <3>2, <3>3 DEF NoDeeper
  <2>2. CASE UNCHANGED summary
    BY <2>2 DEF NoDeeper, Listed
  <2>3. CASE TakeLevel \/ LastLevel \/ ContextDone \/ EndLevel \/ Expire
    BY <2>2, <2>3 DEF TakeLevel, LastLevel, ContextDone, EndLevel, Expire
  <2>4. ASSUME NEW job \in current, SkipVisited(job) PROVE NoDeeper'
    BY <2>2, <2>4 DEF SkipVisited
  <2>5. CASE UNCHANGED vars
    BY <2>2, <2>5 DEF vars
  <2> QED
    BY <2>1, <2>3, <2>4, <2>5 DEF Next, Crawl
<1> QED
  BY <1>1, <1>2, CrawlTypes, LoadedOnce, BreadthAlways, PTL DEF Spec

\* When as many pages are counted as are listed, every page has loaded.
LEMMA AllLoaded ==
    ASSUME TypeOK, LimitHolds, scraped = Len(summary), NEW k \in Listed
    PROVE  summary[k].success
<1>1. Len(summary) \in Nat
  BY DEF TypeOK
<1>2. IsFiniteSet(Listed) /\ Cardinality(Listed) = Len(summary)
  BY <1>1, FS_Interval DEF Listed
<1>3. Successes \in SUBSET Listed
  BY DEF Successes
<1>4. Cardinality(Successes) = Cardinality(Listed)
  BY <1>2 DEF LimitHolds, Report, Successes
<1>5. Successes = Listed
  BY <1>2, <1>3, <1>4, FS_Subset
<1> QED
  BY <1>5 DEF Successes

\* The pages listed with at most a depth.
UpToDepth(d) == {summary[i].url : i \in {k \in Listed : summary[k].depth <= d}}

\* The crawl takes the pages of a level from those of the level above, as the
\* reference does.
LEMMA LevelsAreReached ==
    ASSUME Depth \in Nat,
           \A u \in Pages : u \in Inside <=> Follow(u),
           TypeOK, VisitedOnce, LimitHolds, ShortestDepth, NothingMissed,
           at = "done", ~expired, scraped = Len(summary), scraped < Limit,
           NEW d \in 0..Depth, d > 0 => Within[d - 1] = UpToDepth(d - 1)
    PROVE  Within[d] = UpToDepth(d)
<1>1. /\ \A k \in Listed : /\ summary[k].url \in Pages
                           /\ summary[k].depth \in Nat
                           /\ summary[k].success
      /\ \A k \in Listed : k \in Nat /\ \A i \in 1..(k - 1) : i \in Listed
  <2>1. summary \in Seq(Summary)
    BY DEF TypeOK, Summary
  <2>2. \A k \in Listed : summary[k] \in Summary
    BY <2>1 DEF Listed
  <2>3. \A k \in Listed : k \in Nat /\ \A i \in 1..(k - 1) : i \in Listed
    BY <2>1 DEF Listed
  <2> QED
    BY <2>2, <2>3, AllLoaded DEF Summary
<1>2. \A u \in visited : \E i \in Listed : u = summary[i].url
  BY DEF VisitedOnce
<1>3. CASE d = 0
  <2>1. \A i \in Listed : summary[i].depth <= 0 <=> summary[i].url = Root
    BY <1>1 DEF ShortestDepth
  <2>2. \E i \in Listed : summary[i].url = Root
    BY <1>2 DEF NothingMissed
  <2>3. UpToDepth(0) = {Root}
    BY <2>1, <2>2 DEF UpToDepth
  <2> QED
    BY <1>3, <2>3, WithinEquation DEF Reach
<1>4. CASE d > 0
  <2>1. d \in Nat /\ d - 1 \in Nat /\ d <= Depth
    BY <1>4
  <2> DEFINE Above == UpToDepth(d - 1)
             Found == Inside \cap UNION {links[u] : u \in Above}
  <2>2. Within[d] = Above \cup Found
    <3>1. Within[d] = Reach(Within, d) /\ d # 0 /\ Within[d - 1] = Above
      BY <1>4, WithinEquation
    <3> HIDE DEF Above
    <3> QED
      BY <3>1 DEF Reach
  <2>3. ASSUME NEW v \in Above PROVE v \in UpToDepth(d)
    BY <1>1, <2>1 DEF UpToDepth
  <2>4. ASSUME NEW v \in Found PROVE v \in UpToDepth(d)
    <3>1. PICK k \in Listed : /\ summary[k].depth <= d - 1
                              /\ v \in links[summary[k].url]
                              /\ v \in Inside
      BY DEF UpToDepth
    <3>2. v \in Pages
      BY <1>1, <3>1 DEF TypeOK
    <3>3. LeadsTo(k, v)
      BY <1>1, <3>1, <3>2 DEF LeadsTo
    <3>4. v \in visited
      BY <1>1, <2>1, <3>1, <3>2, <3>3 DEF NothingMissed
    <3>5. PICK i \in Listed : v = summary[i].url
      BY <1>2, <3>4
    <3>6. summary[i].depth <= summary[k].depth + 1
      BY <3>3, <3>5 DEF ShortestDepth
    <3>7. summary[i].depth <= d
      BY <1>1, <2>1, <3>1, <3>6
    <3> QED
      BY <3>5, <3>7 DEF UpToDepth
  <2>5. ASSUME NEW v \in UpToDepth(d) PROVE v \in Above \cup Found
    <3>1. PICK i \in Listed : v = summary[i].url /\ summary[i].depth <= d
      BY DEF UpToDepth
    <3>2. CASE summary[i].depth <= d - 1
      BY <3>1, <3>2 DEF UpToDepth
    <3>3. CASE ~(summary[i].depth <= d - 1)
      <4>1. summary[i].depth = d
        BY <1>1, <2>1, <3>1, <3>3
      <4>2. PICK k \in 1..(i - 1) : /\ LeadsTo(k, v)
                                    /\ summary[k].depth = d - 1
        BY <1>4, <3>1, <4>1 DEF ShortestDepth
      <4>3. k \in Listed /\ v \in Inside
        BY <1>1, <3>1, <4>2 DEF LeadsTo
      <4>4. summary[k].url \in Above
        BY <2>1, <4>2, <4>3 DEF UpToDepth
      <4> QED
        BY <4>2, <4>3, <4>4 DEF LeadsTo
    <3> QED
      BY <3>2, <3>3
  <2> HIDE DEF Above, Found
  <2> QED
    BY <2>2, <2>3, <2>4, <2>5
<1> QED
  BY <1>3, <1>4

\* A crawl in which every page loads, that neither the context nor the page
\* limit ended, has visited exactly the pages within Depth links of the root
\* that its options let it follow: for every site and every depth.  Inside
\* names those pages, as the instances give it.
THEOREM VisitsTheReachable ==
    ASSUME Depth \in Nat, \A u \in Pages : u \in Inside <=> Follow(u)
    PROVE  Spec => []ExactlyReachable
<1>1. ASSUME TypeOK, VisitedOnce, LimitHolds, ShortestDepth, NothingMissed,
             NoDeeper
      PROVE  ExactlyReachable
  <2> SUFFICES ASSUME at = "done", ~expired, scraped = Len(summary),
                      scraped < Limit
               PROVE  visited = Within[Depth]
    BY DEF ExactlyReachable
  <2> DEFINE Bad == {d \in 0..Depth : Within[d] # UpToDepth(d)}
  <2>1. ASSUME Bad # {} PROVE FALSE
    <3>1. PICK d \in Bad : \A e \in Bad : ~(e < d)
      <4>1. Bad \in SUBSET Nat
        OBVIOUS
      <4> HIDE DEF Bad
      <4> QED
        BY <2>1, <4>1, Least
    <3>2. d > 0 => d - 1 \in 0..Depth /\ d - 1 \notin Bad
      BY <3>1
    <3>3. Within[d] = UpToDepth(d)
      BY <1>1, <3>2, LevelsAreReached
    <3> QED
      BY <3>3
  <2>2. Within[Depth] = UpToDepth(Depth)
    BY <2>1
  <2>3. UpToDepth(Depth) = visited
    BY <1>1 DEF UpToDepth, VisitedOnce, NoDeeper
  <2> QED
    BY <2>2, <2>3
<1> QED
  BY <1>1, CrawlTypes, LoadedOnce, WithinLimit, DepthIsDistance,
     CrawlIsComplete, DepthBound, PTL

=============================================================================
