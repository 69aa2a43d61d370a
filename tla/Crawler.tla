------------------------------ MODULE Crawler ------------------------------
(***************************************************************************)
(* The multi-page crawl of one job (Engine.CrawlPages): level by level from *)
(* the root URL, every URL at most once, up to a depth and up to a number   *)
(* of pages, until the job's context expires.                              *)
(*                                                                         *)
(* A page is its URL.  What a browser finds behind it is nondeterministic:  *)
(* loading may fail, and a loaded page has any set of links of LinkSets.    *)
(* The jobs of one level are kept in a set: the code takes them in the      *)
(* order of the links, this specification in every order, and a URL queued  *)
(* twice on a level is one element here and skipped as visited there.       *)
(***************************************************************************)
EXTENDS Integers, Sequences, FiniteSets

CONSTANTS
    Pages, Root,
    LinkSets,           \* the sets of links a page may have
    Depth,              \* options.Depth
    MaxPages,           \* options.MaxPages
    SameDomainOnly, OnDomain,               \* URLs with the root's host
    IncludePatterns, ExcludePatterns,       \* a pattern is the set of URLs
                                            \* it matches; {} if invalid
    Skipped             \* URLs of files, anchors and other schemes

ASSUME SiteAssumption == /\ Root \in Pages
                         /\ LinkSets \subseteq SUBSET Pages
                         /\ OnDomain \subseteq Pages
                         /\ Skipped \subseteq Pages
                         /\ IncludePatterns \subseteq SUBSET Pages
                         /\ ExcludePatterns \subseteq SUBSET Pages

\* ScrapePage crawls only then, and takes a single page otherwise.
ASSUME OptionAssumption == /\ Depth \in Int
                           /\ MaxPages \in Int
                           /\ Depth > 0 \/ MaxPages > 1
                           /\ SameDomainOnly \in BOOLEAN

VARIABLES
    at,             \* "level", "jobs" or "done"
    depth,          \* currentDepth
    pending,        \* pendingJobs
    current,        \* the jobs of this level that are left
    visited,        \* visitedURLs
    scraped,        \* pagesScraped
    summary,        \* pagesSummary
    links,          \* history: the links found on each scraped page
    expired         \* the context is done: JobTimeout, or the pool stops

vars == <<at, depth, pending, current, visited, scraped, summary, links,
          expired>>

-----------------------------------------------------------------------------

Limit == IF MaxPages <= 0 THEN 10 ELSE MaxPages

MatchesPatterns(u, patterns) == \E p \in patterns : u \in p

\* Mutant of Follow: an include pattern overrides the exclude patterns.
FollowIncluded(u) ==
    /\ SameDomainOnly => u \in OnDomain
    /\ MatchesPatterns(u, IncludePatterns) \/ ~MatchesPatterns(u, ExcludePatterns)
    /\ u \notin Skipped

Follow(u) ==
    /\ SameDomainOnly => u \in OnDomain
    /\ ~MatchesPatterns(u, ExcludePatterns)
    /\ IncludePatterns = {} \/ MatchesPatterns(u, IncludePatterns)
    /\ u \notin Skipped

CrawlJob(u, d) == [url |-> u, depth |-> d]
NewJobs(found, d) == {CrawlJob(u, d) : u \in {v \in found : Follow(v)}}

PageSummary(job, ok) == [url |-> job.url, depth |-> job.depth, success |-> ok]

-----------------------------------------------------------------------------

Init ==
    /\ at = "level"
    /\ depth = 0
    /\ pending = {CrawlJob(Root, 0)}
    /\ current = {}
    /\ visited = {}
    /\ scraped = 0
    /\ summary = <<>>
    /\ links = [u \in Pages |-> {}]
    /\ expired = FALSE

\* processDepthLevel takes the jobs of its depth.
TakeLevel ==
    /\ at = "level"
    /\ depth <= Depth
    /\ current' = {j \in pending : j.depth = depth}
    /\ pending' = pending \ current'
    /\ at' = "jobs"
    /\ UNCHANGED <<depth, visited, scraped, summary, links, expired>>

\* The loop over the levels is through.
LastLevel ==
    /\ at = "level"
    /\ depth > Depth
    /\ at' = "done"
    /\ UNCHANGED <<depth, pending, current, visited, scraped, summary, links,
                   expired>>

\* Mutant of Takes: one page more than the limit.
TakesOneMore(job) ==
    /\ at = "jobs"
    /\ job \in current
    /\ ~expired
    /\ scraped <= Limit

\* A job is looked at when the context is not done and the limit not met.
Takes(job) ==
    /\ at = "jobs"
    /\ job \in current
    /\ ~expired
    /\ scraped < Limit

SkipVisited(job) ==
    /\ Takes(job)
    /\ job.url \in visited
    /\ current' = current \ {job}
    /\ UNCHANGED <<at, depth, pending, visited, scraped, summary, links,
                   expired>>

\* Mutant of Unvisited: every job is scraped.
AnyJob(job) == TRUE
Unvisited(job) == job.url \notin visited

\* A page that fails is visited and listed, but not counted.
PageFails(job) ==
    /\ Takes(job)
    /\ Unvisited(job)
    /\ visited' = visited \cup {job.url}
    /\ summary' = Append(summary, PageSummary(job, FALSE))
    /\ current' = current \ {job}
    /\ UNCHANGED <<at, depth, pending, scraped, links, expired>>

\* Mutants of ScrapeOne: new jobs join the level that is being processed,
\* and a last level that is expanded one time too few.
ScrapeDepthFirst(job) ==
    \E found \in LinkSets :
        /\ Takes(job)
        /\ Unvisited(job)
        /\ visited' = visited \cup {job.url}
        /\ summary' = Append(summary, PageSummary(job, TRUE))
        /\ scraped' = scraped + 1
        /\ links' = [links EXCEPT ![job.url] = found]
        /\ current' = (current \ {job}) \cup
                      (IF job.depth < Depth
                       THEN NewJobs(found, job.depth + 1) ELSE {})
        /\ UNCHANGED <<at, depth, pending, expired>>
ScrapeShallow(job) ==
    \E found \in LinkSets :
        /\ Takes(job)
        /\ Unvisited(job)
        /\ visited' = visited \cup {job.url}
        /\ summary' = Append(summary, PageSummary(job, TRUE))
        /\ scraped' = scraped + 1
        /\ links' = [links EXCEPT ![job.url] = found]
        /\ pending' = IF job.depth + 1 < Depth
                      THEN pending \cup NewJobs(found, job.depth + 1)
                      ELSE pending
        /\ current' = current \ {job}
        /\ UNCHANGED <<at, depth, expired>>

ScrapeOne(job) ==
    \E found \in LinkSets :
        /\ Takes(job)
        /\ Unvisited(job)
        /\ visited' = visited \cup {job.url}
        /\ summary' = Append(summary, PageSummary(job, TRUE))
        /\ scraped' = scraped + 1
        /\ links' = [links EXCEPT ![job.url] = found]
        /\ pending' = IF job.depth < Depth
                      THEN pending \cup NewJobs(found, job.depth + 1)
                      ELSE pending
        /\ current' = current \ {job}
        /\ UNCHANGED <<at, depth, expired>>

\* An error of processDepthLevel ends the crawl; it is only logged.
ContextDone ==
    /\ at = "jobs"
    /\ current # {}
    /\ expired
    /\ at' = "done"
    /\ UNCHANGED <<depth, pending, current, visited, scraped, summary, links,
                   expired>>

\* Mutants of EndLevel: the level is not advanced, or counted down.
EndLevelStuck ==
    /\ at = "jobs"
    /\ current = {} \/ (~expired /\ scraped >= Limit)
    /\ at' = IF scraped >= Limit THEN "done" ELSE "level"
    /\ current' = {}
    /\ UNCHANGED <<depth, pending, visited, scraped, summary, links, expired>>

EndLevelDown ==
    /\ at = "jobs"
    /\ current = {} \/ (~expired /\ scraped >= Limit)
    /\ at' = IF scraped >= Limit THEN "done" ELSE "level"
    /\ depth' = IF scraped >= Limit THEN depth ELSE depth - 1
    /\ current' = {}
    /\ UNCHANGED <<pending, visited, scraped, summary, links, expired>>

\* The level is through, or broken off at the page limit.
EndLevel ==
    /\ at = "jobs"
    /\ current = {} \/ (~expired /\ scraped >= Limit)
    /\ at' = IF scraped >= Limit THEN "done" ELSE "level"
    /\ depth' = IF scraped >= Limit THEN depth ELSE depth + 1
    /\ current' = {}
    /\ UNCHANGED <<pending, visited, scraped, summary, links, expired>>

Expire ==
    /\ ~expired
    /\ at # "done"
    /\ expired' = TRUE
    /\ UNCHANGED <<at, depth, pending, current, visited, scraped, summary,
                   links>>

Crawl ==
    \/ TakeLevel \/ LastLevel \/ ContextDone \/ EndLevel
    \/ \E job \in current : SkipVisited(job) \/ PageFails(job)
                            \/ ScrapeOne(job)

Next == Crawl \/ Expire

Spec == Init /\ [][Next]_vars
FairSpec == Spec /\ WF_vars(Crawl)

\* What CrawlPages returns, never with an error.
Report == [pages_processed |-> scraped,
           total_pages_found |-> Cardinality(visited),
           crawl_depth |-> Depth]

-----------------------------------------------------------------------------
(* Properties.                                                             *)

Job == [url : Pages, depth : Nat]

TypeOK ==
    /\ at \in {"level", "jobs", "done"}
    /\ depth \in Nat
    /\ pending \subseteq Job
    /\ current \subseteq Job
    /\ visited \subseteq Pages
    /\ scraped \in Nat
    /\ summary \in Seq([url : Pages, depth : Nat, success : BOOLEAN])
    /\ links \in [Pages -> SUBSET Pages]
    /\ expired \in BOOLEAN

Listed == 1..Len(summary)

\* No URL is loaded twice in a crawl, however many pages of however many
\* levels link to it.
VisitedOnce ==
    /\ \A i, k \in Listed : summary[i].url = summary[k].url => i = k
    /\ visited = {summary[i].url : i \in Listed}

\* The reported number of pages is within the limit and is the number of
\* pages listed as successes.
LimitHolds ==
    /\ Report.pages_processed <= Limit
    /\ Report.pages_processed = Cardinality({i \in Listed : summary[i].success})

\* Page k leads the crawl to page u.
LeadsTo(k, u) ==
    /\ summary[k].success
    /\ u \in links[summary[k].url]
    /\ Follow(u)

\* The crawl is breadth first: the depth listed for a page, which is stored
\* as the source depth of its modules, is its distance from the root over
\* the pages that could be loaded.
ShortestDepth ==
    \A i \in Listed :
        LET u == summary[i].url
            d == summary[i].depth
        IN  /\ d = 0 <=> u = Root
            /\ d > 0 => \E k \in 1..(i - 1) : /\ LeadsTo(k, u)
                                              /\ summary[k].depth = d - 1
            /\ \A k \in Listed : LeadsTo(k, u) => d <= summary[k].depth + 1

\* A crawl that neither the context nor the page limit ended has loaded
\* every page within Depth steps of the root that it may follow.
NothingMissed ==
    at = "done" /\ ~expired /\ scraped < Limit =>
        /\ Depth >= 0 => Root \in visited
        /\ \A k \in Listed, u \in Pages :
              LeadsTo(k, u) /\ summary[k].depth < Depth => u \in visited

\* Every crawl ends.
CrawlEnds == <>(at = "done")

=============================================================================
