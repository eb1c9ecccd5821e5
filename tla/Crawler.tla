------------------------------ MODULE Crawler ------------------------------
(***************************************************************************)
(* The breadth-first crawl of Crawler.crawl (pentestiq/crawler/crawler.py) *)
(* over a site that does not change: what it visits, in which order, and   *)
(* what stops it.  Parsing a page is the site's links and scripts here.    *)
(***************************************************************************)
EXTENDS Naturals, FiniteSets, SequencesExt

CONSTANTS
    Pages,       \* normalised URLs, the static assets left out
    Seed,
    Scripts,     \* URLs of same-scope scripts
    Sites,       \* the sites to crawl
    MaxPages, MaxDepth, MaxJs

\* A site: what each page links to and loads, which pages answer, which of them
\* with HTML, which pages are on a host in scope from the start, which on the
\* host the seed is redirected to.
Site == [links: [Pages -> SUBSET Pages], scripts: [Pages -> SUBSET Scripts],
         up: SUBSET Pages, html: SUBSET Pages, own: SUBSET Pages, landing: SUBSET Pages]

ASSUME CrawlerAssumption ==
    /\ Seed \in Pages
    /\ Sites \subseteq Site
    /\ \A s \in Sites :
         /\ Seed \in s.own
         /\ \A p \in Pages : IsFiniteSet(s.links[p]) /\ IsFiniteSet(s.scripts[p])
    /\ {MaxPages, MaxDepth, MaxJs} \subseteq Nat

VARIABLES
    site,
    queue,        \* q: <<url, depth>>
    visited, queued,
    expanded,     \* seed_expanded: the landing host is in scope
    urls,         \* result.urls; pages is its number
    js            \* js_seen

crawlVars == <<site, queue, visited, queued, expanded, urls, js>>

CrawlTypeOK ==
    /\ site \in Site
    /\ queue \in Seq(Pages \X (0..MaxDepth))
    /\ visited \subseteq queued
    /\ queued \subseteq Pages
    /\ expanded \in BOOLEAN
    /\ urls \subseteq visited
    /\ Cardinality(urls) <= MaxPages
    /\ js \subseteq Scripts
    /\ Cardinality(js) <= MaxJs

CrawlInit ==
    /\ site \in Sites
    /\ queue = << <<Seed, 0>> >>
    /\ visited = {}
    /\ queued = {Seed}
    /\ expanded = FALSE
    /\ urls = {}
    /\ js = {}

InScope(wide) == site.own \union (IF wide THEN site.landing ELSE {})

Crawling == queue # << >> /\ Cardinality(urls) < MaxPages

\* Seeded fault: off by one.
NewLinksTooDeep(url, depth) ==
    IF depth <= MaxDepth
    THEN (site.links[url] \intersect InScope(TRUE)) \ queued
    ELSE {}

\* The links of a page that join the queue; by then the seed has answered.
NewLinks(url, depth) ==
    IF depth < MaxDepth
    THEN (site.links[url] \intersect InScope(TRUE)) \ queued
    ELSE {}

\* The scripts it fetches, the first ones of the page up to the limit.
NewScripts(url) ==
    {S \in SUBSET (site.scripts[url] \ js) :
        Cardinality(S) = Min({MaxJs - Cardinality(js), Cardinality(site.scripts[url] \ js)})}

\* A queued page is new, by "queued"; it may not answer, or not with HTML.
Visit ==
    LET url == Head(queue)[1]
        depth == Head(queue)[2]
        new == NewLinks(url, depth)
    IN  /\ Crawling
        /\ visited' = visited \union {url}
        /\ IF url \notin site.up
           THEN queue' = Tail(queue) /\ UNCHANGED <<queued, expanded, urls, js>>
           ELSE /\ expanded' = TRUE
                /\ urls' = urls \union {url}
                /\ IF url \notin site.html
                   THEN queue' = Tail(queue) /\ UNCHANGED <<queued, js>>
                   ELSE /\ queued' = queued \union new
                        /\ \E order \in SetToSeqs(new) :
                             queue' = Tail(queue) \o [i \in DOMAIN order |-> <<order[i], depth + 1>>]
                        /\ \E S \in NewScripts(url) : js' = js \union S
        /\ UNCHANGED site

CrawlNext == Visit

CrawlSpec == CrawlInit /\ [][CrawlNext]_crawlVars

-----------------------------------------------------------------------------

\* Where a page leads: a page that answers with HTML, to its links inside the scope
\* widened by where the seed landed.
Onward(p) ==
    IF p \in site.up \intersect site.html THEN site.links[p] \intersect InScope(TRUE) ELSE {}

\* The pages at most d links from the seed, by definition.
Within(d) ==
    {p \in Pages : \E n \in 0..d : \E path \in [0..n -> Pages] :
        /\ path[0] = Seed /\ path[n] = p
        /\ \A k \in 1..n : path[k] \in Onward(path[k - 1])}

\* A crawl that ends below its page limit has visited exactly the pages that
\* answer within the depth limit,
\* whatever the order of links, dead pages and cycles; at the limit it has
\* visited only such pages.
CrawlCoversReach ==
    ~Crawling =>
        /\ urls \subseteq Within(MaxDepth) \intersect site.up
        /\ Cardinality(urls) < MaxPages => urls = Within(MaxDepth) \intersect site.up

=============================================================================
