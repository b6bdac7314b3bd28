------------------------------- MODULE Search -------------------------------
(***************************************************************************)
(* server/ctrlsubsonic/handlers_search.go, ServeSearchThree: a query goes  *)
(* to every provider at once, once for each kind of thing the client asked *)
(* for; the answers are merged, cached for all users under the query, and  *)
(* marked with the stars of the user who asked.                            *)
(*                                                                         *)
(* All requests ask the same query, the only part of a request the cache   *)
(* looks at.  A thing is a provider's title; titles that are the same up   *)
(* to case and spaces are one title.  The array a request merged is what   *)
(* the cache then refers to: it is kept under the request's name.          *)
(***************************************************************************)
EXTENDS Naturals, Sequences, FiniteSets, SequencesExt

CONSTANTS
    Providers,  \* those enabled for metadata, by their prefix
    Users,
    Requests,
    Plans,      \* what the providers know and what the requests are:
                \* [primary, offers, asks, starred]
    NoOne       \* no request

BaseWeight == [td |-> 900, qb |-> 800, dz |-> 700, mc |-> 650,
               sp |-> 500, am |-> 400, yt |-> 200, sc |-> 100]

Kinds == {"tracks", "artists", "albums"}
Things == [kind : Kinds, prov : Providers, title : STRING]

ASSUME ProvidersAssumption == Providers \subseteq DOMAIN BaseWeight
ASSUME NoOneAssumption == NoOne \notin Requests

\* Requests are those of users, users star things of the providers, and a search
\* wants some number of each kind
ASSUME PlansAssumption ==
    \A p \in Plans :
        /\ p.starred \in [Users -> SUBSET Things]
        /\ p.primary \in Providers /\ p.offers \in [Providers -> Seq(STRING)]
        /\ \A r \in Requests : p.asks[r].user \in Users /\ (p.asks[r].op = "search" => p.asks[r].count \in Nat)

VARIABLES
    plan,     \* the plan of this behaviour
    stars,    \* user -> what the database says the user starred
    search,   \* request -> where its handler is
    pending,  \* request -> kind -> providers that still have to answer
    gathered, \* request -> kind -> the entries of the lists that came, in that order
    list,     \* request -> kind -> the array merged or copied for it
    favs,     \* request -> kind -> the user's favourites that match
    cache,    \* searchCache: whose arrays it holds, or NoOne
    left,     \* requests whose client went away
    down      \* the process was ended by a panic

searchVars == <<search, pending, gathered, list, favs, cache, left, down>>

Ask(r) == plan.asks[r]

\* getProviderPriority
Weight(p) == BaseWeight[p] + (IF p = plan.primary THEN 1000 ELSE 0)

\* The default provider, and those that are asked besides it: Tidal is not one of them
Asked == {plan.primary} \cup (Providers \ {"td"})

\* strconv.Atoi of an id of letters is zero
Lettered == {"yt", "sp", "sc"}
Value(e) == IF e.prov \in Lettered THEN <<>> ELSE <<e.prov, e.title>>

\* scoreTrack: how well a title answers the query
Score(title) == IF title = "exact" THEN 2 ELSE IF title = "near" THEN 1 ELSE 0

\* filterExactMatches: titles that contain every term of the query
Matching == {"exact", "near"}

Entries == [prov : Providers, weight : Nat, title : STRING, starred : BOOLEAN]
Entry(p, title) == [prov |-> p, weight |-> Weight(p), title |-> title, starred |-> FALSE]
Thing(k, e) == [kind |-> k, prov |-> e.prov, title |-> e.title]
Offered(p) == [i \in DOMAIN plan.offers[p] |-> Entry(p, plan.offers[p][i])]

-----------------------------------------------------------------------------
\* Sorting and removing duplicates

\* sort.SliceStable, by insertion: an entry goes behind those that are as good
Heavier(e, f) == e.weight > f.weight
Better(e, f) == Score(e.title) > Score(f.title) \/ (Score(e.title) = Score(f.title) /\ Heavier(e, f))

Put(s, e, place) == SubSeq(s, 1, place) \o <<e>> \o SubSeq(s, place + 1, Len(s))

PutByWeight(s, e) == Put(s, e, Cardinality({i \in DOMAIN s : ~ Heavier(e, s[i])}))
PutByScore(s, e) == Put(s, e, Cardinality({i \in DOMAIN s : ~ Better(e, s[i])}))

ByWeight(s) ==
    LET sorted[i \in 0..Len(s)] == IF i = 0 THEN <<>> ELSE PutByWeight(sorted[i - 1], s[i])
    IN  sorted[Len(s)]

ByScore(s) ==
    LET sorted[i \in 0..Len(s)] == IF i = 0 THEN <<>> ELSE PutByScore(sorted[i - 1], s[i])
    IN  sorted[Len(s)]

\* seenKeys: only the first of a title stays
AddTitle(s, e) == IF \E i \in DOMAIN s : s[i].title = e.title THEN s ELSE Append(s, e)

FirstOfEachTitle(s) ==
    LET kept[i \in 0..Len(s)] == IF i = 0 THEN <<>> ELSE AddTitle(kept[i - 1], s[i])
    IN  kept[Len(s)]

AtMost(n, s) == IF Len(s) > n THEN SubSeq(s, 1, n) ELSE s

\* Mutant: duplicates are removed before the lists are sorted
MergeAsTheyCome(s, count) == AtMost(count, ByScore(FirstOfEachTitle(s)))

MergeTracks(s, count) == AtMost(count, ByScore(FirstOfEachTitle(ByWeight(s))))

\* Artists and albums are not scored
MergeEntries(s, count) == AtMost(count, FirstOfEachTitle(ByWeight(s)))

Merged(r, k) ==
    IF k = "tracks" THEN MergeTracks(gathered[r][k], Ask(r).count)
                    ELSE MergeEntries(gathered[r][k], Ask(r).count)

-----------------------------------------------------------------------------
\* The handler

Nothing(v) == [k \in Kinds |-> v]

SearchInit ==
    /\ plan \in Plans
    /\ stars = plan.starred
    /\ search = [r \in Requests |-> "idle"]
    /\ pending = [r \in Requests |-> Nothing({})]
    /\ gathered = [r \in Requests |-> Nothing(<<>>)]
    /\ list = [r \in Requests |-> Nothing(<<>>)]
    /\ favs = [r \in Requests |-> Nothing(<<>>)]
    /\ cache = NoOne
    /\ left = {}
    /\ down = FALSE

Goto(r, step) == search' = [search EXCEPT ![r] = step]

\* What a look into the cache gives: copies of the entries that match, of every
\* kind whether or not it was asked for, in whatever number
FromCache ==
    IF cache = NoOne THEN Nothing(<<>>)
    ELSE [k \in Kinds |-> SelectSeq(list[cache][k], LAMBDA e : e.title \in Matching)]

Found == \E k \in Kinds : FromCache[k] # <<>>

ServeSearchThree(r) ==
    /\ search[r] = "idle" /\ Ask(r).op = "search"
    /\ IF Found THEN /\ list' = [list EXCEPT ![r] = FromCache]
                     /\ Goto(r, "marking")
                     /\ UNCHANGED pending
                ELSE /\ pending' = [pending EXCEPT ![r] =
                            [k \in Kinds |-> IF k \in Ask(r).kinds THEN Asked ELSE {}]]
                     /\ Goto(r, "fetching")
                     /\ UNCHANGED list
    /\ UNCHANGED <<plan, stars, gathered, favs, cache, left, down>>

\* A provider's call ends, with a list or with an error
Answers(r, k, p, came) ==
    /\ p \in pending[r][k]
    /\ pending' = [pending EXCEPT ![r][k] = @ \ {p}]
    /\ gathered' = IF came THEN [gathered EXCEPT ![r][k] = @ \o Offered(p)] ELSE gathered
    /\ UNCHANGED <<plan, stars, search, list, favs, cache, left, down>>

\* It panics: the goroutines that search tracks recover, those that search artists
\* or albums do not, and the panic of a goroutine ends the process
Panics(r, k, p) ==
    /\ p \in pending[r][k] /\ plan.fragile
    /\ pending' = [pending EXCEPT ![r][k] = @ \ {p}]
    /\ down' = (k # "tracks")
    /\ UNCHANGED <<plan, stars, search, gathered, list, favs, cache, left>>

\* What the user starred of the things that match, freshly fetched: not for a
\* cached answer, and only for the first page
Favourites(r) ==
    LET mine(k) == {t \in stars[Ask(r).user] : t.kind = k /\ t.title \in Matching}
        Starred(t) == [Entry(t.prov, t.title) EXCEPT !.starred = TRUE]
    IN  [k \in Kinds |-> IF Ask(r).first THEN SetToSeq({Starred(t) : t \in mine(k)}) ELSE <<>>]

\* All have answered: merge, look for favourites and store the arrays, for whoever
\* asks this query next, even if the client has left meanwhile
Collect(r) ==
    /\ search[r] = "fetching" /\ \A k \in Kinds : pending[r][k] = {}
    /\ LET merged == [k \in Kinds |-> Merged(r, k)]
       IN  /\ list' = [list EXCEPT ![r] = merged]
           /\ cache' = IF \E k \in Kinds : merged[k] # <<>> THEN r ELSE cache
    /\ favs' = [favs EXCEPT ![r] = Favourites(r)]
    /\ Goto(r, "marking")
    /\ UNCHANGED <<plan, stars, pending, gathered, left, down>>

\* Favourites come first and push out every entry with the number of one of them
Shows(r, k, e) == \A i \in DOMAIN favs[r][k] : Value(favs[r][k][i]) # Value(e)
Answer(r, k) == favs[r][k] \o SelectSeq(list[r][k], LAMBDA e : Shows(r, k, e))

\* applyTrackStar, applyArtistStar, applyAlbumStar: stars are set in the arrays
\* themselves, and never cleared
Starred(r, k, e) ==
    [e EXCEPT !.starred = @ \/ (Shows(r, k, e) /\ Thing(k, e) \in stars[Ask(r).user])]

Mark(r) ==
    /\ search[r] = "marking"
    /\ IF r \in left
       THEN Goto(r, "gone") /\ UNCHANGED list
       ELSE /\ list' = [list EXCEPT ![r] =
                   [k \in Kinds |-> [i \in DOMAIN @[k] |-> Starred(r, k, @[k][i])]]]
            /\ Goto(r, "answered")
    /\ gathered' = [gathered EXCEPT ![r] = Nothing(<<>>)]
    /\ UNCHANGED <<plan, stars, pending, favs, cache, left, down>>

Leave(r) ==
    /\ search[r] = "fetching" /\ r \notin left
    /\ left' = left \cup {r}
    /\ UNCHANGED <<plan, stars, search, pending, gathered, list, favs, cache, down>>

\* The entry is five minutes old
Forget ==
    /\ cache # NoOne
    /\ cache' = NoOne
    /\ UNCHANGED <<plan, stars, search, pending, gathered, list, favs, left, down>>

-----------------------------------------------------------------------------
\* Properties

\* What is best of the entries that came: out has every title once, from the weightiest
\* provider that offered it, the best first, and nothing better was cut off
Best(out, entries, k, count) ==
    LET came == {entries[i].prov : i \in DOMAIN entries}
        offered == UNION {Range(plan.offers[p]) : p \in came}
        claims(t) == {p \in came : t \in Range(plan.offers[p])}
        winner(t) == CHOOSE p \in claims(t) : \A q \in claims(t) : Weight(p) >= Weight(q)
        score(t) == IF k = "tracks" THEN Score(t) ELSE 0
        worth(t) == 10000 * score(t) + Weight(winner(t))
        kept == {out[i].title : i \in DOMAIN out}
    IN  /\ Cardinality(kept) = Len(out)
        /\ \A i \in DOMAIN out : out[i].prov = winner(out[i].title)
        /\ \A i, j \in DOMAIN out : i < j => worth(out[i].title) >= worth(out[j].title)
        /\ Len(out) = count \/ kept = offered
        /\ \A t \in offered \ kept, i \in DOMAIN out : worth(out[i].title) >= worth(t)

\* Whichever order the providers answer in, a merged list has the best of what they
\* offer, and a title is its weightiest provider's (a lossless one's before a lossy one's).
\* (ServeSearchThree's merges: "preventing lossy sources from claiming the track key")
MergedBest ==
    \A r \in Requests, k \in Kinds :
        search[r] = "marking" /\ gathered[r][k] # <<>> => Best(list[r][k], gathered[r][k], k, Ask(r).count)

\* A user sees stars on the things that user starred and on no others.
\* (applyTrackStar: "checks if user has starred this track and decorates it")
StarsAreYours ==
    \A r \in Requests, k \in Kinds : search[r] = "answered" =>
        \A i \in DOMAIN Answer(r, k) :
            Answer(r, k)[i].starred => Thing(k, Answer(r, k)[i]) \in plan.starred[Ask(r).user]

-----------------------------------------------------------------------------
SearchWork(r) ==
    \/ \E k \in Kinds, p \in Providers, came \in BOOLEAN : Answers(r, k, p, came)
    \/ Collect(r)
    \/ Mark(r)

SearchNext ==
    /\ ~ down
    /\ \/ \E r \in Requests : ServeSearchThree(r) \/ SearchWork(r) \/ Leave(r)
       \/ \E r \in Requests, k \in Kinds, p \in Providers : Panics(r, k, p)
       \/ Forget

=============================================================================
