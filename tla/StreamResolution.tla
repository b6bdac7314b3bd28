-------------------------- MODULE StreamResolution --------------------------
(***************************************************************************)
(* How a request for a stream finds an audio URL: ServeStream with its     *)
(* duplicate suppression (server/ctrlsubsonic/handlers_stream.go),         *)
(* prepareStream with URL cache, single flight and chain of fallbacks      *)
(* (helpers.go), the providers' registry (provider/registry.go) and the    *)
(* remembered sources of a song (db/sources.go).                           *)
(*                                                                         *)
(* Everybody asks for one song, which every provider may have: its id at   *)
(* provider p is p, and so is the audio URL that p resolves.  What a       *)
(* provider offers stays the same; a call can fail for the caller's sake.  *)
(* A step ends where another goroutine may look: a lock, a map, a          *)
(* statement on the database, a call over the network.                     *)
(***************************************************************************)
EXTENDS Naturals, FiniteSets

CONSTANTS
    Requests,    \* requests for the song, from one client address
    Providers,   \* those that are registered
    Home,        \* the provider of the id that is asked for
    Offers,      \* what providers may offer: functions to "full", "preview", "none"
    Tables,      \* what track_sources may hold at first: provider -> tier
    Switched,    \* what may be switched on at first: sets of providers
    Latency,     \* requests that may take no part in the suppression
    Progressive, \* providers whose URLs a client is redirected to
    None,
    MaxStreams,  \* streams the server serves at a time
    Flipped,     \* providers that the admin switches on or off
    MaxSwitches, \* bound: how often
    MaxFaults    \* bound: calls and streams that fail though they need not

ResolutionAssumption ==
    /\ Home \in Providers /\ None \notin Requests \cup Providers
    /\ Progressive \cup Flipped \subseteq Providers /\ Switched \subseteq SUBSET Providers
    /\ \A t \in Tables : DOMAIN t \subseteq Providers /\ \A p \in DOMAIN t : t[p] \in Nat
    /\ Latency \subseteq Requests
    /\ MaxStreams \in Nat /\ MaxSwitches \in Nat /\ MaxFaults \in Nat

VARIABLES
    offer,    \* provider -> what it offers for the song
    enabled,  \* registry: providers whose audio is switched on
    lock,     \* registry.mu: [readers, writer], writer "none" or a provider
    table,    \* track_sources: provider -> quality tier, for the song's cluster
    urls,     \* streamURLCache: id -> URL or None
    flights,  \* streamURLLocks: id -> the request whose entry is there, or None
    dedup,    \* streamLocks: the request whose entry is there, or None
    entry,    \* request -> its entry in streamLocks: "open", "ok", "failed", "dropped"
    landed,   \* request -> what its entry in streamURLLocks says: "open", a URL or None
    req,      \* request -> where it is
    switches, \* switches flipped so far
    faults    \* calls and streams that have failed so far

registry == <<enabled, lock, switches>>
vars == <<offer, registry, table, urls, flights, dedup, entry, landed, req, faults>>

(***************************************************************************)
(* Quality tiers and the order of the fallbacks.                           *)
(***************************************************************************)
MaxQualityTier(p) ==
    CASE p \in {"qb", "td", "dz", "am", "mc"} -> 100 [] p = "sp" -> 50 [] OTHER -> 30

(* Mutant: tiers are taken as they are stored.                             *)
StoredQualityTier(p, tier) == tier

EffectiveQualityTier(p, tier) == IF tier > MaxQualityTier(p) THEN MaxQualityTier(p) ELSE tier

(* Those that find a song by its ISRC, the fallbacks by artist and title,  *)
(* and those that are asked instead of a provider that is switched off.    *)
ByIsrc == {"qb", "dz", "mc", "sp"}
LosslessChain == {"qb", "td", "dz", "mc"}
LossyChain == {"sp", "yt", "sc"}
DetourChain == {"qb", "td", "dz", "sp", "yt"}

(* All of them are asked in this order.                                    *)
Turn == [qb |-> 1, td |-> 2, dz |-> 3, mc |-> 4, sp |-> 5, yt |-> 6, sc |-> 7]

(* Those that are left out for an id of their own, and those whose         *)
(* previews are refused.                                                   *)
NotForItself == {"qb", "td", "dz", "mc", "sp"}
RefusesPreview == {"qb", "td", "dz", "sp"}

Gives(p) == offer[p] # "none"
GivesAll(p) == offer[p] = "full"

Idle == [at |-> "start", id |-> Home, url |-> None, detour |-> FALSE, owner |-> None, leader |-> None,
         alts |-> {}, lossy |-> FALSE, rest |-> {}, last |-> None,
         saw |-> {}, throughout |-> {}, fell |-> FALSE]

Init ==
    /\ offer \in Offers /\ enabled \in Switched
    /\ lock = [readers |-> {}, writer |-> "none"]
    /\ table \in Tables
    /\ urls = [p \in Providers |-> None] /\ flights = [p \in Providers |-> None]
    /\ dedup = None /\ entry = [r \in Requests |-> "open"]
    /\ landed = [r \in Requests |-> "open"]
    /\ req = [r \in Requests |-> Idle]
    /\ switches = 0 /\ faults = 0

(***************************************************************************)
(* The registry.  A writer that waits keeps new readers out.               *)
(***************************************************************************)
Readable == lock.writer = "none"
IsAudioEnabled(p) == p \in enabled

SwitchArrives(p) ==
    /\ Readable /\ switches < MaxSwitches
    /\ lock' = [lock EXCEPT !.writer = p]
    /\ switches' = switches + 1
    /\ UNCHANGED <<offer, enabled, table, urls, flights, dedup, entry, landed, req, faults>>

Toggled(p) == IF p \in enabled THEN enabled \ {p} ELSE enabled \cup {p}

SetAudioEnabled(p) ==
    /\ lock.writer = p /\ lock.readers = {}
    /\ enabled' = Toggled(p)
    /\ lock' = [lock EXCEPT !.writer = "none"]
    /\ req' = [r \in Requests |->
                  IF req[r].at \in {"start", "streaming", "served", "refused"} THEN req[r]
                  ELSE [req[r] EXCEPT !.saw = @ \cup enabled', !.throughout = @ \cap enabled']]
    /\ UNCHANGED <<offer, table, urls, flights, dedup, entry, landed, switches, faults>>

(***************************************************************************)
(* ServeStream up to prepareStream: a slot, then the streamLocks.          *)
(***************************************************************************)
At(r, step) == req[r].at = step
Move(r, step) == req' = [req EXCEPT ![r].at = step]
Serving == {r \in Requests : req[r].at \notin {"start", "served", "refused"}}
cachesAndLocks == <<urls, flights, dedup, entry, landed>>
others == <<offer, registry, table, faults>>

Admit(r) ==
    /\ At(r, "start")
    /\ req' = [req EXCEPT ![r].at = IF Cardinality(Serving) < MaxStreams THEN "admitted"
                                    ELSE "refused",
                          ![r].saw = enabled, ![r].throughout = enabled]
    /\ UNCHANGED <<cachesAndLocks, others>>

(* LoadOrStore: the first one leads, later ones wait for its entry; ...    *)
Dedup(r) ==
    /\ At(r, "admitted")
    /\ dedup' = IF dedup = None THEN r ELSE dedup
    /\ req' = [req EXCEPT ![r].owner = dedup',
                          ![r].at = IF dedup = None THEN "prepare" ELSE "queued"]
    /\ UNCHANGED <<urls, flights, entry, landed, others>>

(* ... clients that need stitching, downloads and playlists of segments    *)
(* take no part in that.                                                   *)
SkipDedup(r) ==
    /\ At(r, "admitted") /\ r \in Latency
    /\ Move(r, "prepare")
    /\ UNCHANGED <<cachesAndLocks, others>>

(* What the one that led has left: a URL to be redirected to, a prepared   *)
(* stream to be used again (also after it failed on the way), or nothing.  *)
Resume(r) ==
    /\ At(r, "queued") /\ entry[req[r].owner] # "open"
    /\ LET url == req[req[r].owner].url
           redirect == entry[req[r].owner] # "failed" /\ url \in Progressive
       IN  /\ req' = [req EXCEPT ![r] =
                  IF url = None THEN [@ EXCEPT !.at = "prepare"]
                  ELSE [Idle EXCEPT !.at = IF redirect THEN "served" ELSE "streaming", !.url = url]]
           /\ dedup' = IF redirect THEN dedup ELSE None
    /\ UNCHANGED <<urls, flights, entry, landed, others>>

(* The deferred function: whoever leads closes its entry.                  *)
Leave(r, step, url, how) ==
    /\ req' = [req EXCEPT ![r] = [Idle EXCEPT !.at = step, !.url = url]]
    /\ entry' = IF req[r].owner = r THEN [entry EXCEPT ![r] = how] ELSE entry

(* Ten minutes later it drops the entry of the key, whoever's that is then.*)
ForgetStream(r) ==
    /\ entry[r] \in {"ok", "failed"}
    /\ entry' = [entry EXCEPT ![r] = "dropped"] /\ dedup' = None
    /\ UNCHANGED <<urls, flights, landed, req, others>>

(***************************************************************************)
(* prepareStream: the best source, then the URL cache and its locks.       *)
(***************************************************************************)
Sources(id) == IF id \in DOMAIN table THEN DOMAIN table ELSE {}

(* GetBestStreamableSource; the database orders rows by the tier they hold.*)
Best(id) ==
    LET on == {p \in Sources(id) : IsAudioEnabled(p)}
    IN  {p \in on : \A q \in on : table[q] <= table[p]}

Upgrade(r) ==
    /\ At(r, "prepare") /\ Readable
    /\ \E id \in IF Best(Home) = {} THEN {Home} ELSE Best(Home) :
           req' = [req EXCEPT ![r].id = id, ![r].at = "url"]
    /\ UNCHANGED <<cachesAndLocks, others>>

CacheHit(r) ==
    /\ At(r, "url") /\ urls[req[r].id] # None
    /\ req' = [req EXCEPT ![r].url = urls[req[r].id], ![r].at = "join"]
    /\ UNCHANGED <<cachesAndLocks, others>>

(* LoadOrStore on a miss: to follow the one whose entry is there, or lead. *)
Follow(r) ==
    /\ At(r, "url") /\ urls[req[r].id] = None /\ flights[req[r].id] # None
    /\ req' = [req EXCEPT ![r].leader = flights[req[r].id], ![r].at = "follow"]
    /\ UNCHANGED <<cachesAndLocks, others>>

Lead(r) ==
    LET id == req[r].id
    IN  /\ At(r, "url") /\ urls[id] = None /\ flights[id] = None /\ Readable
        /\ flights' = [flights EXCEPT ![id] = r]
        /\ req' = [req EXCEPT ![r].at = IF IsAudioEnabled(id) THEN "fetch" ELSE "isrc",
                              ![r].detour = ~IsAudioEnabled(id),
                              ![r].fell = ~IsAudioEnabled(id)]
        /\ UNCHANGED <<urls, dedup, entry, landed, others>>

Followed(r) ==
    /\ At(r, "follow") /\ landed[req[r].leader] # "open"
    /\ req' = [req EXCEPT ![r].url = landed[req[r].leader], ![r].at = "join"]
    /\ UNCHANGED <<cachesAndLocks, others>>

(* The leader's answer: to those that wait, and to the cache if it is one. *)
Land(r, url) ==
    /\ req' = [req EXCEPT ![r].url = url, ![r].at = "join", ![r].detour = FALSE]
    /\ landed' = [landed EXCEPT ![r] = url]
    /\ urls' = IF url = None THEN urls ELSE [urls EXCEPT ![req[r].id] = url]

Fetch(r) ==
    /\ At(r, "fetch")
    /\ \/ /\ Land(r, IF Gives(req[r].id) THEN req[r].id ELSE None)
          /\ UNCHANGED others
       \/ /\ faults < MaxFaults /\ faults' = faults + 1
          /\ Land(r, None)
          /\ UNCHANGED <<offer, registry, table>>
    /\ UNCHANGED <<flights, dedup, entry>>

(* A hundred milliseconds later the entry goes.                            *)
ForgetFlight(r) ==
    /\ landed[r] # "open" /\ \E id \in Providers : flights[id] = r
    /\ flights' = [id \in Providers |-> IF flights[id] = r THEN None ELSE flights[id]]
    /\ UNCHANGED <<urls, dedup, entry, landed, req, others>>

(* Five minutes without a request for it.                                  *)
ExpireUrl(id) ==
    /\ urls[id] # None
    /\ urls' = [urls EXCEPT ![id] = None]
    /\ UNCHANGED <<flights, dedup, entry, landed, req, others>>

(* GetAlternativeSources, without the id itself.                           *)
Alternatives(id) == {[prov |-> p, tier |-> table[p]] : p \in Sources(id) \ {id}}

(***************************************************************************)
(* prepareStream after both of its goroutines: rescue or answer.  Without  *)
(* the track's metadata the request fails, whatever a source still gives.  *)
(***************************************************************************)
HasLosslessProviders == \E p \in {"td", "dz", "qb"} \cap Providers : IsAudioEnabled(p)

Join(r) ==
    /\ At(r, "join") /\ Readable
    /\ \/ /\ req' = IF req[r].url # None /\ GivesAll(req[r].url)
                    THEN [req EXCEPT ![r].at = "finish"]
                    ELSE [req EXCEPT ![r].at = "sources", ![r].alts = Alternatives(req[r].id),
                                     ![r].lossy = ~HasLosslessProviders, ![r].fell = TRUE]
          /\ UNCHANGED <<entry, others>>
       \/ /\ faults < MaxFaults /\ faults' = faults + 1
          /\ Leave(r, "refused", None, "failed")
          /\ UNCHANGED <<offer, registry, table>>
    /\ UNCHANGED <<urls, flights, dedup, landed>>

(* One remembered source, best first; a lossy one is kept for the end.     *)
TryAlternative(r) ==
    /\ At(r, "sources") /\ Readable
    /\ \E alt \in req[r].alts :
          LET p == alt.prov
              now == EffectiveQualityTier(p, alt.tier) >= 80 \/ req[r].lossy
          IN  /\ \A other \in req[r].alts : other.tier <= alt.tier
              /\ req' = IF IsAudioEnabled(p) /\ now /\ GivesAll(p)
                        THEN [req EXCEPT ![r].url = p, ![r].at = "finish", ![r].alts = {}]
                        ELSE [req EXCEPT ![r].alts = @ \ {alt},
                                 ![r].last = IF IsAudioEnabled(p) /\ ~now /\ @ = None THEN p ELSE @]
    /\ UNCHANGED <<cachesAndLocks, others>>

(* ResolveStreamByISRC takes the read lock, and IsAudioEnabled takes it    *)
(* again for every provider; those it has found are asked in order, and    *)
(* after them every provider for a match of artist and title.              *)
Asks(how, provs) == {[how |-> how, prov |-> p] : p \in provs \cap Providers}

ScanStarts(r) ==
    /\ At(r, "isrc") \/ (At(r, "sources") /\ req[r].alts = {})
    /\ Readable
    /\ lock' = [lock EXCEPT !.readers = @ \cup {r}]
    /\ Move(r, "scan")
    /\ UNCHANGED <<cachesAndLocks, offer, enabled, switches, table, faults>>

Scan(r) ==
    /\ At(r, "scan") /\ Readable
    /\ lock' = [lock EXCEPT !.readers = @ \ {r}]
    /\ LET found == {p \in ByIsrc : IsAudioEnabled(p) /\ p # req[r].id}
           chain == IF req[r].detour THEN DetourChain ELSE LosslessChain \cup LossyChain
       IN  req' = [req EXCEPT ![r].at = "ask", ![r].rest = Asks("isrc", found) \cup Asks("match", chain)]
    /\ UNCHANGED <<cachesAndLocks, offer, enabled, switches, table, faults>>

(* SaveTrackSources links the id and what stood in for it.                 *)
Save(id, p, tier, idTier) ==
    table' = [q \in DOMAIN table \cup {id, p} |->
                 IF q = id THEN EffectiveQualityTier(id, idTier) ELSE IF q = p THEN tier ELSE table[q]]

Rescued(r, p) == req' = [req EXCEPT ![r].url = p, ![r].at = "finish", ![r].rest = {}]

(* Nothing that is left to ask comes before.                               *)
Earlier(a, b) == IF a.how = b.how THEN Turn[a.prov] < Turn[b.prov] ELSE a.how = "isrc"
NextAsk(r, ask) == ask \in req[r].rest /\ \A other \in req[r].rest \ {ask} : Earlier(ask, other)
PassOver(r, ask) == req' = [req EXCEPT ![r].rest = @ \ {ask}]

AskByIsrc(r, p) ==
    /\ At(r, "ask") /\ NextAsk(r, [how |-> "isrc", prov |-> p])
    /\ IF ~GivesAll(p) THEN PassOver(r, [how |-> "isrc", prov |-> p]) /\ UNCHANGED <<urls, landed, table>>
       ELSE IF req[r].detour THEN Land(r, p) /\ UNCHANGED table
       ELSE /\ Rescued(r, p) /\ Save(req[r].id, p, EffectiveQualityTier(p, 80), 80)
            /\ UNCHANGED <<urls, landed>>
    /\ UNCHANGED <<flights, dedup, entry, offer, registry, faults>>

(* Mutant: a provider is asked whether it is switched on or not.           *)
MatchesSwitchedOff(r, p) ==
    /\ Gives(p)
    /\ p = req[r].id => ~req[r].detour /\ p \notin NotForItself
    /\ offer[p] = "preview" => req[r].detour \/ p \notin RefusesPreview

(* MatchTrackByMetadata at one provider after the other.                   *)
Matches(r, p) ==
    /\ IsAudioEnabled(p) /\ Gives(p)
    /\ p = req[r].id => ~req[r].detour /\ p \notin NotForItself
    /\ offer[p] = "preview" => req[r].detour \/ p \notin RefusesPreview

TierOf(p) == IF p \in {"qb", "mc"} THEN 100 ELSE EffectiveQualityTier(p, 80)

Match(r, p) ==
    /\ At(r, "ask") /\ NextAsk(r, [how |-> "match", prov |-> p]) /\ Readable
    /\ IF ~Matches(r, p) THEN PassOver(r, [how |-> "match", prov |-> p]) /\ UNCHANGED <<urls, landed, table>>
       ELSE IF req[r].detour THEN Land(r, p) /\ UNCHANGED table
       ELSE /\ Rescued(r, p) /\ Save(req[r].id, p, TierOf(p), IF p = "qb" THEN 100 ELSE 80)
            /\ UNCHANGED <<urls, landed>>
    /\ UNCHANGED <<flights, dedup, entry, offer, registry, faults>>

NoMatch(r) ==
    /\ At(r, "ask") /\ req[r].rest = {}
    /\ IF req[r].detour THEN Land(r, None) /\ UNCHANGED entry
       ELSE /\ UNCHANGED <<urls, landed>>
            /\ IF req[r].last # None /\ Gives(req[r].last)
               THEN Rescued(r, req[r].last) /\ UNCHANGED entry
               ELSE Leave(r, "refused", None, "failed")
    /\ UNCHANGED <<flights, dedup, others>>

(* The URL goes (back) into the cache; the client is redirected, or served.*)
Answer(r) ==
    /\ At(r, "finish")
    /\ urls' = [urls EXCEPT ![req[r].id] = req[r].url]
    /\ IF req[r].url \in Progressive THEN Leave(r, "served", req[r].url, "ok")
       ELSE /\ req' = [req EXCEPT ![r] = [Idle EXCEPT !.at = "streaming", !.url = req[r].url,
                                                      !.owner = req[r].owner]]
            /\ UNCHANGED entry
    /\ UNCHANGED <<flights, dedup, landed, others>>

(* The stream is at its end, its client has gone, or its source has failed.*)
StreamEnds(r) ==
    /\ At(r, "streaming")
    /\ \/ Leave(r, "served", req[r].url, "ok") /\ UNCHANGED others
       \/ /\ faults < MaxFaults /\ faults' = faults + 1
          /\ Leave(r, "served", req[r].url, "failed")
          /\ UNCHANGED <<offer, registry, table>>
    /\ UNCHANGED <<urls, flights, dedup, landed>>

(***************************************************************************)
(* Specification.                                                          *)
(***************************************************************************)
Rescue(r) ==
    \/ Join(r) \/ TryAlternative(r) \/ ScanStarts(r) \/ Scan(r)
    \/ \E p \in Providers : AskByIsrc(r, p) \/ Match(r, p)
    \/ NoMatch(r)

Proceed(r) ==
    \/ Admit(r) \/ Dedup(r) \/ SkipDedup(r) \/ Resume(r) \/ Upgrade(r) \/ CacheHit(r) \/ Follow(r) \/ Lead(r)
    \/ Followed(r) \/ Fetch(r) \/ Rescue(r) \/ Answer(r) \/ StreamEnds(r)

Next ==
    \/ \E r \in Requests : Proceed(r) \/ ForgetStream(r) \/ ForgetFlight(r)
    \/ \E p \in Flipped : SwitchArrives(p) \/ SetAudioEnabled(p)
    \/ \E id \in Providers : ExpireUrl(id)

Spec == Init /\ [][Next]_vars

(***************************************************************************)
(* Properties.                                                             *)
(***************************************************************************)
(* In the fallback, a source of the lowest tier is the last one: a request *)
(* that YouTube or SoundCloud rescues had no lossless provider, other than *)
(* that of its own id, that was switched on all the time and has the song. *)
(* However tiers were stored, sources remembered and switches flipped      *)
(* (prepareStream, db.EffectiveQualityTier).                               *)
LossyLast ==
    \A r \in Requests :
        req[r].fell /\ req[r].at = "finish" /\ MaxQualityTier(req[r].url) = 30 =>
            \A p \in {"td", "dz", "qb"} \cap req[r].throughout :
                p = req[r].id \/ ~GivesAll(p)

(* The admin's switches hold in every one of the ways to a URL: who asks a *)
(* provider for one has seen it switched on (IsAudioEnabled).              *)
SwitchRespected ==
    [][\A r \in Requests :
           req'[r].url \notin {None, req[r].url} /\ req[r].at \notin {"queued", "url", "follow"}
               => req'[r].url \in req[r].saw]_vars

(* A scan that holds the read lock while a switch waits for it: neither    *)
(* goes on (ResolveStreamByISRC).                                          *)
LockStuck == lock.writer # "none" /\ lock.readers # {}
=============================================================================
