----------------------------- MODULE OtaUpdates -----------------------------
(***************************************************************************)
(* The public update protocol (updater_service.ts, updater_controller.ts): *)
(* a client polls with its version, is answered with a newer release, and  *)
(* downloads it by id, or lists the releases page by page, while the CMS   *)
(* publishes, withdraws and renumbers releases.                            *)
(*                                                                         *)
(* A release that is not in the catalogue is one publicQuery excludes      *)
(* (unpublished, archived, deleted, inactive version, product or provider, *)
(* signature policy): ReleaseSigning models that predicate.  The platform, *)
(* the architecture and the product are those of the clients.              *)
(***************************************************************************)
EXTENDS Naturals, FiniteSets

CONSTANTS
    Release,     \* artifact ids, ordered as the database orders them
    Version,     \* version ids of the product
    Core,        \* the numbers that versions have
    MaxPart,     \* bound on major, minor and patch
    Channel,
    Limit,       \* page size of a listing
    MaxChanges,  \* bound on catalogue and channel changes
    Null

ASSUME OtaAssumption ==
    /\ Release \subseteq Nat /\ IsFiniteSet(Release)
    /\ Core \subseteq [major: 0..MaxPart, minor: 0..MaxPart, patch: 0..MaxPart]
    /\ MaxPart \in Nat /\ Limit \in Nat \ {0} /\ MaxChanges \in Nat
    /\ Channel # {}
    /\ Null \notin Release \cup Version

VARIABLES
    number,      \* the versions table: the number of each version
    catalogue,   \* the releases publicQuery selects: Null or [version, channel]
    client,      \* a client: its version, its channel, the request the server is
                 \* answering for it and the answer it acts on
    listing,     \* the listing it is reading: Null or its page and what it has seen
    changes      \* how many changes have been made

vars == <<number, catalogue, client, listing, changes>>

(* A version has a core number; a client may also run a pre-release. *)
Installed == [core: Core, pre: BOOLEAN]
Published == [version: Version, channel: Channel]

(* A check or latest request between its two statements, and its answer;   *)
(* picked records, for the properties, the number the first statement saw. *)
Asked == [op: {"check", "latest"}, release: Release, version: Version, picked: Core]
Answer == [op: {"check", "latest"}, release: Release, core: Core, picked: Core]
Client == [version: Installed, channel: Channel, asked: Asked \cup {Null},
           answer: Answer \cup {Null}]

Listing == [page: Nat, total: Nat \cup {Null}, seen: SUBSET Release,
            repeated: BOOLEAN, changed: BOOLEAN, done: BOOLEAN]

\* No release, no request, no answer, no listing and no number.
ASSUME NullAssumption ==
    Null \notin Published \cup Asked \cup Answer \cup Listing \cup Nat

(* Two versions of a product never share a number. *)
Numberings == {n \in [Version -> Core] : \A v, w \in Version : n[v] = n[w] => v = w}

(* The tables, the client, its listing and the counter keep their types,   *)
(* and no two versions have the same number (uq_versions_software_semver). *)
TypeOK ==
    /\ number \in Numberings
    /\ catalogue \in [Release -> Published \cup {Null}]
    /\ client \in Client
    /\ listing \in Listing \cup {Null}
    /\ changes \in 0..MaxChanges

Init ==
    /\ number \in Numberings
    /\ catalogue = [r \in Release |-> Null]
    /\ client \in [version: Installed, channel: Channel, asked: {Null}, answer: {Null}]
    /\ listing = Null
    /\ changes = 0

-----------------------------------------------------------------------------
(* Version order in the database and in the client library.                *)

(* JOIN versions as v ON v.id = artifacts.version_id. *)
CoreOf(r) == number[catalogue[r].version]

Eligible(channel) == {r \in Release : catalogue[r] # Null /\ catalogue[r].channel = channel}

\* Mutant: the patch is compared without the minor version being the same.
CoreAboveLoose(v, w) ==
    \/ v.major > w.major
    \/ v.major = w.major /\ v.minor > w.minor
    \/ v.major = w.major /\ v.patch > w.patch

(* The three WHERE clauses of checkForUpdate, and the ORDER BY. *)
CoreAbove(v, w) ==
    \/ v.major > w.major
    \/ v.major = w.major /\ v.minor > w.minor
    \/ v.major = w.major /\ v.minor = w.minor /\ v.patch > w.patch

(* checkForUpdate: the stable release of a pre-release is newer than it. *)
NewerThan(core, installed) ==
    \/ CoreAbove(core, installed.core)
    \/ installed.pre /\ core = installed.core

(* ORDER BY v.major, v.minor, v.patch DESC ... first(). *)
Newest(rs) ==
    {r \in rs : \A s \in rs : ~CoreAbove(CoreOf(s), CoreOf(r))}

Candidates == {r \in Eligible(client.channel) : NewerThan(CoreOf(r), client.version)}

(* semver.gt(version, currentVersion), the version being a release's own:  *)
(* the cores are compared part by part, equal cores by the pre-release.    *)
Gt(core, installed) ==
    LET d == {p \in {"major", "minor", "patch"} : core[p] # installed.core[p]}
        first == IF "major" \in d THEN "major" ELSE IF "minor" \in d THEN "minor" ELSE "patch"
    IN  IF d = {} THEN installed.pre ELSE core[first] > installed.core[first]

(* getReleases orders releases of one version by their id. *)
Precedes(r, s) ==
    \/ CoreAbove(CoreOf(r), CoreOf(s))
    \/ CoreOf(r) = CoreOf(s) /\ r < s

\* Mutant: a page has one row too many.
PageInclusive(channel, page) ==
    LET rs == Eligible(channel)
        rank(r) == Cardinality({s \in rs : Precedes(s, r)})
    IN  {r \in rs : (page - 1) * Limit <= rank(r) /\ rank(r) <= page * Limit}

(* OFFSET (page - 1) * limit LIMIT limit. *)
PageOf(channel, page) ==
    LET rs == Eligible(channel)
        rank(r) == Cardinality({s \in rs : Precedes(s, r)})
    IN  {r \in rs : (page - 1) * Limit <= rank(r) /\ rank(r) < page * Limit}

-----------------------------------------------------------------------------
(* The CMS version filter: an operator and a version whose missing parts   *)
(* are Null, with an asterisk behind it or, as the page's placeholder      *)
(* shows, a dot and an asterisk.                                           *)

Filter == [op: {"<", "<=", ">", ">=", "=="}, major: 0..MaxPart,
           minor: 0..MaxPart \cup {Null}, patch: 0..MaxPart \cup {Null},
           wildcard: {"none", "*", ".*"}]

(* What the regular expression and the checks after it accept: 1* and 1.0* *)
(* but not 1.0.*, and an asterisk only with equality.                      *)
ValidFilters ==
    {f \in Filter : /\ f.minor = Null => f.patch = Null
                    /\ f.wildcard # ".*"
                    /\ f.wildcard = "*" => f.op = "=="}

Padded(f) == [major |-> f.major, minor |-> IF f.minor = Null THEN 0 ELSE f.minor,
              patch |-> IF f.patch = Null THEN 0 ELSE f.patch]

\* Mutant: the last clause of each comparison forgets the minor version.
SamePairLoose(v, w) == v.major = w.major

SamePair(v, w) == v.major = w.major /\ v.minor = w.minor

(* The WHERE clauses parseSemverFilter builds. *)
parseSemverFilter(f, v) ==
    LET w == Padded(f)
    IN  IF f.wildcard = "*" THEN v.major = f.major /\ (f.minor # Null => v.minor = f.minor)
        ELSE CASE f.op = ">=" -> \/ v.major > w.major
                                 \/ v.major = w.major /\ v.minor > w.minor
                                 \/ SamePair(v, w) /\ v.patch >= w.patch
               [] f.op = ">"  -> \/ v.major > w.major
                                 \/ v.major = w.major /\ v.minor > w.minor
                                 \/ SamePair(v, w) /\ v.patch > w.patch
               [] f.op = "<=" -> \/ v.major < w.major
                                 \/ v.major = w.major /\ v.minor < w.minor
                                 \/ SamePair(v, w) /\ v.patch <= w.patch
               [] f.op = "<"  -> \/ v.major < w.major
                                 \/ v.major = w.major /\ v.minor < w.minor
                                 \/ SamePair(v, w) /\ v.patch < w.patch
               [] OTHER       -> v = w

-----------------------------------------------------------------------------
(* The CMS changes the catalogue.                                          *)

Changed ==
    /\ changes < MaxChanges
    /\ changes' = changes + 1
    /\ listing' = IF listing = Null THEN listing
                  ELSE [listing EXCEPT !.changed = TRUE]

\* Mutant: the channel is not validated.
PublishUnchecked(r, v, channel) ==
    /\ catalogue[r] = Null
    /\ Changed
    /\ catalogue' = [catalogue EXCEPT ![r] = [version |-> v, channel |-> Null]]
    /\ UNCHANGED <<number, client>>

(* A version has one release per channel (uq_artifacts_system_channel). *)
Publish(r, v, channel) ==
    /\ catalogue[r] = Null
    /\ \A s \in Eligible(channel) : catalogue[s].version # v
    /\ Changed
    /\ catalogue' = [catalogue EXCEPT ![r] = [version |-> v, channel |-> channel]]
    /\ UNCHANGED <<number, client>>

Withdraw(r) ==
    /\ catalogue[r] # Null
    /\ Changed
    /\ catalogue' = [catalogue EXCEPT ![r] = Null]
    /\ UNCHANGED <<number, client>>

(* updateVersion gives a version, and so all its releases, a number that   *)
(* no version of the product has (uq_versions_software_semver).            *)
Renumber(v, new) ==
    /\ \A w \in Version : number[w] # new
    /\ Changed
    /\ number' = [number EXCEPT ![v] = new]
    /\ UNCHANGED <<catalogue, client>>

-----------------------------------------------------------------------------
(* The client updates.  A check or latest request selects an artifact by   *)
(* the number of its version; preload then reads the version again, by id. *)

Polling == client.asked = Null /\ client.answer = Null /\ listing = Null

Select(op, r) ==
    /\ Polling
    /\ client' = [client EXCEPT !.asked = [op |-> op, release |-> r,
                      version |-> catalogue[r].version, picked |-> CoreOf(r)]]
    /\ UNCHANGED <<number, catalogue, listing, changes>>

(* checkForUpdate: the newest of the releases above the client's version.  *)
(* When there is none the answer is 204 and nothing changes.               *)
CheckSelect == \E r \in Newest(Candidates) : Select("check", r)

(* getLatest: the newest release. *)
LatestSelect == \E r \in Newest(Eligible(client.channel)) : Select("latest", r)

Asking(op) == client.asked # Null /\ client.asked.op = op

Offer ==
    /\ client' = [client EXCEPT !.asked = Null,
           !.answer = [op |-> client.asked.op, release |-> client.asked.release,
                       core |-> number[client.asked.version],
                       picked |-> client.asked.picked]]
    /\ UNCHANGED <<number, catalogue, listing, changes>>

NoOffer ==
    /\ client' = [client EXCEPT !.asked = Null]
    /\ UNCHANGED <<number, catalogue, listing, changes>>

(* check answers with the number that preload read, whatever it is. *)
CheckAnswer == Asking("check") /\ Offer

\* Mutant: hasUpdate is always true.
LatestAlwaysUpdates == Asking("latest") /\ Offer

(* latest answers with that number too, and computes hasUpdate from it. *)
LatestAnswer ==
    /\ Asking("latest")
    /\ IF Gt(number[client.asked.version], client.version) THEN Offer ELSE NoOffer

(* The request fails: preload finds no version any more, or cannot read it. *)
AnswerFails == client.asked # Null /\ NoOffer

\* Mutant: the download looks in one channel only.
DownloadOneChannel ==
    /\ client.answer # Null
    /\ catalogue[client.answer.release] # Null
    /\ catalogue[client.answer.release].channel = CHOOSE c \in Channel : TRUE
    /\ client' = [client EXCEPT !.version = [core |-> client.answer.core, pre |-> FALSE],
                                !.answer = Null]
    /\ UNCHANGED <<number, catalogue, listing, changes>>

(* recordAndStream: the id is looked up with publicQuery again, whatever   *)
(* its channel; the client installs what it was offered.                   *)
Download ==
    /\ client.answer # Null
    /\ catalogue[client.answer.release] # Null
    /\ client' = [client EXCEPT !.version = [core |-> client.answer.core, pre |-> FALSE],
                                !.answer = Null]
    /\ UNCHANGED <<number, catalogue, listing, changes>>

Refused ==
    /\ client.answer # Null
    /\ client' = [client EXCEPT !.answer = Null]
    /\ UNCHANGED <<number, catalogue, listing, changes>>

(* 404: the release has been withdrawn since the answer. *)
DownloadMissing == Refused /\ catalogue[client.answer.release] = Null

(* 503: its storage cannot be read. *)
DownloadUnavailable == Refused /\ catalogue[client.answer.release] # Null

SwitchChannel(c) ==
    /\ Polling /\ c # client.channel
    /\ changes < MaxChanges /\ changes' = changes + 1
    /\ client' = [client EXCEPT !.channel = c]
    /\ UNCHANGED <<number, catalogue, listing>>

-----------------------------------------------------------------------------
(* The client lists: paginate counts, then selects the page's rows.        *)

ListStart ==
    /\ Polling
    /\ listing' = [page |-> 1, total |-> Null, seen |-> {}, repeated |-> FALSE,
                   changed |-> FALSE, done |-> FALSE]
    /\ UNCHANGED <<number, catalogue, client, changes>>

ListCount ==
    /\ listing # Null /\ ~listing.done /\ listing.total = Null
    /\ listing' = [listing EXCEPT !.total = Cardinality(Eligible(client.channel))]
    /\ UNCHANGED <<number, catalogue, client, changes>>

(* totalPages: Math.ceil(totalRecords / limit). *)
IsLastPage(page, total) == page * Limit >= total

ListRows ==
    /\ listing # Null /\ ~listing.done /\ listing.total # Null
    /\ LET rows == PageOf(client.channel, listing.page)
       IN  listing' = [listing EXCEPT
               !.page = @ + 1,
               !.total = Null,
               !.seen = @ \cup rows,
               !.repeated = @ \/ rows \cap listing.seen # {},
               !.done = rows = {} \/ IsLastPage(listing.page, listing.total)]
    /\ UNCHANGED <<number, catalogue, client, changes>>

ListEnd ==
    /\ listing # Null /\ listing.done
    /\ listing' = Null
    /\ UNCHANGED <<number, catalogue, client, changes>>

-----------------------------------------------------------------------------
Next ==
    \/ \E r \in Release :
           \/ \E v \in Version, c \in Channel : Publish(r, v, c)
           \/ Withdraw(r)
    \/ \E v \in Version, new \in Core : Renumber(v, new)
    \/ CheckSelect \/ LatestSelect \/ CheckAnswer \/ LatestAnswer \/ AnswerFails
    \/ Download \/ DownloadMissing \/ DownloadUnavailable
    \/ \E c \in Channel : SwitchChannel(c)
    \/ ListStart \/ ListCount \/ ListRows \/ ListEnd

(* The client keeps polling, between listings that end, and a request ends *)
(* with an answer or an error; storage is only "temporarily unavailable",  *)
(* so a check or a download that is tried again and again succeeds in the  *)
(* end.                                                                    *)
Fairness ==
    /\ SF_vars(CheckSelect) /\ SF_vars(CheckAnswer) /\ SF_vars(Download)
    /\ WF_vars(CheckAnswer \/ LatestAnswer \/ AnswerFails)
    /\ WF_vars(DownloadMissing) /\ WF_vars(ListCount \/ ListRows \/ ListEnd)

Spec == Init /\ [][Next]_vars /\ Fairness

-----------------------------------------------------------------------------
(* Reference order: the precedence of semantic versions as one number.     *)
Precedence(core, pre) ==
    LET base == MaxPart + 1
    IN  2 * ((core.major * base + core.minor) * base + core.patch) + IF pre THEN 0 ELSE 1

ClientPrecedence == Precedence(client.version.core, client.version.pre)

(* check offers a release that semantic-version precedence puts above the  *)
(* client's and below no other release of its channel, and answers "no     *)
(* update" only when there is none: the SQL clauses compute that order.    *)
(* latest reports an update exactly when check offers one, of the same     *)
(* version, and the first page of releases begins with that version.       *)
OffersNewest ==
    LET above == {r \in Eligible(client.channel) :
                     Precedence(CoreOf(r), FALSE) > ClientPrecedence}
    IN  /\ Newest(Candidates) = {} <=> above = {}
        /\ \A r \in Newest(Candidates) :
               /\ r \in above
               /\ \A s \in above : Precedence(CoreOf(s), FALSE)
                                     <= Precedence(CoreOf(r), FALSE)
        /\ \A r \in Newest(Eligible(client.channel)) :
               /\ Gt(CoreOf(r), client.version) <=> above # {}
               /\ \A s \in Newest(Candidates) : CoreOf(s) = CoreOf(r)
               /\ \E s \in PageOf(client.channel, 1) : CoreOf(s) = CoreOf(r)

(* A listing during which nothing was published, withdrawn or renumbered   *)
(* shows every release of the channel, and none of them twice.             *)
ListingComplete ==
    listing # Null /\ listing.done /\ ~listing.changed =>
        listing.seen = Eligible(client.channel) /\ ~listing.repeated

(* Every version filter parseSemverFilter accepts selects an interval of   *)
(* precedences.  With an asterisk: from the first version with the written *)
(* major and, when there is one, minor number up to the first version with *)
(* the next; a written patch number counts for nothing: 1.0.3* is 1.0*.    *)
FiltersByPrecedence ==
    \A f \in ValidFilters, r \in {s \in Release : catalogue[s] # Null} :
        LET d == Precedence(CoreOf(r), FALSE)
            w == Padded(f)
            e == Precedence(w, FALSE)
            from == Precedence([w EXCEPT !.patch = 0], FALSE)
            upto == IF f.minor = Null
                    THEN Precedence([major |-> w.major + 1, minor |-> 0, patch |-> 0], FALSE)
                    ELSE Precedence([major |-> w.major, minor |-> w.minor + 1, patch |-> 0], FALSE)
        IN  parseSemverFilter(f, CoreOf(r)) <=>
                CASE f.wildcard = "*" -> from <= d /\ d < upto
                  [] f.op = "<"       -> d < e
                  [] f.op = "<="      -> d <= e
                  [] f.op = ">"       -> d > e
                  [] f.op = ">="      -> d >= e
                  [] OTHER            -> d = e

(* A client is offered a version above the one it runs.  The one exception *)
(* is check, which answers with what preload read and does not compare it  *)
(* again: it may offer less when the version it selected was renumbered    *)
(* between the two statements.  latest compares what it answers with.      *)
OffersNewerUnlessRenumbered ==
    LET answer == client.answer
    IN  answer # Null /\ ~(Precedence(answer.core, FALSE) > ClientPrecedence) =>
            answer.op = "check" /\ answer.core # answer.picked

(* Once the catalogue rests, a polling client comes to run the newest      *)
(* release of its channel, or something newer still, and stays there.      *)
ReachesNewest ==
    <>[](\A r \in Eligible(client.channel) :
             Precedence(CoreOf(r), FALSE) <= ClientPrecedence)
=============================================================================
