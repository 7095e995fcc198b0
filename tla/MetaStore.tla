----------------------------- MODULE MetaStore -----------------------------
(***************************************************************************)
(* Clients of one page load `/meta` through one store of ETags and bodies. *)
(*                                                                         *)
(* Source: packages/db-client/src/meta-store.ts and meta, invalidateMeta,  *)
(* _syncLocale, _loadMeta, _storeMeta of packages/db-client/src/client.ts. *)
(* The server, its ETags, the network and the page around the clients are  *)
(* external.                                                               *)
(*                                                                         *)
(* A load is one run of _loadMeta; an action is the code between two       *)
(* awaits.  A load outlives the promise the client holds: after            *)
(* invalidateMeta() or a change of locale it goes on, and so does whoever  *)
(* awaits it.                                                              *)
(***************************************************************************)
EXTENDS Integers, Sequences, SequencesExt

CONSTANTS
  Clients, Users, Locales,
  MetaKey,        \* client -> metaKey option or URL
  Body(_, _, _),  \* the bytes the server has for a user, a locale, a version
  None,
  MaxEntries,     \* maxEntries option
  PerKey,         \* CANDIDATES_PER_KEY
  MaxLoads,       \* bound: loads that are started
  MaxChanges,     \* bound: changes of user, locale and server version
  MaxMishaps      \* bound: transport failures, error answers, hidden ETags

(* What the server may answer.                                             *)
Texts == {Body(u, l, v) : u \in Users, l \in Locales, v \in 0..MaxChanges}
Answers == [status : {0, 200, 304, 500}, etag : Texts \cup {None}, text : Texts \cup {None}]

ASSUME SizesAssumption == MaxEntries \in Nat \ {0} /\ PerKey \in Nat \ {0}
ASSUME BoundsAssumption == MaxLoads \in Nat /\ MaxChanges \in Nat /\ MaxMishaps \in Nat
ASSUME NoneAssumption ==
  None \notin 1..MaxLoads /\ None \notin Texts /\ None \notin Answers

VARIABLES
  user, epoch,    \* who is signed in, and how many have been
  locale,         \* client -> ClientOptions.locale now
  version,        \* version of the server's metadata
  bodies,         \* _bodies: [etag, text], least recently used first
  keys,           \* _keys: [key, etags, plain], least recently used first
  promise,        \* _metaPromise: client -> a load, or None
  metaEtag,       \* _metaEtag
  metaLocale,     \* _metaLocale
  loads,          \* the loads so far
  changes, mishaps

vars == <<user, epoch, locale, version, bodies, keys, promise, metaEtag, metaLocale,
          loads, changes, mishaps>>
page == <<user, epoch, locale, version, changes>>
store == <<bodies, keys>>
client == <<promise, metaEtag, metaLocale>>

Keys == {<<MetaKey[c], l>> : c \in Clients, l \in Locales}

-----------------------------------------------------------------------------
(* The store.  An ETag is opaque: the `W/` of a weak one is stripped.      *)

(* A Map has a key once, and a list of candidates an ETag.                 *)
Drop(seq, places) == IF places = {} THEN seq ELSE RemoveAt(seq, CHOOSE i \in places : TRUE)
Newest(seq, n) == IF Len(seq) > n THEN SubSeq(seq, Len(seq) - n + 1, Len(seq)) ELSE seq

Holds(etag) == \E i \in DOMAIN bodies : bodies[i].etag = etag
BodyOf(etag) == bodies[CHOOSE i \in DOMAIN bodies : bodies[i].etag = etag]
OtherBodies(etag) == Drop(bodies, {i \in DOMAIN bodies : bodies[i].etag = etag})

Entry(key) ==
  IF \E i \in DOMAIN keys : keys[i].key = key
  THEN keys[CHOOSE i \in DOMAIN keys : keys[i].key = key]
  ELSE [key |-> key, etags |-> <<>>, plain |-> FALSE]

(* candidates(key) and _isUnconditional(key)                               *)
Candidates(key) ==
  IF Entry(key).plain THEN {}
  ELSE {e \in ToSet(Entry(key).etags) : Holds(e)}

TouchKey(entry) ==
  LET others == Drop(keys, {i \in DOMAIN keys : keys[i].key = entry.key})
  IN  keys' = Newest(Append(others, entry), 4 * MaxEntries)

(* The latest ETag comes first.                                            *)
Remember(key, etag) ==
  LET entry == Entry(key)
      older == Drop(entry.etags, {i \in DOMAIN entry.etags : entry.etags[i] = etag})
      size == IF Len(older) < PerKey THEN Len(older) + 1 ELSE PerKey
  IN  TouchKey([entry EXCEPT !.etags = SubSeq(<<etag>> \o older, 1, size)])

UseBody(b) == bodies' = Append(OtherBodies(b.etag), b)

Put(key, etag, text) ==
  /\ bodies' = Newest(Append(OtherBodies(etag), [etag |-> etag, text |-> text]), MaxEntries)
  /\ Remember(key, etag)

-----------------------------------------------------------------------------

(* "headers"   awaits the headers of its request                           *)
(* "conditional", "fallback", "plain"  awaits the answer to a request with *)
(*             If-None-Match, its retry without, or one without            *)
(* "done"      has its body; "resolved": the callers have it too           *)
(* "failing"   will throw; "rejected": has thrown                          *)
LoadSet ==
  [client : Clients, locale : Locales, key : Keys,
   at : {"headers", "conditional", "fallback", "plain", "done", "resolved", "failing", "rejected"},
   user : Users, epoch : 0..epoch, candidates : SUBSET Texts, sent : 0..version,
   answer : Answers \cup {None}, text : Texts \cup {None}, etag : Texts \cup {None},
   asked : 0..epoch, askedIn : Locales]

TypeOK ==
  /\ user \in Users
  /\ changes \in 0..MaxChanges /\ epoch \in 0..changes /\ version \in 0..changes
  /\ locale \in [Clients -> Locales]
  /\ bodies \in Seq([etag : Texts, text : Texts]) /\ Len(bodies) <= MaxEntries
  /\ keys \in Seq([key : Keys, etags : Seq(Texts), plain : BOOLEAN]) /\ Len(keys) <= 4 * MaxEntries
  /\ promise \in [Clients -> DOMAIN loads \cup {None}]
  /\ metaEtag \in [Clients -> Texts \cup {None}]
  /\ metaLocale \in [Clients -> Locales \cup {None}]
  /\ loads \in Seq(LoadSet) /\ Len(loads) <= MaxLoads
  /\ mishaps \in 0..MaxMishaps

Init ==
  /\ user \in Users
  /\ epoch = 0
  /\ \E l \in Locales : locale = [c \in Clients |-> l]
  /\ version = 0
  /\ bodies = <<>>
  /\ keys = <<>>
  /\ promise = [c \in Clients |-> None]
  /\ metaEtag = [c \in Clients |-> None]
  /\ metaLocale = [c \in Clients |-> None]
  /\ loads = <<>>
  /\ changes = 0
  /\ mishaps = 0

-----------------------------------------------------------------------------
(* meta() *)

(* A load remembers the client, the locale and key it is for; the user of  *)
(* its headers and their epoch; its candidates, the version of the server  *)
(* its request was sent to; the answer; the result.                        *)
(* History: asked and askedIn, the epoch and the locale of the last call   *)
(* it was returned to.                                                     *)
NewLoad(c, key) ==
  [client |-> c, locale |-> locale[c], key |-> key, at |-> "headers",
   user |-> user, epoch |-> epoch, candidates |-> {}, sent |-> version,
   answer |-> None, text |-> None, etag |-> None, asked |-> epoch, askedIn |-> locale[c]]

ReturnLoaded(c) ==
  /\ loads' = [loads EXCEPT ![promise[c]].asked = epoch, ![promise[c]].askedIn = locale[c]]
  /\ UNCHANGED promise

StartLoad(c) ==
  /\ Len(loads) < MaxLoads
  /\ loads' = Append(loads, NewLoad(c, <<MetaKey[c], locale[c]>>))
  /\ promise' = [promise EXCEPT ![c] = Len(loads) + 1]

(* meta(), _syncLocale: one promise per client and locale.                 *)
Meta(c) ==
  /\ metaLocale' = [metaLocale EXCEPT ![c] = locale[c]]
  /\ metaEtag' = [metaEtag EXCEPT ![c] = IF metaLocale[c] = locale[c] THEN @ ELSE None]
  /\ IF promise[c] # None /\ metaLocale[c] = locale[c] THEN ReturnLoaded(c) ELSE StartLoad(c)
  /\ UNCHANGED <<page, store, mishaps>>

At(n, where) == n \in DOMAIN loads /\ loads[n].at = where
Load(n, l) == loads' = [loads EXCEPT ![n] = l]

Request(l, candidates) ==
  [l EXCEPT !.at = IF candidates = {} THEN "plain" ELSE "conditional",
            !.candidates = candidates, !.sent = version, !.answer = None]

(* _resolveHeaders is awaited: a function of the page that returns the     *)
(* headers of the user at the call or of the user at its end.  Then the    *)
(* candidates are read and the request is sent.                            *)
ResolveHeaders(n) ==
  /\ At(n, "headers")
  /\ \E l \in {loads[n], [loads[n] EXCEPT !.user = user, !.epoch = epoch]} :
       Load(n, Request(l, Candidates(l.key)))
  /\ UNCHANGED <<page, store, client, mishaps>>

(* The server answers at some time after the request was sent; the client  *)
(* sees the answer later.                                                  *)
Waiting(n) ==
  /\ n \in DOMAIN loads
  /\ loads[n].at \in {"conditional", "fallback", "plain"}
  /\ loads[n].answer = None

Answer(n) ==
  /\ Waiting(n)
  /\ LET l == loads[n]
         text == Body(l.user, l.locale, version)
         status == IF text \in l.candidates THEN 304 ELSE 200
     IN \E etag \in {text, None} :
          /\ etag = None => mishaps < MaxMishaps
          /\ mishaps' = IF etag = None THEN mishaps + 1 ELSE mishaps
          /\ Load(n, [l EXCEPT !.answer =
                        [status |-> status, etag |-> etag,
                         text |-> IF status = 304 THEN None ELSE text]])
  /\ UNCHANGED <<page, store, client>>

(* An error status, or no answer at all.                                   *)
Mishap(n) ==
  /\ Waiting(n)
  /\ mishaps < MaxMishaps
  /\ mishaps' = mishaps + 1
  /\ \E status \in {0, 500} :
       Load(n, [loads[n] EXCEPT !.answer = [status |-> status, etag |-> None, text |-> None]])
  /\ UNCHANGED <<page, store, client>>

Answered(n, statuses) ==
  /\ n \in DOMAIN loads
  /\ loads[n].at \in {"conditional", "fallback", "plain"}
  /\ loads[n].answer # None
  /\ loads[n].answer.status \in statuses

Done(l, text, etag) ==
  [l EXCEPT !.at = "done", !.text = text, !.etag = etag, !.answer = None, !.candidates = {}]

(* Mutant: a 304 without a readable ETag reuses the newest candidate.      *)
NotModifiedGuess(n) ==
  /\ Answered(n, {304})
  /\ LET l == loads[n]
         etag == IF l.answer.etag # None THEN l.answer.etag ELSE Head(Entry(l.key).etags)
     IN IF Entry(l.key).etags # <<>> /\ Holds(etag)
        THEN /\ Load(n, Done(l, BodyOf(etag).text, etag))
             /\ UseBody(BodyOf(etag))
             /\ Remember(l.key, etag)
        ELSE Load(n, Request(l, {})) /\ UNCHANGED store
  /\ UNCHANGED <<page, client, mishaps>>

(* 304: _reuse, or another request without If-None-Match.                  *)
NotModified(n) ==
  /\ Answered(n, {304})
  /\ LET l == loads[n]
         etag == l.answer.etag
     IN IF etag # None /\ Holds(etag)
        THEN /\ Load(n, Done(l, BodyOf(etag).text, etag))
             /\ UseBody(BodyOf(etag))
             /\ Remember(l.key, etag)
        ELSE Load(n, Request(l, {})) /\ UNCHANGED store
  /\ UNCHANGED <<page, client, mishaps>>

(* _storeMeta: the body is read, and stored under a readable ETag.         *)
Loaded(n) ==
  /\ Answered(n, {200})
  /\ loads[n].at # "fallback"
  /\ LET l == loads[n]
         etag == l.answer.etag
     IN /\ Load(n, Done(l, l.answer.text, etag))
        /\ IF etag = None THEN UNCHANGED store ELSE Put(l.key, etag, l.answer.text)
  /\ UNCHANGED <<page, client, mishaps>>

(* A conditional request that got no answer is retried without the header. *)
FallBack(n) ==
  /\ Answered(n, {0})
  /\ loads[n].at = "conditional"
  /\ Load(n, [Request(loads[n], {}) EXCEPT !.at = "fallback"])
  /\ UNCHANGED <<page, store, client, mishaps>>

(* _markUnconditional: the retry got an answer, whatever its status.       *)
MarkUnconditional(n) ==
  /\ Answered(n, {200, 500})
  /\ loads[n].at = "fallback"
  /\ Load(n, [loads[n] EXCEPT !.at = "plain"])
  /\ TouchKey([Entry(loads[n].key) EXCEPT !.plain = TRUE])
  /\ UNCHANGED <<page, bodies, client, mishaps>>

LoadFails(n) ==
  /\ \/ Answered(n, {500}) /\ loads[n].at # "fallback"
     \/ Answered(n, {0}) /\ loads[n].at # "conditional"
  /\ Load(n, [loads[n] EXCEPT !.at = "failing", !.answer = None, !.candidates = {}])
  /\ UNCHANGED <<page, store, client, mishaps>>

(* Mutant: a load the client has dropped still sets its ETag.              *)
ResolveUnguarded(n) ==
  /\ At(n, "done")
  /\ Load(n, [loads[n] EXCEPT !.at = "resolved"])
  /\ metaEtag' = [metaEtag EXCEPT ![loads[n].client] = loads[n].etag]
  /\ UNCHANGED <<page, store, promise, metaLocale, mishaps>>

(* The `then` of meta(): callers get the body.                             *)
Resolve(n) ==
  /\ At(n, "done")
  /\ Load(n, [loads[n] EXCEPT !.at = "resolved"])
  /\ LET c == loads[n].client IN
     metaEtag' = IF promise[c] = n THEN [metaEtag EXCEPT ![c] = loads[n].etag] ELSE metaEtag
  /\ UNCHANGED <<page, store, promise, metaLocale, mishaps>>

(* Failures are not cached.                                                *)
RejectMeta(n) ==
  /\ At(n, "failing")
  /\ Load(n, [loads[n] EXCEPT !.at = "rejected"])
  /\ LET c == loads[n].client IN
     promise' = IF promise[c] = n THEN [promise EXCEPT ![c] = None] ELSE promise
  /\ UNCHANGED <<page, store, metaEtag, metaLocale, mishaps>>

-----------------------------------------------------------------------------
(* The page *)

Change == changes < MaxChanges /\ changes' = changes + 1

(* Sign-out and sign-in: clearMetaStore() and invalidateMeta() on every    *)
(* client that is kept.                                                    *)
SwitchUser(u) ==
  /\ Change
  /\ u # user
  /\ user' = u
  /\ epoch' = epoch + 1
  /\ bodies' = <<>>
  /\ keys' = <<>>
  /\ promise' = [c \in Clients |-> None]
  /\ metaEtag' = [c \in Clients |-> None]
  /\ UNCHANGED <<locale, version, metaLocale, loads, mishaps>>

SwitchLocale(c, l) ==
  /\ Change
  /\ l # locale[c]
  /\ locale' = [locale EXCEPT ![c] = l]
  /\ UNCHANGED <<user, epoch, version, store, client, loads, mishaps>>

(* The server's metadata change; the page calls invalidateMeta().          *)
Deploy(c) ==
  /\ Change
  /\ version' = version + 1
  /\ promise' = [promise EXCEPT ![c] = None]
  /\ metaEtag' = [metaEtag EXCEPT ![c] = None]
  /\ UNCHANGED <<user, epoch, locale, store, metaLocale, loads, mishaps>>

(* The no-If-None-Match window of a key ends.                              *)
WindowEnds(i) ==
  /\ Change
  /\ i \in DOMAIN keys
  /\ keys[i].plain
  /\ keys' = [keys EXCEPT ![i].plain = FALSE]
  /\ UNCHANGED <<user, epoch, locale, version, bodies, client, loads, mishaps>>

Next ==
  \/ \E c \in Clients : Meta(c) \/ Deploy(c) \/ \E l \in Locales : SwitchLocale(c, l)
  \/ \E u \in Users : SwitchUser(u)
  \/ \E i \in 1..(4 * MaxEntries) : WindowEnds(i)
  \/ \E n \in 1..MaxLoads :
       \/ ResolveHeaders(n) \/ Answer(n) \/ Mishap(n)
       \/ NotModified(n) \/ Loaded(n) \/ FallBack(n) \/ MarkUnconditional(n) \/ LoadFails(n)
       \/ Resolve(n) \/ RejectMeta(n)

Spec == Init /\ [][Next]_vars

-----------------------------------------------------------------------------
(* Properties *)

(* What meta() resolves to is what the server has for the identity and     *)
(* locale of its callers: loaded with headers resolved not before the last *)
(* of them called, in the client's locale at the time, and no older than   *)
(* the request -- whatever the store shared with other clients, users and  *)
(* locales holds (client.ts:438-454, 898-972).                             *)
CallersGetTheirMeta ==
  \A n \in DOMAIN loads : loads[n].at = "resolved" =>
    LET l == loads[n] IN
    /\ l.asked <= l.epoch
    /\ l.askedIn = l.locale
    /\ \E v \in l.sent..version : l.text = Body(l.user, l.locale, v)
    /\ l.etag \in {l.text, None}

(* metaEtag() is undefined or the ETag of the very body meta() returns now,*)
(* never that of a load the client has dropped meanwhile; and a client     *)
(* never keeps a load of an earlier identity (client.ts:440-449, 466-468). *)
EtagIsOfCurrentMeta ==
  \A c \in Clients :
    /\ metaEtag[c] # None =>
         /\ promise[c] # None
         /\ loads[promise[c]].at = "resolved"
         /\ loads[promise[c]].etag = metaEtag[c]
    /\ promise[c] # None => loads[promise[c]].asked = epoch
=============================================================================
