-------------------------- MODULE MetaStoreProofs --------------------------
(***************************************************************************)
(* Theorems about MetaStore, for any clients, users, locales, keys, sizes  *)
(* of the store and bounds.                                                *)
(*                                                                         *)
(* Why the store may be shared: an ETag names the bytes it was sent with   *)
(* (BodiesOK), so a 304 hands out the server's own answer, whoever has     *)
(* stored it.  Why a load may be returned to a later caller: while a       *)
(* client holds its promise, the load is of the client's locale and of the *)
(* identity of now (PromiseOK), and every change of these drops it.        *)
(***************************************************************************)
EXTENDS MetaStore, SequenceTheorems, TLAPS

Waits == {"conditional", "fallback", "plain"}
Ends == {"done", "resolved"}

(* Copies of what the server has sent: the ETag stands for the bytes.      *)
Copies == {b \in [etag : Texts, text : Texts] : b.text = b.etag}

(* An answer that is not an error is the server's, of some version since   *)
(* the request.                                                            *)
AnswerOK(l) ==
  l.at \in Waits /\ l.answer # None /\ l.answer.status \in {200, 304} =>
    \E v \in l.sent..version :
      /\ l.answer.etag \in {Body(l.user, l.locale, v), None}
      /\ l.answer.status = 200 => l.answer.text = Body(l.user, l.locale, v)

ResultOK(l) ==
  l.at \in Ends =>
    /\ \E v \in l.sent..version : l.text = Body(l.user, l.locale, v)
    /\ l.etag \in {l.text, None}

LoadOK(l) == l.asked <= l.epoch /\ l.askedIn = l.locale /\ AnswerOK(l) /\ ResultOK(l)
LoadsOK == \A n \in DOMAIN loads : LoadOK(loads[n])

(* What a client holds is a load of its own, for its locale and for who is *)
(* signed in; its ETag is that of this load.                               *)
PromiseOK(c) ==
  /\ promise[c] # None =>
       LET l == loads[promise[c]] IN
       l.client = c /\ l.locale = metaLocale[c] /\ l.epoch = epoch /\ l.asked = epoch
  /\ metaEtag[c] # None =>
       /\ promise[c] # None
       /\ loads[promise[c]].at = "resolved"
       /\ loads[promise[c]].etag = metaEtag[c]
PromisesOK == \A c \in Clients : PromiseOK(c)

BodiesOK == bodies \in Seq(Copies)

IInv == TypeOK /\ BodiesOK /\ LoadsOK /\ PromisesOK

-----------------------------------------------------------------------------
(* Sequences *)

(* Dropping an element leaves a sequence of the same elements.             *)
LEMMA DropType ==
  ASSUME NEW S, NEW seq \in Seq(S), NEW places \in SUBSET DOMAIN seq
  PROVE  /\ Drop(seq, places) \in Seq(S) /\ Len(Drop(seq, places)) <= Len(seq)
         /\ places # {} => Len(Drop(seq, places)) < Len(seq)
<1>1. CASE places = {}
  BY <1>1 DEF Drop
<1>2. CASE places # {}
  <2>1. PICK i \in DOMAIN seq : i = CHOOSE j \in places : TRUE
    BY <1>2
  <2>2. Drop(seq, places) = SubSeq(seq, 1, i - 1) \o SubSeq(seq, i + 1, Len(seq))
    BY <1>2, <2>1 DEF Drop, RemoveAt
  <2>3. i \in 1..Len(seq) /\ Len(seq) \in Nat
    BY <2>1
  <2>4. SubSeq(seq, 1, i - 1) \in Seq(S) /\ Len(SubSeq(seq, 1, i - 1)) = i - 1
    BY <2>3, SubSeqProperties
  <2>5. SubSeq(seq, i + 1, Len(seq)) \in Seq(S) /\ Len(SubSeq(seq, i + 1, Len(seq))) = Len(seq) - i
    BY <2>3, SubSeqProperties
  <2> QED
    BY <2>2, <2>3, <2>4, <2>5, ConcatProperties
<1> QED
  BY <1>1, <1>2

(* The newest n elements are at most n, of the same elements.              *)
LEMMA NewestType ==
  ASSUME NEW S, NEW seq \in Seq(S), NEW n \in Nat
  PROVE  Newest(seq, n) \in Seq(S) /\ Len(Newest(seq, n)) <= n
<1>1. CASE Len(seq) > n
  BY <1>1, SubSeqProperties DEF Newest
<1>2. CASE Len(seq) <= n
  BY <1>2 DEF Newest
<1> QED
  BY <1>1, <1>2

(* One load changes, to x.                                                 *)
LEMMA LoadChanges ==
  ASSUME NEW S, loads \in Seq(S), NEW n \in DOMAIN loads, NEW x \in S, Load(n, x)
  PROVE  /\ loads' \in Seq(S) /\ Len(loads') = Len(loads) /\ DOMAIN loads' = DOMAIN loads
         /\ loads'[n] = x
         /\ \A m \in DOMAIN loads : m # n => loads'[m] = loads[m]
  BY DEF Load

-----------------------------------------------------------------------------
(* The store *)

Entries == [key : Keys, etags : Seq(Texts), plain : BOOLEAN]

LEMMA CopyFacts ==
  ASSUME NEW seq \in Seq(Copies)
  PROVE  seq \in Seq([etag : Texts, text : Texts])
<1>1. Copies \subseteq [etag : Texts, text : Texts]
  BY DEF Copies
<1> QED
  BY <1>1, SeqMonotonic

(* The entry of a key, there already or new.                               *)
LEMMA EntryType ==
  ASSUME keys \in Seq(Entries), NEW key \in Keys
  PROVE  Entry(key) \in Entries
<1>1. CASE \E i \in DOMAIN keys : keys[i].key = key
  <2>1. PICK i \in DOMAIN keys : i = CHOOSE j \in DOMAIN keys : keys[j].key = key
    BY <1>1
  <2>2. Entry(key) = keys[i]
    BY <1>1, <2>1 DEF Entry
  <2> QED
    BY <2>2
<1>2. CASE ~ \E i \in DOMAIN keys : keys[i].key = key
  BY <1>2 DEF Entry, Entries
<1> QED
  BY <1>1, <1>2

(* Touching an entry keeps the list of keys within its bound.              *)
LEMMA TouchKeyType ==
  ASSUME keys \in Seq(Entries), NEW entry \in Entries, TouchKey(entry)
  PROVE  keys' \in Seq(Entries) /\ Len(keys') <= 4 * MaxEntries
<1> DEFINE others == Drop(keys, {i \in DOMAIN keys : keys[i].key = entry.key})
<1>1. others \in Seq(Entries)
  BY DropType
<1>2. Append(others, entry) \in Seq(Entries)
  BY <1>1
<1>3. 4 * MaxEntries \in Nat
  BY SizesAssumption
<1>4. keys' = Newest(Append(others, entry), 4 * MaxEntries)
  BY DEF TouchKey
<1> HIDE DEF others
<1> QED
  BY <1>2, <1>3, <1>4, NewestType

(* Remembering an ETag under a key.                                        *)
LEMMA RememberType ==
  ASSUME keys \in Seq(Entries), NEW key \in Keys, NEW etag \in Texts, Remember(key, etag)
  PROVE  keys' \in Seq(Entries) /\ Len(keys') <= 4 * MaxEntries
<1> DEFINE entry == Entry(key)
           older == Drop(entry.etags, {i \in DOMAIN entry.etags : entry.etags[i] = etag})
           size == IF Len(older) < PerKey THEN Len(older) + 1 ELSE PerKey
           kept == SubSeq(<<etag>> \o older, 1, size)
<1>1. entry \in Entries
  BY EntryType
<1>2. entry.etags \in Seq(Texts)
  BY <1>1 DEF Entries
<1>3. older \in Seq(Texts)
  <2> HIDE DEF entry
  <2> QED
    BY <1>2, DropType
<1>4. <<etag>> \o older \in Seq(Texts) /\ Len(<<etag>> \o older) = Len(older) + 1
  <2> HIDE DEF older
  <2>1. <<etag>> \in Seq(Texts) /\ Len(<<etag>>) = 1
    OBVIOUS
  <2> QED
    BY <1>3, <2>1, ConcatProperties
<1>5. size \in 1..(Len(older) + 1)
  <2> HIDE DEF older
  <2>1. Len(older) \in Nat
    BY <1>3
  <2> QED
    BY <2>1, SizesAssumption
<1>6. kept \in Seq(Texts)
  <2> DEFINE all == <<etag>> \o older
  <2>1. all \in Seq(Texts) /\ size \in 1..Len(all)
    BY <1>4, <1>5
  <2>2. \A i \in 1..size : all[i] \in Texts
    <3> HIDE DEF all, size
    <3> QED
      BY <2>1
  <2>3. kept = SubSeq(all, 1, size)
    OBVIOUS
  <2> HIDE DEF all, size, kept
  <2> QED
    BY <2>1, <2>2, <2>3, SubSeqProperties
<1>7. [entry EXCEPT !.etags = kept] \in Entries
  <2> HIDE DEF entry, kept
  <2> QED
    BY <1>1, <1>6 DEF Entries
<1>8. TouchKey([entry EXCEPT !.etags = kept])
  BY DEF Remember
<1> HIDE DEF entry, kept
<1> QED
  BY <1>7, <1>8, TouchKeyType

(* A body that is used again is moved, not added.                          *)
LEMMA UseBodyType ==
  ASSUME BodiesOK, Len(bodies) <= MaxEntries, NEW etag, Holds(etag), UseBody(BodyOf(etag))
  PROVE  BodiesOK' /\ Len(bodies') <= MaxEntries /\ BodyOf(etag) \in Copies
         /\ BodyOf(etag).etag = etag
<1> DEFINE b == BodyOf(etag)
           places == {i \in DOMAIN bodies : bodies[i].etag = b.etag}
<1>1. PICK i \in DOMAIN bodies : i = CHOOSE j \in DOMAIN bodies : bodies[j].etag = etag
  BY DEF Holds
<1>2. b = bodies[i] /\ b.etag = etag
  BY <1>1 DEF BodyOf, Holds
<1>3. b \in Copies /\ i \in places
  BY <1>2 DEF BodiesOK
<1>4. Drop(bodies, places) \in Seq(Copies) /\ Len(Drop(bodies, places)) < Len(bodies)
  <2>1. bodies \in Seq(Copies) /\ places \in SUBSET DOMAIN bodies /\ places # {}
    BY <1>3 DEF BodiesOK
  <2> HIDE DEF places
  <2> QED
    BY <2>1, DropType
<1>5. bodies' = Append(Drop(bodies, places), b)
  BY DEF UseBody, OtherBodies
<1> HIDE DEF b, places
<1>6. bodies' \in Seq(Copies) /\ Len(bodies') = Len(Drop(bodies, places)) + 1
  BY <1>3, <1>4, <1>5
<1>7. Len(bodies') <= MaxEntries
  BY <1>4, <1>6, SizesAssumption DEF BodiesOK
<1> QED
  BY <1>2, <1>3, <1>6, <1>7 DEF BodiesOK, b

(* A body that is put is stored under its own ETag.                        *)
LEMMA PutType ==
  ASSUME BodiesOK, keys \in Seq(Entries), NEW key \in Keys, NEW etag \in Texts,
         Put(key, etag, etag)
  PROVE  /\ BodiesOK' /\ Len(bodies') <= MaxEntries
         /\ keys' \in Seq(Entries) /\ Len(keys') <= 4 * MaxEntries
<1> DEFINE b == [etag |-> etag, text |-> etag]
           others == OtherBodies(etag)
<1>1. b \in Copies
  BY DEF Copies
<1>2. others \in Seq(Copies)
  BY DropType DEF BodiesOK, OtherBodies
<1>3. bodies' = Newest(Append(others, b), MaxEntries)
  BY DEF Put
<1> HIDE DEF b, others
<1>4. Append(others, b) \in Seq(Copies) /\ MaxEntries \in Nat
  BY <1>1, <1>2, SizesAssumption
<1>5. BodiesOK' /\ Len(bodies') <= MaxEntries
  BY <1>3, <1>4, NewestType DEF BodiesOK
<1> QED
  BY <1>5, RememberType DEF Put

-----------------------------------------------------------------------------
(* A load of the state is a load, and None is none.                        *)
LEMMA LoadFacts ==
  ASSUME TypeOK, NEW n \in DOMAIN loads
  PROVE  /\ loads[n] \in LoadSet
         /\ n \in Nat /\ n # None
         /\ loads[n].answer # None => loads[n].answer \in Answers
<1>1. loads[n] \in LoadSet /\ n \in 1..MaxLoads /\ n \in Nat
  BY BoundsAssumption DEF TypeOK
<1> QED
  BY <1>1, NoneAssumption DEF LoadSet

LEMMA StoreFacts ==
  ASSUME TypeOK
  PROVE  keys \in Seq(Entries) /\ Len(keys) <= 4 * MaxEntries /\ Len(bodies) <= MaxEntries
  BY DEF TypeOK, Entries

(* The text the server has for a load is a text.                           *)
LEMMA TextOf ==
  ASSUME TypeOK, NEW l \in LoadSet, NEW v \in l.sent..version
  PROVE  Body(l.user, l.locale, v) \in Texts
<1>1. l.user \in Users /\ l.locale \in Locales /\ l.sent \in 0..version
  BY DEF LoadSet
<1>2. v \in 0..MaxChanges
  BY <1>1, BoundsAssumption DEF TypeOK
<1> QED
  BY <1>1, <1>2 DEF Texts

(* A step of one load of the page keeps what is known of the others.       *)
LEMMA LoadsStep ==
  ASSUME IInv, NEW n \in DOMAIN loads, NEW x \in LoadSet, LoadOK(x), Load(n, x), UNCHANGED page
  PROVE  /\ loads' \in Seq(LoadSet)' /\ Len(loads') <= MaxLoads /\ DOMAIN loads' = DOMAIN loads
         /\ LoadsOK'
<1>1. loads \in Seq(LoadSet) /\ Len(loads) <= MaxLoads /\ LoadsOK
  BY DEF IInv, TypeOK
<1>2. LoadSet' = LoadSet
  BY DEF LoadSet, page
<1>3. /\ loads' \in Seq(LoadSet) /\ Len(loads') = Len(loads) /\ DOMAIN loads' = DOMAIN loads
      /\ loads'[n] = x
      /\ \A m \in DOMAIN loads : m # n => loads'[m] = loads[m]
  BY <1>1, LoadChanges
<1>4. LoadsOK'
  <2> SUFFICES ASSUME NEW m \in DOMAIN loads' PROVE LoadOK(loads[m])'
    BY DEF LoadsOK
  <2>1. version' = version
    BY DEF page
  <2>2. LoadOK(loads'[m])
    BY <1>1, <1>3 DEF LoadsOK
  <2> QED
    BY <2>1, <2>2 DEF LoadOK, AnswerOK, ResultOK
<1> QED
  BY <1>1, <1>2, <1>3, <1>4

(* So does it of what the clients hold, when the load is not over and does *)
(* not change whom it is for.                                              *)
LEMMA PromisesStep ==
  ASSUME TypeOK, PromisesOK, NEW n \in DOMAIN loads, NEW x \in LoadSet, Load(n, x),
         loads[n].at # "resolved",
         x.client = loads[n].client, x.locale = loads[n].locale, x.asked = loads[n].asked,
         x.epoch \in {loads[n].epoch, epoch},
         UNCHANGED <<epoch, client>>
  PROVE  PromisesOK'
<1>1. loads \in Seq(LoadSet) /\ promise \in [Clients -> DOMAIN loads \cup {None}]
  BY DEF TypeOK
<1>2. loads'[n] = x /\ \A m \in DOMAIN loads : m # n => loads'[m] = loads[m]
  BY <1>1, LoadChanges
<1>3. UNCHANGED <<epoch, promise, metaEtag, metaLocale>>
  BY DEF client
<1> SUFFICES ASSUME NEW c \in Clients PROVE PromiseOK(c)'
  BY DEF PromisesOK
<1>4. PromiseOK(c)
  BY DEF PromisesOK
<1>5. promise[c] # None => promise[c] \in DOMAIN loads
  BY <1>1
<1> QED
  BY <1>2, <1>3, <1>4, <1>5 DEF PromiseOK

(* The step of one load, with what it does to the store.                   *)
LEMMA OneLoad ==
  ASSUME IInv, NEW n \in DOMAIN loads, NEW x \in LoadSet, LoadOK(x), Load(n, x),
         loads[n].at # "resolved",
         x.client = loads[n].client, x.locale = loads[n].locale, x.asked = loads[n].asked,
         x.epoch \in {loads[n].epoch, epoch},
         UNCHANGED <<page, client>>,
         BodiesOK', Len(bodies') <= MaxEntries,
         keys' \in Seq(Entries), Len(keys') <= 4 * MaxEntries, mishaps' \in 0..MaxMishaps
  PROVE  IInv'
<1>1. /\ loads' \in Seq(LoadSet)' /\ Len(loads') <= MaxLoads /\ DOMAIN loads' = DOMAIN loads
      /\ LoadsOK'
  BY LoadsStep
<1>2. PromisesOK'
  BY PromisesStep DEF IInv, page, client
<1>3. bodies' \in Seq([etag : Texts, text : Texts])
  BY CopyFacts DEF BodiesOK
<1>4. TypeOK'
  BY <1>1, <1>3 DEF IInv, TypeOK, page, client, Entries
<1> QED
  BY <1>1, <1>2, <1>4 DEF IInv

(* ... when it leaves the store alone.                                     *)
LEMMA OneLoadOnly ==
  ASSUME IInv, NEW n \in DOMAIN loads, NEW x \in LoadSet, LoadOK(x), Load(n, x),
         loads[n].at # "resolved",
         x.client = loads[n].client, x.locale = loads[n].locale, x.asked = loads[n].asked,
         x.epoch \in {loads[n].epoch, epoch},
         UNCHANGED <<page, client, store>>, mishaps' \in 0..MaxMishaps
  PROVE  IInv'
<1>1. BodiesOK' /\ Len(bodies') <= MaxEntries
  BY StoreFacts DEF IInv, BodiesOK, store
<1>2. keys' \in Seq(Entries) /\ Len(keys') <= 4 * MaxEntries
  BY StoreFacts DEF IInv, store
<1> QED
  BY <1>1, <1>2, OneLoad

-----------------------------------------------------------------------------
(* The steps of a load *)

LEMMA CandidatesType ==
  ASSUME TypeOK, NEW key \in Keys
  PROVE  Candidates(key) \in SUBSET Texts
<1>1. Entry(key) \in Entries
  BY StoreFacts, EntryType
<1>2. \A e \in ToSet(Entry(key).etags) : e \in Texts
  BY <1>1 DEF Entries, ToSet
<1> QED
  BY <1>2 DEF Candidates

(* A request is sent for whom the load is, and forgets an earlier answer.  *)
LEMMA RequestOK ==
  ASSUME TypeOK, NEW l \in LoadSet, NEW candidates \in SUBSET Texts,
         l.asked <= l.epoch, l.askedIn = l.locale
  PROVE  LET x == Request(l, candidates) IN
         /\ x \in LoadSet /\ LoadOK(x)
         /\ x.client = l.client /\ x.locale = l.locale /\ x.asked = l.asked /\ x.epoch = l.epoch
<1>1. version \in 0..version
  BY BoundsAssumption DEF TypeOK
<1>2. Request(l, candidates) \in LoadSet
  BY <1>1 DEF Request, LoadSet
<1> QED
  BY <1>2 DEF Request, LoadOK, AnswerOK, ResultOK, LoadSet, Waits, Ends

LEMMA ResolveHeadersStep ==
  ASSUME IInv, NEW n, ResolveHeaders(n)
  PROVE  IInv'
<1>1. n \in DOMAIN loads /\ loads[n].at = "headers"
  BY DEF ResolveHeaders, At
<1>2. TypeOK /\ loads[n] \in LoadSet /\ LoadOK(loads[n])
  BY <1>1, LoadFacts DEF IInv, LoadsOK
<1>3. PICK l \in {loads[n], [loads[n] EXCEPT !.user = user, !.epoch = epoch]} :
        Load(n, Request(l, Candidates(l.key)))
  BY DEF ResolveHeaders
<1>4. /\ l \in LoadSet /\ l.asked <= l.epoch /\ l.askedIn = l.locale
      /\ l.client = loads[n].client /\ l.locale = loads[n].locale /\ l.asked = loads[n].asked
      /\ l.epoch \in {loads[n].epoch, epoch}
  <2>1. CASE l = loads[n]
    BY <1>2, <2>1 DEF LoadOK
  <2>2. CASE l = [loads[n] EXCEPT !.user = user, !.epoch = epoch]
    <3>1. user \in Users /\ epoch \in 0..epoch /\ loads[n].asked <= epoch
      <4>1. user \in Users /\ epoch \in Nat
        BY <1>2, BoundsAssumption DEF TypeOK
      <4>2. loads[n].asked \in 0..epoch
        BY <1>2 DEF LoadSet
      <4> QED
        BY <4>1, <4>2
    <3> QED
      BY <1>2, <2>2, <3>1 DEF LoadSet, LoadOK
  <2> QED
    BY <1>3, <2>1, <2>2
<1>5. Candidates(l.key) \in SUBSET Texts
  BY <1>2, <1>4, CandidatesType DEF LoadSet
<1> DEFINE x == Request(l, Candidates(l.key))
<1>6. /\ x \in LoadSet /\ LoadOK(x)
      /\ x.client = l.client /\ x.locale = l.locale /\ x.asked = l.asked /\ x.epoch = l.epoch
  BY <1>2, <1>4, <1>5, RequestOK
<1>7. Load(n, x)
  BY <1>3
<1>8. UNCHANGED <<page, client, store>> /\ mishaps' \in 0..MaxMishaps
  BY <1>2 DEF ResolveHeaders, TypeOK
<1> HIDE DEF x
<1> QED
  BY <1>1, <1>4, <1>6, <1>7, <1>8, OneLoadOnly

(* A load that awaits an answer, and one that has it.                      *)
LEMMA WaitingFacts ==
  ASSUME IInv, NEW n, Waiting(n) \/ \E statuses : Answered(n, statuses)
  PROVE  /\ TypeOK /\ n \in DOMAIN loads /\ loads[n] \in LoadSet /\ LoadOK(loads[n])
         /\ loads[n].at \in Waits /\ loads[n].at # "resolved" /\ loads[n].key \in Keys
         /\ loads[n].answer # None => loads[n].answer \in Answers
<1>1. n \in DOMAIN loads /\ loads[n].at \in Waits
  BY DEF Waiting, Answered, Waits
<1>2. TypeOK /\ loads[n] \in LoadSet /\ LoadOK(loads[n])
  BY <1>1, LoadFacts DEF IInv, LoadsOK
<1> QED
  BY <1>1, <1>2, LoadFacts DEF LoadSet, Waits

(* The server's answer is the body of its version now.                     *)
LEMMA AnswerStep ==
  ASSUME IInv, NEW n, Answer(n)
  PROVE  IInv'
<1> DEFINE l == loads[n]
           text == Body(l.user, l.locale, version)
           status == IF text \in l.candidates THEN 304 ELSE 200
           answer(etag) == [status |-> status, etag |-> etag,
                            text |-> IF status = 304 THEN None ELSE text]
<1>1. /\ TypeOK /\ n \in DOMAIN loads /\ l \in LoadSet /\ LoadOK(l)
      /\ l.at \in Waits /\ l.at # "resolved"
  BY WaitingFacts DEF Answer
<1>2. PICK etag \in {text, None} :
        /\ etag = None => mishaps < MaxMishaps
        /\ mishaps' = IF etag = None THEN mishaps + 1 ELSE mishaps
        /\ Load(n, [l EXCEPT !.answer = answer(etag)])
  BY DEF Answer
<1>3. version \in l.sent..version
  BY <1>1, BoundsAssumption DEF TypeOK, LoadSet
<1>4. text \in Texts
  <2> HIDE DEF l
  <2> QED
    BY <1>1, <1>3, TextOf
<1>5. answer(etag) \in Answers
  <2> HIDE DEF text
  <2> QED
    BY <1>2, <1>4 DEF Answers
<1> DEFINE x == [l EXCEPT !.answer = answer(etag)]
<1>6. x \in LoadSet
  <2> HIDE DEF answer, l
  <2> QED
    BY <1>1, <1>5 DEF LoadSet
<1>7. /\ x.client = l.client /\ x.locale = l.locale /\ x.asked = l.asked /\ x.epoch = l.epoch
      /\ x.at = l.at /\ x.askedIn = l.askedIn /\ x.user = l.user /\ x.sent = l.sent
      /\ x.answer.etag \in {text, None}
      /\ x.answer.status = 200 => x.answer.text = text
  <2> HIDE DEF text, l
  <2> QED
    BY <1>1, <1>2 DEF LoadSet
<1>8. LoadOK(x)
  <2>1. x.asked <= x.epoch /\ x.askedIn = x.locale /\ x.at \notin Ends
    <3> HIDE DEF x, l
    <3> QED
      BY <1>1, <1>7 DEF LoadOK, Waits, Ends
  <2>2. AnswerOK(x)
    <3>1. Body(x.user, x.locale, version) = text
      <4> HIDE DEF x, l
      <4> QED
        BY <1>7 DEF text
    <3> HIDE DEF x, l, text
    <3> QED
      BY <1>3, <1>7, <3>1 DEF AnswerOK
  <2> HIDE DEF x
  <2> QED
    BY <2>1, <2>2 DEF LoadOK, ResultOK
<1>9. UNCHANGED <<page, client, store>> /\ mishaps' \in 0..MaxMishaps
  <2>1. UNCHANGED <<page, client, store>>
    BY DEF Answer
  <2>2. mishaps \in 0..MaxMishaps
    BY <1>1 DEF TypeOK
  <2> HIDE DEF text, answer, l
  <2> QED
    BY <1>2, <2>1, <2>2, BoundsAssumption
<1>10. Load(n, x)
  BY <1>2
<1>11. x.epoch \in {l.epoch, epoch}
  BY <1>7
<1> HIDE DEF x
<1> QED
  BY <1>1, <1>6, <1>7, <1>8, <1>9, <1>10, <1>11, OneLoadOnly

LEMMA MishapStep ==
  ASSUME IInv, NEW n, Mishap(n)
  PROVE  IInv'
<1>1. /\ TypeOK /\ n \in DOMAIN loads /\ loads[n] \in LoadSet /\ LoadOK(loads[n])
      /\ loads[n].at \in Waits /\ loads[n].at # "resolved"
  BY WaitingFacts DEF Mishap
<1>2. PICK status \in {0, 500} :
        Load(n, [loads[n] EXCEPT !.answer = [status |-> status, etag |-> None, text |-> None]])
  BY DEF Mishap
<1> DEFINE x == [loads[n] EXCEPT !.answer = [status |-> status, etag |-> None, text |-> None]]
<1>3. [status |-> status, etag |-> None, text |-> None] \in Answers
  BY DEF Answers
<1>4. x \in LoadSet
  BY <1>1, <1>3 DEF LoadSet
<1>5. /\ x.client = loads[n].client /\ x.locale = loads[n].locale /\ x.asked = loads[n].asked
      /\ x.epoch = loads[n].epoch /\ x.at = loads[n].at /\ x.askedIn = loads[n].askedIn
      /\ x.answer.status \notin {200, 304}
  BY <1>1 DEF LoadSet
<1>6. LoadOK(x)
  <2> HIDE DEF x
  <2> QED
    BY <1>1, <1>5 DEF LoadOK, AnswerOK, ResultOK, Waits, Ends
<1>7. UNCHANGED <<page, client, store>> /\ mishaps' \in 0..MaxMishaps
  BY <1>1, BoundsAssumption DEF Mishap, TypeOK
<1>8. Load(n, x) /\ x.epoch \in {loads[n].epoch, epoch}
  BY <1>2, <1>5
<1> HIDE DEF x
<1> QED
  BY <1>1, <1>4, <1>5, <1>6, <1>7, <1>8, OneLoadOnly

(* The result is the server's text of a version since the request.         *)
LEMMA DoneOK ==
  ASSUME TypeOK, NEW l \in LoadSet, l.asked <= l.epoch, l.askedIn = l.locale,
         NEW v \in l.sent..version, NEW text, text = Body(l.user, l.locale, v),
         NEW etag \in {text, None}
  PROVE  LET x == Done(l, text, etag) IN
         /\ x \in LoadSet /\ LoadOK(x)
         /\ x.client = l.client /\ x.locale = l.locale /\ x.asked = l.asked /\ x.epoch = l.epoch
<1> DEFINE x == Done(l, text, etag)
<1>1. text \in Texts
  BY TextOf
<1>2. x \in LoadSet
  BY <1>1 DEF Done, LoadSet
<1>3. /\ x.client = l.client /\ x.locale = l.locale /\ x.asked = l.asked /\ x.epoch = l.epoch
      /\ x.user = l.user /\ x.sent = l.sent /\ x.askedIn = l.askedIn
      /\ x.at = "done" /\ x.text = text /\ x.etag = etag
  BY DEF Done, LoadSet
<1> HIDE DEF x
<1>4. LoadOK(x)
  BY <1>3 DEF LoadOK, AnswerOK, ResultOK, Waits
<1> QED
  BY <1>2, <1>3, <1>4 DEF x

(* An answer that is not an error, with the version it is of.              *)
LEMMA AnswerFacts ==
  ASSUME IInv, NEW n, NEW statuses \in SUBSET {200, 304}, Answered(n, statuses)
  PROVE  LET l == loads[n] IN
         /\ l.answer \in Answers /\ l.answer.status \in statuses
         /\ \E v \in l.sent..version :
              /\ l.answer.etag \in {Body(l.user, l.locale, v), None}
              /\ l.answer.status = 200 => l.answer.text = Body(l.user, l.locale, v)
<1>1. LoadOK(loads[n]) /\ loads[n].at \in Waits
  BY WaitingFacts
<1>2. loads[n].answer # None /\ loads[n].answer.status \in statuses
  BY DEF Answered
<1>3. loads[n].answer \in Answers
  BY <1>2, WaitingFacts
<1> QED
  BY <1>1, <1>2, <1>3 DEF LoadOK, AnswerOK

LEMMA NotModifiedStep ==
  ASSUME IInv, NEW n, NotModified(n)
  PROVE  IInv'
<1> DEFINE l == loads[n]
           etag == l.answer.etag
<1>1. /\ TypeOK /\ n \in DOMAIN loads /\ l \in LoadSet /\ LoadOK(l)
      /\ l.at \in Waits /\ l.at # "resolved" /\ l.key \in Keys
  BY WaitingFacts DEF NotModified
<1>2. PICK v \in l.sent..version : etag \in {Body(l.user, l.locale, v), None}
  <2>1. {304} \in SUBSET {200, 304} /\ Answered(n, {304})
    BY DEF NotModified
  <2> QED
    BY <2>1, AnswerFacts
<1>3. UNCHANGED <<page, client, mishaps>> /\ mishaps' \in 0..MaxMishaps
  BY <1>1 DEF NotModified, TypeOK
<1>4. l.asked <= l.epoch /\ l.askedIn = l.locale
  BY <1>1 DEF LoadOK
<1>5. CASE etag # None /\ Holds(etag)
  <2> DEFINE b == BodyOf(etag)
             x == Done(l, b.text, etag)
  <2>1. Load(n, x) /\ UseBody(b) /\ Remember(l.key, etag)
    BY <1>5 DEF NotModified
  <2>2. BodiesOK' /\ Len(bodies') <= MaxEntries /\ b \in Copies /\ b.etag = etag
    <3> HIDE DEF etag
    <3> QED
      BY <1>1, <1>5, <2>1, UseBodyType, StoreFacts DEF IInv
  <2>3. b.text = etag /\ etag \in Texts
    BY <2>2 DEF Copies
  <2>4. keys' \in Seq(Entries) /\ Len(keys') <= 4 * MaxEntries
    <3> HIDE DEF etag, l
    <3> QED
      BY <1>1, <2>1, <2>3, StoreFacts, RememberType
  <2>5. /\ x \in LoadSet /\ LoadOK(x)
        /\ x.client = l.client /\ x.locale = l.locale /\ x.asked = l.asked /\ x.epoch = l.epoch
    <3>1. b.text = Body(l.user, l.locale, v) /\ etag \in {b.text, None}
      BY <1>2, <1>5, <2>3
    <3> HIDE DEF l, etag, b
    <3> QED
      BY <1>1, <1>2, <1>4, <3>1, DoneOK
  <2>6. x.epoch \in {l.epoch, epoch}
    BY <2>5
  <2> HIDE DEF x
  <2> QED
    BY <1>1, <1>3, <2>1, <2>2, <2>4, <2>5, <2>6, OneLoad
<1>6. CASE ~ (etag # None /\ Holds(etag))
  <2> DEFINE x == Request(l, {})
  <2>1. Load(n, x) /\ UNCHANGED store
    BY <1>6 DEF NotModified
  <2>2. /\ x \in LoadSet /\ LoadOK(x)
        /\ x.client = l.client /\ x.locale = l.locale /\ x.asked = l.asked /\ x.epoch = l.epoch
    <3> HIDE DEF l
    <3> QED
      BY <1>1, <1>4, RequestOK
  <2>3. x.epoch \in {l.epoch, epoch}
    BY <2>2
  <2> HIDE DEF x
  <2> QED
    BY <1>1, <1>3, <2>1, <2>2, <2>3, OneLoadOnly
<1> QED
  BY <1>5, <1>6

LEMMA LoadedStep ==
  ASSUME IInv, NEW n, Loaded(n)
  PROVE  IInv'
<1> DEFINE l == loads[n]
           etag == l.answer.etag
           x == Done(l, l.answer.text, etag)
<1>1. /\ TypeOK /\ n \in DOMAIN loads /\ l \in LoadSet /\ LoadOK(l)
      /\ l.at \in Waits /\ l.at # "resolved" /\ l.key \in Keys
  BY WaitingFacts DEF Loaded
<1>2. PICK v \in l.sent..version :
        /\ etag \in {Body(l.user, l.locale, v), None}
        /\ l.answer.text = Body(l.user, l.locale, v)
  <2>1. {200} \in SUBSET {200, 304} /\ Answered(n, {200})
    BY DEF Loaded
  <2>2. l.answer.status = 200
    BY <2>1, AnswerFacts
  <2> QED
    BY <2>1, <2>2, AnswerFacts
<1>3. UNCHANGED <<page, client, mishaps>> /\ mishaps' \in 0..MaxMishaps
  BY <1>1 DEF Loaded, TypeOK
<1>4. Load(n, x)
  BY DEF Loaded
<1>5. /\ x \in LoadSet /\ LoadOK(x)
      /\ x.client = l.client /\ x.locale = l.locale /\ x.asked = l.asked /\ x.epoch = l.epoch
  <2>1. l.asked <= l.epoch /\ l.askedIn = l.locale
    BY <1>1 DEF LoadOK
  <2>2. etag \in {l.answer.text, None}
    BY <1>2
  <2> DEFINE text == l.answer.text
  <2>3. text = Body(l.user, l.locale, v) /\ etag \in {text, None}
    BY <1>2, <2>2
  <2>4. x = Done(l, text, etag)
    OBVIOUS
  <2> HIDE DEF l, etag, text, x
  <2> QED
    BY <1>1, <2>1, <2>3, <2>4, DoneOK
<1>6. x.epoch \in {l.epoch, epoch}
  BY <1>5
<1>7. CASE etag = None
  <2>1. UNCHANGED store
    BY <1>7 DEF Loaded
  <2> HIDE DEF x
  <2> QED
    BY <1>1, <1>3, <1>4, <1>5, <1>6, <2>1, OneLoadOnly
<1>8. CASE etag # None
  <2>1. Put(l.key, etag, l.answer.text) /\ l.answer.text = etag
    BY <1>2, <1>8 DEF Loaded
  <2>2. etag \in Texts
    <3> HIDE DEF l
    <3> QED
      BY <1>1, <1>2, <1>8, TextOf
  <2>3. /\ BodiesOK' /\ Len(bodies') <= MaxEntries
        /\ keys' \in Seq(Entries) /\ Len(keys') <= 4 * MaxEntries
    <3>1. Put(l.key, etag, etag)
      BY <2>1
    <3> HIDE DEF l, etag
    <3> QED
      BY <1>1, <2>2, <3>1, PutType, StoreFacts DEF IInv
  <2> HIDE DEF x
  <2> QED
    BY <1>1, <1>3, <1>4, <1>5, <1>6, <2>3, OneLoad
<1> QED
  BY <1>7, <1>8

LEMMA FallBackStep ==
  ASSUME IInv, NEW n, FallBack(n)
  PROVE  IInv'
<1> DEFINE x == [Request(loads[n], {}) EXCEPT !.at = "fallback"]
<1>1. /\ TypeOK /\ n \in DOMAIN loads /\ loads[n] \in LoadSet /\ LoadOK(loads[n])
      /\ loads[n].at # "resolved"
  BY WaitingFacts DEF FallBack
<1>2. LET y == Request(loads[n], {}) IN
      /\ y \in LoadSet /\ LoadOK(y)
      /\ y.client = loads[n].client /\ y.locale = loads[n].locale /\ y.asked = loads[n].asked
      /\ y.epoch = loads[n].epoch
  <2>1. loads[n].asked <= loads[n].epoch /\ loads[n].askedIn = loads[n].locale
    BY <1>1 DEF LoadOK
  <2> QED
    BY <1>1, <2>1, RequestOK
<1>3. x \in LoadSet
  BY <1>2 DEF LoadSet
<1>4. /\ x.client = loads[n].client /\ x.locale = loads[n].locale /\ x.asked = loads[n].asked
      /\ x.epoch = loads[n].epoch /\ x.askedIn = loads[n].askedIn /\ x.answer = None
      /\ x.at = "fallback"
  BY <1>1 DEF Request, LoadSet
<1>5. Load(n, x) /\ UNCHANGED <<page, client, store>> /\ mishaps' \in 0..MaxMishaps
  BY <1>1 DEF FallBack, TypeOK
<1>6. x.epoch \in {loads[n].epoch, epoch}
  BY <1>4
<1> HIDE DEF x
<1>7. LoadOK(x)
  BY <1>1, <1>4 DEF LoadOK, AnswerOK, ResultOK, Ends
<1> QED
  BY <1>1, <1>3, <1>4, <1>5, <1>6, <1>7, OneLoadOnly

LEMMA MarkUnconditionalStep ==
  ASSUME IInv, NEW n, MarkUnconditional(n)
  PROVE  IInv'
<1> DEFINE l == loads[n]
           x == [l EXCEPT !.at = "plain"]
           entry == [Entry(l.key) EXCEPT !.plain = TRUE]
<1>1. /\ TypeOK /\ n \in DOMAIN loads /\ l \in LoadSet /\ LoadOK(l)
      /\ l.at \in Waits /\ l.at # "resolved" /\ l.key \in Keys
  BY WaitingFacts DEF MarkUnconditional
<1>2. x \in LoadSet
  BY <1>1 DEF LoadSet
<1>3. /\ x.client = l.client /\ x.locale = l.locale /\ x.asked = l.asked /\ x.epoch = l.epoch
      /\ x.askedIn = l.askedIn /\ x.user = l.user /\ x.sent = l.sent /\ x.answer = l.answer
      /\ x.at = "plain"
  BY <1>1 DEF LoadSet
<1>4. LoadOK(x)
  <2> HIDE DEF x, l
  <2> QED
    BY <1>1, <1>3 DEF LoadOK, AnswerOK, ResultOK, Waits, Ends
<1>5. entry \in Entries
  <2>1. Entry(l.key) \in Entries
    BY <1>1, StoreFacts, EntryType
  <2> QED
    BY <2>1 DEF Entries
<1>6. Load(n, x) /\ TouchKey(entry) /\ UNCHANGED <<page, client, bodies, mishaps>>
  BY DEF MarkUnconditional
<1>7. keys' \in Seq(Entries) /\ Len(keys') <= 4 * MaxEntries
  <2> HIDE DEF entry
  <2> QED
    BY <1>1, <1>5, <1>6, StoreFacts, TouchKeyType
<1>8. BodiesOK' /\ Len(bodies') <= MaxEntries /\ mishaps' \in 0..MaxMishaps
  BY <1>1, <1>6, StoreFacts DEF IInv, BodiesOK, TypeOK
<1>9. x.epoch \in {l.epoch, epoch}
  BY <1>3
<1> HIDE DEF x
<1> QED
  BY <1>1, <1>2, <1>3, <1>4, <1>6, <1>7, <1>8, <1>9, OneLoad

LEMMA LoadFailsStep ==
  ASSUME IInv, NEW n, LoadFails(n)
  PROVE  IInv'
<1> DEFINE x == [loads[n] EXCEPT !.at = "failing", !.answer = None, !.candidates = {}]
<1>1. /\ TypeOK /\ n \in DOMAIN loads /\ loads[n] \in LoadSet /\ LoadOK(loads[n])
      /\ loads[n].at # "resolved"
  BY WaitingFacts DEF LoadFails
<1>2. x \in LoadSet
  BY <1>1 DEF LoadSet
<1>3. /\ x.client = loads[n].client /\ x.locale = loads[n].locale /\ x.asked = loads[n].asked
      /\ x.epoch = loads[n].epoch /\ x.askedIn = loads[n].askedIn /\ x.at = "failing"
  BY <1>1 DEF LoadSet
<1>4. Load(n, x) /\ UNCHANGED <<page, client, store>> /\ mishaps' \in 0..MaxMishaps
  BY <1>1 DEF LoadFails, TypeOK
<1>5. x.epoch \in {loads[n].epoch, epoch}
  BY <1>3
<1> HIDE DEF x
<1>6. LoadOK(x)
  BY <1>1, <1>3 DEF LoadOK, AnswerOK, ResultOK, Ends, Waits
<1> QED
  BY <1>1, <1>2, <1>3, <1>4, <1>5, <1>6, OneLoadOnly

-----------------------------------------------------------------------------
(* The steps of a client *)

(* The ETag is set only by the load that the client holds.                 *)
LEMMA ResolveStep ==
  ASSUME IInv, NEW n, Resolve(n)
  PROVE  IInv'
<1> DEFINE x == [loads[n] EXCEPT !.at = "resolved"]
<1>1. n \in DOMAIN loads /\ loads[n].at = "done" /\ Load(n, x)
  BY DEF Resolve, At
<1>2. TypeOK /\ loads[n] \in LoadSet /\ LoadOK(loads[n]) /\ PromisesOK
  BY <1>1, LoadFacts DEF IInv, LoadsOK
<1>3. x \in LoadSet
  BY <1>2 DEF LoadSet
<1>4. /\ x.client = loads[n].client /\ x.locale = loads[n].locale /\ x.asked = loads[n].asked
      /\ x.epoch = loads[n].epoch /\ x.askedIn = loads[n].askedIn /\ x.at = "resolved"
      /\ x.user = loads[n].user /\ x.sent = loads[n].sent /\ x.text = loads[n].text
      /\ x.etag = loads[n].etag
  BY <1>2 DEF LoadSet
<1>5. UNCHANGED <<page, store, promise, metaLocale, mishaps>>
  BY DEF Resolve
<1> HIDE DEF x
<1>6. LoadOK(x)
  BY <1>1, <1>2, <1>4 DEF LoadOK, AnswerOK, ResultOK, Ends, Waits
<1>7. /\ loads' \in Seq(LoadSet)' /\ Len(loads') <= MaxLoads /\ DOMAIN loads' = DOMAIN loads
      /\ LoadsOK'
  BY <1>1, <1>3, <1>5, <1>6, LoadsStep
<1>8. loads'[n] = x /\ \A m \in DOMAIN loads : m # n => loads'[m] = loads[m]
  BY <1>1, <1>2, <1>3, LoadChanges DEF TypeOK
<1> DEFINE c == loads[n].client
<1>9. metaEtag' = IF promise[c] = n THEN [metaEtag EXCEPT ![c] = loads[n].etag] ELSE metaEtag
  BY DEF Resolve
<1>10. metaEtag' \in [Clients -> Texts \cup {None}]
  <2>1. metaEtag \in [Clients -> Texts \cup {None}] /\ loads[n].etag \in Texts \cup {None}
    BY <1>2 DEF TypeOK, LoadSet
  <2> HIDE DEF c
  <2> QED
    BY <1>9, <2>1
<1>11. TypeOK'
  BY <1>2, <1>5, <1>7, <1>10 DEF TypeOK, page, store
<1>12. PromisesOK'
  <2> SUFFICES ASSUME NEW d \in Clients PROVE PromiseOK(d)'
    BY DEF PromisesOK
  <2>1. PromiseOK(d) /\ promise[d] \in DOMAIN loads \cup {None} /\ n # None
    BY <1>1, <1>2, LoadFacts DEF PromisesOK, TypeOK
  <2>2. epoch' = epoch
    BY <1>5 DEF page
  <2>3. metaEtag \in [Clients -> Texts \cup {None}]
    BY <1>2 DEF TypeOK
  <2>4. CASE promise[d] = n
    <3>1. c = d
      BY <2>1, <2>4 DEF PromiseOK
    <3>2. metaEtag'[d] = loads[n].etag
      BY <1>9, <2>3, <2>4, <3>1
    <3> QED
      BY <1>4, <1>5, <1>8, <2>1, <2>2, <2>4, <3>2 DEF PromiseOK
  <2>5. CASE promise[d] # n
    <3>1. metaEtag'[d] = metaEtag[d]
      BY <1>9, <2>3, <2>5
    <3> QED
      BY <1>5, <1>8, <2>1, <2>2, <2>5, <3>1 DEF PromiseOK
  <2> QED
    BY <2>4, <2>5
<1>13. BodiesOK'
  BY <1>5 DEF IInv, BodiesOK, store
<1> QED
  BY <1>7, <1>11, <1>12, <1>13 DEF IInv

(* A failure is dropped only by the client that holds it.                  *)
LEMMA RejectMetaStep ==
  ASSUME IInv, NEW n, RejectMeta(n)
  PROVE  IInv'
<1> DEFINE x == [loads[n] EXCEPT !.at = "rejected"]
<1>1. n \in DOMAIN loads /\ loads[n].at = "failing" /\ Load(n, x)
  BY DEF RejectMeta, At
<1>2. TypeOK /\ loads[n] \in LoadSet /\ LoadOK(loads[n]) /\ PromisesOK
  BY <1>1, LoadFacts DEF IInv, LoadsOK
<1>3. x \in LoadSet
  BY <1>2 DEF LoadSet
<1>4. x.at = "rejected" /\ x.asked = loads[n].asked /\ x.epoch = loads[n].epoch
      /\ x.locale = loads[n].locale /\ x.askedIn = loads[n].askedIn
  BY <1>2 DEF LoadSet
<1>5. UNCHANGED <<page, store, metaEtag, metaLocale, mishaps>>
  BY DEF RejectMeta
<1> HIDE DEF x
<1>6. LoadOK(x)
  BY <1>2, <1>4 DEF LoadOK, AnswerOK, ResultOK, Ends, Waits
<1>7. /\ loads' \in Seq(LoadSet)' /\ Len(loads') <= MaxLoads /\ DOMAIN loads' = DOMAIN loads
      /\ LoadsOK'
  BY <1>1, <1>3, <1>5, <1>6, LoadsStep
<1>8. \A m \in DOMAIN loads : m # n => loads'[m] = loads[m]
  BY <1>1, <1>2, <1>3, LoadChanges DEF TypeOK
<1> DEFINE c == loads[n].client
<1>9. promise' = IF promise[c] = n THEN [promise EXCEPT ![c] = None] ELSE promise
  BY DEF RejectMeta
<1>10. promise \in [Clients -> DOMAIN loads \cup {None}]
  BY <1>2 DEF TypeOK
<1>11. promise' \in [Clients -> DOMAIN loads \cup {None}]
  BY <1>9, <1>10
<1>12. TypeOK'
  BY <1>2, <1>5, <1>7, <1>11 DEF TypeOK, page, store
<1>13. PromisesOK'
  <2> SUFFICES ASSUME NEW d \in Clients PROVE PromiseOK(d)'
    BY DEF PromisesOK
  <2>1. PromiseOK(d) /\ promise[d] \in DOMAIN loads \cup {None} /\ n # None
    BY <1>1, <1>2, <1>10, LoadFacts DEF PromisesOK
  <2>2. UNCHANGED <<epoch, metaEtag, metaLocale>>
    BY <1>5 DEF page
  <2>3. CASE promise[d] = n
    <3>1. c = d /\ metaEtag[d] = None
      BY <1>1, <2>1, <2>3 DEF PromiseOK
    <3>2. promise'[d] = None
      BY <1>9, <1>10, <2>3, <3>1
    <3> QED
      BY <2>2, <3>1, <3>2 DEF PromiseOK
  <2>4. CASE promise[d] # n
    <3>1. promise'[d] = promise[d]
      BY <1>9, <1>10, <2>4
    <3> QED
      BY <1>8, <2>1, <2>2, <2>4, <3>1 DEF PromiseOK
  <2> QED
    BY <2>3, <2>4
<1>14. BodiesOK'
  BY <1>5 DEF IInv, BodiesOK, store
<1> QED
  BY <1>7, <1>12, <1>13, <1>14 DEF IInv

(* A later caller gets the load the client holds.                          *)
LEMMA ReturnLoadedStep ==
  ASSUME IInv, NEW c \in Clients, Meta(c), promise[c] # None, metaLocale[c] = locale[c]
  PROVE  IInv'
<1> DEFINE n == promise[c]
           x == [loads[n] EXCEPT !.asked = epoch, !.askedIn = locale[c]]
<1>1. TypeOK /\ PromisesOK /\ n \in DOMAIN loads
  BY DEF IInv, TypeOK
<1>2. loads[n] \in LoadSet /\ LoadOK(loads[n])
  BY <1>1, LoadFacts DEF IInv, LoadsOK
<1>3. loads[n].client = c /\ loads[n].locale = metaLocale[c] /\ loads[n].epoch = epoch
  BY <1>1 DEF PromisesOK, PromiseOK
<1>4. epoch \in 0..epoch /\ locale[c] \in Locales
  BY <1>1, BoundsAssumption DEF TypeOK
<1>5. Load(n, x) /\ UNCHANGED <<page, store, promise, mishaps>>
  BY DEF Meta, ReturnLoaded, Load
<1>6. metaLocale' = metaLocale /\ metaEtag' = metaEtag
  BY <1>1 DEF Meta, TypeOK
<1>7. x \in LoadSet
  BY <1>2, <1>4 DEF LoadSet
<1>8. /\ x.client = loads[n].client /\ x.locale = loads[n].locale /\ x.asked = epoch
      /\ x.epoch = epoch /\ x.askedIn = locale[c] /\ x.at = loads[n].at
      /\ x.user = loads[n].user /\ x.sent = loads[n].sent /\ x.text = loads[n].text
      /\ x.etag = loads[n].etag /\ x.answer = loads[n].answer
  BY <1>2, <1>3 DEF LoadSet
<1> HIDE DEF n, x
<1>9. LoadOK(x)
  <2>1. x.asked <= x.epoch /\ x.askedIn = x.locale
    BY <1>3, <1>4, <1>8
  <2>2. AnswerOK(x) /\ ResultOK(x)
    BY <1>2, <1>8 DEF LoadOK, AnswerOK, ResultOK
  <2> QED
    BY <2>1, <2>2 DEF LoadOK
<1>10. /\ loads' \in Seq(LoadSet)' /\ Len(loads') <= MaxLoads /\ DOMAIN loads' = DOMAIN loads
       /\ LoadsOK'
  BY <1>1, <1>5, <1>7, <1>9, LoadsStep
<1>11. loads'[n] = x /\ \A m \in DOMAIN loads : m # n => loads'[m] = loads[m]
  BY <1>1, <1>5, <1>7, LoadChanges DEF TypeOK
<1>12. TypeOK'
  BY <1>1, <1>5, <1>6, <1>10 DEF TypeOK, page, store
<1>13. PromisesOK'
  <2> SUFFICES ASSUME NEW d \in Clients PROVE PromiseOK(d)'
    BY DEF PromisesOK
  <2>1. PromiseOK(d) /\ promise[d] \in DOMAIN loads \cup {None}
    BY <1>1 DEF PromisesOK, TypeOK
  <2>2. epoch' = epoch
    BY <1>5 DEF page
  <2>3. CASE promise[d] = n
    BY <1>5, <1>6, <1>8, <1>11, <2>1, <2>2, <2>3 DEF PromiseOK
  <2>4. CASE promise[d] # n
    BY <1>5, <1>6, <1>11, <2>1, <2>2, <2>4 DEF PromiseOK
  <2> QED
    BY <2>3, <2>4
<1>14. BodiesOK'
  BY <1>5 DEF IInv, BodiesOK, store
<1> QED
  BY <1>10, <1>12, <1>13, <1>14 DEF IInv

(* Otherwise a load is started, for the client's locale and who is signed  *)
(* in.                                                                     *)
LEMMA StartLoadStep ==
  ASSUME IInv, NEW c \in Clients, Meta(c), ~ (promise[c] # None /\ metaLocale[c] = locale[c])
  PROVE  IInv'
<1> DEFINE n == Len(loads) + 1
           x == NewLoad(c, <<MetaKey[c], locale[c]>>)
<1>1. TypeOK /\ LoadsOK /\ PromisesOK
  BY DEF IInv
<1>2. /\ Len(loads) < MaxLoads /\ loads' = Append(loads, x)
      /\ promise' = [promise EXCEPT ![c] = n]
      /\ UNCHANGED <<page, store, mishaps>>
  BY DEF Meta, StartLoad
<1>3. /\ metaLocale' = [metaLocale EXCEPT ![c] = locale[c]]
      /\ metaEtag' = [metaEtag EXCEPT ![c] = IF metaLocale[c] = locale[c] THEN @ ELSE None]
  BY DEF Meta
<1>4. epoch \in 0..epoch /\ version \in 0..version /\ locale[c] \in Locales /\ user \in Users
  BY <1>1, BoundsAssumption DEF TypeOK
<1>5. x \in LoadSet
  BY <1>4 DEF NewLoad, LoadSet, Keys
<1>6. /\ x.client = c /\ x.locale = locale[c] /\ x.epoch = epoch /\ x.asked = epoch
      /\ x.askedIn = locale[c] /\ x.at = "headers"
  BY DEF NewLoad
<1> HIDE DEF x
<1>7. LoadOK(x)
  BY <1>4, <1>6 DEF LoadOK, AnswerOK, ResultOK, Waits, Ends
<1>8. loads \in Seq(LoadSet) /\ Len(loads) \in Nat
  BY <1>1 DEF TypeOK
<1>9. /\ loads' \in Seq(LoadSet) /\ Len(loads') = n /\ loads'[n] = x
      /\ \A m \in DOMAIN loads : loads'[m] = loads[m] /\ m # n
      /\ DOMAIN loads' = DOMAIN loads \cup {n}
  BY <1>2, <1>5, <1>8
<1>10. n # None
  BY <1>2, <1>8, NoneAssumption, BoundsAssumption
<1>11. TypeOK'
  <2>1. LoadSet' = LoadSet
    BY <1>2 DEF LoadSet, page
  <2>2. promise' \in [Clients -> DOMAIN loads' \cup {None}]
    BY <1>1, <1>2, <1>9 DEF TypeOK
  <2>3. metaLocale' \in [Clients -> Locales \cup {None}] /\ metaEtag' \in [Clients -> Texts \cup {None}]
    BY <1>1, <1>3, <1>4 DEF TypeOK
  <2>4. Len(loads') <= MaxLoads
    BY <1>2, <1>8, <1>9, BoundsAssumption
  <2> HIDE DEF n
  <2> QED
    BY <1>1, <1>2, <1>9, <2>1, <2>2, <2>3, <2>4 DEF TypeOK, page, store
<1>12. LoadsOK'
  <2> SUFFICES ASSUME NEW m \in DOMAIN loads' PROVE LoadOK(loads[m])'
    BY DEF LoadsOK
  <2>1. version' = version
    BY <1>2 DEF page
  <2>2. LoadOK(loads'[m])
    BY <1>1, <1>7, <1>9 DEF LoadsOK
  <2> QED
    BY <2>1, <2>2 DEF LoadOK, AnswerOK, ResultOK
<1>13. PromisesOK'
  <2> SUFFICES ASSUME NEW d \in Clients PROVE PromiseOK(d)'
    BY DEF PromisesOK
  <2>1. PromiseOK(d) /\ promise[d] \in DOMAIN loads \cup {None} /\ PromiseOK(c)
    BY <1>1 DEF PromisesOK, TypeOK
  <2>2. epoch' = epoch
    BY <1>2 DEF page
  <2>3. /\ promise \in [Clients -> DOMAIN loads \cup {None}]
        /\ metaEtag \in [Clients -> Texts \cup {None}]
        /\ metaLocale \in [Clients -> Locales \cup {None}]
    BY <1>1 DEF TypeOK
  <2>4. CASE d = c
    <3>1. promise'[d] = n /\ metaLocale'[d] = locale[c]
      BY <1>2, <1>3, <2>3, <2>4
    <3>2. metaEtag'[d] = None
      <4>1. metaEtag[c] # None => metaLocale[c] # locale[c]
        BY <2>1 DEF PromiseOK
      <4> QED
        BY <1>3, <2>3, <2>4, <4>1
    <3> HIDE DEF n
    <3> QED
      BY <1>6, <1>9, <2>2, <2>4, <3>1, <3>2 DEF PromiseOK
  <2>5. CASE d # c
    <3>1. promise'[d] = promise[d] /\ metaLocale'[d] = metaLocale[d] /\ metaEtag'[d] = metaEtag[d]
      BY <1>2, <1>3, <2>3, <2>5
    <3> HIDE DEF n
    <3> QED
      BY <1>9, <2>1, <2>2, <3>1 DEF PromiseOK
  <2> QED
    BY <2>4, <2>5
<1>14. BodiesOK'
  BY <1>2 DEF IInv, BodiesOK, store
<1> QED
  BY <1>11, <1>12, <1>13, <1>14 DEF IInv

LEMMA MetaStep ==
  ASSUME IInv, NEW c \in Clients, Meta(c)
  PROVE  IInv'
  BY ReturnLoadedStep, StartLoadStep

-----------------------------------------------------------------------------
(* The steps of the page *)

(* Loads outlive a change of the page, and what they know stays true.      *)
LEMMA LoadsOutlive ==
  ASSUME IInv, loads' = loads, epoch' \in Nat, epoch <= epoch', version' \in Nat, version <= version'
  PROVE  loads' \in Seq(LoadSet)' /\ LoadsOK'
<1>1. loads \in Seq(LoadSet) /\ LoadsOK /\ epoch \in Nat /\ version \in Nat
  BY BoundsAssumption DEF IInv, TypeOK
<1>2. 0..epoch \subseteq 0..epoch' /\ 0..version \subseteq 0..version'
  BY <1>1
<1>3. LoadSet \subseteq LoadSet'
  BY <1>2 DEF LoadSet
<1>4. loads \in Seq(LoadSet')
  BY <1>1, <1>3, SeqMonotonic
<1>5. LoadsOK'
  <2> SUFFICES ASSUME NEW m \in DOMAIN loads' PROVE LoadOK(loads[m])'
    BY DEF LoadsOK
  <2>1. loads[m] \in LoadSet /\ LoadOK(loads[m]) /\ loads'[m] = loads[m]
    BY <1>1 DEF LoadsOK
  <2>2. \A v \in loads[m].sent..version : v \in loads[m].sent..version'
    <3>1. loads[m].sent \in 0..version
      BY <2>1 DEF LoadSet
    <3> QED
      BY <1>1, <3>1
  <2> QED
    BY <2>1, <2>2 DEF LoadOK, AnswerOK, ResultOK
<1> QED
  BY <1>4, <1>5

(* Nothing of the old identity is held.                                    *)
LEMMA SwitchUserStep ==
  ASSUME IInv, NEW u \in Users, SwitchUser(u)
  PROVE  IInv'
<1>1. TypeOK /\ epoch \in Nat /\ version \in Nat /\ changes \in Nat
  BY BoundsAssumption DEF IInv, TypeOK
<1>2. /\ user' = u /\ epoch' = epoch + 1 /\ bodies' = <<>> /\ keys' = <<>>
      /\ promise' = [c \in Clients |-> None] /\ metaEtag' = [c \in Clients |-> None]
      /\ changes < MaxChanges /\ changes' = changes + 1
      /\ UNCHANGED <<locale, version, metaLocale, loads, mishaps>>
  BY DEF SwitchUser, Change
<1>3. loads' \in Seq(LoadSet)' /\ LoadsOK'
  BY <1>1, <1>2, LoadsOutlive
<1>4. changes' \in 0..MaxChanges /\ epoch' \in 0..changes' /\ version' \in 0..changes'
  BY <1>1, <1>2, BoundsAssumption DEF TypeOK
<1>5. 0 <= MaxEntries /\ 0 <= 4 * MaxEntries
  BY SizesAssumption
<1>6. TypeOK'
  BY <1>1, <1>2, <1>3, <1>4, <1>5 DEF TypeOK
<1>7. PromisesOK' /\ BodiesOK'
  BY <1>2 DEF PromisesOK, PromiseOK, BodiesOK
<1> QED
  BY <1>3, <1>6, <1>7 DEF IInv

LEMMA SwitchLocaleStep ==
  ASSUME IInv, NEW c \in Clients, NEW l \in Locales, SwitchLocale(c, l)
  PROVE  IInv'
<1>1. TypeOK /\ epoch \in Nat /\ version \in Nat /\ changes \in Nat
  BY BoundsAssumption DEF IInv, TypeOK
<1>2. /\ locale' = [locale EXCEPT ![c] = l]
      /\ changes < MaxChanges /\ changes' = changes + 1
      /\ UNCHANGED <<user, epoch, version, bodies, keys, promise, metaEtag, metaLocale, loads, mishaps>>
  BY DEF SwitchLocale, Change, store, client
<1>3. loads' \in Seq(LoadSet)' /\ LoadsOK'
  BY <1>1, <1>2, LoadsOutlive
<1>4. changes' \in 0..MaxChanges /\ epoch' \in 0..changes' /\ version' \in 0..changes'
  BY <1>1, <1>2, BoundsAssumption DEF TypeOK
<1>5. TypeOK'
  BY <1>1, <1>2, <1>3, <1>4 DEF TypeOK
<1>6. PromisesOK' /\ BodiesOK'
  BY <1>2 DEF IInv, PromisesOK, PromiseOK, BodiesOK
<1> QED
  BY <1>3, <1>5, <1>6 DEF IInv

(* The client holds nothing of the old version.                            *)
LEMMA DeployStep ==
  ASSUME IInv, NEW c \in Clients, Deploy(c)
  PROVE  IInv'
<1>1. TypeOK /\ PromisesOK /\ epoch \in Nat /\ version \in Nat /\ changes \in Nat
  BY BoundsAssumption DEF IInv, TypeOK
<1>2. /\ version' = version + 1
      /\ promise' = [promise EXCEPT ![c] = None] /\ metaEtag' = [metaEtag EXCEPT ![c] = None]
      /\ changes < MaxChanges /\ changes' = changes + 1
      /\ UNCHANGED <<user, epoch, locale, bodies, keys, metaLocale, loads, mishaps>>
  BY DEF Deploy, Change, store
<1>3. loads' \in Seq(LoadSet)' /\ LoadsOK'
  BY <1>1, <1>2, LoadsOutlive
<1>4. changes' \in 0..MaxChanges /\ epoch' \in 0..changes' /\ version' \in 0..changes'
  BY <1>1, <1>2, BoundsAssumption DEF TypeOK
<1>5. TypeOK'
  BY <1>1, <1>2, <1>3, <1>4 DEF TypeOK
<1>6. PromisesOK'
  BY <1>1, <1>2 DEF TypeOK, PromisesOK, PromiseOK
<1>7. BodiesOK'
  BY <1>2 DEF IInv, BodiesOK
<1> QED
  BY <1>3, <1>5, <1>6, <1>7 DEF IInv

LEMMA WindowEndsStep ==
  ASSUME IInv, NEW i, WindowEnds(i)
  PROVE  IInv'
<1>1. TypeOK /\ epoch \in Nat /\ version \in Nat /\ changes \in Nat
  BY BoundsAssumption DEF IInv, TypeOK
<1>2. /\ i \in DOMAIN keys /\ keys' = [keys EXCEPT ![i].plain = FALSE]
      /\ changes < MaxChanges /\ changes' = changes + 1
      /\ UNCHANGED <<user, epoch, locale, version, bodies, promise, metaEtag, metaLocale, loads, mishaps>>
  BY DEF WindowEnds, Change, client
<1>3. loads' \in Seq(LoadSet)' /\ LoadsOK'
  BY <1>1, <1>2, LoadsOutlive
<1>4. changes' \in 0..MaxChanges /\ epoch' \in 0..changes' /\ version' \in 0..changes'
  BY <1>1, <1>2, BoundsAssumption DEF TypeOK
<1>5. keys' \in Seq(Entries) /\ Len(keys') <= 4 * MaxEntries
  <2>1. keys \in Seq(Entries) /\ Len(keys) <= 4 * MaxEntries
    BY <1>1, StoreFacts
  <2>2. [keys[i] EXCEPT !.plain = FALSE] \in Entries
    <3>1. keys[i] \in Entries
      BY <1>2, <2>1
    <3> QED
      BY <3>1 DEF Entries
  <2> QED
    BY <1>2, <2>1, <2>2
<1>6. TypeOK'
  BY <1>1, <1>2, <1>3, <1>4, <1>5 DEF TypeOK, Entries
<1>7. PromisesOK' /\ BodiesOK'
  BY <1>2 DEF IInv, PromisesOK, PromiseOK, BodiesOK
<1> QED
  BY <1>3, <1>6, <1>7 DEF IInv

-----------------------------------------------------------------------------
(* The theorems *)

LEMMA InitIInv == Init => IInv
<1> SUFFICES ASSUME Init PROVE IInv
  OBVIOUS
<1>1. 0 \in 0..MaxChanges /\ 0 \in 0..MaxMishaps /\ 0 <= MaxLoads
  BY BoundsAssumption
<1>2. 0 <= MaxEntries /\ 0 <= 4 * MaxEntries
  BY SizesAssumption
<1>3. TypeOK
  BY <1>1, <1>2 DEF Init, TypeOK
<1>4. BodiesOK /\ LoadsOK /\ PromisesOK
  BY DEF Init, BodiesOK, LoadsOK, PromisesOK, PromiseOK
<1> QED
  BY <1>3, <1>4 DEF IInv

LEMMA NextIInv == IInv /\ [Next]_vars => IInv'
<1> SUFFICES ASSUME IInv, [Next]_vars PROVE IInv'
  OBVIOUS
<1>1. CASE \E c \in Clients : Meta(c) \/ Deploy(c) \/ \E l \in Locales : SwitchLocale(c, l)
  BY <1>1, MetaStep, DeployStep, SwitchLocaleStep
<1>2. CASE \E u \in Users : SwitchUser(u)
  BY <1>2, SwitchUserStep
<1>3. CASE \E i \in 1..(4 * MaxEntries) : WindowEnds(i)
  BY <1>3, WindowEndsStep
<1>4. CASE \E n \in 1..MaxLoads : ResolveHeaders(n) \/ Answer(n) \/ Mishap(n)
  BY <1>4, ResolveHeadersStep, AnswerStep, MishapStep
<1>5. CASE \E n \in 1..MaxLoads : NotModified(n) \/ Loaded(n) \/ FallBack(n)
  BY <1>5, NotModifiedStep, LoadedStep, FallBackStep
<1>6. CASE \E n \in 1..MaxLoads :
             MarkUnconditional(n) \/ LoadFails(n) \/ Resolve(n) \/ RejectMeta(n)
  BY <1>6, MarkUnconditionalStep, LoadFailsStep, ResolveStep, RejectMetaStep
<1>7. CASE UNCHANGED vars
  <2>1. UNCHANGED <<user, epoch, locale, version, bodies, keys, promise, metaEtag, metaLocale,
                    loads, changes, mishaps>>
    BY <1>7 DEF vars
  <2>2. TypeOK' /\ BodiesOK'
    BY <2>1 DEF IInv, TypeOK, LoadSet, BodiesOK
  <2>3. LoadsOK'
    BY <2>1 DEF IInv, LoadsOK, LoadOK, AnswerOK, ResultOK
  <2>4. PromisesOK'
    BY <2>1 DEF IInv, PromisesOK, PromiseOK
  <2> QED
    BY <2>2, <2>3, <2>4 DEF IInv
<1> QED
  BY <1>1, <1>2, <1>3, <1>4, <1>5, <1>6, <1>7 DEF Next

(* The inductive invariant of the store and its clients: every body, load  *)
(* and promise is what the server, the identity and the locale of its time *)
(* make it.                                                                *)
THEOREM Inductive == Spec => []IInv
  BY InitIInv, NextIInv, PTL DEF Spec

(* The store never holds more than it may, and every load, promise, ETag   *)
(* and body is one of the values the code gives it.                        *)
THEOREM TypeCorrect == Spec => []TypeOK
<1>1. IInv => TypeOK
  BY DEF IInv
<1> QED
  BY <1>1, Inductive, PTL

(* What meta() resolves to is the server's own body for the identity and   *)
(* the locale of its callers, whatever the shared store holds.             *)
THEOREM CallersGetTheirs == Spec => []CallersGetTheirMeta
<1>1. IInv => CallersGetTheirMeta
  BY DEF IInv, LoadsOK, LoadOK, ResultOK, Ends, CallersGetTheirMeta
<1> QED
  BY <1>1, Inductive, PTL

(* metaEtag() is that of the body meta() returns now, and no client holds  *)
(* a load of an earlier identity.                                          *)
THEOREM EtagIsCurrent == Spec => []EtagIsOfCurrentMeta
<1>1. IInv => EtagIsOfCurrentMeta
  BY DEF IInv, PromisesOK, PromiseOK, EtagIsOfCurrentMeta
<1> QED
  BY <1>1, Inductive, PTL
=============================================================================
