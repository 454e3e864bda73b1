----------------------------- MODULE Api_proofs -----------------------------
(***************************************************************************)
(* Proofs about what the API serves.                                       *)
(*                                                                         *)
(* Access: that a revoked or expired token is never let in and that a      *)
(* freeze takes hold.  First what a cache may look like after a look-up    *)
(* and after an answer; then what is known of a request in each phase and  *)
(* of every copy of the switch (AccessInv), one action after the other;    *)
(* then the theorems.                                                      *)
(*                                                                         *)
(* Board: that the plans computed of it fit, that their slack tells of     *)
(* deadlines, that moves are honoured or explained, that the gate keeps    *)
(* cycles out, and that a selection stands.  The engine is defined by      *)
(* recursion and by folds, so first comes induction over the natural       *)
(* numbers as a fact about sets, and with it that what is so defined       *)
(* exists; then the calendar, the room in an area, the forward pass as an  *)
(* invariant of its steps, the backward pass, the turns of two passes      *)
(* compared, the walk over dependencies as an invariant of its steps, the  *)
(* ranking and the selection that goes down it; each with its theorems.    *)
(***************************************************************************)
EXTENDS Access, Board, FiniteSetTheorems, SequenceTheorems, TLAPS

-----------------------------------------------------------------------------
(* The verification cache. *)

\* A cache as CacheIsBounded wants it, which never lies about a secret.
Sound(c) ==
    /\ c \in Seq(Entries)
    /\ Len(c) <= CacheMax
    /\ \A j, k \in DOMAIN c : c[j].key = c[k].key => j = k
    /\ \A k \in DOMAIN c : c[k].matched = c[k].key.right

\* Removing an entry, in closed form.
LEMMA RemovedAt ==
  ASSUME NEW c \in Seq(Entries), NEW i \in 1 .. Len(c)
  PROVE  /\ RemoveAt(c, i) \in Seq(Entries)
         /\ Len(RemoveAt(c, i)) = Len(c) - 1
         /\ \A k \in 1 .. Len(c) - 1 :
               RemoveAt(c, i)[k] = IF k < i THEN c[k] ELSE c[k + 1]
<1> DEFINE s == SubSeq(c, 1, i - 1)
           t == SubSeq(c, i + 1, Len(c))
<1>0. Len(c) \in Nat /\ \A k \in 1 .. Len(c) : c[k] \in Entries
  BY ElementOfSeq, LenProperties
<1>1. /\ s \in Seq(Entries) /\ Len(s) = i - 1
      /\ \A k \in 1 .. i - 1 : s[k] = c[k]
  <2>1. \A k \in 1 .. i - 1 : c[k] \in Entries
    BY <1>0
  <2> QED BY <1>0, <2>1, SubSeqProperties
<1>2. /\ t \in Seq(Entries) /\ Len(t) = Len(c) - i
      /\ \A k \in 1 .. Len(c) - i : t[k] = c[i + k]
  <2>1. \A k \in i + 1 .. Len(c) : c[k] \in Entries
    BY <1>0
  <2>2. \A k \in 1 .. Len(c) - i : (i + 1) + k - 1 = i + k
    BY <1>0
  <2> QED BY <1>0, <2>1, SubSeqProperties
<1>3. RemoveAt(c, i) = s \o t
  BY DEF RemoveAt
<1> HIDE DEF s, t
<1>4. /\ s \o t \in Seq(Entries)
      /\ Len(s \o t) = Len(s) + Len(t)
      /\ \A k \in 1 .. Len(s) + Len(t) :
            (s \o t)[k] = IF k <= Len(s) THEN s[k] ELSE t[k - Len(s)]
  BY <1>1, <1>2, ConcatProperties
<1> DEFINE d == s \o t
<1>5. \A k \in 1 .. Len(c) - 1 :
         d[k] = IF k <= i - 1 THEN s[k] ELSE t[k - (i - 1)]
  <2>1. Len(s) + Len(t) = Len(c) - 1
    BY <1>0, <1>1, <1>2
  <2> QED BY <1>1, <1>4, <2>1
<1>6. Len(d) = Len(c) - 1 /\ d \in Seq(Entries)
  BY <1>0, <1>1, <1>2, <1>4
<1> HIDE DEF d
<1>7. ASSUME NEW k \in 1 .. Len(c) - 1
      PROVE  d[k] = IF k < i THEN c[k] ELSE c[k + 1]
  <2>1. CASE k < i
    <3>1. k \in 1 .. i - 1 /\ k <= i - 1
      BY <1>0, <2>1
    <3> QED BY <1>1, <1>5, <2>1, <3>1
  <2>2. CASE ~(k < i)
    <3>1. d[k] = t[k - (i - 1)]
      BY <1>0, <1>5, <2>2
    <3>2. k - (i - 1) \in 1 .. Len(c) - i /\ i + (k - (i - 1)) = k + 1
      BY <1>0, <2>2
    <3> QED BY <1>2, <2>2, <3>1, <3>2
  <2> QED BY <2>1, <2>2
<1> QED BY <1>3, <1>6, <1>7 DEF d

\* Part of a sound cache is sound.
LEMMA PartIsSound ==
  ASSUME NEW c, Sound(c), NEW d \in Seq(Entries), Len(d) <= CacheMax,
         NEW from \in [DOMAIN d -> DOMAIN c],
         \A j, k \in DOMAIN d : from[j] = from[k] => j = k,
         \A k \in DOMAIN d : d[k] = c[from[k]]
  PROVE  Sound(d)
BY DEF Sound

\* Dropping what is past its time leaves a cache sound.
LEMMA LookedUpIsSound ==
  ASSUME NEW p, Sound(cache[p]), NEW key
  PROVE  Sound(LookedUp(p, key))
<1> DEFINE c == cache[p]
           stale == {k \in DOMAIN c : c[k].key = key /\ clock - c[k].at > CacheTtl}
           i == CHOOSE k \in stale : TRUE
<1>1. CASE stale = {}
  BY <1>1 DEF LookedUp
<1>2. CASE stale # {}
  <2>1. c \in Seq(Entries) /\ Len(c) \in Nat /\ DOMAIN c = 1 .. Len(c)
    BY LenProperties DEF Sound
  <2>2. i \in 1 .. Len(c)
    BY <1>2, <2>1
  <2>3. LookedUp(p, key) = RemoveAt(c, i)
    BY <1>2 DEF LookedUp
  <2> HIDE DEF i
  <2>4. /\ RemoveAt(c, i) \in Seq(Entries)
        /\ Len(RemoveAt(c, i)) = Len(c) - 1
        /\ \A k \in 1 .. Len(c) - 1 :
              RemoveAt(c, i)[k] = IF k < i THEN c[k] ELSE c[k + 1]
    BY <2>1, <2>2, RemovedAt
  <2> DEFINE d == RemoveAt(c, i)
  <2> HIDE DEF d
  <2>5. DOMAIN d = 1 .. Len(c) - 1
    BY <2>4, LenProperties DEF d
  <2> DEFINE from == [k \in DOMAIN d |-> IF k < i THEN k ELSE k + 1]
  <2>6. from \in [DOMAIN d -> DOMAIN c]
    BY <2>1, <2>2, <2>5
  <2>7. \A j, k \in DOMAIN d : from[j] = from[k] => j = k
    BY <2>1, <2>2, <2>5
  <2>8. \A k \in DOMAIN d : d[k] = c[from[k]]
    BY <2>4, <2>5 DEF d
  <2>9. Len(d) <= CacheMax /\ d \in Seq(Entries)
    <3>1. Len(c) <= CacheMax
      BY DEF Sound
    <3> QED BY <2>1, <2>4, <3>1, SpansAssumption DEF d
  <2> HIDE DEF from
  <2>10. Sound(d)
    BY <2>6, <2>7, <2>8, <2>9, PartIsSound
  <2> QED BY <2>3, <2>10 DEF d
<1> QED BY <1>1, <1>2

\* So does remembering an answer, the oldest making room for it.
LEMMA RememberedIsSound ==
  ASSUME NEW p, Sound(cache[p]), NEW key \in Presented, NEW at \in Times
  PROVE  Sound(Remembered(p, key, key.right, at))
<1> DEFINE c == cache[p]
           room == IF Len(c) >= CacheMax THEN Tail(c) ELSE c
           entry == [key |-> key, matched |-> key.right, at |-> at]
           old == {k \in DOMAIN room : room[k].key = key}
<1>1. c \in Seq(Entries) /\ Len(c) \in Nat /\ DOMAIN c = 1 .. Len(c)
  BY LenProperties DEF Sound
<1>2. Sound(room) /\ Len(room) < CacheMax
  <2>1. CASE Len(c) < CacheMax
    BY <1>1, <2>1, SpansAssumption
  <2>2. CASE Len(c) >= CacheMax
    <3>1. c # <<>>
      BY <1>1, <2>2, SpansAssumption
    <3> DEFINE d == Tail(c)
               from == [k \in DOMAIN d |-> k + 1]
    <3>2. /\ d \in Seq(Entries) /\ Len(d) = Len(c) - 1
          /\ \A k \in 1 .. Len(c) - 1 : d[k] = c[k + 1]
      BY <1>1, <3>1, HeadTailProperties
    <3> HIDE DEF d
    <3>3. DOMAIN d = 1 .. Len(c) - 1
      BY <3>2, LenProperties
    <3>4. from \in [DOMAIN d -> DOMAIN c]
      BY <1>1, <3>3
    <3>5. \A j, k \in DOMAIN d : from[j] = from[k] => j = k
      BY <1>1, <3>3
    <3>6. \A k \in DOMAIN d : d[k] = c[from[k]]
      BY <3>2, <3>3
    <3>7. Len(c) <= CacheMax
      BY DEF Sound
    <3>8. Len(d) < CacheMax /\ Len(d) <= CacheMax
      BY <1>1, <3>2, <3>7, SpansAssumption
    <3> HIDE DEF from
    <3>9. Sound(d)
      BY <3>2, <3>4, <3>5, <3>6, <3>8, PartIsSound
    <3> QED BY <2>2, <3>8, <3>9 DEF d
  <2> QED BY <1>1, <2>1, <2>2, SpansAssumption
<1>3. entry \in Entries
  BY DEF Entries, Presented
<1> HIDE DEF room, c
<1>4. room \in Seq(Entries) /\ Len(room) \in Nat /\ DOMAIN room = 1 .. Len(room)
  BY <1>2, LenProperties DEF Sound
<1>5. CASE old = {}
  <2>1. Remembered(p, key, key.right, at) = Append(room, entry)
    BY <1>5 DEF Remembered, room, c
  <2> DEFINE d == Append(room, entry)
  <2>2. /\ d \in Seq(Entries) /\ Len(d) = Len(room) + 1
        /\ \A k \in 1 .. Len(room) : d[k] = room[k]
        /\ d[Len(room) + 1] = entry
    BY <1>3, <1>4, AppendProperties
  <2> HIDE DEF d
  <2>3. DOMAIN d = 1 .. Len(room) + 1
    BY <2>2, LenProperties
  <2>4. \A k \in DOMAIN d : k \in DOMAIN room \/ k = Len(room) + 1
    BY <1>4, <2>3
  <2>5. entry.key = key /\ entry.matched = key.right
    OBVIOUS
  <2> HIDE DEF entry
  <2>6. \A k \in DOMAIN room : room[k].key # key
    BY <1>5
  <2>7. \A j, k \in DOMAIN d : d[j].key = d[k].key => j = k
    BY <1>2, <1>4, <2>2, <2>4, <2>5, <2>6 DEF Sound
  <2>8. \A k \in DOMAIN d : d[k].matched = d[k].key.right
    BY <1>2, <1>4, <2>2, <2>4, <2>5 DEF Sound
  <2> QED BY <1>2, <1>4, <2>1, <2>2, <2>7, <2>8, SpansAssumption DEF Sound, d
<1>6. CASE old # {}
  <2> DEFINE d == [k \in DOMAIN room |-> IF k \in old THEN entry ELSE room[k]]
  <2>1. Remembered(p, key, key.right, at) = d
    BY <1>6 DEF Remembered, room, c
  <2>2. \A k \in 1 .. Len(room) : room[k] \in Entries
    BY <1>4, ElementOfSeq
  <2>3. d \in [1 .. Len(room) -> Entries]
    BY <1>3, <1>4, <2>2
  <2>4. d \in Seq(Entries) /\ Len(d) = Len(room)
    BY <1>4, <2>3, IsASeq
  <2>5. entry.key = key /\ entry.matched = key.right
    OBVIOUS
  <2>6. \A k \in DOMAIN d : d[k].key = room[k].key /\ d[k].matched = d[k].key.right
    BY <1>2, <2>5 DEF Sound
  <2>7. \A j, k \in DOMAIN d : d[j].key = d[k].key => j = k
    <3>1. DOMAIN d = DOMAIN room
      OBVIOUS
    <3> QED BY <1>2, <2>6, <3>1 DEF Sound
  <2> QED BY <1>2, <1>4, <2>1, <2>4, <2>6, <2>7 DEF Sound
<1> QED BY <1>5, <1>6

-----------------------------------------------------------------------------
(* What is known of a request, phase by phase, and of every copy of the      *)
(* switch: the inductive invariant.                                          *)

CachesAreSound == \A p \in Replicas : Sound(cache[p])

\* What came in under a revoked or expired token shows it in the row read.
Shows(row, q) == q.barred => row.revoked \/ row.expires <= q.since

Under(q) == q.phase \notin {"allowed", "refused"} =>
    /\ q.cred \in Credentials /\ q.scope \in Scopes /\ q.replica \in Replicas
    /\ q.since <= clock

Asserting(q) == q.phase = "asserting" => q.cred = Human

Finding(q) == q.phase = "finding" =>
    /\ q.cred \in Presented /\ q.cred # Human
    /\ q.barred => token[q.cred.id] \in Rows /\ Shows(token[q.cred.id], q)

\* The row read may be out of date, but not in what it grants.
RowRead(q) ==
    /\ q.cred \in Presented /\ q.cred # Human
    /\ token[q.cred.id] \in Rows /\ q.row \in Rows
    /\ q.row.granted = token[q.cred.id].granted

Found(q) == q.phase \in {"found", "hashing"} => RowRead(q) /\ Shows(q.row, q)

\* What got past its token was under neither bar, with the right secret.
Passed(q) == q.phase \in {"switching", "read"} /\ q.cred # Human =>
    RowRead(q) /\ ~q.barred /\ q.cred.right

Dated(q) == q.phase \in {"hashing", "switching", "read"} => q.since <= q.at /\ q.at <= clock

\* A scope is frozen since some time that has come, or not at all.
FrozenIsKnown ==
    \A s \in Scopes :
       IF s \in WithheldScopes(switch) THEN frozen[s] \in Nat /\ frozen[s] <= clock
       ELSE frozen[s] = None

\* What a copy does not withhold and the switch does was frozen after it.
Covers(position, at) ==
    /\ at <= clock
    /\ \A s \in WithheldScopes(switch) \ WithheldScopes(position) : at <= frozen[s]

CopiesCover ==
    \A p \in Replicas :
       /\ view[p] # None => Covers(view[p].position, view[p].at)
       /\ setting[p] # None => Covers(setting[p].position, setting[p].at)

SeenCovers(q) == q.phase = "read" => q.seen \in Positions /\ Covers(q.seen, q.at)

AboutRequest(q) ==
    /\ Under(q) /\ Asserting(q) /\ Finding(q) /\ Found(q)
    /\ Passed(q) /\ Dated(q) /\ SeenCovers(q)

RequestsAreKnown == \A r \in Requests : AboutRequest(req[r])

AccessInv ==
    /\ TypeOK /\ CachesAreSound
    /\ RequestsAreKnown /\ FrozenIsKnown /\ CopiesCover

-----------------------------------------------------------------------------
(* One request: what answers it, what moves it, what leaves it alone. *)

\* A row once written stays, revoked perhaps.
RowsStay ==
    \A t \in Tokens : token[t] \in Rows =>
       /\ token'[t] \in Rows
       /\ token'[t].granted = token[t].granted
       /\ token'[t].expires = token[t].expires
       /\ token[t].revoked => token'[t].revoked

\* A request nobody touches stays as well known.
LEMMA RequestStays ==
  ASSUME AccessInv, NEW r \in Requests, req'[r] = req[r], RowsStay,
         clock' \in Times, clock <= clock', UNCHANGED <<switch, frozen>>
  PROVE  AboutRequest(req[r])'
<1> DEFINE q == req[r]
<1>1. AboutRequest(q) /\ q \in Inquiries /\ clock \in Nat /\ clock' \in Nat
  BY SpansAssumption DEF AccessInv, RequestsAreKnown, TypeOK, Times
<1>2. q.since \in Nat /\ q.at \in Nat
  BY <1>1, SpansAssumption DEF Inquiries, Times
<1>3. (Under(q) /\ Asserting(q))'
  BY <1>1, <1>2 DEF AboutRequest, Under, Asserting
<1>4. Finding(q)'
  BY <1>1, <1>2 DEF AboutRequest, Finding, Shows, RowsStay, Presented
<1>5. RowRead(q) => RowRead(q)'
  BY DEF RowRead, RowsStay, Presented
<1>6. (Found(q) /\ Passed(q))'
  BY <1>1, <1>5 DEF AboutRequest, Found, Passed, Shows
<1>7. Dated(q)'
  BY <1>1, <1>2 DEF AboutRequest, Dated
<1>8. SeenCovers(q)'
  BY <1>1, <1>2 DEF AboutRequest, SeenCovers, Covers
<1> QED BY <1>3, <1>4, <1>6, <1>7, <1>8 DEF AboutRequest

\* Of a request that was answered nothing has to be known.
LEMMA AnswerIsKnown ==
  ASSUME NEW r \in Requests, req'[r].phase \in {"allowed", "refused"}
  PROVE  AboutRequest(req[r])'
BY DEF AboutRequest, Under, Asserting, Finding, Found, Passed, Dated, SeenCovers

\* The record a request starts from, and ends as.
LEMMA IdleIsTyped ==
  Idle \in Inquiries
<1>1. "refused" \in Phases /\ 0 \in Times
  BY SpansAssumption DEF Phases, Times
<1> QED BY <1>1 DEF Idle, Inquiries

\* An answer, as a record.
LEMMA AnswerIsTyped ==
  ASSUME TypeOK, NEW r \in Requests, NEW d \in {"allowed", "refused"}, NEW b \in BOOLEAN,
         Answer(r, d, b)
  PROVE  /\ req' \in [Requests -> Inquiries]
         /\ req'[r].phase = d /\ req'[r].blind = b
         /\ \A x \in Requests \ {r} : req'[x] = req[x]
<1>1. [Idle EXCEPT !.phase = d, !.blind = b] \in Inquiries
  <2>1. d \in Phases
    BY DEF Phases
  <2> QED BY <2>1, IdleIsTyped DEF Inquiries
<1>2. /\ [Idle EXCEPT !.phase = d, !.blind = b].phase = d
      /\ [Idle EXCEPT !.phase = d, !.blind = b].blind = b
  BY IdleIsTyped DEF Inquiries
<1> QED BY <1>1, <1>2 DEF Answer, TypeOK

\* A request that is decided is allowed or refused.
LEMMA DecidedIsAnswer ==
  ASSUME NEW r, NEW position
  PROVE  Decided(r, position) \in {"allowed", "refused"}
BY DEF Decided

\* What got past its token goes on, or has its answer.
LEMMA ProceedIsKnown ==
  ASSUME AccessInv, NEW r \in Requests, req[r].phase \in {"asserting", "found", "hashing"},
         req[r].cred # Human => RowRead(req[r]) /\ ~req[r].barred /\ req[r].cred.right,
         Proceed(r), UNCHANGED <<clock, token, switch, frozen>>
  PROVE  /\ req' \in [Requests -> Inquiries]
         /\ AboutRequest(req[r])'
         /\ \A x \in Requests \ {r} : req'[x] = req[x]
<1> DEFINE p == req[r].replica
           q == req[r]
<1>0. TypeOK
  BY DEF AccessInv
<1>1. CASE Refuse(r)
  BY <1>0, <1>1, AnswerIsTyped, AnswerIsKnown DEF Refuse
<1>2. CASE Answer(r, Decided(r, view[p].position), FALSE)
  <2>1. Decided(r, view[p].position) \in {"allowed", "refused"}
    BY DecidedIsAnswer
  <2> HIDE DEF p
  <2> QED BY <1>0, <1>2, <2>1, AnswerIsTyped, AnswerIsKnown
<1>3. CASE req' = [req EXCEPT ![r].phase = "switching", ![r].at = clock]
  <2>1. q \in Inquiries /\ clock \in Times /\ clock \in Nat
    BY <1>0, SpansAssumption DEF TypeOK, Times
  <2>2. "switching" \in Phases
    BY DEF Phases
  <2> DEFINE next == [q EXCEPT !.phase = "switching", !.at = clock]
  <2>3. /\ next \in Inquiries
        /\ next.phase = "switching" /\ next.at = clock
        /\ next.cred = q.cred /\ next.scope = q.scope /\ next.replica = q.replica
        /\ next.since = q.since /\ next.barred = q.barred /\ next.row = q.row
    BY <2>1, <2>2 DEF Inquiries
  <2>8. /\ req' \in [Requests -> Inquiries]
        /\ \A x \in Requests \ {r} : req'[x] = req[x]
        /\ req'[r] = next
    BY <1>0, <1>3, <2>3 DEF TypeOK
  <2> HIDE DEF next
  <2>4. AboutRequest(q)
    BY DEF AccessInv, RequestsAreKnown
  <2>5. (Under(req[r]) /\ Asserting(req[r]) /\ Finding(req[r]) /\ Found(req[r]))'
    BY <2>3, <2>8, <2>4 DEF AboutRequest, Under, Asserting, Finding, Found
  <2>6. Passed(req[r])'
    BY <2>3, <2>8 DEF Passed, RowRead
  <2>7. (Dated(req[r]) /\ SeenCovers(req[r]))'
    BY <2>1, <2>3, <2>8, <2>4 DEF AboutRequest, Under, Dated, SeenCovers
  <2> QED BY <2>8, <2>5, <2>6, <2>7 DEF AboutRequest
<1> QED BY <1>1, <1>2, <1>3 DEF Proceed

-----------------------------------------------------------------------------
(* The steps, one by one. *)

\* A step of one request that leaves the rest of the system alone, the caches
\* and the copies apart.
LEMMA RequestStep ==
  ASSUME AccessInv, NEW r \in Requests,
         req' \in [Requests -> Inquiries], AboutRequest(req[r])',
         \A x \in Requests \ {r} : req'[x] = req[x],
         UNCHANGED <<clock, token, switch, setting, frozen>>,
         cache' \in [Replicas -> Seq(Entries)], CachesAreSound',
         view' \in [Replicas -> Copies \cup {None}], CopiesCover'
  PROVE  AccessInv'
<1>1. TypeOK'
  BY DEF AccessInv, TypeOK
<1>2. RequestsAreKnown'
  <2> SUFFICES ASSUME NEW x \in Requests PROVE AboutRequest(req[x])'
    BY DEF RequestsAreKnown
  <2>1. CASE x = r
    BY <2>1
  <2>2. CASE x # r
    <3>1. RowsStay
      BY DEF RowsStay
    <3>2. clock' \in Times /\ clock <= clock' /\ UNCHANGED <<switch, frozen>>
      BY SpansAssumption DEF AccessInv, TypeOK, Times
    <3>3. req'[x] = req[x]
      BY <2>2
    <3> QED BY <3>1, <3>2, <3>3, RequestStays
  <2> QED BY <2>1, <2>2
<1>3. FrozenIsKnown'
  BY DEF AccessInv, FrozenIsKnown
<1> QED BY <1>1, <1>2, <1>3 DEF AccessInv

\* A step of one request and of nothing else.
LEMMA QuietStep ==
  ASSUME AccessInv, NEW r \in Requests,
         req' \in [Requests -> Inquiries], AboutRequest(req[r])',
         \A x \in Requests \ {r} : req'[x] = req[x],
         UNCHANGED <<clock, token, switch, cache, view, setting, frozen>>
  PROVE  AccessInv'
<1>1. cache' \in [Replicas -> Seq(Entries)] /\ view' \in [Replicas -> Copies \cup {None}]
  BY DEF AccessInv, TypeOK
<1>2. CachesAreSound'
  BY DEF AccessInv, CachesAreSound
<1>3. CopiesCover'
  BY DEF AccessInv, CopiesCover, Covers
<1> QED BY <1>1, <1>2, <1>3, RequestStep

\* A step of one request in which its replica's cache changes.
LEMMA CacheStep ==
  ASSUME AccessInv, NEW r \in Requests,
         req' \in [Requests -> Inquiries], AboutRequest(req[r])',
         \A x \in Requests \ {r} : req'[x] = req[x],
         NEW p \in Replicas, NEW c, Sound(c), cache' = [cache EXCEPT ![p] = c],
         UNCHANGED <<clock, token, switch, view, setting, frozen>>
  PROVE  AccessInv'
<1>1. cache' \in [Replicas -> Seq(Entries)] /\ view' \in [Replicas -> Copies \cup {None}]
  BY DEF AccessInv, TypeOK, Sound
<1>2. CachesAreSound'
  <2> SUFFICES ASSUME NEW x \in Replicas PROVE Sound(cache'[x])
    BY DEF CachesAreSound
  <2>1. cache'[x] = IF x = p THEN c ELSE cache[x]
    BY DEF AccessInv, TypeOK
  <2> QED BY <2>1 DEF AccessInv, CachesAreSound
<1>3. CopiesCover'
  BY DEF AccessInv, CopiesCover, Covers
<1> QED BY <1>1, <1>2, <1>3, RequestStep

\* A request that comes in keeps the invariant: it notes its moment and what
\* barred it.
LEMMA PresentKeeps ==
  ASSUME AccessInv, NEW r \in Requests, NEW p \in Replicas, NEW cred \in Credentials,
         NEW scope \in Scopes, Present(r, p, cred, scope)
  PROVE  AccessInv'
<1> DEFINE phase == IF cred = Human THEN "asserting" ELSE "finding"
           next == [Idle EXCEPT !.cred = cred, !.scope = scope, !.replica = p,
                       !.since = clock, !.barred = Barred(cred), !.phase = phase]
<1>1. /\ phase \in Phases /\ clock \in Times /\ clock \in Nat
      /\ Barred(cred) \in BOOLEAN
  BY SpansAssumption DEF AccessInv, TypeOK, Phases, Times, Barred
<1> DEFINE barred == Barred(cred)
<1>2. barred \in BOOLEAN
  BY <1>1
<1>3. next = [Idle EXCEPT !.cred = cred, !.scope = scope, !.replica = p,
                       !.since = clock, !.barred = barred, !.phase = phase]
  OBVIOUS
<1> HIDE DEF phase, barred, next
<1>4. /\ next \in Inquiries /\ next.phase = phase /\ next.cred = cred /\ next.scope = scope
      /\ next.replica = p /\ next.since = clock /\ next.barred = barred
  BY <1>1, <1>2, <1>3, IdleIsTyped DEF Inquiries
<1>5. req' = [req EXCEPT ![r] = next]
  BY DEF Present, next, phase
<1>6. /\ req' \in [Requests -> Inquiries] /\ req'[r] = next
      /\ \A x \in Requests \ {r} : req'[x] = req[x]
  BY <1>4, <1>5 DEF AccessInv, TypeOK
<1>7. UNCHANGED <<clock, token, switch, cache, view, setting, frozen>>
  BY DEF Present
<1>8. AboutRequest(req[r])'
  <2>1. (Under(req[r]) /\ Asserting(req[r]))'
    BY <1>1, <1>4, <1>6, <1>7 DEF Under, Asserting, phase
  <2>2. Finding(req[r])'
    <3>1. cred # Human => cred \in Presented
      BY DEF Credentials
    <3>2. barred => cred \in Presented /\ token[cred.id] \in Rows
                    /\ (token[cred.id].revoked \/ token[cred.id].expires <= clock)
      <4>1. cred \in Presented => token[cred.id] \in Rows \cup {None}
        BY DEF AccessInv, TypeOK, Presented
      <4> QED BY <4>1 DEF barred, Barred
    <3> QED BY <1>4, <1>6, <1>7, <3>1, <3>2 DEF Finding, Shows, phase
  <2>3. (Found(req[r]) /\ Passed(req[r]) /\ Dated(req[r]) /\ SeenCovers(req[r]))'
    BY <1>4, <1>6 DEF Found, Passed, Dated, SeenCovers, phase
  <2> QED BY <2>1, <2>2, <2>3 DEF AboutRequest
<1> QED BY <1>6, <1>7, <1>8, QuietStep

\* So does a person's assertion, which needs no row.
LEMMA VerifyAssertionKeeps ==
  ASSUME AccessInv, NEW r \in Requests, VerifyAssertion(r)
  PROVE  AccessInv'
<1>1. /\ req[r].phase = "asserting" /\ Proceed(r)
      /\ UNCHANGED <<clock, token, switch, cache, view, setting, frozen>>
  BY DEF VerifyAssertion
<1>2. req[r].cred = Human
  BY <1>1 DEF AccessInv, RequestsAreKnown, AboutRequest, Asserting
<1>3. /\ req' \in [Requests -> Inquiries] /\ AboutRequest(req[r])'
      /\ \A x \in Requests \ {r} : req'[x] = req[x]
  BY <1>1, <1>2, ProceedIsKnown
<1> QED BY <1>1, <1>3, QuietStep

\* Refusing is a step that keeps everything.
LEMMA RefuseIsKnown ==
  ASSUME AccessInv, NEW r \in Requests, Refuse(r)
  PROVE  /\ req' \in [Requests -> Inquiries]
         /\ AboutRequest(req[r])'
         /\ \A x \in Requests \ {r} : req'[x] = req[x]
BY AnswerIsTyped, AnswerIsKnown DEF Refuse, AccessInv

\* So does the read of the row, which is later than the request.
LEMMA FindTokenKeeps ==
  ASSUME AccessInv, NEW r \in Requests, FindToken(r)
  PROVE  AccessInv'
<1> DEFINE q == req[r]
           row == token[q.cred.id]
           next == [q EXCEPT !.row = row, !.phase = "found"]
<1>1. /\ q.phase = "finding"
      /\ UNCHANGED <<clock, token, switch, cache, view, setting, frozen>>
  BY DEF FindToken
<1>2. AboutRequest(q) /\ q \in Inquiries
  BY DEF AccessInv, TypeOK, RequestsAreKnown
<1>3. q.cred \in Presented /\ q.cred # Human
  BY <1>1, <1>2 DEF AboutRequest, Finding
<1>4. CASE row = None
  BY <1>1, <1>4, RefuseIsKnown, QuietStep DEF FindToken
<1>5. CASE row # None
  <2>1. row \in Rows
    BY <1>3, <1>5 DEF AccessInv, TypeOK, Presented
  <2>2. "found" \in Phases
    BY DEF Phases
  <2>3. /\ next \in Inquiries /\ next.phase = "found" /\ next.row = row
        /\ next.cred = q.cred /\ next.scope = q.scope /\ next.replica = q.replica
        /\ next.since = q.since /\ next.barred = q.barred
    BY <1>2, <2>1, <2>2 DEF Inquiries
  <2>4. req' = [req EXCEPT ![r] = next]
    BY <1>5 DEF FindToken
  <2> HIDE DEF next
  <2>5. /\ req' \in [Requests -> Inquiries] /\ req'[r] = next
        /\ \A x \in Requests \ {r} : req'[x] = req[x]
    BY <2>3, <2>4 DEF AccessInv, TypeOK
  <2>6. (Under(req[r]) /\ Asserting(req[r]) /\ Finding(req[r]))'
    BY <1>1, <1>2, <2>3, <2>5 DEF AboutRequest, Under, Asserting, Finding
  <2>7. Found(req[r])'
    <3>1. Shows(row, q)
      BY <1>1, <1>2 DEF AboutRequest, Finding, Shows
    <3> QED BY <1>1, <1>3, <2>1, <2>3, <2>5, <3>1 DEF Found, RowRead, Shows
  <2>8. (Passed(req[r]) /\ Dated(req[r]) /\ SeenCovers(req[r]))'
    BY <2>3, <2>5 DEF Passed, Dated, SeenCovers
  <2>9. AboutRequest(req[r])'
    BY <2>6, <2>7, <2>8 DEF AboutRequest
  <2> QED BY <1>1, <2>5, <2>9, QuietStep
<1> QED BY <1>4, <1>5

\* The cache speaks true, and the row is the one the request found.
LEMMA AcceptedIsPassed ==
  ASSUME AccessInv, NEW r \in Requests, req[r].phase \in {"found", "hashing"},
         NEW at \in Nat, req[r].since <= at, Accepted(req[r].row, req[r].cred.right, at)
  PROVE  RowRead(req[r]) /\ ~req[r].barred /\ req[r].cred.right
<1> DEFINE q == req[r]
<1>1. RowRead(q) /\ Shows(q.row, q) /\ q \in Inquiries
  BY DEF AccessInv, TypeOK, RequestsAreKnown, AboutRequest, Found
<1>2. q.row.expires \in Nat /\ q.since \in Nat
  BY <1>1, SpansAssumption DEF RowRead, Rows, Inquiries, Times
<1>3. ~q.row.revoked /\ q.row.expires > at /\ q.cred.right
  BY DEF Accepted
<1> QED BY <1>1, <1>2, <1>3 DEF Shows

\* A request past its secret waits with everything it was found with.
LEMMA VerifyKeeps ==
  ASSUME AccessInv, NEW r \in Requests, Verify(r)
  PROVE  AccessInv'
<1> DEFINE q == req[r]
           p == q.replica
           hit == Hit(p, q.cred)
<1>1. /\ q.phase = "found" /\ cache' = [cache EXCEPT ![p] = LookedUp(p, q.cred)]
      /\ UNCHANGED <<clock, token, switch, view, setting, frozen>>
  BY DEF Verify
<1>2. AboutRequest(q) /\ q \in Inquiries /\ clock \in Times /\ clock \in Nat
  BY SpansAssumption DEF AccessInv, TypeOK, RequestsAreKnown, Times
<1>3. p \in Replicas /\ q.since <= clock /\ RowRead(q)
  BY <1>1, <1>2 DEF AboutRequest, Under, Found
<1>4. Sound(cache[p]) /\ Sound(LookedUp(p, q.cred))
  BY <1>3, LookedUpIsSound DEF AccessInv, CachesAreSound
<1>5. /\ req' \in [Requests -> Inquiries] /\ AboutRequest(req[r])'
      /\ \A x \in Requests \ {r} : req'[x] = req[x]
  <2>1. CASE hit = {}
    <3> DEFINE next == [q EXCEPT !.phase = "hashing", !.at = clock]
    <3>1. "hashing" \in Phases
      BY DEF Phases
    <3>2. /\ next \in Inquiries /\ next.phase = "hashing" /\ next.at = clock
          /\ next.cred = q.cred /\ next.scope = q.scope /\ next.replica = q.replica
          /\ next.since = q.since /\ next.barred = q.barred /\ next.row = q.row
      BY <1>2, <3>1 DEF Inquiries
    <3>3. req' = [req EXCEPT ![r] = next]
      BY <2>1 DEF Verify
    <3> HIDE DEF next
    <3>4. /\ req' \in [Requests -> Inquiries] /\ req'[r] = next
          /\ \A x \in Requests \ {r} : req'[x] = req[x]
      BY <3>2, <3>3 DEF AccessInv, TypeOK
    <3>5. (Under(req[r]) /\ Asserting(req[r]) /\ Finding(req[r]))'
      BY <1>1, <1>2, <3>2, <3>4 DEF AboutRequest, Under, Asserting, Finding
    <3>6. Found(req[r])'
      BY <1>1, <1>2, <3>2, <3>4 DEF AboutRequest, Found, RowRead, Shows
    <3>7. (Passed(req[r]) /\ Dated(req[r]) /\ SeenCovers(req[r]))'
      BY <1>1, <1>2, <1>3, <3>2, <3>4 DEF Passed, Dated, SeenCovers
    <3> QED BY <3>4, <3>5, <3>6, <3>7 DEF AboutRequest
  <2>2. CASE hit # {} /\ (\A k \in hit : Accepted(q.row, cache[p][k].matched, clock))
             /\ Proceed(r)
    <3>1. PICK k \in DOMAIN cache[p] : cache[p][k].key = q.cred
                                       /\ Accepted(q.row, cache[p][k].matched, clock)
      BY <2>2 DEF Hit
    <3>2. cache[p][k].matched = q.cred.right
      BY <1>4, <3>1 DEF Sound
    <3>3. RowRead(q) /\ ~q.barred /\ q.cred.right
      BY <1>1, <1>2, <1>3, <3>1, <3>2, AcceptedIsPassed
    <3> QED BY <1>1, <2>2, <3>3, ProceedIsKnown
  <2>3. CASE Refuse(r)
    BY <2>3, RefuseIsKnown
  <2> QED BY <2>1, <2>2, <2>3 DEF Verify
<1> HIDE DEF q, p
<1> QED BY <1>1, <1>3, <1>4, <1>5, CacheStep

\* So does a hash computed: only a right secret is remembered, with a lifetime
\* from now.
LEMMA HashedKeeps ==
  ASSUME AccessInv, NEW r \in Requests, Hashed(r)
  PROVE  AccessInv'
<1> DEFINE q == req[r]
           p == q.replica
           c == Remembered(p, q.cred, q.cred.right, q.at)
<1>1. /\ q.phase = "hashing" /\ cache' = [cache EXCEPT ![p] = c]
      /\ UNCHANGED <<clock, token, switch, view, setting, frozen>>
  BY DEF Hashed
<1>2. AboutRequest(q) /\ q \in Inquiries /\ q.at \in Times /\ q.at \in Nat
  BY SpansAssumption DEF AccessInv, TypeOK, RequestsAreKnown, Times, Inquiries
<1>3. p \in Replicas /\ q.since <= q.at /\ q.cred \in Presented
  BY <1>1, <1>2 DEF AboutRequest, Under, Dated, Found, RowRead
<1>4. Sound(c)
  BY <1>2, <1>3, RememberedIsSound DEF AccessInv, CachesAreSound
<1>5. /\ req' \in [Requests -> Inquiries] /\ AboutRequest(req[r])'
      /\ \A x \in Requests \ {r} : req'[x] = req[x]
  <2>1. CASE Accepted(q.row, q.cred.right, q.at) /\ Proceed(r)
    <3>1. RowRead(q) /\ ~q.barred /\ q.cred.right
      BY <1>1, <1>2, <1>3, <2>1, AcceptedIsPassed
    <3> QED BY <1>1, <2>1, <3>1, ProceedIsKnown
  <2>2. CASE Refuse(r)
    BY <2>2, RefuseIsKnown
  <2> QED BY <2>1, <2>2 DEF Hashed
<1> HIDE DEF q, p, c
<1> QED BY <1>1, <1>3, <1>4, <1>5, CacheStep

\* The database's own position covers whatever is asked of it.
LEMMA CurrentCovers ==
  ASSUME NEW at, at <= clock
  PROVE  Covers(switch, at)
BY DEF Covers

\* So does the read of the switch.
LEMMA ReadSwitchKeeps ==
  ASSUME AccessInv, NEW r \in Requests, ReadSwitch(r)
  PROVE  AccessInv'
<1> DEFINE q == req[r]
           next == [q EXCEPT !.phase = "read", !.seen = switch]
<1>1. /\ q.phase = "switching" /\ req' = [req EXCEPT ![r] = next]
      /\ UNCHANGED <<clock, token, switch, cache, view, setting, frozen>>
  BY DEF ReadSwitch
<1>2. AboutRequest(q) /\ q \in Inquiries /\ switch \in Positions
  BY DEF AccessInv, TypeOK, RequestsAreKnown
<1>3. "read" \in Phases
  BY DEF Phases
<1>4. /\ next \in Inquiries /\ next.phase = "read" /\ next.seen = switch /\ next.at = q.at
      /\ next.cred = q.cred /\ next.scope = q.scope /\ next.replica = q.replica
      /\ next.since = q.since /\ next.barred = q.barred /\ next.row = q.row
  BY <1>2, <1>3 DEF Inquiries
<1> HIDE DEF next
<1>5. /\ req' \in [Requests -> Inquiries] /\ req'[r] = next
      /\ \A x \in Requests \ {r} : req'[x] = req[x]
  BY <1>1, <1>4 DEF AccessInv, TypeOK
<1>6. (Under(req[r]) /\ Asserting(req[r]) /\ Finding(req[r]) /\ Found(req[r]))'
  BY <1>1, <1>2, <1>4, <1>5 DEF AboutRequest, Under, Asserting, Finding, Found
<1>7. (Passed(req[r]) /\ Dated(req[r]))'
  BY <1>1, <1>2, <1>4, <1>5 DEF AboutRequest, Passed, RowRead, Dated
<1>8. SeenCovers(req[r])'
  BY <1>1, <1>2, <1>4, <1>5 DEF AboutRequest, SeenCovers, Dated, Covers
<1>9. AboutRequest(req[r])'
  BY <1>6, <1>7, <1>8 DEF AboutRequest
<1> QED BY <1>1, <1>5, <1>9, QuietStep

\* So does the answer from what was read, and the copy that is made of it.
LEMMA SettleSwitchKeeps ==
  ASSUME AccessInv, NEW r \in Requests, SettleSwitch(r)
  PROVE  AccessInv'
<1> DEFINE q == req[r]
           p == q.replica
           d == Decided(r, q.seen)
<1>1. /\ q.phase = "read" /\ view' = [view EXCEPT ![p] = Settled(r)] /\ Answer(r, d, FALSE)
      /\ UNCHANGED <<clock, token, switch, cache, setting, frozen>>
  BY DEF SettleSwitch
<1>2. /\ AboutRequest(q) /\ q \in Inquiries /\ TypeOK
      /\ view \in [Replicas -> Copies \cup {None}]
  BY DEF AccessInv, TypeOK, RequestsAreKnown
<1>3. p \in Replicas /\ q.seen \in Positions /\ Covers(q.seen, q.at) /\ q.at \in Times
  BY <1>1, <1>2 DEF AboutRequest, Under, SeenCovers, Inquiries
<1>4. d \in {"allowed", "refused"}
  BY DecidedIsAnswer
<1>5. /\ req' \in [Requests -> Inquiries] /\ AboutRequest(req[r])'
      /\ \A x \in Requests \ {r} : req'[x] = req[x]
  <2> HIDE DEF d
  <2> QED BY <1>1, <1>2, <1>4, AnswerIsTyped, AnswerIsKnown
<1>6. /\ Settled(r) \in Copies /\ Settled(r).position = q.seen /\ Settled(r).at = q.at
  BY <1>3 DEF Settled, Copies
<1> DEFINE copy == Settled(r)
<1> HIDE DEF copy
<1>7. view' = [view EXCEPT ![p] = copy] /\ copy \in Copies /\ Covers(copy.position, copy.at)
  BY <1>1, <1>3, <1>6 DEF copy
<1>8. view' \in [Replicas -> Copies \cup {None}]
  BY <1>2, <1>7
<1>9. CopiesCover'
  <2> SUFFICES ASSUME NEW x \in Replicas
               PROVE  (/\ view[x] # None => Covers(view[x].position, view[x].at)
                       /\ setting[x] # None => Covers(setting[x].position, setting[x].at))'
    BY <1>1 DEF CopiesCover
  <2>1. view'[x] = IF x = p THEN copy ELSE view[x]
    BY <1>2, <1>7
  <2> QED BY <1>1, <1>7, <2>1 DEF AccessInv, CopiesCover, Covers
<1>10. cache' \in [Replicas -> Seq(Entries)] /\ CachesAreSound'
  BY <1>1 DEF AccessInv, TypeOK, CachesAreSound
<1> QED BY <1>1, <1>5, <1>8, <1>9, <1>10, RequestStep

\* So does the answer from the old copy when the switch could not be read.
LEMMA SwitchUnreadKeeps ==
  ASSUME AccessInv, NEW r \in Requests, SwitchUnread(r)
  PROVE  AccessInv'
<1> DEFINE p == req[r].replica
           d == Decided(r, IF view[p] = None THEN "off" ELSE view[p].position)
<1>1. /\ Answer(r, d, TRUE)
      /\ UNCHANGED <<clock, token, switch, cache, view, setting, frozen>>
  BY DEF SwitchUnread
<1>2. d \in {"allowed", "refused"}
  BY DecidedIsAnswer
<1> HIDE DEF d
<1>3. /\ req' \in [Requests -> Inquiries] /\ AboutRequest(req[r])'
      /\ \A x \in Requests \ {r} : req'[x] = req[x]
  BY <1>1, <1>2, AnswerIsTyped, AnswerIsKnown DEF AccessInv
<1> QED BY <1>1, <1>3, QuietStep

\* A step that leaves the requests and the switch alone, and no row behind.
LEMMA BackgroundStep ==
  ASSUME AccessInv, UNCHANGED <<req, cache, switch, frozen>>, RowsStay,
         token' \in [Tokens -> Rows \cup {None}], clock' \in Times, clock <= clock',
         view' \in [Replicas -> Copies \cup {None}],
         setting' \in [Replicas -> Copies \cup {None}], CopiesCover'
  PROVE  AccessInv'
<1>1. TypeOK'
  BY DEF AccessInv, TypeOK
<1>2. CachesAreSound'
  BY DEF AccessInv, CachesAreSound
<1>3. RequestsAreKnown'
  <2> SUFFICES ASSUME NEW x \in Requests PROVE AboutRequest(req[x])'
    BY DEF RequestsAreKnown
  <2> QED BY RequestStays
<1>4. FrozenIsKnown'
  <2>1. clock \in Nat /\ clock' \in Nat
    BY SpansAssumption DEF AccessInv, TypeOK, Times
  <2> QED BY <2>1 DEF AccessInv, FrozenIsKnown
<1> QED BY <1>1, <1>2, <1>3, <1>4 DEF AccessInv

\* The copies stay what they cover while the clock goes on.
LEMMA CopiesStay ==
  ASSUME AccessInv, UNCHANGED <<view, setting, switch, frozen>>,
         clock' \in Times, clock <= clock'
  PROVE  CopiesCover'
<1>1. clock \in Nat /\ clock' \in Nat
  BY SpansAssumption DEF AccessInv, TypeOK, Times
<1> SUFFICES ASSUME NEW x \in Replicas
             PROVE  (/\ view[x] # None => Covers(view[x].position, view[x].at)
                     /\ setting[x] # None => Covers(setting[x].position, setting[x].at))'
  BY DEF CopiesCover
<1>2. view[x] # None => view[x].at \in Nat
  BY SpansAssumption DEF AccessInv, TypeOK, Copies, Times
<1>3. setting[x] # None => setting[x].at \in Nat
  BY SpansAssumption DEF AccessInv, TypeOK, Copies, Times
<1> QED BY <1>1, <1>2, <1>3 DEF AccessInv, CopiesCover, Covers

\* The smaller of two.
LEMMA MinOfTwo ==
  ASSUME NEW m \in Nat, NEW n \in Nat
  PROVE  Min({m, n}) \in Nat
<1>1. \E x \in {m, n} : \A y \in {m, n} : x =< y
  OBVIOUS
<1> QED BY <1>1 DEF Min

\* So does a new token.
LEMMA IssueKeeps ==
  ASSUME AccessInv, NEW t \in Tokens, NEW granted \in SUBSET Scopes,
         NEW n \in 1 .. LastTick, Issue(t, granted, n)
  PROVE  AccessInv'
<1> DEFINE row == [granted |-> granted, revoked |-> FALSE,
                   expires |-> clock + Min({n, MaxLifetime})]
<1>1. /\ token[t] = None /\ token' = [token EXCEPT ![t] = row]
      /\ UNCHANGED <<clock, switch, cache, view, setting, req, frozen>>
  BY DEF Issue
<1>2. TypeOK /\ clock \in Nat /\ clock \in Times
  BY SpansAssumption DEF AccessInv, TypeOK, Times
<1>3. row \in Rows
  <2>1. n \in Nat /\ MaxLifetime \in Nat
    BY SpansAssumption
  <2>2. Min({n, MaxLifetime}) \in Nat
    BY <2>1, MinOfTwo
  <2>3. clock + Min({n, MaxLifetime}) \in Nat
    BY <1>2, <2>2
  <2> QED BY <2>3 DEF Rows
<1> HIDE DEF row
<1>4. token' \in [Tokens -> Rows \cup {None}] /\ RowsStay
  BY <1>1, <1>2, <1>3, SpansAssumption DEF TypeOK, RowsStay
<1>5. /\ view' \in [Replicas -> Copies \cup {None}]
      /\ setting' \in [Replicas -> Copies \cup {None}]
  BY <1>1, <1>2 DEF TypeOK
<1>6. clock' \in Times /\ clock <= clock'
  BY <1>1, <1>2
<1>7. CopiesCover'
  BY <1>1, <1>6, CopiesStay
<1> QED BY <1>1, <1>4, <1>5, <1>6, <1>7, BackgroundStep

\* So does a revocation: what is in flight came before it.
LEMMA RevokeKeeps ==
  ASSUME AccessInv, NEW T \in SUBSET Tokens, Revoke(T)
  PROVE  AccessInv'
<1>1. /\ \A t \in T : token[t] # None
      /\ token' = [t \in Tokens |-> IF t \in T THEN [token[t] EXCEPT !.revoked = TRUE]
                                    ELSE token[t]]
      /\ UNCHANGED <<clock, switch, cache, view, setting, req, frozen>>
  BY DEF Revoke
<1>2. TypeOK /\ clock \in Nat /\ clock \in Times
  BY SpansAssumption DEF AccessInv, TypeOK, Times
<1>3. ASSUME NEW t \in T
      PROVE  /\ token'[t] \in Rows /\ token'[t].granted = token[t].granted
             /\ token'[t].expires = token[t].expires /\ token'[t].revoked
  <2>1. token[t] \in Rows /\ token'[t] = [token[t] EXCEPT !.revoked = TRUE]
    BY <1>1, <1>2 DEF TypeOK
  <2> QED BY <2>1 DEF Rows
<1>4. \A t \in Tokens \ T : token'[t] = token[t]
  BY <1>1
<1>5. token' \in [Tokens -> Rows \cup {None}]
  BY <1>1, <1>2, <1>3, <1>4 DEF TypeOK
<1>6. RowsStay
  BY <1>3, <1>4 DEF RowsStay
<1>7. /\ view' \in [Replicas -> Copies \cup {None}]
      /\ setting' \in [Replicas -> Copies \cup {None}]
  BY <1>1, <1>2 DEF TypeOK
<1>8. clock' \in Times /\ clock <= clock'
  BY <1>1, <1>2
<1>9. CopiesCover'
  BY <1>1, <1>8, CopiesStay
<1> QED BY <1>1, <1>5, <1>6, <1>7, <1>8, <1>9, BackgroundStep

\* So does time, which only expires.
LEMMA TickKeeps ==
  ASSUME AccessInv, Tick
  PROVE  AccessInv'
<1>1. clock < LastTick /\ clock' = clock + 1
      /\ UNCHANGED <<token, switch, cache, view, setting, req, frozen>>
  BY DEF Tick
<1>2. TypeOK /\ clock \in Nat
  BY SpansAssumption DEF AccessInv, TypeOK, Times
<1>3. clock' \in Times /\ clock <= clock'
  BY <1>1, <1>2, SpansAssumption DEF Times
<1>4. CopiesCover'
  BY <1>1, <1>3, CopiesStay
<1>5. /\ token' \in [Tokens -> Rows \cup {None}]
      /\ view' \in [Replicas -> Copies \cup {None}]
      /\ setting' \in [Replicas -> Copies \cup {None}]
  BY <1>1, <1>2 DEF TypeOK
<1>6. RowsStay
  BY <1>1 DEF RowsStay
<1> QED BY <1>1, <1>3, <1>4, <1>5, <1>6, BackgroundStep

\* So does a replica's copy of the switch it has just set.
LEMMA CopySwitchKeeps ==
  ASSUME AccessInv, NEW p \in Replicas, CopySwitch(p)
  PROVE  AccessInv'
<1>1. /\ setting[p] # None /\ view' = [view EXCEPT ![p] = setting[p]]
      /\ setting' = [setting EXCEPT ![p] = None]
      /\ UNCHANGED <<clock, token, switch, cache, req, frozen>>
  BY DEF CopySwitch
<1>2. /\ TypeOK /\ clock \in Nat /\ clock \in Times
      /\ view \in [Replicas -> Copies \cup {None}]
      /\ setting \in [Replicas -> Copies \cup {None}]
  BY SpansAssumption DEF AccessInv, TypeOK, Times
<1>3. /\ view' \in [Replicas -> Copies \cup {None}]
      /\ setting' \in [Replicas -> Copies \cup {None}]
  BY <1>1, <1>2
<1>4. CopiesCover'
  <2> SUFFICES ASSUME NEW x \in Replicas
               PROVE  (/\ view[x] # None => Covers(view[x].position, view[x].at)
                       /\ setting[x] # None => Covers(setting[x].position, setting[x].at))'
    BY DEF CopiesCover
  <2>1. /\ view'[x] = IF x = p THEN setting[p] ELSE view[x]
        /\ setting'[x] = IF x = p THEN None ELSE setting[x]
    BY <1>1, <1>2
  <2> QED BY <1>1, <2>1 DEF AccessInv, CopiesCover, Covers
<1>5. RowsStay /\ token' \in [Tokens -> Rows \cup {None}] /\ clock' \in Times
      /\ clock <= clock'
  BY <1>1, <1>2 DEF RowsStay, TypeOK
<1> QED BY <1>1, <1>3, <1>4, <1>5, BackgroundStep

\* What a change withholds anew is frozen from now on: every copy is older.
LEMMA SetSwitchCovers ==
  ASSUME AccessInv, NEW p \in Replicas, NEW position \in Positions, SetSwitch(p, position),
         NEW copy, NEW at \in Nat, Covers(copy, at)
  PROVE  Covers(copy, at)'
<1>1. /\ switch' = position /\ clock' = clock
      /\ frozen' = [s \in Scopes |->
            IF s \notin WithheldScopes(position) THEN None
            ELSE IF s \in WithheldScopes(switch) THEN frozen[s] ELSE clock]
  BY DEF SetSwitch
<1>2. WithheldScopes(position) \subseteq Scopes
  BY ScopeAssumption DEF WithheldScopes, Positions
<1>3. at <= clock
  BY DEF Covers
<1>4. ASSUME NEW s \in WithheldScopes(position) \ WithheldScopes(copy)
      PROVE  at <= frozen'[s]
  <2>1. frozen'[s] = IF s \in WithheldScopes(switch) THEN frozen[s] ELSE clock
    BY <1>1, <1>2
  <2> QED BY <1>3, <2>1 DEF Covers
<1> QED BY <1>1, <1>3, <1>4 DEF Covers

\* So does a change of the switch, which starts the clock of its freeze.
LEMMA SetSwitchKeeps ==
  ASSUME AccessInv, NEW p \in Replicas, NEW position \in Positions, SetSwitch(p, position)
  PROVE  AccessInv'
<1> DEFINE copy == [position |-> position, at |-> clock]
<1>1. /\ setting[p] = None /\ switch' = position
      /\ setting' = [setting EXCEPT ![p] = copy]
      /\ frozen' = [s \in Scopes |->
            IF s \notin WithheldScopes(position) THEN None
            ELSE IF s \in WithheldScopes(switch) THEN frozen[s] ELSE clock]
      /\ UNCHANGED <<clock, token, cache, view, req>>
  BY DEF SetSwitch
<1>2. /\ TypeOK /\ clock \in Nat /\ clock \in Times
      /\ view \in [Replicas -> Copies \cup {None}]
      /\ setting \in [Replicas -> Copies \cup {None}]
  BY SpansAssumption DEF AccessInv, TypeOK, Times
<1>3. copy \in Copies /\ copy.position = position /\ copy.at = clock
  BY <1>2 DEF Copies
<1> HIDE DEF copy
<1>4. ASSUME NEW s \in Scopes
      PROVE  /\ frozen'[s] \in Times \cup {None}
             /\ IF s \in WithheldScopes(position)
                THEN frozen'[s] \in Nat /\ frozen'[s] <= clock
                ELSE frozen'[s] = None
  <2>1. /\ frozen[s] \in Times \cup {None}
        /\ s \in WithheldScopes(switch) => frozen[s] \in Nat /\ frozen[s] <= clock
    BY <1>2 DEF AccessInv, TypeOK, FrozenIsKnown
  <2>2. frozen'[s] = IF s \notin WithheldScopes(position) THEN None
                     ELSE IF s \in WithheldScopes(switch) THEN frozen[s] ELSE clock
    BY <1>1
  <2> QED BY <1>2, <2>1, <2>2
<1>5. TypeOK'
  <2>1. frozen' \in [Scopes -> Times \cup {None}]
    BY <1>1, <1>4
  <2>2. setting' \in [Replicas -> Copies \cup {None}]
    BY <1>1, <1>2, <1>3
  <2> QED BY <1>1, <1>2, <2>1, <2>2 DEF TypeOK
<1>6. FrozenIsKnown'
  BY <1>1, <1>4 DEF FrozenIsKnown
<1>7. CachesAreSound'
  BY <1>1 DEF AccessInv, CachesAreSound
<1>8. RequestsAreKnown'
  <2> SUFFICES ASSUME NEW x \in Requests PROVE AboutRequest(req[x])'
    BY DEF RequestsAreKnown
  <2>1. AboutRequest(req[x]) /\ req[x] \in Inquiries /\ req'[x] = req[x]
    BY <1>1, <1>2 DEF AccessInv, RequestsAreKnown, TypeOK
  <2>2. req[x].at \in Nat
    BY <2>1, SpansAssumption DEF Inquiries, Times
  <2>3. (Under(req[x]) /\ Asserting(req[x]) /\ Finding(req[x]) /\ Found(req[x]))'
    BY <1>1, <2>1 DEF AboutRequest, Under, Asserting, Finding, Found, RowRead, Shows
  <2>4. (Passed(req[x]) /\ Dated(req[x]))'
    BY <1>1, <2>1 DEF AboutRequest, Passed, RowRead, Dated
  <2>5. SeenCovers(req[x])'
    <3> SUFFICES ASSUME req[x].phase = "read"
                 PROVE  req[x].seen \in Positions /\ Covers(req[x].seen, req[x].at)'
      BY <2>1 DEF SeenCovers
    <3>1. req[x].seen \in Positions /\ Covers(req[x].seen, req[x].at)
      BY <2>1 DEF AboutRequest, SeenCovers
    <3> DEFINE seen == req[x].seen
               at == req[x].at
    <3> QED BY <2>1, <2>2, <3>1, SetSwitchCovers DEF Covers
  <2> QED BY <2>3, <2>4, <2>5 DEF AboutRequest
<1>9. CopiesCover'
  <2> SUFFICES ASSUME NEW x \in Replicas
               PROVE  (/\ view[x] # None => Covers(view[x].position, view[x].at)
                       /\ setting[x] # None => Covers(setting[x].position, setting[x].at))'
    BY DEF CopiesCover
  <2>1. view'[x] = view[x] /\ setting'[x] = IF x = p THEN copy ELSE setting[x]
    BY <1>1, <1>2
  <2>2. /\ view[x] # None => view[x].at \in Nat /\ Covers(view[x].position, view[x].at)
        /\ setting[x] # None =>
              setting[x].at \in Nat /\ Covers(setting[x].position, setting[x].at)
    BY <1>2, SpansAssumption DEF AccessInv, CopiesCover, Copies, Times
  <2>3. (view[x] # None => Covers(view[x].position, view[x].at))'
    BY <2>1, <2>2, SetSwitchCovers DEF Covers
  <2>4. CASE x = p
    <3>1. (setting[x].position = switch /\ setting[x].at = clock)'
      BY <1>1, <1>3, <2>1, <2>4
    <3>2. (setting[x] # None => Covers(setting[x].position, setting[x].at))'
      BY <1>1, <1>2, <3>1 DEF Covers
    <3> QED BY <2>3, <3>2
  <2>5. CASE x # p
    <3>1. (setting[x] # None => Covers(setting[x].position, setting[x].at))'
      BY <2>1, <2>2, <2>5, SetSwitchCovers DEF Covers
    <3> QED BY <2>3, <3>1
  <2> QED BY <2>4, <2>5
<1> QED BY <1>5, <1>6, <1>7, <1>8, <1>9 DEF AccessInv

-----------------------------------------------------------------------------
(* The invariant. *)

\* The invariant holds at the start.
LEMMA InitIsAccess ==
  Init => AccessInv
<1> SUFFICES ASSUME Init PROVE AccessInv
  OBVIOUS
<1> USE DEF Init
<1>1. TypeOK
  BY SpansAssumption, IdleIsTyped, EmptySeq DEF TypeOK, Times, Positions
<1>2. CachesAreSound
  <2>1. Sound(<<>>)
    BY SpansAssumption, EmptySeq DEF Sound
  <2> QED BY <2>1 DEF CachesAreSound
<1>3. RequestsAreKnown
  <2> SUFFICES ASSUME NEW r \in Requests PROVE AboutRequest(req[r])
    BY DEF RequestsAreKnown
  <2>1. req[r].phase = "refused"
    BY DEF Idle
  <2> QED BY <2>1
        DEF AboutRequest, Under, Asserting, Finding, Found, Passed, Dated, SeenCovers
<1>4. FrozenIsKnown
  <2>1. \A s \in Scopes : frozen[s] = None
    OBVIOUS
  <2>2. WithheldScopes(switch) = {}
    BY DEF WithheldScopes
  <2> QED BY <2>1, <2>2 DEF FrozenIsKnown
<1>5. CopiesCover
  BY DEF CopiesCover
<1> QED BY <1>1, <1>2, <1>3, <1>4, <1>5 DEF AccessInv

\* Every step keeps it.
LEMMA NextKeepsAccess ==
  AccessInv /\ [Next]_vars => AccessInv'
<1> SUFFICES ASSUME AccessInv, [Next]_vars PROVE AccessInv'
  OBVIOUS
<1>1. ASSUME NEW r \in Requests, NEW p \in Replicas, NEW cred \in Credentials,
             NEW s \in Scopes, Present(r, p, cred, s)
      PROVE  AccessInv'
  BY <1>1, PresentKeeps
<1>2. ASSUME NEW r \in Requests, Step(r) PROVE AccessInv'
  BY <1>2, VerifyAssertionKeeps, FindTokenKeeps, VerifyKeeps, HashedKeeps, ReadSwitchKeeps,
     SettleSwitchKeeps DEF Step
<1>3. ASSUME NEW r \in Requests, SwitchUnread(r) PROVE AccessInv'
  BY <1>3, SwitchUnreadKeeps
<1>4. ASSUME NEW t \in Tokens, NEW granted \in SUBSET Scopes, NEW n \in 1 .. LastTick,
             Issue(t, granted, n)
      PROVE  AccessInv'
  BY <1>4, IssueKeeps
<1>5. ASSUME NEW t \in Tokens, Revoke({t}) PROVE AccessInv'
  BY <1>5, RevokeKeeps
<1>6. CASE RevokeAll
  <2> DEFINE T == {t \in Tokens : token[t] # None /\ ~token[t].revoked}
  <2>1. T \in SUBSET Tokens /\ Revoke(T)
    BY <1>6 DEF RevokeAll
  <2> HIDE DEF T
  <2> QED BY <2>1, RevokeKeeps
<1>7. ASSUME NEW p \in Replicas, NEW x \in Positions, SetSwitch(p, x) PROVE AccessInv'
  BY <1>7, SetSwitchKeeps
<1>8. ASSUME NEW p \in Replicas, CopySwitch(p) PROVE AccessInv'
  BY <1>8, CopySwitchKeeps
<1>9. CASE Tick
  BY <1>9, TickKeeps
<1>10. CASE UNCHANGED vars
  <2> USE <1>10 DEF vars
  <2>1. TypeOK' /\ CachesAreSound' /\ FrozenIsKnown' /\ CopiesCover'
    BY DEF AccessInv, TypeOK, CachesAreSound, FrozenIsKnown, CopiesCover, Covers
  <2>2. RequestsAreKnown'
    <3> SUFFICES ASSUME NEW x \in Requests PROVE AboutRequest(req[x])'
      BY DEF RequestsAreKnown
    <3>1. RowsStay /\ clock' \in Times /\ clock <= clock'
      BY SpansAssumption DEF RowsStay, AccessInv, TypeOK, Times
    <3> QED BY <3>1, RequestStays
  <2> QED BY <2>1, <2>2 DEF AccessInv
<1> QED BY <1>1, <1>2, <1>3, <1>4, <1>5, <1>6, <1>7, <1>8, <1>9, <1>10 DEF Next

\* What is known of the requests, the caches and the copies holds in every state.
THEOREM AccessIsInvariant ==
  Spec => []AccessInv
BY InitIsAccess, NextKeepsAccess, PTL DEF Spec

\* Tokens, caches, copies of the switch and requests are what the code types say.
THEOREM TypeCorrect ==
  Spec => []TypeOK
<1>1. AccessInv => TypeOK
  BY DEF AccessInv
<1> QED BY <1>1, AccessIsInvariant, PTL

\* The verification cache of a replica (auth/tokens.ts) never outgrows its limit
\* and never holds two answers for one presented secret, in whatever order the
\* hashes of concurrent requests come back.
THEOREM CachesStayBounded ==
  Spec => []CacheIsBounded
<1>1. AccessInv => CacheIsBounded
  BY DEF AccessInv, CachesAreSound, Sound, CacheIsBounded
<1> QED BY <1>1, AccessIsInvariant, PTL

-----------------------------------------------------------------------------
(* What a request that is allowed had. *)

Unfrozen(r) ==
    \/ frozen[req[r].scope] = None
    \/ clock < frozen[req[r].scope] + SwitchTtl
    \/ req[r].since < frozen[req[r].scope] + SwitchTtl

\* A position some copy holds or the database gave does not withhold the scope:
\* the freeze is younger than that.
LEMMA NotWithheld ==
  ASSUME AccessInv, NEW r \in Requests, req[r].scope \in Scopes, NEW position, NEW at \in Nat,
         Covers(position, at), req[r].scope \notin WithheldScopes(position),
         clock < at + SwitchTtl \/ req[r].since <= at
  PROVE  Unfrozen(r)
<1> DEFINE s == req[r].scope
<1>1. clock \in Nat /\ req[r].since \in Nat /\ SwitchTtl \in Nat \ {0}
  BY SpansAssumption DEF AccessInv, TypeOK, Inquiries, Times
<1>2. CASE s \notin WithheldScopes(switch)
  BY <1>2 DEF AccessInv, FrozenIsKnown, Unfrozen
<1>3. CASE s \in WithheldScopes(switch)
  <2>1. at <= frozen[s] /\ frozen[s] \in Nat
    BY <1>3 DEF Covers, AccessInv, FrozenIsKnown
  <2> QED BY <1>1, <2>1 DEF Unfrozen
<1> QED BY <1>2, <1>3

\* What goes on past its token is allowed by a fresh copy only.
LEMMA ProceedAllows ==
  ASSUME AccessInv, NEW r \in Requests, req[r].phase \in {"asserting", "found", "hashing"},
         Proceed(r), Allows(r)
  PROVE  req[r].scope \in Held(r) /\ Unfrozen(r)
<1> DEFINE p == req[r].replica
           d == Decided(r, view[p].position)
<1>1. TypeOK /\ AboutRequest(req[r]) /\ view \in [Replicas -> Copies \cup {None}]
  BY DEF AccessInv, TypeOK, RequestsAreKnown
<1>2. p \in Replicas /\ req[r].scope \in Scopes
  BY <1>1 DEF AboutRequest, Under
<1>3. CASE Refuse(r)
  <2>1. req'[r].phase = "refused"
    BY <1>1, <1>3, AnswerIsTyped DEF Refuse
  <2> QED BY <2>1 DEF Allows
<1>4. CASE Fresh(p) /\ Answer(r, d, FALSE)
  <2>1. d \in {"allowed", "refused"}
    BY DecidedIsAnswer
  <2> HIDE DEF d
  <2>2. d = "allowed"
    BY <1>1, <1>4, <2>1, AnswerIsTyped DEF Allows
  <2>3. req[r].scope \in Held(r) \ WithheldScopes(view[p].position)
    BY <2>2 DEF d, Decided
  <2>4. /\ view[p].at \in Nat /\ clock \in Nat /\ clock - view[p].at < SwitchTtl
        /\ Covers(view[p].position, view[p].at) /\ SwitchTtl \in Nat
    BY <1>1, <1>2, <1>4, SpansAssumption
       DEF Fresh, AccessInv, TypeOK, CopiesCover, Copies, Times
  <2>5. clock < view[p].at + SwitchTtl
    BY <2>4
  <2> HIDE DEF p
  <2> QED BY <1>2, <2>3, <2>4, <2>5, NotWithheld
<1>5. CASE req' = [req EXCEPT ![r].phase = "switching", ![r].at = clock]
  <2>1. req[r] \in Inquiries /\ req'[r] = [req[r] EXCEPT !.phase = "switching", !.at = clock]
    BY <1>1, <1>5 DEF TypeOK
  <2>2. req'[r].phase = "switching"
    BY <2>1 DEF Inquiries
  <2> QED BY <2>2 DEF Allows
<1> QED BY <1>3, <1>4, <1>5 DEF Proceed

\* What its credential was worth when a request is allowed.
Entitled(r) ==
    /\ req[r].cred # Human => RowRead(req[r]) /\ ~req[r].barred /\ req[r].cred.right
    /\ req[r].scope \in Held(r)

\* A step lets through only what is entitled and not frozen.
LEMMA StepAllows ==
  ASSUME AccessInv, NEW r \in Requests, Step(r), Allows(r)
  PROVE  Entitled(r) /\ Unfrozen(r)
<1> DEFINE q == req[r]
           p == q.replica
<1>1. /\ TypeOK /\ AboutRequest(q) /\ q \in Inquiries /\ clock \in Nat /\ q.at \in Nat
  BY SpansAssumption DEF AccessInv, RequestsAreKnown, TypeOK, Inquiries, Times
<1>2. req'[r].phase = "allowed"
  BY DEF Allows
<1>3. ~Refuse(r)
  BY <1>1, <1>2, AnswerIsTyped DEF Refuse
<1>4. CASE VerifyAssertion(r)
  <2>1. q.phase = "asserting" /\ Proceed(r)
    BY <1>4 DEF VerifyAssertion
  <2>2. q.cred = Human
    BY <1>1, <2>1 DEF AboutRequest, Asserting
  <2> QED BY <2>1, <2>2, ProceedAllows DEF Entitled
<1>5. CASE FindToken(r)
  <2>1. req'[r] = [q EXCEPT !.row = token[q.cred.id], !.phase = "found"]
    BY <1>1, <1>3, <1>5 DEF FindToken, TypeOK
  <2>2. req'[r].phase = "found"
    BY <1>1, <2>1 DEF Inquiries
  <2> QED BY <1>2, <2>2
<1>6. CASE Verify(r)
  <2>1. q.phase = "found" /\ p \in Replicas /\ q.since <= clock
    BY <1>1, <1>6 DEF Verify, AboutRequest, Under
  <2>2. CASE Hit(p, q.cred) = {}
    <3>1. req'[r] = [q EXCEPT !.phase = "hashing", !.at = clock]
      BY <1>1, <1>6, <2>2 DEF Verify, TypeOK
    <3>2. req'[r].phase = "hashing"
      BY <1>1, <3>1 DEF Inquiries
    <3> QED BY <1>2, <3>2
  <2>3. CASE Hit(p, q.cred) # {}
    <3>1. /\ Proceed(r)
          /\ \A k \in Hit(p, q.cred) : Accepted(q.row, cache[p][k].matched, clock)
      BY <1>3, <1>6, <2>3 DEF Verify
    <3>2. PICK k \in DOMAIN cache[p] : cache[p][k].key = q.cred
                                       /\ Accepted(q.row, cache[p][k].matched, clock)
      BY <2>3, <3>1 DEF Hit
    <3>3. cache[p][k].matched = q.cred.right
      BY <2>1, <3>2 DEF AccessInv, CachesAreSound, Sound
    <3>4. RowRead(q) /\ ~q.barred /\ q.cred.right
      BY <1>1, <2>1, <3>2, <3>3, AcceptedIsPassed
    <3> QED BY <2>1, <3>1, <3>4, ProceedAllows DEF Entitled
  <2> QED BY <2>2, <2>3
<1>7. CASE Hashed(r)
  <2>1. q.phase = "hashing" /\ q.since <= q.at
    BY <1>1, <1>7 DEF Hashed, AboutRequest, Dated
  <2>2. Accepted(q.row, q.cred.right, q.at) /\ Proceed(r)
    BY <1>3, <1>7 DEF Hashed
  <2>3. RowRead(q) /\ ~q.barred /\ q.cred.right
    BY <1>1, <2>1, <2>2, AcceptedIsPassed
  <2> QED BY <2>1, <2>2, <2>3, ProceedAllows DEF Entitled
<1>8. CASE ReadSwitch(r)
  <2>1. req'[r] = [q EXCEPT !.phase = "read", !.seen = switch]
    BY <1>1, <1>8 DEF ReadSwitch, TypeOK
  <2>2. req'[r].phase = "read"
    BY <1>1, <2>1 DEF Inquiries
  <2> QED BY <1>2, <2>2
<1>9. CASE SettleSwitch(r)
  <2> DEFINE d == Decided(r, q.seen)
  <2>1. q.phase = "read" /\ Answer(r, d, FALSE)
    BY <1>9 DEF SettleSwitch
  <2>2. d \in {"allowed", "refused"}
    BY DecidedIsAnswer
  <2> HIDE DEF d
  <2>3. d = "allowed"
    BY <1>1, <1>2, <2>1, <2>2, AnswerIsTyped
  <2>4. q.scope \in Held(r) \ WithheldScopes(q.seen)
    BY <2>3 DEF d, Decided
  <2>5. /\ q.scope \in Scopes /\ q.since <= q.at /\ Covers(q.seen, q.at)
        /\ q.cred # Human => RowRead(q) /\ ~q.barred /\ q.cred.right
    BY <1>1, <2>1 DEF AboutRequest, Under, Dated, SeenCovers, Passed
  <2>6. Unfrozen(r)
    BY <1>1, <2>4, <2>5, NotWithheld
  <2> QED BY <2>4, <2>5, <2>6 DEF Entitled
<1> QED BY <1>4, <1>5, <1>6, <1>7, <1>8, <1>9 DEF Step

\* The switch unread, the token still had its say.
LEMMA UnreadAllows ==
  ASSUME AccessInv, NEW r \in Requests, SwitchUnread(r), Allows(r)
  PROVE  Entitled(r) /\ req'[r].blind
<1> DEFINE p == req[r].replica
           known == IF view[p] = None THEN "off" ELSE view[p].position
           d == Decided(r, known)
<1>1. req[r].phase = "switching" /\ Answer(r, d, TRUE)
  BY DEF SwitchUnread
<1>2. d \in {"allowed", "refused"}
  BY DecidedIsAnswer
<1>3. TypeOK /\ AboutRequest(req[r])
  BY DEF AccessInv, RequestsAreKnown
<1> HIDE DEF d
<1>4. d = "allowed" /\ req'[r].blind
  BY <1>1, <1>2, <1>3, AnswerIsTyped DEF Allows
<1>5. req[r].scope \in Held(r)
  BY <1>4 DEF d, Decided
<1> QED BY <1>1, <1>3, <1>4, <1>5 DEF Entitled, AboutRequest, Passed

\* Only a request's own last step allows it.
LEMMA OnlyOwnStepAllows ==
  ASSUME AccessInv, [Next]_vars, NEW r \in Requests, Allows(r)
  PROVE  Step(r) \/ SwitchUnread(r)
<1>1. req'[r] # req[r]
  BY DEF Allows
<1>2. ASSUME NEW x \in Requests, NEW p \in Replicas, NEW cred \in Credentials,
             NEW s \in Scopes, Present(x, p, cred, s)
      PROVE  FALSE
  <2> DEFINE phase == IF cred = Human THEN "asserting" ELSE "finding"
             next == [Idle EXCEPT !.cred = cred, !.scope = s, !.replica = p,
                         !.since = clock, !.barred = Barred(cred), !.phase = phase]
  <2>1. req' = [req EXCEPT ![x] = next]
    BY <1>2 DEF Present
  <2>2. next.phase = phase /\ phase # "allowed"
    BY IdleIsTyped DEF Inquiries
  <2> HIDE DEF next
  <2>3. req'[r] = IF x = r THEN next ELSE req[r]
    BY <2>1 DEF AccessInv, TypeOK
  <2> QED BY <1>1, <2>2, <2>3 DEF Allows
<1>3. ASSUME NEW x \in Requests, x # r, Step(x) \/ SwitchUnread(x)
      PROVE  req'[r] = req[r]
  <2>1. req \in [Requests -> Inquiries]
    BY DEF AccessInv, TypeOK
  <2>2. \A d, b : Answer(x, d, b) => req'[r] = req[r]
    BY <1>3, <2>1 DEF Answer
  <2>3. Proceed(x) => req'[r] = req[r]
    BY <1>3, <2>1, <2>2 DEF Proceed, Refuse
  <2>4. Refuse(x) => req'[r] = req[r]
    BY <2>2 DEF Refuse
  <2>5. VerifyAssertion(x) \/ Hashed(x) \/ SettleSwitch(x) \/ SwitchUnread(x)
        => req'[r] = req[r]
    BY <2>2, <2>3, <2>4 DEF VerifyAssertion, Hashed, SettleSwitch, SwitchUnread
  <2>6. FindToken(x) \/ ReadSwitch(x) => req'[r] = req[r]
    BY <1>3, <2>1, <2>4 DEF FindToken, ReadSwitch
  <2>7. Verify(x) => req'[r] = req[r]
    BY <1>3, <2>1, <2>3, <2>4 DEF Verify
  <2> QED BY <1>3, <2>5, <2>6, <2>7 DEF Step
<1>4. /\ \A t, granted, n : ~Issue(t, granted, n)
      /\ \A T : ~Revoke(T)
      /\ ~RevokeAll
      /\ \A p, x : ~SetSwitch(p, x)
      /\ \A p : ~CopySwitch(p)
      /\ ~Tick
      /\ ~UNCHANGED vars
  BY <1>1 DEF Issue, Revoke, RevokeAll, SetSwitch, CopySwitch, Tick, vars
<1> QED BY <1>1, <1>2, <1>3, <1>4 DEF Next

\* A request is allowed only under a token that was neither revoked nor expired
\* when it came in, with that token's secret, within what the token was minted
\* with: the cache shortens the hashing, never the reading of the row
\* (auth/tokens.ts, verify).
THEOREM RevocationHolds ==
  Spec => RevocationIsImmediate
<1>1. AccessInv /\ [Next]_vars =>
        [\A r \in Requests : Allows(r) /\ req[r].cred # Human =>
            /\ ~req[r].barred
            /\ req[r].cred.right
            /\ req[r].scope \in token[req[r].cred.id].granted]_vars
  <2> SUFFICES ASSUME AccessInv, [Next]_vars, NEW r \in Requests, Allows(r),
                      req[r].cred # Human
               PROVE  /\ ~req[r].barred
                      /\ req[r].cred.right
                      /\ req[r].scope \in token[req[r].cred.id].granted
    OBVIOUS
  <2>1. Entitled(r)
    BY OnlyOwnStepAllows, StepAllows, UnreadAllows
  <2> QED BY <2>1 DEF Entitled, Held, RowRead
<1> QED BY <1>1, AccessIsInvariant, PTL DEF Spec, RevocationIsImmediate

\* Whatever the replicas' copies and however slow an answer of the database, a
\* request that comes in SwitchTtl after a freeze is refused by every replica
\* that can read the switch (auth/write-switch.ts).
THEOREM FreezeHolds ==
  Spec => FreezeTakesHold
<1>1. AccessInv /\ [Next]_vars =>
        [\A r \in Requests : Allows(r) /\ ~req'[r].blind =>
            \/ frozen[req[r].scope] = None
            \/ clock < frozen[req[r].scope] + SwitchTtl
            \/ req[r].since < frozen[req[r].scope] + SwitchTtl]_vars
  <2> SUFFICES ASSUME AccessInv, [Next]_vars, NEW r \in Requests, Allows(r), ~req'[r].blind
               PROVE  Unfrozen(r)
    BY DEF Unfrozen
  <2> QED BY OnlyOwnStepAllows, StepAllows, UnreadAllows
<1> QED BY <1>1, AccessIsInvariant, PTL DEF Spec, FreezeTakesHold

-----------------------------------------------------------------------------
(* Induction over the natural numbers as a fact about sets, and what it     *)
(* gives of finite sets and of functions defined by recursion.              *)

\* A set with 0 and the successor of each of its numbers has them all: one that
\* left n out would inject what it has up to n into the same without 0.
LEMMA Induction ==
  ASSUME NEW S, 0 \in S, \A k \in Nat : k \in S => k + 1 \in S
  PROVE  Nat \subseteq S
<1> SUFFICES ASSUME NEW n \in Nat, n \notin S PROVE FALSE
  OBVIOUS
<1> DEFINE T == S \cap (0 .. n)
<1>1. IsFiniteSet(T) /\ Cardinality(T) \in Nat
  <2>1. IsFiniteSet(0 .. n)
    BY FS_Interval
  <2>2. T \in SUBSET (0 .. n)
    OBVIOUS
  <2> QED
    BY <2>1, <2>2, FS_Subset, FS_CardinalityType
<1>2. 0 \in T
  OBVIOUS
<1>3. IsFiniteSet(T \ {0}) /\ Cardinality(T \ {0}) = Cardinality(T) - 1
  BY <1>1, <1>2, FS_RemoveElement
<1> DEFINE f == [k \in T |-> k + 1]
<1>4. f \in [T -> T \ {0}]
  <2> SUFFICES ASSUME NEW k \in T PROVE k + 1 \in T \ {0}
    OBVIOUS
  <2>1. k \in Nat /\ k <= n /\ k # n /\ k + 1 \in S
    OBVIOUS
  <2> QED
    BY <2>1
<1>5. \A x, y \in T : f[x] = f[y] => x = y
  OBVIOUS
<1> HIDE DEF T, f
<1>6. Cardinality(T \ {0}) < Cardinality(T)
  BY <1>1, <1>3
<1>7. \E x, y \in T : x # y /\ f[x] = f[y]
  BY <1>1, <1>3, <1>4, <1>6, FS_PigeonHole
<1> QED
  BY <1>5, <1>7

\* A relation that orders a set, and the element it puts first.
Orders(R, S) ==
    /\ \A x, y \in S : x = y \/ <<x, y>> \in R \/ <<y, x>> \in R
    /\ \A x, y, z \in S : <<x, y>> \in R /\ <<y, z>> \in R => <<x, z>> \in R

Foremost(R, S, x) == \A y \in S \ {x} : <<x, y>> \in R

\* Of a finite set that is not empty, a relation that orders it puts one first.
LEMMA LeastOfFinite ==
  ASSUME NEW R, NEW S, IsFiniteSet(S), S # {}, Orders(R, S)
  PROVE  \E x \in S : Foremost(R, S, x)
<1> USE DEF Orders, Foremost
<1> DEFINE Least(T) == \E x \in T : \A y \in T \ {x} : <<x, y>> \in R
           N == {n \in Nat : \A T \in SUBSET S : T # {} /\ IsFiniteSet(T) /\ Cardinality(T) = n => Least(T)}
<1>1. 0 \in N
  BY FS_EmptySet
<1>2. ASSUME NEW n \in Nat, n \in N
      PROVE  n + 1 \in N
  <2> SUFFICES ASSUME NEW T \in SUBSET S, T # {}, IsFiniteSet(T), Cardinality(T) = n + 1
               PROVE  Least(T)
    OBVIOUS
  <2>1. PICK t \in T : TRUE
    OBVIOUS
  <2>2. IsFiniteSet(T \ {t}) /\ Cardinality(T \ {t}) = n
    <3>1. IsFiniteSet(T \ {t}) /\ Cardinality(T \ {t}) = Cardinality(T) - 1
      BY FS_RemoveElement
    <3> QED
      BY <3>1
  <2>3. CASE T \ {t} = {}
    BY <2>3
  <2>4. CASE T \ {t} # {}
    <3>1. PICK x \in T \ {t} : \A y \in (T \ {t}) \ {x} : <<x, y>> \in R
      BY <1>2, <2>2, <2>4
    <3>2. x \in S /\ t \in S /\ x # t
      BY <3>1, <2>1
    <3>3. CASE <<x, t>> \in R
      <4>1. \A y \in T \ {x} : <<x, y>> \in R
        BY <3>1, <3>3
      <4> QED
        BY <3>1, <4>1
    <3>4. CASE <<t, x>> \in R
      <4>1. \A y \in T \ {t} : <<t, y>> \in R
        BY <3>1, <3>2, <3>4
      <4> QED
        BY <2>1, <4>1
    <3> QED
      BY <3>2, <3>3, <3>4
  <2> QED
    BY <2>3, <2>4
<1>3. Cardinality(S) \in N
  <2>1. Cardinality(S) \in Nat
    BY FS_CardinalityType
  <2> HIDE DEF N
  <2> QED
    BY <1>1, <1>2, <2>1, Induction
<1> QED
  BY <1>3

\* The least and the greatest of a finite set of numbers.
LEMMA MinOfFinite ==
  ASSUME NEW S \in SUBSET Int, IsFiniteSet(S), S # {}
  PROVE  Min(S) \in S /\ \A y \in S : Min(S) <= y
<1> DEFINE R == {p \in Int \X Int : p[1] < p[2]}
<1>1. ASSUME NEW x \in Int, NEW y \in Int PROVE <<x, y>> \in R <=> x < y
  OBVIOUS
<1> HIDE DEF R
<1>2. Orders(R, S)
  <2>1. \A x \in S : x \in Int
    OBVIOUS
  <2> QED
    BY <1>1, <2>1 DEF Orders
<1>3. PICK x \in S : Foremost(R, S, x)
  BY <1>2, LeastOfFinite, Zenon
<1>4. \E z \in S : \A y \in S : z =< y
  <2>1. \A y \in S : y \in Int
    OBVIOUS
  <2>2. ASSUME NEW y \in S PROVE x =< y
    <3>1. y = x \/ <<x, y>> \in R
      BY <1>3 DEF Foremost
    <3>2. x \in Int /\ y \in Int
      BY <2>1
    <3> QED
      BY <1>1, <3>1, <3>2
  <2> QED
    BY <2>2
<1> QED
  BY <1>4 DEF Min

\* And the greatest.
LEMMA MaxOfFinite ==
  ASSUME NEW S \in SUBSET Int, IsFiniteSet(S), S # {}
  PROVE  Max(S) \in S /\ \A y \in S : Max(S) >= y
<1> DEFINE R == {p \in Int \X Int : p[2] < p[1]}
<1>1. ASSUME NEW x \in Int, NEW y \in Int PROVE <<x, y>> \in R <=> y < x
  OBVIOUS
<1> HIDE DEF R
<1>2. Orders(R, S)
  <2>1. \A x \in S : x \in Int
    OBVIOUS
  <2> QED
    BY <1>1, <2>1 DEF Orders
<1>3. PICK x \in S : Foremost(R, S, x)
  BY <1>2, LeastOfFinite, Zenon
<1>4. \E z \in S : \A y \in S : z >= y
  <2>1. \A y \in S : y \in Int
    OBVIOUS
  <2>2. ASSUME NEW y \in S PROVE x >= y
    <3>1. y = x \/ <<x, y>> \in R
      BY <1>3 DEF Foremost
    <3>2. x \in Int /\ y \in Int
      BY <2>1
    <3> QED
      BY <1>1, <3>1, <3>2
  <2> QED
    BY <2>2
<1> QED
  BY <1>4 DEF Max

\* What a function of a set gives when it is applied again and again.
IsIterate(g, V, v, f, n) ==
    g \in [0 .. n -> V] /\ g[0] = v /\ \A k \in 1 .. n : g[k] = f[g[k - 1]]

\* Applied as often as one likes, a function of a set into itself gives something.
LEMMA Iterates ==
  ASSUME NEW V, NEW v \in V, NEW f \in [V -> V], NEW n \in Nat
  PROVE  \E g : IsIterate(g, V, v, f, n)
<1> DEFINE Iterate(g, m) == g[0] = v /\ \A k \in 1 .. m : g[k] = f[g[k - 1]]
           N == {m \in Nat : \E g \in [0 .. m -> V] : Iterate(g, m)}
<1>1. 0 \in N
  <2>1. [k \in 0 .. 0 |-> v] \in [0 .. 0 -> V]
    OBVIOUS
  <2>2. Iterate([k \in 0 .. 0 |-> v], 0)
    OBVIOUS
  <2> QED
    BY <2>1, <2>2
<1>2. ASSUME NEW m \in Nat, m \in N
      PROVE  m + 1 \in N
  <2>1. PICK g \in [0 .. m -> V] : Iterate(g, m)
    BY <1>2
  <2> DEFINE h == [k \in 0 .. m + 1 |-> IF k = m + 1 THEN f[g[m]] ELSE g[k]]
  <2>2. h \in [0 .. m + 1 -> V]
    BY <2>1
  <2>3. Iterate(h, m + 1)
    <3> SUFFICES ASSUME NEW k \in 1 .. m + 1 PROVE h[k] = f[h[k - 1]]
      BY <2>1
    <3> QED
      BY <2>1
  <2> HIDE DEF h, Iterate
  <2> QED
    BY <2>2, <2>3
<1> HIDE DEF N
<1>3. n \in N
  BY <1>1, <1>2, Induction
<1> QED
  BY <1>3 DEF N, IsIterate

\* What a function gives on a finite set is finite.
LEMMA ImageOfFinite ==
  ASSUME NEW S, IsFiniteSet(S), NEW f
  PROVE  IsFiniteSet({f[x] : x \in S})
<1> DEFINE T == {f[x] : x \in S}
           g == [x \in S |-> f[x]]
<1>1. g \in Surjection(S, T)
  BY DEF Surjection
<1> HIDE DEF g, T
<1>2. IsFiniteSet(T)
  BY <1>1, FS_Surjection
<1> QED
  BY <1>2 DEF T

\* A function of the functions on S that looks, at each element, only at those
\* of less rank that "below" names.
LooksBelow(F, S, V, below, rank) ==
    /\ F \in [[S -> V] \X S -> V]
    /\ rank \in [S -> Int]
    /\ \A i \in S : \A j \in below[i] : j \in S /\ rank[j] < rank[i]
    /\ \A g, h \in [S -> V], i \in S :
          (\A j \in below[i] : g[j] = h[j]) => F[<<g, i>>] = F[<<h, i>>]

IsFixedPoint(g, F, S, V) == g \in [S -> V] /\ \A i \in S : g[i] = F[<<g, i>>]

\* Such a function has a fixed point: what a definition by recursion names exists.
LEMMA RecursionHasAFixedPoint ==
  ASSUME NEW S, IsFiniteSet(S), NEW V, V # {}, NEW F, NEW below, NEW rank,
         LooksBelow(F, S, V, below, rank)
  PROVE  \E g : IsFixedPoint(g, F, S, V)
<1> DEFINE Fixed(T) == \E g \in [S -> V] : \A i \in T : g[i] = F[<<g, i>>]
           Within(T) == \A i \in T : below[i] \subseteq T
           K == {m \in Nat : \A T \in SUBSET S : Within(T) /\ Cardinality(T) = m => Fixed(T)}
<1>1. /\ F \in [[S -> V] \X S -> V] /\ rank \in [S -> Int]
      /\ \A i \in S : \A j \in below[i] : j \in S /\ rank[j] < rank[i]
      /\ \A g, h \in [S -> V], i \in S :
            (\A j \in below[i] : g[j] = h[j]) => F[<<g, i>>] = F[<<h, i>>]
  BY DEF LooksBelow
<1>2. 0 \in K
  <2> SUFFICES ASSUME NEW T \in SUBSET S, Cardinality(T) = 0 PROVE Fixed(T)
    OBVIOUS
  <2>1. T = {}
    BY FS_Subset, FS_EmptySet
  <2>2. PICK v \in V : TRUE
    OBVIOUS
  <2>3. [i \in S |-> v] \in [S -> V]
    OBVIOUS
  <2> QED
    BY <2>1, <2>3
<1>3. ASSUME NEW m \in Nat, m \in K
      PROVE  m + 1 \in K
  <2> SUFFICES ASSUME NEW T \in SUBSET S, Within(T), Cardinality(T) = m + 1 PROVE Fixed(T)
    OBVIOUS
  <2>1. IsFiniteSet(T) /\ T # {}
    BY FS_Subset, FS_EmptySet
  <2>2. PICK i \in T : \A j \in T : rank[j] <= rank[i]
    <3> DEFINE ranks == {rank[j] : j \in T}
    <3>1. ranks \in SUBSET Int /\ ranks # {}
      BY <1>1, <2>1
    <3>2. IsFiniteSet(ranks)
      BY <2>1, ImageOfFinite
    <3>3. Max(ranks) \in ranks /\ \A r \in ranks : Max(ranks) >= r
      <4> HIDE DEF ranks
      <4> QED
        BY <3>1, <3>2, MaxOfFinite
    <3> QED
      BY <3>1, <3>3
  <2> DEFINE U == T \ {i}
  <2>3. U \in SUBSET S /\ Within(U)
    BY <1>1, <2>2
  <2>4. Cardinality(U) = m
    <3>1. Cardinality(T \ {i}) = Cardinality(T) - 1
      BY <2>1, FS_RemoveElement
    <3> QED
      BY <3>1
  <2>5. PICK g \in [S -> V] : \A j \in U : g[j] = F[<<g, j>>]
    BY <1>3, <2>3, <2>4
  <2> DEFINE h == [g EXCEPT ![i] = F[<<g, i>>]]
  <2>6. <<g, i>> \in [S -> V] \X S
    OBVIOUS
  <2>7. h \in [S -> V] /\ h[i] = F[<<g, i>>] /\ \A j \in S \ {i} : h[j] = g[j]
    BY <1>1, <2>6
  <2> HIDE DEF h
  <2>8. ASSUME NEW j \in T
        PROVE  F[<<h, j>>] = F[<<g, j>>]
    <3>1. \A l \in below[j] : l # i /\ l \in S
      BY <1>1, <2>2
    <3> QED
      BY <1>1, <2>7, <3>1
  <2>9. \A j \in T : h[j] = F[<<h, j>>]
    BY <2>5, <2>7, <2>8
  <2> QED
    BY <2>7, <2>9
<1>4. Cardinality(S) \in K
  <2>1. Cardinality(S) \in Nat
    BY FS_CardinalityType
  <2> HIDE DEF K
  <2> QED
    BY <1>2, <1>3, <2>1, Induction
<1>5. Within(S)
  BY <1>1
<1>6. \E g \in [S -> V] : \A i \in S : g[i] = F[<<g, i>>]
  BY <1>4, <1>5
<1> QED
  BY <1>6 DEF IsFixedPoint

-----------------------------------------------------------------------------
(* Orders and folds. *)

\* A strict order arranges a finite set: where an element stands is how many
\* there are before it.
LEMMA SortedExists ==
  ASSUME NEW S, IsFiniteSet(S), NEW R, Orders(R, S), \A x \in S : <<x, x>> \notin R
  PROVE  \E s \in [1 .. Cardinality(S) -> S] :
            /\ \A k, l \in 1 .. Cardinality(S) : k < l => <<s[k], s[l]>> \in R
            /\ \A x \in S : \E k \in 1 .. Cardinality(S) : s[k] = x
<1> USE DEF Orders
<1>1. PICK n \in Nat : n = Cardinality(S)
  BY FS_CardinalityType
<1> DEFINE Beneath(x) == {y \in S : <<y, x>> \in R}
           r == [x \in S |-> Cardinality(Beneath(x)) + 1]
<1>2. ASSUME NEW x \in S
      PROVE  IsFiniteSet(Beneath(x)) /\ Cardinality(Beneath(x)) \in 0 .. n - 1
  <2>1. Beneath(x) \in SUBSET (S \ {x})
    OBVIOUS
  <2>2. IsFiniteSet(S \ {x}) /\ Cardinality(S \ {x}) = n - 1
    BY <1>1, FS_RemoveElement
  <2>3. IsFiniteSet(Beneath(x)) /\ Cardinality(Beneath(x)) <= n - 1
    <3>1. PICK less, under : less = S \ {x} /\ under = Beneath(x)
      OBVIOUS
    <3>2. IsFiniteSet(less) /\ Cardinality(less) = n - 1 /\ under \in SUBSET less
      BY <2>1, <2>2, <3>1
    <3>3. IsFiniteSet(under) /\ Cardinality(under) <= Cardinality(less)
      BY <3>2, FS_Subset
    <3> QED
      BY <3>1, <3>2, <3>3
  <2>4. Cardinality(Beneath(x)) \in Nat
    BY <2>3, FS_CardinalityType
  <2> QED
    BY <2>3, <2>4
<1>3. ASSUME NEW x \in S, NEW y \in S, <<x, y>> \in R
      PROVE  Cardinality(Beneath(x)) < Cardinality(Beneath(y))
  <2>1. Beneath(x) \cup {x} \in SUBSET Beneath(y) /\ x \notin Beneath(x)
    BY <1>3
  <2> HIDE DEF Beneath
  <2>2. Cardinality(Beneath(x) \cup {x}) = Cardinality(Beneath(x)) + 1
    BY <1>2, <2>1, FS_AddElement
  <2>3. Cardinality(Beneath(x) \cup {x}) <= Cardinality(Beneath(y))
    BY <1>2, <2>1, FS_Subset
  <2> QED
    BY <1>1, <1>2, <2>2, <2>3
<1> HIDE DEF Beneath
<1>4. r \in [S -> 1 .. n]
  BY <1>1, <1>2
<1>5. ASSUME NEW x \in S, NEW y \in S, x # y
      PROVE  r[x] # r[y] /\ (r[x] < r[y] => <<x, y>> \in R)
  <2>1. <<x, y>> \in R \/ <<y, x>> \in R
    BY <1>5
  <2>2. Cardinality(Beneath(x)) \in Int /\ Cardinality(Beneath(y)) \in Int
    BY <1>1, <1>2
  <2>3. r[x] = Cardinality(Beneath(x)) + 1 /\ r[y] = Cardinality(Beneath(y)) + 1
    OBVIOUS
  <2> HIDE DEF r
  <2> QED
    BY <1>3, <2>1, <2>2, <2>3
<1> HIDE DEF r
<1>6. PICK T : T = 1 .. n
  OBVIOUS
<1>7. IsFiniteSet(T) /\ Cardinality(T) = n
  <2>1. PICK z : z = 1
    OBVIOUS
  <2>2. IsFiniteSet(z .. n) /\ Cardinality(z .. n) = IF z > n THEN 0 ELSE n - z + 1
    BY <2>1, FS_Interval
  <2> QED
    BY <1>6, <2>1, <2>2
<1>8. r \in Injection(S, T)
  BY <1>4, <1>5, <1>6 DEF Injection, IsInjective
<1>9. r \in Surjection(S, T)
  BY <1>1, <1>7, <1>8, FS_Injection
<1>a. \A k \in T : \E x \in S : r[x] = k
  BY <1>9 DEF Surjection
<1> DEFINE s == [k \in T |-> CHOOSE x \in S : r[x] = k]
<1>b. \A k \in T : s[k] \in S /\ r[s[k]] = k
  BY <1>a
<1>c. s \in [T -> S]
  BY <1>b
<1> HIDE DEF s
<1>d. \A k, l \in T : k < l => <<s[k], s[l]>> \in R
  <2> SUFFICES ASSUME NEW k \in T, NEW l \in T, k < l PROVE <<s[k], s[l]>> \in R
    OBVIOUS
  <2>1. r[s[k]] < r[s[l]] /\ s[k] \in S /\ s[l] \in S /\ s[k] # s[l]
    BY <1>b, <1>6
  <2> QED
    BY <1>5, <2>1
<1>e. \A x \in S : r[x] \in T /\ s[r[x]] = x
  BY <1>4, <1>5, <1>6, <1>b
<1> QED
  BY <1>1, <1>6, <1>c, <1>d, <1>e

\* What a fold over a set satisfies, if it picks from each set the element it takes last.
IsFold(g, D, base, f, pick) ==
    \A t \in SUBSET D : g[t] = IF t = {} THEN base ELSE f[<<g[t \ {pick[t]}], pick[t]>>]

\* What a fold over a set defines by recursion exists: it takes the elements
\* in some order, one after the other.
LEMMA FoldExists ==
  ASSUME NEW D, IsFiniteSet(D), NEW V, NEW base \in V, NEW f \in [V \X D -> V],
         NEW pick, \A t \in SUBSET D : t # {} => pick[t] \in t
  PROVE  \E g \in [SUBSET D -> V] : IsFold(g, D, base, f, pick)
<1> USE DEF IsFold
<1> DEFINE S == SUBSET D
           F == [q \in [S -> V] \X S |->
                   IF q[2] = {} THEN base ELSE f[<<q[1][q[2] \ {pick[q[2]]}], pick[q[2]]>>]]
           below == [t \in S |-> IF t = {} THEN {} ELSE {t \ {pick[t]}}]
           rank == [t \in S |-> Cardinality(t)]
<1>1. IsFiniteSet(S)
  BY FS_SUBSET
<1>2. ASSUME NEW g \in [S -> V], NEW t \in S
      PROVE  F[<<g, t>>] = IF t = {} THEN base ELSE f[<<g[t \ {pick[t]}], pick[t]>>]
  OBVIOUS
<1>3. ASSUME NEW g \in [S -> V], NEW t \in S
      PROVE  (IF t = {} THEN base ELSE f[<<g[t \ {pick[t]}], pick[t]>>]) \in V
  OBVIOUS
<1>4. F \in [[S -> V] \X S -> V]
  <2>1. F = [q \in [S -> V] \X S |-> F[q]]
    OBVIOUS
  <2>2. ASSUME NEW q \in [S -> V] \X S PROVE F[q] \in V
    <3>1. PICK g \in [S -> V], t \in S : q = <<g, t>>
      OBVIOUS
    <3> HIDE DEF F
    <3> QED
      BY <1>2, <1>3, <3>1
  <2> HIDE DEF F
  <2> QED
    BY <2>1, <2>2
<1>5. rank \in [S -> Int]
  <2>1. \A t \in S : Cardinality(t) \in Int
    BY FS_Subset, FS_CardinalityType
  <2> QED
    BY <2>1
<1>6. ASSUME NEW t \in S, NEW j \in below[t]
      PROVE  j \in S /\ rank[j] < rank[t]
  <2>1. t # {} /\ j = t \ {pick[t]} /\ pick[t] \in t
    OBVIOUS
  <2>2. IsFiniteSet(t)
    BY FS_Subset
  <2>3. Cardinality(t \ {pick[t]}) = Cardinality(t) - 1 /\ Cardinality(t) \in Nat
    BY <2>1, <2>2, FS_RemoveElement, FS_CardinalityType
  <2> QED
    BY <2>1, <2>3
<1>7. ASSUME NEW g \in [S -> V], NEW h \in [S -> V], NEW t \in S,
             \A j \in below[t] : g[j] = h[j]
      PROVE  F[<<g, t>>] = F[<<h, t>>]
  <2>1. t # {} => g[t \ {pick[t]}] = h[t \ {pick[t]}]
    BY <1>7
  <2>2. F[<<g, t>>] = IF t = {} THEN base ELSE f[<<g[t \ {pick[t]}], pick[t]>>]
    <3> HIDE DEF F, S
    <3> QED
      BY <1>2
  <2>3. F[<<h, t>>] = IF t = {} THEN base ELSE f[<<h[t \ {pick[t]}], pick[t]>>]
    <3> HIDE DEF F, S
    <3> QED
      BY <1>2
  <2> HIDE DEF F, S, below
  <2> QED
    BY <2>1, <2>2, <2>3
<1>8. LooksBelow(F, S, V, below, rank)
  <2> HIDE DEF S, F, below, rank
  <2> QED
    BY <1>4, <1>5, <1>6, <1>7 DEF LooksBelow
<1>9. \E g : IsFixedPoint(g, F, S, V)
  <2> HIDE DEF S, F, below, rank
  <2> QED
    BY <1>1, <1>8, RecursionHasAFixedPoint
<1> QED
  <2>1. PICK g : g \in [S -> V] /\ \A t \in S : g[t] = F[<<g, t>>]
    BY <1>9 DEF IsFixedPoint
  <2>2. ASSUME NEW t \in S
        PROVE  g[t] = IF t = {} THEN base ELSE f[<<g[t \ {pick[t]}], pick[t]>>]
    <3> HIDE DEF F
    <3> QED
      BY <1>2, <2>1
  <2> QED
    BY <2>1, <2>2

\* What holds of the base and is kept by each element taken holds of the fold.
LEMMA FoldKeeps ==
  ASSUME NEW D, IsFiniteSet(D), NEW V, NEW iter, NEW pick,
         iter[{}] \in V,
         \A t \in SUBSET D : t # {} => pick[t] \in t /\ (iter[t \ {pick[t]}] \in V => iter[t] \in V)
  PROVE  \A t \in SUBSET D : iter[t] \in V
<1> DEFINE N == {n \in Nat : \A t \in SUBSET D : Cardinality(t) = n => iter[t] \in V}
<1>1. \A t \in SUBSET D : IsFiniteSet(t) /\ Cardinality(t) \in Nat
  BY FS_Subset, FS_CardinalityType
<1>2. 0 \in N
  BY <1>1, FS_EmptySet
<1>3. ASSUME NEW n \in Nat, n \in N
      PROVE  n + 1 \in N
  <2> SUFFICES ASSUME NEW t \in SUBSET D, Cardinality(t) = n + 1
               PROVE  iter[t] \in V
    OBVIOUS
  <2>1. t # {} /\ IsFiniteSet(t)
    <3>1. IsFiniteSet(t) /\ (t = {} => Cardinality(t) = 0)
      BY <1>1, FS_EmptySet
    <3> HIDE DEF N
    <3> QED
      BY <3>1
  <2>2. Cardinality(t \ {pick[t]}) = n
    <3>1. pick[t] \in t
      BY <2>1
    <3>2. Cardinality(t \ {pick[t]}) = Cardinality(t) - 1
      BY <2>1, <3>1, FS_RemoveElement
    <3> QED
      BY <3>2
  <2> QED
    BY <1>3, <2>1, <2>2
<1> HIDE DEF N
<1>4. Nat \subseteq N
  BY <1>2, <1>3, Induction
<1> QED
  BY <1>1, <1>4 DEF N

-----------------------------------------------------------------------------
(* The calendar. *)

\* No search for a working day fails.
WorkedCalendar ==
    /\ SearchDays \in Nat
    /\ \A d \in Int : \E e \in d .. d + SearchDays : IsWorkingDay(e)

\* A number is its quotient times and a remainder.
LEMMA Remainder ==
  ASSUME NEW W \in Nat \ {0}, NEW q \in Int, NEW w \in 0 .. W - 1
  PROVE  (W * q + w) % W = w
OBVIOUS

\* A number is made of its quotient and its remainder.
LEMMA Split ==
  ASSUME NEW W \in Nat \ {0}, NEW d \in Int
  PROVE  d % W \in 0 .. W - 1 /\ d = W * (d \div W) + (d % W)
OBVIOUS

\* A calendar with few enough holidays for how far a search goes always finds a
\* working day: each of as many weeks as there are holidays and one more has a
\* day of the working week, and they cannot all be holidays.
LEMMA CalendarIsWorked ==
  WorkedCalendar
<1>a. /\ IsFiniteSet(Holidays) /\ SearchDays \in Nat
      /\ WeekLength * (Cardinality(Holidays) + 1) <= SearchDays
  BY CalendarAssumption
<1>1. PICK W : W = WeekLength
  OBVIOUS
<1>2. W \in Nat \ {0} /\ WorkingWeekdays \subseteq 0 .. W - 1 /\ WorkingWeekdays # {}
  BY <1>1, WeekAssumption
<1>3. PICK h \in Nat : h = Cardinality(Holidays)
  BY <1>a, FS_CardinalityType
<1>4. W * (h + 1) <= SearchDays
  BY <1>a, <1>1, <1>3
<1>5. ASSUME NEW d \in Int
      PROVE  \E e \in d .. d + SearchDays : IsWorkingDay(e)
  <2>1. PICK w \in WorkingWeekdays : w \in 0 .. W - 1
    BY <1>2
  <2>2. \E q \in Int : d <= W * q + w /\ W * q + w <= d + W - 1
    <3>1. PICK p, r : p = d \div W /\ r = d % W
      OBVIOUS
    <3>2. p \in Int /\ r \in 0 .. W - 1 /\ d = W * p + r
      BY <1>2, <3>1, Split
    <3>3. W * (p + 1) = W * p + W
      BY <1>2, <3>2
    <3>4. W * p \in Int
      BY <1>2, <3>2
    <3>5. CASE w >= r
      BY <1>2, <2>1, <3>2, <3>4, <3>5
    <3>6. CASE w < r
      <4>1. p + 1 \in Int /\ d <= W * (p + 1) + w /\ W * (p + 1) + w <= d + W - 1
        BY <1>2, <2>1, <3>2, <3>3, <3>4, <3>6
      <4> QED
        BY <4>1
    <3> QED
      BY <2>1, <3>2, <3>5, <3>6
  <2>3. PICK q \in Int : d <= W * q + w /\ W * q + w <= d + W - 1
    BY <2>2
  <2> DEFINE e == [k \in 0 .. h |-> W * (q + k) + w]
  <2>4. ASSUME NEW k \in 0 .. h
        PROVE  /\ e[k] \in Int /\ e[k] % W = w
               /\ e[k] \in d .. d + SearchDays
    <3>1. e[k] = W * (q + k) + w
      OBVIOUS
    <3>2. W * (q + k) = W * q + W * k /\ W * (h + 1) = W * h + W
      BY <1>2
    <3>3. W * q \in Int /\ W * k \in Int /\ W * h \in Int /\ 0 <= W * k /\ W * k <= W * h
      BY <1>2
    <3>4. e[k] \in Int /\ d <= e[k] /\ e[k] <= d + SearchDays
      <4> HIDE DEF e
      <4> QED
        BY <1>a, <1>2, <1>4, <2>1, <2>3, <3>1, <3>2, <3>3
    <3>5. e[k] % W = w
      BY <1>2, <2>1, <3>1, Remainder
    <3> QED
      BY <3>4, <3>5
  <2>5. ASSUME NEW k \in 0 .. h, NEW l \in 0 .. h, e[k] = e[l]
        PROVE  k = l
    <3>1. W * (q + k) + w = W * (q + l) + w
      BY <2>5
    <3>2. W * (q + k) = W * (q + l)
      BY <1>2, <2>1, <3>1
    <3> QED
      BY <1>2, <3>2
  <2>6. \E k \in 0 .. h : e[k] \notin Holidays
    <3> SUFFICES ASSUME \A k \in 0 .. h : e[k] \in Holidays PROVE FALSE
      OBVIOUS
    <3>1. e \in [0 .. h -> Holidays]
      OBVIOUS
    <3>2. IsFiniteSet(0 .. h) /\ Cardinality(0 .. h) = h + 1
      <4>1. PICK z : z = 0
        OBVIOUS
      <4>2. IsFiniteSet(z .. h) /\ Cardinality(z .. h) = IF z > h THEN 0 ELSE h - z + 1
        BY <4>1, FS_Interval
      <4> QED
        BY <4>1, <4>2
    <3>3. PICK T : T = 0 .. h
      OBVIOUS
    <3> HIDE DEF e
    <3>4. Cardinality(Holidays) < Cardinality(T)
      BY <1>3, <3>2, <3>3
    <3>5. \E x, y \in T : x # y /\ e[x] = e[y]
      BY <1>a, <3>1, <3>2, <3>3, <3>4, FS_PigeonHole
    <3> QED
      BY <2>5, <3>3, <3>5
  <2>7. PICK k \in 0 .. h : e[k] \notin Holidays
    BY <2>6
  <2> HIDE DEF e
  <2>8. IsWorkingDay(e[k])
    BY <1>1, <2>1, <2>4, <2>7 DEF IsWorkingDay
  <2> QED
    BY <2>4, <2>8
<1> QED
  BY <1>a, <1>5 DEF WorkedCalendar

\* WorkingDayOnOrAfter is the first working day that is not before its argument.
LEMMA OnOrAfter ==
  ASSUME WorkedCalendar, NEW d \in Int
  PROVE  /\ WorkingDayOnOrAfter(d) \in Int
         /\ WorkingDayOnOrAfter(d) >= d
         /\ IsWorkingDay(WorkingDayOnOrAfter(d))
         /\ \A e \in Int : e >= d /\ IsWorkingDay(e) => WorkingDayOnOrAfter(d) <= e
<1> DEFINE S == {e \in d .. d + SearchDays : IsWorkingDay(e)}
<1>1. S \in SUBSET Int /\ S # {} /\ SearchDays \in Nat
  <2>1. SearchDays \in Nat /\ \E e \in d .. d + SearchDays : IsWorkingDay(e)
    BY DEF WorkedCalendar
  <2> QED
    BY <2>1
<1>2. IsFiniteSet(S)
  <2>1. IsFiniteSet(d .. d + SearchDays)
    BY <1>1, FS_Interval
  <2> QED
    BY <2>1, FS_Subset
<1>3. WorkingDayOnOrAfter(d) = Min(S)
  BY DEF WorkingDayOnOrAfter
<1>4. Min(S) \in S /\ \A y \in S : Min(S) <= y
  <2> HIDE DEF S
  <2> QED
    BY <1>1, <1>2, MinOfFinite
<1>5. ASSUME NEW e \in Int, e >= d, IsWorkingDay(e)
      PROVE  Min(S) <= e
  <2>1. CASE e <= d + SearchDays
    <3>1. e \in S
      BY <1>1, <1>5, <2>1
    <3> QED
      BY <1>4, <3>1
  <2>2. CASE e > d + SearchDays
    <3>1. Min(S) \in Int /\ Min(S) <= d + SearchDays
      BY <1>1, <1>4
    <3> QED
      BY <1>1, <2>2, <3>1
  <2> QED
    BY <1>1, <2>1, <2>2
<1> QED
  BY <1>1, <1>3, <1>4, <1>5

\* NextWorkingDay is the first working day after its argument.
LEMMA NextIsLater ==
  ASSUME WorkedCalendar, NEW d \in Int
  PROVE  /\ NextWorkingDay(d) \in Int
         /\ NextWorkingDay(d) > d
         /\ IsWorkingDay(NextWorkingDay(d))
         /\ \A e \in Int : e > d /\ IsWorkingDay(e) => NextWorkingDay(d) <= e
<1>1. d + 1 \in Int
  OBVIOUS
<1>2. /\ NextWorkingDay(d) \in Int
      /\ NextWorkingDay(d) >= d + 1
      /\ IsWorkingDay(NextWorkingDay(d))
      /\ \A e \in Int : e >= d + 1 /\ IsWorkingDay(e) => NextWorkingDay(d) <= e
  BY <1>1, OnOrAfter DEF NextWorkingDay
<1> QED
  BY <1>2

\* The working days that follow one another from d.
Days(d, n, on) ==
    on = [k \in 0 .. n |-> IF k = 0 THEN WorkingDayOnOrAfter(d) ELSE NextWorkingDay(on[k - 1])]

\* What AddWorkingDays defines by recursion exists, and it is the last of those days.
LEMMA DaysFollow ==
  ASSUME WorkedCalendar, NEW d \in Int, NEW n \in Nat
  PROVE  \E on \in [0 .. n -> Int] : Days(d, n, on) /\ AddWorkingDays(d, n) = on[n]
<1> DEFINE f == [x \in Int |-> NextWorkingDay(x)]
           Eq(on) == on = [k \in 0 .. n |-> IF k = 0 THEN WorkingDayOnOrAfter(d)
                                            ELSE NextWorkingDay(on[k - 1])]
<1>1. f \in [Int -> Int] /\ WorkingDayOnOrAfter(d) \in Int
  BY NextIsLater, OnOrAfter
<1>2. PICK g \in [0 .. n -> Int] :
         g[0] = WorkingDayOnOrAfter(d) /\ \A k \in 1 .. n : g[k] = f[g[k - 1]]
  <2>1. \E g : IsIterate(g, Int, WorkingDayOnOrAfter(d), f, n)
    <3> HIDE DEF f
    <3> QED
      BY <1>1, Iterates
  <2> QED
    BY <2>1 DEF IsIterate
<1>3. Eq(g)
  <2>1. \A k \in 1 .. n : g[k - 1] \in Int
    BY <1>2
  <2>2. \A k \in 1 .. n : g[k] = NextWorkingDay(g[k - 1])
    BY <1>2, <2>1
  <2>3. \A k \in 0 .. n : k = 0 \/ k \in 1 .. n
    OBVIOUS
  <2> QED
    BY <1>2, <2>2, <2>3
<1>4. Eq(CHOOSE on : Eq(on))
  BY <1>3, Zenon
<1>5. AddWorkingDays(d, n) = (CHOOSE on : Eq(on))[n]
  BY DEF AddWorkingDays
<1>6. PICK on : on = (CHOOSE o : Eq(o))
  OBVIOUS
<1>7. Days(d, n, on) /\ AddWorkingDays(d, n) = on[n]
  BY <1>4, <1>5, <1>6 DEF Days
<1> DEFINE K == {k \in Nat : k <= n => on[k] \in Int}
<1>8. 0 \in K
  BY <1>7, OnOrAfter DEF Days
<1>9. ASSUME NEW k \in Nat, k \in K
      PROVE  k + 1 \in K
  <2>1. k + 1 <= n => on[k + 1] = NextWorkingDay(on[k])
    BY <1>7 DEF Days
  <2>2. ASSUME k + 1 <= n
        PROVE  on[k + 1] \in Int
    <3>1. on[k] \in Int
      BY <1>9, <2>2
    <3> QED
      BY <2>1, <2>2, <3>1, NextIsLater
  <2> QED
    BY <2>2
<1>10. Nat \subseteq K
  <2> HIDE DEF K
  <2> QED
    BY <1>8, <1>9, Induction
<1>11. DOMAIN on = 0 .. n /\ on = [k \in 0 .. n |-> on[k]]
  BY <1>7 DEF Days
<1>12. on \in [0 .. n -> Int]
  BY <1>10, <1>11
<1> QED
  BY <1>7, <1>12

\* One working day more is the working day after.
LEMMA AddOne ==
  ASSUME WorkedCalendar, NEW d \in Int, NEW n \in Nat
  PROVE  /\ AddWorkingDays(d, 0) = WorkingDayOnOrAfter(d)
         /\ AddWorkingDays(d, n + 1) = NextWorkingDay(AddWorkingDays(d, n))
         /\ AddWorkingDays(d, n) \in Int
<1>1. PICK on \in [0 .. n -> Int] : Days(d, n, on) /\ AddWorkingDays(d, n) = on[n]
  BY DaysFollow
<1>2. PICK om \in [0 .. n + 1 -> Int] : Days(d, n + 1, om) /\ AddWorkingDays(d, n + 1) = om[n + 1]
  <2>1. n + 1 \in Nat
    OBVIOUS
  <2> QED
    BY <2>1, DaysFollow
<1>3. AddWorkingDays(d, 0) = WorkingDayOnOrAfter(d)
  <2>1. PICK o \in [0 .. 0 -> Int] : Days(d, 0, o) /\ AddWorkingDays(d, 0) = o[0]
    BY DaysFollow
  <2> QED
    BY <2>1 DEF Days
<1> DEFINE K == {k \in Nat : k <= n => on[k] = om[k]}
<1>4. 0 \in K
  BY <1>1, <1>2 DEF Days
<1>5. ASSUME NEW k \in Nat, k \in K
      PROVE  k + 1 \in K
  <2> SUFFICES ASSUME k + 1 <= n PROVE on[k + 1] = om[k + 1]
    OBVIOUS
  <2>1. on[k + 1] = NextWorkingDay(on[k]) /\ om[k + 1] = NextWorkingDay(om[k])
    BY <1>1, <1>2 DEF Days
  <2> QED
    BY <1>5, <2>1
<1>6. Nat \subseteq K
  <2> HIDE DEF K
  <2> QED
    BY <1>4, <1>5, Induction
<1>7. om[n + 1] = NextWorkingDay(om[n])
  BY <1>2 DEF Days
<1> QED
  BY <1>1, <1>2, <1>3, <1>6, <1>7

\* AddWorkingDays gives a working day that is not before the one it starts from.
LEMMA AddIsLater ==
  ASSUME WorkedCalendar, NEW d \in Int, NEW n \in Nat
  PROVE  /\ AddWorkingDays(d, n) \in Int
         /\ AddWorkingDays(d, n) >= d
         /\ IsWorkingDay(AddWorkingDays(d, n))
<1> DEFINE Later(k) == /\ AddWorkingDays(d, k) \in Int
                       /\ AddWorkingDays(d, k) >= d
                       /\ IsWorkingDay(AddWorkingDays(d, k))
           K == {k \in Nat : Later(k)}
<1>1. 0 \in K
  BY AddOne, OnOrAfter
<1>2. ASSUME NEW k \in Nat, k \in K
      PROVE  k + 1 \in K
  <2> DEFINE e == AddWorkingDays(d, k)
  <2>1. e \in Int /\ e >= d
    BY <1>2
  <2>2. AddWorkingDays(d, k + 1) = NextWorkingDay(e)
    BY AddOne
  <2> HIDE DEF e
  <2>3. NextWorkingDay(e) \in Int /\ NextWorkingDay(e) > e /\ IsWorkingDay(NextWorkingDay(e))
    BY <2>1, NextIsLater
  <2> QED
    BY <2>1, <2>2, <2>3
<1>3. Nat \subseteq K
  <2> HIDE DEF K
  <2> QED
    BY <1>1, <1>2, Induction
<1> QED
  BY <1>3

\* Work of the same length that starts later ends no earlier.
LEMMA AddIsMonotone ==
  ASSUME WorkedCalendar, NEW d \in Int, NEW e \in Int, d <= e, NEW n \in Nat
  PROVE  AddWorkingDays(d, n) <= AddWorkingDays(e, n)
<1> DEFINE K == {k \in Nat : AddWorkingDays(d, k) <= AddWorkingDays(e, k)}
<1>1. 0 \in K
  <2>1. WorkingDayOnOrAfter(e) \in Int /\ WorkingDayOnOrAfter(e) >= e /\ IsWorkingDay(WorkingDayOnOrAfter(e))
    BY OnOrAfter
  <2>2. WorkingDayOnOrAfter(d) <= WorkingDayOnOrAfter(e)
    BY <2>1, OnOrAfter
  <2> QED
    BY <2>2, AddOne
<1>2. ASSUME NEW k \in Nat, k \in K
      PROVE  k + 1 \in K
  <2> DEFINE x == AddWorkingDays(d, k)
             y == AddWorkingDays(e, k)
  <2>1. x \in Int /\ y \in Int /\ x <= y
    BY <1>2, AddIsLater
  <2>2. AddWorkingDays(d, k + 1) = NextWorkingDay(x) /\ AddWorkingDays(e, k + 1) = NextWorkingDay(y)
    BY AddOne
  <2> HIDE DEF x, y
  <2>3. NextWorkingDay(y) \in Int /\ NextWorkingDay(y) > y /\ IsWorkingDay(NextWorkingDay(y))
    BY <2>1, NextIsLater
  <2>4. NextWorkingDay(y) > x
    BY <2>1, <2>3
  <2>5. NextWorkingDay(x) <= NextWorkingDay(y)
    BY <2>1, <2>3, <2>4, NextIsLater
  <2> QED
    BY <2>2, <2>5
<1>3. Nat \subseteq K
  <2> HIDE DEF K
  <2> QED
    BY <1>1, <1>2, Induction
<1> QED
  BY <1>3

-----------------------------------------------------------------------------
(* Room among an area's placements. *)

Placements(peers) ==
    IsFiniteSet(peers) /\ \A p \in peers : p.start \in Int /\ p.end \in Int

On(peers, d) == {p \in peers : p.start <= d /\ d <= p.end}

\* What is occupied on a day is a number of placements.
LEMMA OccupiedCounts ==
  ASSUME NEW peers, Placements(peers), NEW d
  PROVE  /\ Occupied(peers, d) = Cardinality(On(peers, d))
         /\ IsFiniteSet(On(peers, d))
         /\ Occupied(peers, d) \in Nat
<1>1. On(peers, d) \in SUBSET peers
  BY DEF On
<1>2. IsFiniteSet(On(peers, d))
  BY <1>1, FS_Subset DEF Placements
<1> QED
  BY <1>2, FS_CardinalityType DEF Occupied, On

\* More placements occupy no less.
LEMMA OccupiedGrows ==
  ASSUME NEW peers, Placements(peers), NEW more, Placements(more), NEW d, NEW e,
         On(peers, d) \subseteq On(more, e)
  PROVE  Occupied(peers, d) <= Occupied(more, e)
BY OccupiedCounts, FS_Subset

\* The days FirstFreeStart tries.
Tried(from, peers) ==
    {from} \cup {NextWorkingDay(p.end) : p \in {q \in peers : q.end >= from}}

\* FirstFreeStart tries finitely many days, none before the first.
LEMMA TriedIsFinite ==
  ASSUME WorkedCalendar, NEW from \in Int, NEW peers, Placements(peers)
  PROVE  /\ Tried(from, peers) \in SUBSET Int
         /\ IsFiniteSet(Tried(from, peers))
         /\ \A t \in Tried(from, peers) : t >= from
<1> DEFINE late == {q \in peers : q.end >= from}
           f == [p \in late |-> NextWorkingDay(p.end)]
           after == {f[p] : p \in late}
<1>1. IsFiniteSet(late)
  BY FS_Subset DEF Placements
<1>2. IsFiniteSet(after)
  <2> HIDE DEF f, late
  <2> QED
    BY <1>1, ImageOfFinite
<1>3. Tried(from, peers) = after \cup {from}
  BY DEF Tried
<1>4. \A p \in late : f[p] \in Int /\ f[p] >= from
  <2> SUFFICES ASSUME NEW p \in late PROVE NextWorkingDay(p.end) \in Int /\ NextWorkingDay(p.end) >= from
    OBVIOUS
  <2>1. p.end \in Int /\ p.end >= from
    BY DEF Placements
  <2>2. NextWorkingDay(p.end) \in Int /\ NextWorkingDay(p.end) > p.end
    BY <2>1, NextIsLater
  <2> QED
    BY <2>1, <2>2
<1>5. IsFiniteSet(after \cup {from})
  <2> HIDE DEF after
  <2> QED
    BY <1>2, FS_AddElement
<1> HIDE DEF f, late
<1> QED
  BY <1>3, <1>4, <1>5

\* Somebody who starts once every peer has ended is in nobody's way.
LEMMA FreeInTheEnd ==
  ASSUME WorkedCalendar, NEW from \in Int, NEW peers, Placements(peers),
         NEW days \in Nat \ {0}, NEW slots \in Nat \ {0}
  PROVE  \E d \in Tried(from, peers) : IsFree(peers, slots, d, days)
<1>1. ASSUME NEW d \in Int, \A p \in peers : p.end < d
      PROVE  IsFree(peers, slots, d, days)
  <2>1. ASSUME NEW e \in Int, e >= d
        PROVE  Occupied(peers, e) = 0
    <3>1. On(peers, e) = {}
      BY <1>1, <2>1 DEF On, Placements
    <3> QED
      BY <3>1, OccupiedCounts, FS_EmptySet
  <2>2. AddWorkingDays(d, days - 1) \in Int
    <3>1. days - 1 \in Nat
      OBVIOUS
    <3> QED
      BY <3>1, AddIsLater
  <2> QED
    BY <2>1, <2>2 DEF IsFree
<1>2. CASE \A p \in peers : p.end < from
  BY <1>1, <1>2 DEF Tried
<1>3. CASE \E p \in peers : ~(p.end < from)
  <2> DEFINE ends == {p.end : p \in peers}
             f == [p \in peers |-> p.end]
             last == Max(ends)
  <2>1. ends \in SUBSET Int /\ ends # {}
    BY <1>3 DEF Placements
  <2>2. IsFiniteSet(ends)
    <3>1. ends = {f[p] : p \in peers}
      OBVIOUS
    <3>2. IsFiniteSet({f[p] : p \in peers})
      <4> HIDE DEF f
      <4> QED
        BY ImageOfFinite DEF Placements
    <3> QED
      BY <3>1, <3>2
  <2>3. last \in ends /\ \A e \in ends : last >= e
    <3> HIDE DEF ends
    <3> QED
      BY <2>1, <2>2, MaxOfFinite
  <2> HIDE DEF last
  <2>4. PICK p \in peers : p.end = last
    BY <2>3
  <2>5. last \in Int /\ last >= from
    BY <1>3, <2>1, <2>3 DEF Placements
  <2> DEFINE d == NextWorkingDay(last)
  <2>6. d \in Int /\ d > last
    BY <2>5, NextIsLater
  <2>7. d \in Tried(from, peers)
    BY <2>4, <2>5 DEF Tried
  <2> HIDE DEF d
  <2>8. \A q \in peers : q.end < d
    BY <2>3, <2>5, <2>6 DEF Placements
  <2> QED
    BY <1>1, <2>6, <2>7, <2>8
<1> QED
  BY <1>2, <1>3

\* Where there is room from a working day on, there is room from the last tried
\* day before it: nobody ends in between.
LEMMA FreeFromTried ==
  ASSUME WorkedCalendar, NEW from \in Int, NEW peers, Placements(peers),
         NEW days \in Nat \ {0}, NEW slots \in Nat \ {0},
         NEW d \in Int, IsWorkingDay(d), IsFree(peers, slots, d, days),
         NEW t \in Tried(from, peers), t <= d,
         \A u \in Tried(from, peers) : u <= d => u <= t
  PROVE  IsFree(peers, slots, t, days)
<1>0. t \in Int /\ t >= from /\ days - 1 \in Nat
  BY TriedIsFinite
<1>1. /\ AddWorkingDays(t, days - 1) \in Int /\ AddWorkingDays(d, days - 1) \in Int
      /\ AddWorkingDays(d, days - 1) >= d
      /\ AddWorkingDays(t, days - 1) <= AddWorkingDays(d, days - 1)
  BY <1>0, AddIsLater, AddIsMonotone
<1>2. \A e \in d .. AddWorkingDays(d, days - 1) : IsWorkingDay(e) => Occupied(peers, e) < slots
  BY DEF IsFree
<1>3. Occupied(peers, d) < slots
  BY <1>1, <1>2
<1>4. ASSUME NEW e \in Int, t <= e, e < d
      PROVE  Occupied(peers, e) < slots
  <2>1. On(peers, e) \subseteq On(peers, d)
    <3> SUFFICES ASSUME NEW p \in peers, p.start <= e, e <= p.end
                 PROVE  p.start <= d /\ d <= p.end
      BY DEF On
    <3>1. p.start \in Int /\ p.end \in Int
      BY DEF Placements
    <3>2. CASE p.end < d
      <4>1. NextWorkingDay(p.end) \in Tried(from, peers)
        BY <1>0, <1>4, <3>1 DEF Tried
      <4>2. NextWorkingDay(p.end) \in Int /\ NextWorkingDay(p.end) > p.end /\ NextWorkingDay(p.end) <= d
        BY <3>1, <3>2, NextIsLater
      <4> QED
        BY <1>0, <1>4, <3>1, <4>1, <4>2
    <3> QED
      BY <1>4, <3>1, <3>2
  <2>2. Occupied(peers, e) <= Occupied(peers, d)
    BY <2>1, OccupiedGrows
  <2>3. Occupied(peers, e) \in Nat /\ Occupied(peers, d) \in Nat
    BY OccupiedCounts
  <2> QED
    BY <1>3, <2>2, <2>3
<1> SUFFICES ASSUME NEW e \in t .. AddWorkingDays(t, days - 1), IsWorkingDay(e)
             PROVE  Occupied(peers, e) < slots
  BY DEF IsFree
<1>5. CASE e < d
  BY <1>0, <1>1, <1>4, <1>5
<1>6. CASE e >= d
  BY <1>0, <1>1, <1>2, <1>6
<1> QED
  BY <1>0, <1>1, <1>5, <1>6

\* FirstFreeStart: room for the whole span, from the first working day on or after
\* the day asked for that has it.
LEMMA FirstFree ==
  ASSUME WorkedCalendar, NEW from \in Int, NEW peers, Placements(peers),
         NEW days \in Nat \ {0}, NEW slots \in Nat \ {0}, NEW s,
         s = FirstFreeStart(from, days, slots, peers)
  PROVE  /\ s \in Int /\ s >= from
         /\ IsFree(peers, slots, s, days)
         /\ s = from \/ \E p \in peers : s = NextWorkingDay(p.end)
         /\ \A d \in Int : from <= d /\ d < s /\ IsWorkingDay(d) => ~IsFree(peers, slots, d, days)
<1> DEFINE tried == Tried(from, peers)
           free == {d \in tried : IsFree(peers, slots, d, days)}
<1>1. tried \in SUBSET Int /\ IsFiniteSet(tried) /\ \A t \in tried : t >= from
  BY TriedIsFinite
<1>2. free # {}
  BY FreeInTheEnd
<1>3. s = Min(free)
  BY DEF FirstFreeStart, Tried
<1>4. s \in free /\ \A d \in free : s <= d
  <2>1. free \in SUBSET Int /\ IsFiniteSet(free)
    BY <1>1, FS_Subset
  <2> HIDE DEF free
  <2> QED
    BY <1>2, <1>3, <2>1, MinOfFinite
<1>5. s = from \/ \E p \in peers : s = NextWorkingDay(p.end)
  BY <1>4 DEF Tried
<1>6. ASSUME NEW d \in Int, from <= d, d < s, IsWorkingDay(d), IsFree(peers, slots, d, days)
      PROVE  FALSE
  <2> DEFINE past == {u \in tried : u <= d}
             t == Max(past)
  <2>1. past \in SUBSET Int /\ IsFiniteSet(past) /\ past # {}
    <3>1. from \in past
      BY <1>6 DEF Tried
    <3> QED
      BY <1>1, <3>1, FS_Subset
  <2>2. t \in past /\ \A u \in past : t >= u
    <3> HIDE DEF past
    <3> QED
      BY <2>1, MaxOfFinite
  <2> HIDE DEF t
  <2>3. t \in tried /\ t <= d /\ \A u \in tried : u <= d => u <= t
    BY <1>1, <2>1, <2>2
  <2>4. IsFree(peers, slots, t, days)
    BY <1>6, <2>3, FreeFromTried
  <2>5. s <= t
    BY <1>4, <2>3, <2>4
  <2> QED
    BY <1>1, <1>4, <1>6, <2>3, <2>5
<1> QED
  BY <1>1, <1>4, <1>5, <1>6

-----------------------------------------------------------------------------
(* The forward pass. *)

\* A board that can be scheduled: its ids are numbers, its fields are what they
\* are used as, and every area has a slot.
Schedulable(b, slots) ==
    /\ DOMAIN b \in SUBSET Int /\ IsFiniteSet(DOMAIN b)
    /\ \A i \in DOMAIN b :
          /\ b[i].size \in DOMAIN DurationDays
          /\ b[i].start = NoDate \/ b[i].start \in Int
          /\ slots[b[i].area] \in Nat \ {0}

\* What is placed so far, and the placement after k of them.
Placement(p, i) ==
    /\ p.id = i
    /\ p.ready \in Int /\ p.start \in Int /\ p.end \in Int
    /\ p.ready <= p.start /\ p.start <= p.end

Nothing == [order |-> <<>>, at |-> <<>>]

Ready(b, at) == {i \in Open(b) \ DOMAIN at : Predecessors(b, i) \subseteq DOMAIN at}

Chosen(b, today_, at, pinned) ==
    LET day == [i \in Ready(b, at) |-> ReadyDay(b, today_, at, i).day]
    IN CHOOSE x \in Ready(b, at) : \A y \in Ready(b, at) \ {x} : Before(pinned, day, x, y)

Onward(b, today_, slots, pinned, so) ==
    LET i == Chosen(b, today_, so.at, pinned)
    IN [order |-> Append(so.order, i), at |-> With(so.at, i, Placed(b, today_, slots, so.at, i))]

\* The states a forward pass goes through.
Passes(b, today_, slots, pinned, pass) ==
    /\ DOMAIN pass = 0 .. Cardinality(Open(b))
    /\ pass[0] = Nothing
    /\ \A k \in 1 .. Cardinality(Open(b)) : pass[k] = Onward(b, today_, slots, pinned, pass[k - 1])

\* A finite board has finitely many open initiatives.
LEMMA OpenIsFinite ==
  ASSUME NEW b, IsFiniteSet(DOMAIN b)
  PROVE  IsFiniteSet(Open(b)) /\ Cardinality(Open(b)) \in Nat
BY FS_Subset, FS_CardinalityType DEF Open

\* What Forward defines by recursion exists, and Forward is where it ends.
LEMMA ForwardPasses ==
  ASSUME NEW b, IsFiniteSet(DOMAIN b), NEW today_, NEW slots, NEW pinned
  PROVE  \E pass : /\ Passes(b, today_, slots, pinned, pass)
                   /\ Forward(b, today_, slots, pinned) = pass[Cardinality(Open(b))]
<1> DEFINE n == Cardinality(Open(b))
           On1(so) == Onward(b, today_, slots, pinned, so)
           Eq(pass) == pass = [k \in 0 .. n |-> IF k = 0 THEN Nothing ELSE On1(pass[k - 1])]
           Is(g, m) == /\ g = [k \in 0 .. m |-> g[k]]
                       /\ g[0] = Nothing
                       /\ \A k \in 1 .. m : g[k] = On1(g[k - 1])
           K == {m \in Nat : \E g : Is(g, m)}
<1>1. n \in Nat
  BY OpenIsFinite
<1>2. 0 \in K
  <2>1. Is([k \in 0 .. 0 |-> Nothing], 0)
    <3> HIDE DEF On1
    <3> QED
      OBVIOUS
  <2> QED
    BY <2>1
<1>3. ASSUME NEW m \in Nat, m \in K
      PROVE  m + 1 \in K
  <2>1. PICK g : Is(g, m)
    BY <1>3
  <2> DEFINE h == [k \in 0 .. m + 1 |-> IF k = m + 1 THEN On1(g[m]) ELSE g[k]]
  <2>2. Is(h, m + 1)
    <3> HIDE DEF On1
    <3>1. h = [k \in 0 .. m + 1 |-> h[k]] /\ h[0] = Nothing
      BY <2>1
    <3>2. ASSUME NEW k \in 1 .. m + 1
          PROVE  h[k] = On1(h[k - 1])
      <4>1. k \in 0 .. m + 1 /\ k - 1 \in 0 .. m + 1 /\ k - 1 # m + 1
        OBVIOUS
      <4>2. h[k - 1] = g[k - 1]
        BY <4>1
      <4>3. CASE k = m + 1
        <5>1. h[k] = On1(g[m])
          BY <4>1, <4>3
        <5>2. k - 1 = m
          BY <4>3
        <5> QED
          BY <4>2, <5>1, <5>2
      <4>4. CASE k # m + 1
        <5>1. k \in 1 .. m /\ h[k] = g[k]
          BY <4>1, <4>4
        <5> QED
          BY <2>1, <4>2, <5>1
      <4> QED
        BY <4>3, <4>4
    <3> QED
      BY <3>1, <3>2
  <2> HIDE DEF h, Is
  <2> QED
    BY <2>2
<1>4. n \in K
  <2> HIDE DEF K, n
  <2> QED
    BY <1>1, <1>2, <1>3, Induction
<1>5. PICK g : Is(g, n)
  BY <1>4
<1>6. Eq(g)
  <2> HIDE DEF On1, n
  <2>1. \A k \in 0 .. n : g[k] = IF k = 0 THEN Nothing ELSE On1(g[k - 1])
    <3> SUFFICES ASSUME NEW k \in 0 .. n PROVE g[k] = IF k = 0 THEN Nothing ELSE On1(g[k - 1])
      OBVIOUS
    <3>1. CASE k = 0
      BY <1>5, <3>1
    <3>2. CASE k # 0
      <4>1. k \in 1 .. n
        BY <1>1, <3>2
      <4>2. g[k] = On1(g[k - 1])
        BY <1>5, <4>1
      <4> QED
        BY <3>2, <4>2
    <3> QED
      BY <3>1, <3>2
  <2>2. g = [k \in 0 .. n |-> g[k]]
    BY <1>5
  <2> QED
    BY <2>1, <2>2
<1>7. Eq(CHOOSE pass : Eq(pass))
  BY <1>6, Zenon
<1>8. Forward(b, today_, slots, pinned) = (CHOOSE pass : Eq(pass))[n]
  BY DEF Forward, Onward, Chosen, Ready, Nothing
<1>9. PICK pass : pass = (CHOOSE o : Eq(o))
  OBVIOUS
<1>10. Eq(pass) /\ Forward(b, today_, slots, pinned) = pass[n]
  BY <1>7, <1>8, <1>9
<1>11. Passes(b, today_, slots, pinned, pass)
  <2> HIDE DEF On1, n
  <2>1. /\ DOMAIN pass = 0 .. n /\ pass[0] = Nothing
        /\ \A k \in 1 .. n : pass[k] = On1(pass[k - 1])
    BY <1>1, <1>10
  <2> QED
    BY <2>1 DEF Passes, On1, n
<1> QED
  BY <1>10, <1>11

-----------------------------------------------------------------------------
(* One placement. *)

\* The latest of the days the constraints allow, and what allows no earlier one.
LEMMA ReadyDayIs ==
  ASSUME WorkedCalendar, NEW b, NEW slots, Schedulable(b, slots), NEW today_ \in Int, NEW at,
         NEW i \in Open(b), \A p \in Predecessors(b, i) : at[p].end \in Int,
         NEW r, r = ReadyDay(b, today_, at, i)
  PROVE  /\ r.day \in Int
         /\ IsWorkingDay(r.day)
         /\ r.day >= WorkingDayOnOrAfter(today_)
         /\ b[i].start # NoDate => r.day >= WorkingDayOnOrAfter(b[i].start)
         /\ \A p \in Predecessors(b, i) : r.day >= NextWorkingDay(at[p].end)
         /\ \/ r.day = WorkingDayOnOrAfter(today_)
            \/ b[i].start # NoDate /\ r.day = WorkingDayOnOrAfter(b[i].start)
            \/ \E p \in Predecessors(b, i) : r.day = NextWorkingDay(at[p].end)
         /\ r.by = {p \in Predecessors(b, i) : NextWorkingDay(at[p].end) = r.day}
         /\ r.by # {} => r.boundBy = "dependency"
<1> DEFINE base == WorkingDayOnOrAfter(today_)
           floor == IF b[i].start = NoDate THEN base - 1 ELSE WorkingDayOnOrAfter(b[i].start)
           P == Predecessors(b, i)
           resume == [p \in P |-> NextWorkingDay(at[p].end)]
           after == {resume[p] : p \in P}
           all == {base, floor} \cup after
           day == Max(all)
<1>1. base \in Int /\ IsWorkingDay(base)
  BY OnOrAfter
<1>2. floor \in Int /\ (b[i].start # NoDate => IsWorkingDay(floor))
  <2>1. CASE b[i].start = NoDate
    BY <1>1, <2>1
  <2>2. CASE b[i].start # NoDate
    <3>1. b[i].start \in Int
      BY <2>2 DEF Schedulable, Open
    <3> QED
      BY <2>2, <3>1, OnOrAfter
  <2> QED
    BY <2>1, <2>2
<1>3. \A p \in P : resume[p] \in Int /\ IsWorkingDay(resume[p])
  BY NextIsLater
<1>4. IsFiniteSet(P)
  BY OpenIsFinite, FS_Subset DEF Predecessors, Schedulable
<1>5. all \in SUBSET Int /\ IsFiniteSet(all) /\ all # {}
  <2>1. IsFiniteSet(after)
    <3> HIDE DEF P, resume
    <3> QED
      BY <1>4, ImageOfFinite
  <2>2. IsFiniteSet(after \cup {base})
    <3> HIDE DEF after
    <3> QED
      BY <2>1, FS_AddElement
  <2>3. IsFiniteSet((after \cup {base}) \cup {floor})
    <3> HIDE DEF after, base, floor
    <3> QED
      BY <2>2, FS_AddElement
  <2>4. all = (after \cup {base}) \cup {floor}
    OBVIOUS
  <2>5. all \in SUBSET Int
    <3> HIDE DEF base, floor, resume
    <3> QED
      BY <1>1, <1>2, <1>3
  <2>6. IsFiniteSet(all)
    BY <2>3, <2>4
  <2> HIDE DEF after, base, floor
  <2> QED
    BY <2>5, <2>6
<1>6. day \in all /\ \A d \in all : day >= d
  <2> HIDE DEF all
  <2> QED
    BY <1>5, MaxOfFinite
<1>7. /\ r.day = day
      /\ r.by = {p \in P : resume[p] = day}
      /\ r.by # {} => r.boundBy = "dependency"
  <2>1. Range(resume) = after
    BY DEF Range
  <2> QED
    BY <2>1 DEF ReadyDay
<1> HIDE DEF day
<1>8. day \in Int /\ day >= base /\ day >= floor /\ \A p \in P : day >= resume[p]
  BY <1>5, <1>6
<1>9. day = base \/ day = floor \/ \E p \in P : day = resume[p]
  BY <1>6
<1>10. b[i].start = NoDate => day # floor
  BY <1>1, <1>8
<1>11. IsWorkingDay(day)
  BY <1>1, <1>2, <1>3, <1>9, <1>10
<1>12. \A p \in P : resume[p] = NextWorkingDay(at[p].end)
  OBVIOUS
<1> HIDE DEF resume, base
<1> QED
  BY <1>7, <1>8, <1>9, <1>10, <1>11, <1>12 DEF base

\* The placements made so far, by initiative.
Placing(at) == IsFiniteSet(DOMAIN at) /\ \A j \in DOMAIN at : Placement(at[j], j)

\* The placements of one area are placements.
LEMMA PeersArePlacements ==
  ASSUME NEW b, NEW at, Placing(at), NEW i
  PROVE  Placements(Peers(b, at, i))
<1> DEFINE J == {k \in DOMAIN at : b[k].area = b[i].area}
<1>1. IsFiniteSet(J)
  BY FS_Subset DEF Placing
<1>2. IsFiniteSet({at[j] : j \in J})
  <2> HIDE DEF J
  <2> QED
    BY <1>1, ImageOfFinite
<1> QED
  BY <1>2 DEF Peers, Placements, Placing, Placement

\* Where an initiative is placed: on the first working day, from its ready day on, with
\* a slot for all of it, as long as it takes, and said to be bound by capacity if that
\* is later than it was ready.
LEMMA PlacedIs ==
  ASSUME WorkedCalendar, NEW b, NEW slots, Schedulable(b, slots), NEW today_ \in Int,
         NEW at, Placing(at), NEW i \in Open(b), Predecessors(b, i) \subseteq DOMAIN at,
         NEW p, p = Placed(b, today_, slots, at, i)
  PROVE  /\ Placement(p, i)
         /\ p.ready = ReadyDay(b, today_, at, i).day
         /\ IsWorkingDay(p.start)
         /\ p.end = AddWorkingDays(p.start, DurationDays[b[i].size] - 1)
         /\ IsFree(Peers(b, at, i), slots[b[i].area], p.start, DurationDays[b[i].size])
         /\ \A d \in Int : p.ready <= d /\ d < p.start /\ IsWorkingDay(d) =>
               ~IsFree(Peers(b, at, i), slots[b[i].area], d, DurationDays[b[i].size])
         /\ p.start > p.ready =>
               /\ p.boundBy = "capacity"
               /\ p.by = {q.id : q \in {u \in Peers(b, at, i) : NextWorkingDay(u.end) = p.start}}
               /\ \E q \in Peers(b, at, i) : NextWorkingDay(q.end) = p.start
         /\ ~(p.start > p.ready) => /\ p.start = p.ready
                                    /\ p.boundBy = ReadyDay(b, today_, at, i).boundBy
                                    /\ p.by = ReadyDay(b, today_, at, i).by
<1> DEFINE r == ReadyDay(b, today_, at, i)
           days == DurationDays[b[i].size]
           peers == Peers(b, at, i)
           own == slots[b[i].area]
           start == FirstFreeStart(r.day, days, own, peers)
           end == AddWorkingDays(start, days - 1)
<1>1. days \in Nat \ {0} /\ own \in Nat \ {0}
  BY DurationAssumption DEF Schedulable, Open
<1>2. Placements(peers)
  BY PeersArePlacements
<1>3. \A j \in Predecessors(b, i) : at[j].end \in Int
  BY DEF Placing, Placement
<1>4. r.day \in Int /\ IsWorkingDay(r.day)
  <2> HIDE DEF r
  <2>1. r = ReadyDay(b, today_, at, i)
    BY DEF r
  <2> QED
    BY <1>3, <2>1, ReadyDayIs
<1> HIDE DEF r, days, own, peers
<1>5. /\ start \in Int /\ start >= r.day
      /\ IsFree(peers, own, start, days)
      /\ start = r.day \/ \E q \in peers : start = NextWorkingDay(q.end)
      /\ \A d \in Int : r.day <= d /\ d < start /\ IsWorkingDay(d) => ~IsFree(peers, own, d, days)
  BY <1>1, <1>2, <1>4, FirstFree
<1>6. /\ p.id = i /\ p.ready = r.day /\ p.start = start /\ p.end = end
      /\ start > r.day =>
            /\ p.boundBy = "capacity"
            /\ p.by = {q.id : q \in {u \in peers : NextWorkingDay(u.end) = start}}
      /\ ~(start > r.day) => p.boundBy = r.boundBy /\ p.by = r.by
  BY DEF Placed, r, days, peers, own
<1> HIDE DEF start
<1>7. end \in Int /\ end >= start
  <2>1. days - 1 \in Nat
    BY <1>1
  <2> QED
    BY <1>5, <2>1, AddIsLater
<1>8. IsWorkingDay(start)
  <2>1. \A q \in peers : IsWorkingDay(NextWorkingDay(q.end))
    BY <1>2, NextIsLater DEF Placements
  <2> QED
    BY <1>4, <1>5, <2>1
<1>9. Placement(p, i)
  BY <1>4, <1>5, <1>6, <1>7 DEF Placement
<1>10. start > r.day => \E q \in peers : NextWorkingDay(q.end) = start
  BY <1>4, <1>5
<1>11. ~(start > r.day) => start = r.day
  BY <1>4, <1>5
<1> QED
  BY <1>5, <1>6, <1>8, <1>9, <1>10, <1>11 DEF r, days, peers, own

-----------------------------------------------------------------------------
(* What is placed next. *)

\* While a board without cycles has something unplaced, something can be placed,
\* and Before puts one of them first.
LEMMA ChosenIsReady ==
  ASSUME WorkedCalendar, NEW b, NEW slots, Schedulable(b, slots), Acyclic(b),
         NEW today_ \in Int, NEW at, Placing(at), NEW pinned,
         DOMAIN at \subseteq Open(b), DOMAIN at # Open(b),
         NEW i, i = Chosen(b, today_, at, pinned)
  PROVE  /\ i \in Ready(b, at)
         /\ \A y \in Ready(b, at) \ {i} :
               Before(pinned, [x \in Ready(b, at) |-> ReadyDay(b, today_, at, x).day], i, y)
<1> DEFINE all == Ready(b, at)
           day == [x \in all |-> ReadyDay(b, today_, at, x).day]
           R == {p \in all \X all : Before(pinned, day, p[1], p[2])}
<1>1. all \in SUBSET Open(b) /\ Open(b) \in SUBSET DOMAIN b /\ DOMAIN b \in SUBSET Int
  BY DEF Ready, Open, Schedulable
<1>2. all # {}
  <2>1. PICK i0 \in Open(b) \ DOMAIN at : b[i0].deps \cap (Open(b) \ DOMAIN at) = {}
    BY <1>1 DEF Acyclic
  <2>2. i0 \in all
    BY <2>1 DEF Ready, Predecessors
  <2> QED
    BY <2>2
<1>3. IsFiniteSet(all)
  BY <1>1, OpenIsFinite, FS_Subset DEF Schedulable
<1>4. \A x \in all : day[x] \in Int /\ x \in Int
  <2> SUFFICES ASSUME NEW x \in all PROVE ReadyDay(b, today_, at, x).day \in Int /\ x \in Int
    OBVIOUS
  <2>1. x \in Open(b) /\ x \in Int /\ \A p \in Predecessors(b, x) : at[p].end \in Int
    BY <1>1 DEF Ready, Placing, Placement
  <2>2. PICK r : r = ReadyDay(b, today_, at, x)
    OBVIOUS
  <2>3. r.day \in Int
    BY <2>1, <2>2, ReadyDayIs
  <2> QED
    BY <2>1, <2>2, <2>3
<1> HIDE DEF day, all
<1>5. \A x, y \in all : <<x, y>> \in R <=> Before(pinned, day, x, y)
  OBVIOUS
<1> HIDE DEF R
<1>6. Orders(R, all)
  <2>1. \A x, y \in all : x = y \/ Before(pinned, day, x, y) \/ Before(pinned, day, y, x)
    BY <1>4 DEF Before, Sooner
  <2>2. \A x, y, z \in all : Before(pinned, day, x, y) /\ Before(pinned, day, y, z)
                               => Before(pinned, day, x, z)
    BY <1>4 DEF Before, Sooner
  <2> QED
    BY <1>5, <2>1, <2>2 DEF Orders
<1>7. PICK x \in all : Foremost(R, all, x)
  BY <1>2, <1>3, <1>6, LeastOfFinite
<1>8. \E z \in all : \A y \in all \ {z} : Before(pinned, day, z, y)
  BY <1>5, <1>7 DEF Foremost
<1>9. i = CHOOSE z \in all : \A y \in all \ {z} : Before(pinned, day, z, y)
  BY DEF Chosen, all, day
<1>10. i \in all /\ \A y \in all \ {i} : Before(pinned, day, i, y)
  BY <1>8, <1>9
<1> QED
  BY <1>10 DEF all, day

-----------------------------------------------------------------------------
(* The pass. *)

Earlier(so, k) == {so.at[j] : j \in {so.order[m] : m \in 1 .. k - 1}}

Room(b, slots, at) ==
    \A i \in Open(b), d \in Int :
       IsWorkingDay(d) => Occupied(Peers(b, at, i), d) <= slots[b[i].area]

\* The k-th placement is where what was placed before it leaves it.
Justified(b, slots, so, k) ==
    LET i == so.order[k]
        peers == {p \in Earlier(so, k) : b[p.id].area = b[i].area}
    IN /\ \A d \in so.at[i].ready .. so.at[i].start - 1 :
             IsWorkingDay(d) => ~IsFree(peers, slots[b[i].area], d, DurationDays[b[i].size])
       /\ \A j \in Predecessors(b, i) : so.at[j].end < so.at[i].start
       /\ b[i].start # NoDate => so.at[i].start >= b[i].start

\* The pass after k placements.
PlacedSoFar(b, slots, so, k) ==
    /\ so.order \in Seq(Open(b)) /\ Len(so.order) = k
    /\ DOMAIN so.at = {so.order[m] : m \in 1 .. k}
    /\ Placing(so.at) /\ Cardinality(DOMAIN so.at) = k
    /\ \A i \in DOMAIN so.at :
          /\ Predecessors(b, i) \subseteq DOMAIN so.at
          /\ so.at[i].end = AddWorkingDays(so.at[i].start, DurationDays[b[i].size] - 1)
    /\ Room(b, slots, so.at)
    /\ \A m \in 1 .. k : Justified(b, slots, so, m)

\* A placement that fits beside those made.
Fitting(b, slots, at, i, p) ==
    /\ i \notin DOMAIN at /\ Placement(p, i)
    /\ \E n \in Nat \ {0} : /\ p.end = AddWorkingDays(p.start, n - 1)
                            /\ IsFree(Peers(b, at, i), slots[b[i].area], p.start, n)

HasSlots(b, slots) == \A j \in Open(b) : slots[b[j].area] \in Nat

\* One more placement takes a slot that was free on every day it spans.
LEMMA RoomStays ==
  ASSUME NEW b, NEW slots, NEW at, Placing(at), Room(b, slots, at),
         NEW i, NEW p, Fitting(b, slots, at, i, p), HasSlots(b, slots),
         NEW more, more = With(at, i, p)
  PROVE  Placing(more) /\ Room(b, slots, more)
<1>0. PICK n \in Nat \ {0} : /\ p.end = AddWorkingDays(p.start, n - 1)
                            /\ IsFree(Peers(b, at, i), slots[b[i].area], p.start, n)
  BY DEF Fitting
<1>1. /\ DOMAIN more = DOMAIN at \cup {i}
      /\ more[i] = p
      /\ \A j \in DOMAIN at : more[j] = at[j]
      /\ Placement(p, i)
  BY DEF With, Fitting
<1>2. Placing(more)
  <2>1. IsFiniteSet(DOMAIN at \cup {i})
    BY FS_AddElement DEF Placing
  <2> QED
    BY <1>1, <2>1 DEF Placing
<1>3. ASSUME NEW j \in Open(b), NEW d \in Int, IsWorkingDay(d)
      PROVE  Occupied(Peers(b, more, j), d) <= slots[b[j].area]
  <2> DEFINE old == Peers(b, at, j)
             new == Peers(b, more, j)
  <2>1. Placements(old) /\ Placements(new)
    BY <1>2, PeersArePlacements
  <2>2. Occupied(old, d) <= slots[b[j].area]
    BY <1>3 DEF Room
  <2>3. new = IF b[i].area = b[j].area THEN old \cup {p} ELSE old
    <3>1. {k \in DOMAIN more : b[k].area = b[j].area}
            = IF b[i].area = b[j].area THEN {k \in DOMAIN at : b[k].area = b[j].area} \cup {i}
              ELSE {k \in DOMAIN at : b[k].area = b[j].area}
      BY <1>1
    <3> QED
      BY <1>1, <3>1 DEF Peers
  <2>4. CASE b[i].area = b[j].area /\ p.start <= d /\ d <= p.end
    <3>1. old = Peers(b, at, i) /\ slots[b[j].area] = slots[b[i].area]
      BY <2>4 DEF Peers
    <3>2. Occupied(old, d) < slots[b[j].area]
      BY <1>0, <1>1, <1>3, <2>4, <3>1 DEF IsFree, Placement
    <3>3. On(new, d) = On(old, d) \cup {p}
      BY <2>3, <2>4 DEF On
    <3>4. IsFiniteSet(On(old, d)) /\ Cardinality(On(old, d)) = Occupied(old, d) /\ Occupied(old, d) \in Nat
      BY <2>1, OccupiedCounts
    <3>5. Occupied(new, d) = Cardinality(On(new, d))
      BY <2>1, OccupiedCounts
    <3>6. Cardinality(On(old, d) \cup {p}) = Cardinality(On(old, d))
          \/ Cardinality(On(old, d) \cup {p}) = Cardinality(On(old, d)) + 1
      BY <3>4, FS_AddElement
    <3>7. Occupied(new, d) = Occupied(old, d) \/ Occupied(new, d) = Occupied(old, d) + 1
      BY <3>3, <3>4, <3>5, <3>6, Zenon
    <3>8. Occupied(new, d) \in Nat /\ slots[b[j].area] \in Nat
      BY <2>1, OccupiedCounts DEF HasSlots
    <3>9. \A x, y, z \in Nat : x < z /\ (y = x \/ y = x + 1) => y <= z
      OBVIOUS
    <3> HIDE DEF old, new
    <3>10. Occupied(new, d) <= slots[b[j].area]
      BY <3>2, <3>4, <3>7, <3>8, <3>9
    <3> QED
      BY <3>10 DEF new
  <2>5. CASE ~(b[i].area = b[j].area /\ p.start <= d /\ d <= p.end)
    <3>1. On(new, d) = On(old, d)
      BY <2>3, <2>5 DEF On
    <3> QED
      BY <2>1, <2>2, <3>1, OccupiedCounts
  <2> QED
    BY <2>4, <2>5
<1> QED
  BY <1>2, <1>3 DEF Room

\* What was said of a placement stays said of it as others follow.
LEMMA StaysJustified ==
  ASSUME NEW b, NEW slots, NEW so, NEW k \in Nat, PlacedSoFar(b, slots, so, k),
         NEW on, NEW i, i \notin DOMAIN so.at,
         on.order = Append(so.order, i), \A j \in DOMAIN so.at : on.at[j] = so.at[j],
         NEW m \in 1 .. k
  PROVE  Justified(b, slots, on, m)
<1>1. so.order \in Seq(Open(b)) /\ Len(so.order) = k
  BY DEF PlacedSoFar
<1>2. \A l \in 1 .. k : on.order[l] = so.order[l] /\ so.order[l] \in DOMAIN so.at
  <2>1. \A l \in 1 .. k : so.order[l] \in DOMAIN so.at
    BY DEF PlacedSoFar
  <2>2. \A l \in 1 .. k : Append(so.order, i)[l] = so.order[l]
    BY <1>1
  <2> QED
    BY <2>1, <2>2
<1>3. Earlier(on, m) = Earlier(so, m)
  <2>1. \A l \in 1 .. m - 1 : l \in 1 .. k
    OBVIOUS
  <2>2. {on.order[l] : l \in 1 .. m - 1} = {so.order[l] : l \in 1 .. m - 1}
    BY <1>2, <2>1
  <2>3. \A j \in {so.order[l] : l \in 1 .. m - 1} : on.at[j] = so.at[j]
    BY <1>2, <2>1
  <2> QED
    BY <2>2, <2>3 DEF Earlier
<1>4. on.order[m] = so.order[m] /\ on.at[so.order[m]] = so.at[so.order[m]]
  BY <1>2
<1>5. \A j \in Predecessors(b, so.order[m]) : on.at[j] = so.at[j]
  BY <1>2 DEF PlacedSoFar
<1>6. Justified(b, slots, so, m)
  BY DEF PlacedSoFar
<1> QED
  BY <1>3, <1>4, <1>5, <1>6 DEF Justified

\* One more initiative placed keeps every placement so far fitting and justified.
LEMMA OnwardFits ==
  ASSUME WorkedCalendar, NEW b, NEW slots, Schedulable(b, slots), Acyclic(b),
         NEW today_ \in Int, NEW pinned, NEW so, NEW k \in Nat, PlacedSoFar(b, slots, so, k),
         k < Cardinality(Open(b)), NEW on, on = Onward(b, today_, slots, pinned, so)
  PROVE  PlacedSoFar(b, slots, on, k + 1)
<1> DEFINE at == so.at
<1>1. PICK i : i = Chosen(b, today_, at, pinned)
  OBVIOUS
<1>2. PICK p : p = Placed(b, today_, slots, at, i)
  OBVIOUS
<1>3. on.order = Append(so.order, i) /\ on.at = With(at, i, p)
  BY <1>1, <1>2 DEF Onward
<1>4. /\ so.order \in Seq(Open(b)) /\ Len(so.order) = k
      /\ DOMAIN at = {so.order[m] : m \in 1 .. k}
      /\ Placing(at) /\ Cardinality(DOMAIN at) = k
      /\ \A j \in DOMAIN at :
            /\ Predecessors(b, j) \subseteq DOMAIN at
            /\ at[j].end = AddWorkingDays(at[j].start, DurationDays[b[j].size] - 1)
      /\ Room(b, slots, at)
      /\ \A m \in 1 .. k : Justified(b, slots, so, m)
  BY DEF PlacedSoFar
<1>5. DOMAIN at \subseteq Open(b) /\ DOMAIN at # Open(b)
  <2>1. \A m \in 1 .. k : so.order[m] \in Open(b)
    BY <1>4
  <2>2. Cardinality(DOMAIN at) # Cardinality(Open(b))
    <3>1. Cardinality(Open(b)) \in Nat
      BY OpenIsFinite DEF Schedulable
    <3> QED
      BY <1>4, <3>1
  <2> QED
    BY <1>4, <2>1, <2>2
<1>6. i \in Ready(b, at)
  <2> HIDE DEF at
  <2> QED
    BY <1>1, <1>4, <1>5, ChosenIsReady
<1>7. i \in Open(b) /\ i \notin DOMAIN at /\ Predecessors(b, i) \subseteq DOMAIN at
  BY <1>6 DEF Ready
<1>8. /\ Placement(p, i)
      /\ p.ready = ReadyDay(b, today_, at, i).day
      /\ p.end = AddWorkingDays(p.start, DurationDays[b[i].size] - 1)
      /\ IsFree(Peers(b, at, i), slots[b[i].area], p.start, DurationDays[b[i].size])
      /\ \A d \in Int : p.ready <= d /\ d < p.start /\ IsWorkingDay(d) =>
            ~IsFree(Peers(b, at, i), slots[b[i].area], d, DurationDays[b[i].size])
  <2> HIDE DEF at
  <2> QED
    BY <1>2, <1>4, <1>7, PlacedIs
<1>9. DurationDays[b[i].size] \in Nat \ {0} /\ \A j \in Open(b) : slots[b[j].area] \in Nat
  BY <1>7, DurationAssumption DEF Schedulable, Open
<1>10. /\ DOMAIN on.at = DOMAIN at \cup {i}
       /\ on.at[i] = p
       /\ \A j \in DOMAIN at : on.at[j] = at[j]
       /\ Placing(on.at)
       /\ Room(b, slots, on.at)
  <2>1. Fitting(b, slots, at, i, p) /\ HasSlots(b, slots)
    BY <1>7, <1>8, <1>9 DEF Fitting, HasSlots
  <2>2. PICK more : more = on.at
    OBVIOUS
  <2>3. more = With(at, i, p)
    BY <1>3, <2>2
  <2>4. Placing(at) /\ Room(b, slots, at)
    BY <1>4
  <2>5. /\ DOMAIN more = DOMAIN at \cup {i}
        /\ more[i] = p
        /\ \A j \in DOMAIN at : more[j] = at[j]
    BY <1>7, <2>3 DEF With
  <2> HIDE DEF at
  <2>6. Placing(more) /\ Room(b, slots, more)
    BY <2>1, <2>3, <2>4, RoomStays, Zenon
  <2> QED
    BY <2>2, <2>5, <2>6
<1>11. on.order \in Seq(Open(b)) /\ Len(on.order) = k + 1 /\ on.order[k + 1] = i
       /\ \A m \in 1 .. k : on.order[m] = so.order[m]
  <2>1. Append(so.order, i) \in Seq(Open(b)) /\ Len(Append(so.order, i)) = k + 1
        /\ Append(so.order, i)[k + 1] = i /\ \A m \in 1 .. k : Append(so.order, i)[m] = so.order[m]
    BY <1>4, <1>7
  <2> QED
    BY <1>3, <2>1
<1>12. DOMAIN on.at = {on.order[m] : m \in 1 .. k + 1}
  <2>1. {on.order[m] : m \in 1 .. k + 1} = {so.order[m] : m \in 1 .. k} \cup {i}
    <3>1. \A m \in 1 .. k + 1 : m = k + 1 \/ m \in 1 .. k
      OBVIOUS
    <3>2. \A m \in 1 .. k : m \in 1 .. k + 1
      OBVIOUS
    <3>3. k + 1 \in 1 .. k + 1
      OBVIOUS
    <3> QED
      BY <1>11, <3>1, <3>2, <3>3
  <2> QED
    BY <1>4, <1>10, <2>1
<1>13. Cardinality(DOMAIN on.at) = k + 1
  <2>1. IsFiniteSet(DOMAIN at)
    BY <1>4 DEF Placing
  <2>2. Cardinality(DOMAIN at \cup {i}) = Cardinality(DOMAIN at) + 1
    BY <1>7, <2>1, FS_AddElement
  <2> QED
    BY <1>4, <1>10, <2>2
<1>14. \A j \in DOMAIN on.at :
          /\ Predecessors(b, j) \subseteq DOMAIN on.at
          /\ on.at[j].end = AddWorkingDays(on.at[j].start, DurationDays[b[j].size] - 1)
  BY <1>4, <1>7, <1>8, <1>10
<1>15. Justified(b, slots, on, k + 1)
  <2>1. {on.order[m] : m \in 1 .. (k + 1) - 1} = DOMAIN at
    <3>1. (k + 1) - 1 = k
      OBVIOUS
    <3>2. DOMAIN at = {so.order[m] : m \in 1 .. k}
      BY <1>4
    <3> HIDE DEF at
    <3> QED
      BY <1>11, <3>1, <3>2
  <2>2. Earlier(on, k + 1) = {at[j] : j \in DOMAIN at}
    BY <1>10, <2>1 DEF Earlier
  <2>3. {q \in Earlier(on, k + 1) : b[q.id].area = b[i].area} = Peers(b, at, i)
    BY <1>4, <2>2 DEF Peers, Placing, Placement
  <2>4. \A d \in p.ready .. p.start - 1 : IsWorkingDay(d) =>
           ~IsFree(Peers(b, at, i), slots[b[i].area], d, DurationDays[b[i].size])
    BY <1>8 DEF Placement
  <2>5. PICK r : r = ReadyDay(b, today_, at, i)
    OBVIOUS
  <2>6. \A j \in Predecessors(b, i) : at[j].end \in Int
    BY <1>4, <1>7 DEF Placing, Placement
  <2>7. /\ r.day \in Int
        /\ b[i].start # NoDate => r.day >= WorkingDayOnOrAfter(b[i].start)
        /\ \A j \in Predecessors(b, i) : r.day >= NextWorkingDay(at[j].end)
    <3> HIDE DEF at
    <3> QED
      BY <1>7, <2>5, <2>6, ReadyDayIs
  <2>8. p.start \in Int /\ p.start >= r.day
    BY <1>8, <2>5 DEF Placement
  <2>9. \A j \in Predecessors(b, i) : at[j].end < p.start
    <3> SUFFICES ASSUME NEW j \in Predecessors(b, i) PROVE at[j].end < p.start
      OBVIOUS
    <3>1. PICK e \in Int : e = at[j].end
      BY <2>6
    <3>2. NextWorkingDay(e) \in Int /\ NextWorkingDay(e) > e
      BY NextIsLater
    <3>3. r.day >= NextWorkingDay(e)
      BY <2>7, <3>1
    <3> QED
      BY <2>7, <2>8, <3>1, <3>2, <3>3
  <2>10. b[i].start # NoDate => p.start >= b[i].start
    <3> SUFFICES ASSUME b[i].start # NoDate PROVE p.start >= b[i].start
      OBVIOUS
    <3>1. PICK e \in Int : e = b[i].start
      BY <1>7 DEF Schedulable, Open
    <3>2. WorkingDayOnOrAfter(e) \in Int /\ WorkingDayOnOrAfter(e) >= e
      BY OnOrAfter
    <3>3. r.day >= WorkingDayOnOrAfter(e)
      BY <2>7, <3>1
    <3> QED
      BY <2>7, <2>8, <3>1, <3>2, <3>3
  <2>11. on.order[k + 1] = i /\ on.at[i] = p /\ \A j \in Predecessors(b, i) : on.at[j] = at[j]
    BY <1>7, <1>10, <1>11
  <2> HIDE DEF at
  <2> QED
    BY <2>3, <2>4, <2>9, <2>10, <2>11 DEF Justified
<1>16. \A m \in 1 .. k + 1 : Justified(b, slots, on, m)
  <2>1. \A m \in 1 .. k : Justified(b, slots, on, m)
    BY <1>3, <1>7, <1>10, StaysJustified
  <2>2. \A m \in 1 .. k + 1 : m = k + 1 \/ m \in 1 .. k
    OBVIOUS
  <2> QED
    BY <1>15, <2>1, <2>2
<1> QED
  BY <1>10, <1>11, <1>12, <1>13, <1>14, <1>16 DEF PlacedSoFar

\* Every state of the pass is right, the last one too.
LEMMA ForwardStates ==
  ASSUME WorkedCalendar, NEW b, NEW slots, Schedulable(b, slots), Acyclic(b),
         NEW today_ \in Int, NEW pinned, NEW so, so = Forward(b, today_, slots, pinned)
  PROVE  \E pass : /\ Passes(b, today_, slots, pinned, pass)
                   /\ so = pass[Cardinality(Open(b))]
                   /\ \A k \in 0 .. Cardinality(Open(b)) : PlacedSoFar(b, slots, pass[k], k)
<1> DEFINE n == Cardinality(Open(b))
<1>1. IsFiniteSet(Open(b)) /\ n \in Nat
  BY OpenIsFinite DEF Schedulable
<1>2. PICK pass : Passes(b, today_, slots, pinned, pass) /\ so = pass[n]
  BY ForwardPasses DEF Schedulable
<1> DEFINE K == {k \in Nat : k <= n => PlacedSoFar(b, slots, pass[k], k)}
<1>3. 0 \in K
  <2>1. pass[0] = Nothing
    BY <1>2 DEF Passes
  <2>2. PlacedSoFar(b, slots, Nothing, 0)
    <3>1. \A m \in 1 .. 0 : FALSE
      OBVIOUS
    <3>2. DOMAIN Nothing.at = {} /\ Nothing.order = <<>>
      BY DEF Nothing
    <3>3. Placing(Nothing.at) /\ Cardinality(DOMAIN Nothing.at) = 0
      BY <3>2, FS_EmptySet DEF Placing
    <3>4. Room(b, slots, Nothing.at)
      <4> SUFFICES ASSUME NEW i \in Open(b), NEW d \in Int
                   PROVE  Occupied(Peers(b, Nothing.at, i), d) <= slots[b[i].area]
        BY DEF Room
      <4>1. Peers(b, Nothing.at, i) = {}
        BY <3>2 DEF Peers
      <4>2. Occupied({}, d) = 0
        BY FS_EmptySet DEF Occupied
      <4> QED
        BY <4>1, <4>2 DEF Schedulable, Open
    <3>5. {Nothing.order[m] : m \in 1 .. 0} = {}
      BY <3>1
    <3> QED
      BY <3>1, <3>2, <3>3, <3>4, <3>5 DEF PlacedSoFar
  <2> QED
    BY <2>1, <2>2
<1>4. ASSUME NEW k \in Nat, k \in K
      PROVE  k + 1 \in K
  <2> SUFFICES ASSUME k + 1 <= n PROVE PlacedSoFar(b, slots, pass[k + 1], k + 1)
    OBVIOUS
  <2>1. k < Cardinality(Open(b)) /\ PlacedSoFar(b, slots, pass[k], k)
    BY <1>1, <1>4
  <2>2. pass[k + 1] = Onward(b, today_, slots, pinned, pass[k])
    <3>1. k + 1 \in 1 .. Cardinality(Open(b)) /\ (k + 1) - 1 = k
      BY <1>1
    <3> QED
      BY <1>2, <3>1 DEF Passes
  <2> QED
    BY <2>1, <2>2, OnwardFits
<1>5. Nat \subseteq K
  <2> HIDE DEF K, n
  <2> QED
    BY <1>3, <1>4, Induction
<1>6. \A k \in 0 .. n : PlacedSoFar(b, slots, pass[k], k)
  BY <1>1, <1>5
<1> QED
  BY <1>2, <1>6

\* A forward pass places everything open, and every placement fits and is justified.
LEMMA ForwardFits ==
  ASSUME WorkedCalendar, NEW b, NEW slots, Schedulable(b, slots), Acyclic(b),
         NEW today_ \in Int, NEW pinned, NEW so, so = Forward(b, today_, slots, pinned)
  PROVE  /\ PlacedSoFar(b, slots, so, Cardinality(Open(b)))
         /\ DOMAIN so.at = Open(b)
<1>1. IsFiniteSet(Open(b)) /\ Cardinality(Open(b)) \in Nat
  BY OpenIsFinite DEF Schedulable
<1>2. PICK pass : /\ so = pass[Cardinality(Open(b))]
                  /\ \A k \in 0 .. Cardinality(Open(b)) : PlacedSoFar(b, slots, pass[k], k)
  BY ForwardStates
<1>3. PlacedSoFar(b, slots, so, Cardinality(Open(b)))
  BY <1>1, <1>2
<1>4. DOMAIN so.at = Open(b)
  <2>1. DOMAIN so.at \subseteq Open(b)
    BY <1>1, <1>3 DEF PlacedSoFar
  <2>2. Cardinality(DOMAIN so.at) = Cardinality(Open(b))
    BY <1>3 DEF PlacedSoFar
  <2> QED
    BY <1>1, <2>1, <2>2, FS_Subset
<1> QED
  BY <1>3, <1>4

-----------------------------------------------------------------------------
(* The boards people can make. *)

\* Every state of a board: rows of its ids, which are numbers, and a day.
BoardTypes ==
    /\ board \in [Ids -> BoardRows(Ids)]
    /\ Ids \subseteq Int /\ IsFiniteSet(Ids)
    /\ today \in Nat

\* A row with other dates people can give is a row.
LEMMA EditedRows ==
  ASSUME NEW ids, NEW old \in BoardRows(ids), NEW start \in Starts, NEW deadline \in Deadlines
  PROVE  [old EXCEPT !.start = start, !.deadline = deadline] \in BoardRows(ids)
BY DEF BoardRows

\* Every reachable board has rows people can give, of ids that are finitely many numbers.
LEMMA BoardTypesHold == BoardSpec => []BoardTypes
<1>1. BoardInit => BoardTypes
  BY BoardAssumption DEF BoardInit, BoardTypes, Ids
<1>2. BoardTypes /\ [BoardNext]_boardVars => BoardTypes'
  <2> SUFFICES ASSUME BoardTypes, [BoardNext]_boardVars PROVE BoardTypes'
    OBVIOUS
  <2> USE DEF BoardTypes, Ids
  <2>1. ASSUME NEW i \in Ids, NEW r \in BoardRows(Ids), board' = [board EXCEPT ![i] = r], today' = today
        PROVE  BoardTypes'
    BY <2>1
  <2>2. ASSUME NEW i \in Ids, NEW s \in Statuses, Transition(i, s)
        PROVE  BoardTypes'
    <3> DEFINE r == [board[i] EXCEPT !.status = s]
    <3>1. r \in BoardRows(Ids)
      BY DEF BoardRows
    <3>2. board' = [board EXCEPT ![i] = r] /\ today' = today
      BY <2>2 DEF Transition
    <3> HIDE DEF r
    <3> QED
      BY <2>1, <3>1, <3>2
  <2>3. ASSUME NEW i \in Ids, NEW start \in Starts, NEW deadline \in Deadlines, Update(i, start, deadline)
        PROVE  BoardTypes'
    <3> DEFINE r == [board[i] EXCEPT !.start = start, !.deadline = deadline]
    <3>1. r \in BoardRows(Ids)
      BY EditedRows
    <3>2. board' = [board EXCEPT ![i] = r] /\ today' = today
      BY <2>3 DEF Update
    <3> HIDE DEF r
    <3> QED
      BY <2>1, <3>1, <3>2
  <2>4. ASSUME NEW i \in Ids, Estimate(i)
        PROVE  BoardTypes'
    <3> DEFINE r == [board[i] EXCEPT !.estimated = TRUE]
    <3>1. r \in BoardRows(Ids)
      <4>1. [board[i] EXCEPT !.estimated = TRUE] \in BoardRows(Ids)
        <5>1. PICK old \in BoardRows(Ids) : old = board[i]
          OBVIOUS
        <5>2. [old EXCEPT !.estimated = TRUE] \in BoardRows(Ids)
          BY DEF BoardRows
        <5> QED
          BY <5>1, <5>2
      <4> QED
        BY <4>1
    <3>2. board' = [board EXCEPT ![i] = r] /\ today' = today
      BY <2>4 DEF Estimate
    <3> HIDE DEF r
    <3> QED
      BY <2>1, <3>1, <3>2
  <2>5. ASSUME NEW i \in Ids, NEW deps \in SUBSET Ids, ReplaceDependencies(i, deps)
        PROVE  BoardTypes'
    <3> DEFINE r == [board[i] EXCEPT !.deps = deps]
    <3>1. r \in BoardRows(Ids)
      BY DEF BoardRows
    <3>2. board' = [board EXCEPT ![i] = r] /\ today' = today
      BY <2>5 DEF ReplaceDependencies
    <3> HIDE DEF r
    <3> QED
      BY <2>1, <3>1, <3>2
  <2>6. ASSUME NEW p \in Projects, SetProjectStatus(p)
        PROVE  BoardTypes'
    BY <2>6 DEF SetProjectStatus
  <2>7. ASSUME NEW a \in DOMAIN Areas, NEW m \in Minutes, Complete(a, m)
        PROVE  BoardTypes'
    BY <2>7 DEF Complete
  <2>8. CASE NextDay
    BY <2>8 DEF NextDay
  <2>9. CASE UNCHANGED boardVars
    BY <2>9 DEF boardVars
  <2> QED
    BY <2>2, <2>3, <2>4, <2>5, <2>6, <2>7, <2>8, <2>9 DEF BoardNext, Edit
<1> QED
  BY <1>1, <1>2, PTL DEF BoardSpec

\* Every area has a slot, in a year nobody decided too.
LEMMA EveryAreaHasASlot ==
  ASSUME BoardTypes
  PROVE  Slots \in [DOMAIN Areas -> Nat \ {0}]
<1>1. ASSUME NEW pct \in Nat
      PROVE  SlotsForWeight(pct) \in Nat \ {0}
  <2> DEFINE x == (2 * pct * Concurrent + 100) \div 200
  <2>1. x \in Int
    <3>1. PICK y \in Int : y = 2 * pct * Concurrent + 100
      BY ConcurrentAssumption
    <3>2. y \div 200 \in Int
      OBVIOUS
    <3> QED
      BY <3>1, <3>2
  <2> HIDE DEF x
  <2>2. IsFiniteSet({1, x})
    <3>1. IsFiniteSet({1}) /\ {1, x} = {1} \cup {x}
      BY FS_Singleton
    <3>2. IsFiniteSet({1} \cup {x})
      BY <3>1, FS_AddElement
    <3> QED
      BY <3>1, <3>2
  <2>3. Max({1, x}) \in {1, x} /\ \A y \in {1, x} : Max({1, x}) >= y
    <3>1. {1, x} \in SUBSET Int /\ {1, x} # {}
      BY <2>1
    <3> QED
      BY <2>2, <3>1, MaxOfFinite
  <2>4. SlotsForWeight(pct) = Max({1, x})
    BY DEF SlotsForWeight, x
  <2> QED
    BY <2>1, <2>3, <2>4
<1> DEFINE weights == ResolveWeights(YearOf(today))
<1>2. \A a \in DOMAIN weights : weights[a] \in Nat
  <2> DEFINE decided == {y \in DOMAIN Weights : y <= YearOf(today)}
  <2>1. CASE decided = {}
    <3>1. weights = <<>>
      BY <2>1 DEF ResolveWeights
    <3> QED
      BY <3>1
  <2>2. CASE decided # {}
    <3>1. decided \in SUBSET Int /\ IsFiniteSet(decided)
      BY WeightsAssumption, FS_Subset
    <3>2. Max(decided) \in decided
      <4> HIDE DEF decided
      <4> QED
        BY <2>2, <3>1, MaxOfFinite
    <3>3. weights = Weights[Max(decided)]
      BY <2>2 DEF ResolveWeights
    <3> QED
      BY <3>2, <3>3, WeightsAssumption
  <2> QED
    BY <2>1, <2>2
<1>3. Slots = [a \in DOMAIN Areas |-> IF a \in DOMAIN weights THEN SlotsForWeight(weights[a]) ELSE 1]
  BY DEF Slots
<1> HIDE DEF weights
<1>4. ASSUME NEW a \in DOMAIN Areas
      PROVE  (IF a \in DOMAIN weights THEN SlotsForWeight(weights[a]) ELSE 1) \in Nat \ {0}
  <2>1. CASE a \in DOMAIN weights
    <3>1. SlotsForWeight(weights[a]) \in Nat \ {0}
      BY <1>1, <1>2, <2>1
    <3> QED
      BY <2>1, <3>1
  <2>2. CASE a \notin DOMAIN weights
    BY <2>2
  <2> QED
    BY <2>1, <2>2
<1> QED
  BY <1>3, <1>4

\* A schedule that is computed keeps what its forward pass placed.
LEMMA PlanOfForwardFits ==
  ASSUME WorkedCalendar, BoardTypes, NEW b, Schedulable(b, Slots), Acyclic(b), NEW pinned,
         NEW plan, plan = ComputeSchedule(b, today, Slots, pinned)
  PROVE  Fits(b, plan)
<1>1. PICK so : so = Forward(b, today, Slots, pinned)
  OBVIOUS
<1>2. plan.order = so.order /\ plan.at = so.at
  BY <1>1 DEF ComputeSchedule, Measured
<1>3. today \in Int
  BY DEF BoardTypes
<1>4. PlacedSoFar(b, Slots, so, Cardinality(Open(b))) /\ DOMAIN so.at = Open(b)
  BY <1>1, <1>3, ForwardFits
<1>5. Cardinality(Open(b)) \in Nat /\ IsFiniteSet(Open(b))
  BY OpenIsFinite DEF Schedulable
<1>6. \A i \in Open(b), d \in today .. Max({plan.at[j].end : j \in Open(b)}) :
         IsWorkingDay(d) => Occupied(Peers(b, plan.at, i), d) <= Slots[b[i].area]
  <2> SUFFICES ASSUME NEW i \in Open(b), NEW d \in today .. Max({plan.at[j].end : j \in Open(b)}),
                      IsWorkingDay(d)
               PROVE  Occupied(Peers(b, plan.at, i), d) <= Slots[b[i].area]
    OBVIOUS
  <2> DEFINE end == [j \in Open(b) |-> so.at[j].end]
             ends == {end[j] : j \in Open(b)}
  <2>1. ends \in SUBSET Int
    BY <1>4 DEF PlacedSoFar, Placing, Placement
  <2>2. IsFiniteSet(ends)
    <3> HIDE DEF end
    <3> QED
      BY <1>5, ImageOfFinite
  <2>3. Max(ends) \in Int
    <3>1. ends # {}
      OBVIOUS
    <3> HIDE DEF ends
    <3> QED
      BY <2>1, <2>2, <3>1, MaxOfFinite
  <2>4. {plan.at[j].end : j \in Open(b)} = ends
    BY <1>2
  <2>5. d \in Int
    BY <1>3, <2>3, <2>4
  <2> QED
    BY <1>2, <1>4, <2>5 DEF PlacedSoFar, Room
<1>7. DOMAIN plan.order = 1 .. Cardinality(Open(b))
  BY <1>2, <1>4, <1>5 DEF PlacedSoFar
<1>8. ASSUME NEW k \in DOMAIN plan.order
      PROVE  LET i == plan.order[k]
                 earlier == {plan.at[j] : j \in {plan.order[m] : m \in 1 .. k - 1}}
                 peers == {p \in earlier : b[p.id].area = b[i].area}
             IN /\ \A d \in plan.at[i].ready .. plan.at[i].start - 1 :
                      IsWorkingDay(d) =>
                         ~IsFree(peers, Slots[b[i].area], d, DurationDays[b[i].size])
                /\ \A j \in Predecessors(b, i) : plan.at[j].end < plan.at[i].start
                /\ b[i].start # NoDate => plan.at[i].start >= b[i].start
  <2>1. Justified(b, Slots, so, k)
    BY <1>4, <1>7, <1>8 DEF PlacedSoFar
  <2> QED
    BY <1>2, <2>1 DEF Justified, Earlier
<1> QED
  BY <1>6, <1>8 DEF Fits

\* What people put on a board can be scheduled, on the day it starts or any other.
LEMMA BoardsAreSchedulable ==
  ASSUME BoardTypes
  PROVE  /\ Schedulable(board, Slots)
         /\ Acyclic(board) => \A i \in Ids, d \in Starts :
               /\ Schedulable([board EXCEPT ![i].start = d], Slots)
               /\ Acyclic([board EXCEPT ![i].start = d])
<1>1. Slots \in [DOMAIN Areas -> Nat \ {0}]
  BY EveryAreaHasASlot
<1>2. ASSUME NEW b \in [Ids -> BoardRows(Ids)]
      PROVE  Schedulable(b, Slots)
  <2>1. DOMAIN b = Ids
    OBVIOUS
  <2>2. \A i \in Ids : /\ b[i].size \in DOMAIN DurationDays
                      /\ b[i].start \in Starts
                      /\ b[i].area \in DOMAIN Areas
    BY DEF BoardRows
  <2> QED
    BY <1>1, <2>1, <2>2, BoardAssumption DEF Schedulable, BoardTypes
<1>3. ASSUME NEW i \in Ids, NEW d \in Starts
      PROVE  /\ [board EXCEPT ![i].start = d] \in [Ids -> BoardRows(Ids)]
             /\ \A j \in Ids : [board EXCEPT ![i].start = d][j].deps = board[j].deps
  <2> DEFINE r == [board[i] EXCEPT !.start = d]
  <2>1. r \in BoardRows(Ids) /\ r.deps = board[i].deps
    BY DEF BoardRows, BoardTypes
  <2>2. PICK b : b = [board EXCEPT ![i] = r]
    OBVIOUS
  <2> HIDE DEF r
  <2>3. b \in [Ids -> BoardRows(Ids)] /\ \A j \in Ids : b[j].deps = board[j].deps
    BY <2>1, <2>2 DEF BoardTypes
  <2> USE DEF r
  <2>4. b = [board EXCEPT ![i].start = d]
    BY <2>2
  <2> QED
    BY <2>3, <2>4
<1>4. ASSUME Acyclic(board), NEW i \in Ids, NEW d \in Starts
      PROVE  Acyclic([board EXCEPT ![i].start = d])
  <2>1. PICK b : b = [board EXCEPT ![i].start = d]
    OBVIOUS
  <2>2. DOMAIN b = DOMAIN board /\ \A j \in Ids : b[j].deps = board[j].deps
    BY <1>3, <2>1 DEF BoardTypes
  <2>3. Acyclic(b)
    BY <1>4, <2>2 DEF Acyclic, Ids
  <2> QED
    BY <2>1, <2>3
<1>5. Schedulable(board, Slots)
  BY <1>2 DEF BoardTypes
<1>6. ASSUME NEW i \in Ids, NEW d \in Starts
      PROVE  Schedulable([board EXCEPT ![i].start = d], Slots)
  BY <1>2, <1>3
<1> QED
  BY <1>4, <1>5, <1>6

\* Every plan of a board without cycles fits, and every plan after a move.
LEMMA BoardPlansFit ==
  ASSUME WorkedCalendar, BoardTypes, Acyclic(board)
  PROVE  PlanFits
<1>1. Fits(board, Plan)
  <2>1. PICK plan : plan = ComputeSchedule(board, today, Slots, {})
    OBVIOUS
  <2>2. Fits(board, plan)
    BY <2>1, BoardsAreSchedulable, PlanOfForwardFits
  <2> QED
    BY <2>1, <2>2 DEF Plan
<1>2. ASSUME NEW i \in Open(board), NEW d \in Starts \ {NoDate}
      PROVE  Fits([board EXCEPT ![i].start = d], Moved(i, d).after)
  <2>1. PICK b : b = [board EXCEPT ![i].start = d]
    OBVIOUS
  <2>2. i \in Ids /\ d \in Starts
    BY DEF Open, Ids
  <2>3. Schedulable(b, Slots) /\ Acyclic(b)
    BY <2>1, <2>2, BoardsAreSchedulable
  <2>4. PICK plan : plan = ComputeSchedule(b, today, Slots, {i})
    OBVIOUS
  <2>5. Fits(b, plan)
    BY <2>3, <2>4, PlanOfForwardFits
  <2>6. Moved(i, d).after = plan
    BY <2>1, <2>4 DEF Moved, Replan, Compared
  <2> QED
    BY <2>1, <2>5, <2>6
<1> QED
  BY <1>1, <1>2 DEF PlanFits

-----------------------------------------------------------------------------
(* The calendar, backwards. *)

\* WorkingDayOnOrBefore is the last working day that is not after its argument.
LEMMA OnOrBefore ==
  ASSUME WorkedCalendar, NEW d \in Int
  PROVE  /\ WorkingDayOnOrBefore(d) \in Int
         /\ WorkingDayOnOrBefore(d) <= d
         /\ IsWorkingDay(WorkingDayOnOrBefore(d))
         /\ \A e \in Int : e <= d /\ IsWorkingDay(e) => WorkingDayOnOrBefore(d) >= e
<1> DEFINE S == {e \in d - SearchDays .. d : IsWorkingDay(e)}
<1>1. S \in SUBSET Int /\ S # {} /\ SearchDays \in Nat
  <2>1. SearchDays \in Nat
    BY DEF WorkedCalendar
  <2>2. d - SearchDays \in Int
    BY <2>1
  <2>3. \E e \in d - SearchDays .. (d - SearchDays) + SearchDays : IsWorkingDay(e)
    BY <2>2 DEF WorkedCalendar
  <2>4. (d - SearchDays) + SearchDays = d
    BY <2>1
  <2> QED
    BY <2>1, <2>3, <2>4
<1>2. IsFiniteSet(S)
  <2>1. IsFiniteSet(d - SearchDays .. d)
    BY <1>1, FS_Interval
  <2> QED
    BY <2>1, FS_Subset
<1>3. WorkingDayOnOrBefore(d) = Max(S)
  BY DEF WorkingDayOnOrBefore
<1>4. Max(S) \in S /\ \A y \in S : Max(S) >= y
  <2> HIDE DEF S
  <2> QED
    BY <1>1, <1>2, MaxOfFinite
<1>5. ASSUME NEW e \in Int, e <= d, IsWorkingDay(e)
      PROVE  Max(S) >= e
  <2>1. CASE e >= d - SearchDays
    <3>1. e \in S
      BY <1>1, <1>5, <2>1
    <3> QED
      BY <1>4, <3>1
  <2>2. CASE e < d - SearchDays
    <3>1. Max(S) \in Int /\ Max(S) >= d - SearchDays
      BY <1>1, <1>4
    <3> QED
      BY <1>1, <2>2, <3>1
  <2> QED
    BY <1>1, <2>1, <2>2
<1> QED
  BY <1>1, <1>3, <1>4, <1>5

\* The working days that follow one another backwards from d.
DaysBack(d, n, on) ==
    on = [k \in 0 .. n |-> IF k = 0 THEN WorkingDayOnOrBefore(d) ELSE WorkingDayOnOrBefore(on[k - 1] - 1)]

\* What SubtractWorkingDays defines by recursion exists, and it is the last of those days.
LEMMA DaysFollowBack ==
  ASSUME WorkedCalendar, NEW d \in Int, NEW n \in Nat
  PROVE  \E on \in [0 .. n -> Int] : DaysBack(d, n, on) /\ SubtractWorkingDays(d, n) = on[n]
<1> DEFINE f == [x \in Int |-> WorkingDayOnOrBefore(x - 1)]
           Eq(on) == on = [k \in 0 .. n |-> IF k = 0 THEN WorkingDayOnOrBefore(d)
                                            ELSE WorkingDayOnOrBefore(on[k - 1] - 1)]
<1>1. f \in [Int -> Int] /\ WorkingDayOnOrBefore(d) \in Int
  <2>1. \A x \in Int : x - 1 \in Int
    OBVIOUS
  <2> QED
    BY <2>1, OnOrBefore
<1>2. PICK g \in [0 .. n -> Int] :
         g[0] = WorkingDayOnOrBefore(d) /\ \A k \in 1 .. n : g[k] = f[g[k - 1]]
  <2>1. \E g : IsIterate(g, Int, WorkingDayOnOrBefore(d), f, n)
    <3> HIDE DEF f
    <3> QED
      BY <1>1, Iterates
  <2> QED
    BY <2>1 DEF IsIterate
<1>3. Eq(g)
  <2>1. \A k \in 1 .. n : g[k - 1] \in Int
    BY <1>2
  <2>2. \A k \in 1 .. n : g[k] = WorkingDayOnOrBefore(g[k - 1] - 1)
    BY <1>2, <2>1
  <2>3. \A k \in 0 .. n : k = 0 \/ k \in 1 .. n
    OBVIOUS
  <2> QED
    BY <1>2, <2>2, <2>3
<1>4. Eq(CHOOSE on : Eq(on))
  BY <1>3, Zenon
<1>5. SubtractWorkingDays(d, n) = (CHOOSE on : Eq(on))[n]
  BY DEF SubtractWorkingDays
<1>6. PICK on : on = (CHOOSE o : Eq(o))
  OBVIOUS
<1>7. DaysBack(d, n, on) /\ SubtractWorkingDays(d, n) = on[n]
  BY <1>4, <1>5, <1>6 DEF DaysBack
<1> DEFINE K == {k \in Nat : k <= n => on[k] \in Int}
<1>8. 0 \in K
  BY <1>7, OnOrBefore DEF DaysBack
<1>9. ASSUME NEW k \in Nat, k \in K
      PROVE  k + 1 \in K
  <2>1. k + 1 <= n => on[k + 1] = WorkingDayOnOrBefore(on[k] - 1)
    BY <1>7 DEF DaysBack
  <2>2. ASSUME k + 1 <= n
        PROVE  on[k + 1] \in Int
    <3>1. on[k] \in Int
      BY <1>9, <2>2
    <3>2. on[k] - 1 \in Int
      BY <3>1
    <3> QED
      BY <2>1, <2>2, <3>2, OnOrBefore
  <2> QED
    BY <2>2
<1>10. Nat \subseteq K
  <2> HIDE DEF K
  <2> QED
    BY <1>8, <1>9, Induction
<1>11. DOMAIN on = 0 .. n /\ on = [k \in 0 .. n |-> on[k]]
  BY <1>7 DEF DaysBack
<1>12. on \in [0 .. n -> Int]
  BY <1>10, <1>11
<1> QED
  BY <1>7, <1>12

\* One working day back is the working day before.
LEMMA SubtractOne ==
  ASSUME WorkedCalendar, NEW d \in Int, NEW n \in Nat
  PROVE  /\ SubtractWorkingDays(d, 0) = WorkingDayOnOrBefore(d)
         /\ SubtractWorkingDays(d, n + 1) = WorkingDayOnOrBefore(SubtractWorkingDays(d, n) - 1)
         /\ SubtractWorkingDays(d, n) \in Int
<1>1. PICK on \in [0 .. n -> Int] : DaysBack(d, n, on) /\ SubtractWorkingDays(d, n) = on[n]
  BY DaysFollowBack
<1>2. PICK om \in [0 .. n + 1 -> Int] : DaysBack(d, n + 1, om) /\ SubtractWorkingDays(d, n + 1) = om[n + 1]
  <2>1. n + 1 \in Nat
    OBVIOUS
  <2> QED
    BY <2>1, DaysFollowBack
<1>3. SubtractWorkingDays(d, 0) = WorkingDayOnOrBefore(d)
  <2>1. PICK o \in [0 .. 0 -> Int] : DaysBack(d, 0, o) /\ SubtractWorkingDays(d, 0) = o[0]
    BY DaysFollowBack
  <2> QED
    BY <2>1 DEF DaysBack
<1> DEFINE K == {k \in Nat : k <= n => on[k] = om[k]}
<1>4. 0 \in K
  BY <1>1, <1>2 DEF DaysBack
<1>5. ASSUME NEW k \in Nat, k \in K
      PROVE  k + 1 \in K
  <2> SUFFICES ASSUME k + 1 <= n PROVE on[k + 1] = om[k + 1]
    OBVIOUS
  <2>1. on[k + 1] = WorkingDayOnOrBefore(on[k] - 1) /\ om[k + 1] = WorkingDayOnOrBefore(om[k] - 1)
    BY <1>1, <1>2 DEF DaysBack
  <2> QED
    BY <1>5, <2>1
<1>6. Nat \subseteq K
  <2> HIDE DEF K
  <2> QED
    BY <1>4, <1>5, Induction
<1>7. om[n + 1] = WorkingDayOnOrBefore(om[n] - 1)
  BY <1>2 DEF DaysBack
<1> QED
  BY <1>1, <1>2, <1>3, <1>6, <1>7

\* As many days back from a day on or after the last of a span is on or after
\* its first.
LEMMA SubtractUndoes ==
  ASSUME WorkedCalendar, NEW s \in Int, NEW n \in Nat, NEW l \in Int, l >= AddWorkingDays(s, n)
  PROVE  SubtractWorkingDays(l, n) \in Int /\ SubtractWorkingDays(l, n) >= s
<1> DEFINE K == {k \in Nat : k <= n => SubtractWorkingDays(l, k) >= AddWorkingDays(s, n - k)}
<1>1. 0 \in K
  <2>1. AddWorkingDays(s, n) \in Int /\ IsWorkingDay(AddWorkingDays(s, n))
    BY AddIsLater
  <2>2. SubtractWorkingDays(l, 0) = WorkingDayOnOrBefore(l) /\ n - 0 = n
    BY SubtractOne
  <2>3. WorkingDayOnOrBefore(l) >= AddWorkingDays(s, n)
    BY <2>1, OnOrBefore
  <2> QED
    BY <2>2, <2>3
<1>2. ASSUME NEW k \in Nat, k \in K
      PROVE  k + 1 \in K
  <2> SUFFICES ASSUME k + 1 <= n PROVE SubtractWorkingDays(l, k + 1) >= AddWorkingDays(s, n - (k + 1))
    OBVIOUS
  <2>1. PICK m \in Nat : m = n - (k + 1)
    OBVIOUS
  <2>2. n - k = m + 1
    BY <2>1
  <2>3. SubtractWorkingDays(l, k) \in Int
    BY SubtractOne
  <2>4. SubtractWorkingDays(l, k) >= AddWorkingDays(s, m + 1)
    BY <1>2, <2>2
  <2> DEFINE e == AddWorkingDays(s, m)
             b == SubtractWorkingDays(l, k)
  <2>5. e \in Int /\ IsWorkingDay(e) /\ AddWorkingDays(s, m + 1) = NextWorkingDay(e)
    BY AddIsLater, AddOne
  <2>6. SubtractWorkingDays(l, k + 1) = WorkingDayOnOrBefore(b - 1)
    BY SubtractOne
  <2> HIDE DEF e, b
  <2>7. NextWorkingDay(e) \in Int /\ NextWorkingDay(e) > e
    BY <2>5, NextIsLater
  <2>8. b \in Int /\ b - 1 \in Int /\ e <= b - 1
    BY <2>3, <2>4, <2>5, <2>7 DEF b
  <2>9. WorkingDayOnOrBefore(b - 1) >= e
    BY <2>5, <2>8, OnOrBefore
  <2> QED
    BY <2>1, <2>6, <2>9 DEF e
<1>3. n \in K
  <2> HIDE DEF K
  <2> QED
    BY <1>1, <1>2, Induction
<1>4. SubtractWorkingDays(l, n) \in Int /\ SubtractWorkingDays(l, n) >= AddWorkingDays(s, 0)
  <2>1. n - n = 0
    OBVIOUS
  <2> QED
    BY <1>3, <2>1, SubtractOne
<1>5. AddWorkingDays(s, 0) \in Int /\ AddWorkingDays(s, 0) >= s
  BY AddIsLater
<1> QED
  BY <1>4, <1>5

\* A working day that comes after the one it is measured to is that much late.
LEMMA BetweenIsNegative ==
  ASSUME NEW from \in Int, NEW to \in Int, IsWorkingDay(from)
  PROVE  /\ WorkingDaysBetween(from, to) \in Int
         /\ WorkingDaysBetween(from, to) < 0 <=> to < from
<1> DEFINE A == {d \in from + 1 .. to : IsWorkingDay(d)}
           B == {d \in to + 1 .. from : IsWorkingDay(d)}
<1>1. IsFiniteSet(A) /\ Cardinality(A) \in Nat /\ IsFiniteSet(B) /\ Cardinality(B) \in Nat
  <2>1. IsFiniteSet(from + 1 .. to) /\ IsFiniteSet(to + 1 .. from)
    BY FS_Interval
  <2>2. A \in SUBSET (from + 1 .. to) /\ B \in SUBSET (to + 1 .. from)
    OBVIOUS
  <2> QED
    BY <2>1, <2>2, FS_Subset, FS_CardinalityType
<1>2. WorkingDaysBetween(from, to) = Cardinality(A) - Cardinality(B)
  BY DEF WorkingDaysBetween
<1>3. CASE to < from
  <2>1. A = {} /\ B # {}
    <3>1. from \in B
      BY <1>3
    <3>2. \A d \in from + 1 .. to : FALSE
      BY <1>3
    <3> QED
      BY <3>1, <3>2
  <2>2. Cardinality(A) = 0 /\ Cardinality(B) # 0
    <3> HIDE DEF A, B
    <3> QED
      BY <1>1, <2>1, FS_EmptySet
  <2> HIDE DEF A, B
  <2> QED
    BY <1>1, <1>2, <1>3, <2>2
<1>4. CASE ~(to < from)
  <2>1. B = {}
    BY <1>4
  <2>2. Cardinality(B) = 0
    BY <2>1, FS_EmptySet
  <2> HIDE DEF A, B
  <2> QED
    BY <1>1, <1>2, <1>4, <2>2
<1> QED
  BY <1>3, <1>4

-----------------------------------------------------------------------------
(* A forward pass as the backward pass finds it. *)

Sequenced(b, at) ==
    /\ DOMAIN at = Open(b) /\ Placing(at)
    /\ \A i \in Open(b) :
          /\ at[i].end = AddWorkingDays(at[i].start, DurationDays[b[i].size] - 1)
          /\ \A j \in Predecessors(b, i) : at[j].end < at[i].start

\* A forward pass is in sequence: everything open placed for as long as it takes, after
\* all it waits on.
LEMMA ForwardSequences ==
  ASSUME WorkedCalendar, NEW b, NEW slots, Schedulable(b, slots), Acyclic(b),
         NEW today_ \in Int, NEW pinned, NEW so, so = Forward(b, today_, slots, pinned)
  PROVE  Sequenced(b, so.at)
<1>1. PlacedSoFar(b, slots, so, Cardinality(Open(b))) /\ DOMAIN so.at = Open(b)
  BY ForwardFits
<1>2. \A i \in Open(b) : so.at[i].end = AddWorkingDays(so.at[i].start, DurationDays[b[i].size] - 1)
  BY <1>1 DEF PlacedSoFar
<1>3. ASSUME NEW i \in Open(b), NEW j \in Predecessors(b, i)
      PROVE  so.at[j].end < so.at[i].start
  <2>1. PICK k \in 1 .. Cardinality(Open(b)) : i = so.order[k]
    BY <1>1 DEF PlacedSoFar
  <2>2. Justified(b, slots, so, k)
    BY <1>1 DEF PlacedSoFar
  <2> QED
    BY <2>1, <2>2 DEF Justified
<1> QED
  BY <1>1, <1>2, <1>3 DEF Sequenced, PlacedSoFar

\* What waits on an initiative ends after it.
LEMMA SuccessorsEndLater ==
  ASSUME NEW b, NEW at, Sequenced(b, at), NEW i \in Open(b), NEW j \in Successors(b, i)
  PROVE  /\ j \in Open(b) /\ j # i /\ i \in Predecessors(b, j)
         /\ at[i].end < at[j].start /\ at[i].end < at[j].end
<1>1. j \in Open(b) /\ i \in Predecessors(b, j)
  BY DEF Successors, Predecessors
<1>2. at[i].end < at[j].start
  BY <1>1 DEF Sequenced
<1>3. Placement(at[i], i) /\ Placement(at[j], j)
  BY <1>1 DEF Sequenced, Placing
<1> QED
  BY <1>1, <1>2, <1>3 DEF Placement

\* Of any placed initiatives there is one on which no other of them waits, and
\* one that waits on no other.
LEMMA LastOfAny ==
  ASSUME NEW b, NEW at, Sequenced(b, at), NEW X \in SUBSET Open(b), X # {}
  PROVE  /\ \E i \in X : Successors(b, i) \cap X = {}
         /\ \E i \in X : Predecessors(b, i) \cap X = {}
<1> DEFINE end == [j \in Open(b) |-> at[j].end]
           ends == {end[j] : j \in X}
<1>1. end \in [Open(b) -> Int]
  BY DEF Sequenced, Placing, Placement
<1>2. IsFiniteSet(X)
  BY FS_Subset DEF Sequenced, Placing
<1>3. ends \in SUBSET Int /\ ends # {} /\ IsFiniteSet(ends)
  <2> HIDE DEF end
  <2> QED
    BY <1>1, <1>2, ImageOfFinite
<1>4. /\ Max(ends) \in ends /\ \A e \in ends : Max(ends) >= e
      /\ Min(ends) \in ends /\ \A e \in ends : Min(ends) <= e
  <2> HIDE DEF ends
  <2> QED
    BY <1>3, MaxOfFinite, MinOfFinite
<1>5. \A i \in Open(b) : \A j \in Successors(b, i) : j \in Open(b) /\ end[i] < end[j]
  BY SuccessorsEndLater
<1> HIDE DEF end
<1>6. PICK i \in X : end[i] = Max(ends)
  BY <1>4
<1>7. Successors(b, i) \cap X = {}
  <2> SUFFICES ASSUME NEW j \in Successors(b, i) \cap X PROVE FALSE
    OBVIOUS
  <2>1. end[i] < end[j] /\ end[j] \in ends /\ end[i] \in Int /\ end[j] \in Int
    BY <1>1, <1>5
  <2> QED
    BY <1>4, <1>6, <2>1
<1>8. PICK k \in X : end[k] = Min(ends)
  BY <1>4
<1>9. Predecessors(b, k) \cap X = {}
  <2> SUFFICES ASSUME NEW j \in Predecessors(b, k) \cap X PROVE FALSE
    OBVIOUS
  <2>1. k \in Successors(b, j)
    BY DEF Predecessors, Successors
  <2>2. j \in X /\ j \in Open(b)
    OBVIOUS
  <2>3. end[j] < end[k] /\ end[k] \in Int /\ end[j] \in Int
    BY <1>1, <1>5, <2>1, <2>2
  <2>4. Min(ends) <= end[j]
    BY <1>4, <2>2
  <2> QED
    BY <1>8, <2>3, <2>4
<1> QED
  BY <1>7, <1>9

-----------------------------------------------------------------------------
(* The backward pass. *)

LateBounds(b, late, i) ==
    {WorkingDayOnOrBefore(SubtractWorkingDays(late[j], DurationDays[b[j].size] - 1) - 1) :
       j \in Successors(b, i)} \cup Imposed(b, i)

Latest(b, at, late, i) ==
    IF LateBounds(b, late, i) = {} THEN Max({at[j].end : j \in DOMAIN at})
    ELSE Min(LateBounds(b, late, i))

\* Days to measure against: each initiative of the board has a deadline or none.
Deadlined(b) == \A i \in DOMAIN b : b[i].deadline = NoDate \/ b[i].deadline \in Int

\* What bounds a finish are days, and the finish is the least of them.
LEMMA LatestIs ==
  ASSUME WorkedCalendar, NEW b, NEW slots, Schedulable(b, slots), Deadlined(b),
         NEW at, Sequenced(b, at), NEW i \in Open(b), NEW late,
         \A j \in Successors(b, i) : late[j] \in Int
  PROVE  /\ Latest(b, at, late, i) \in Int
         /\ LateBounds(b, late, i) = {} => \A j \in Open(b) : at[j].end <= Latest(b, at, late, i)
         /\ LateBounds(b, late, i) # {} => Latest(b, at, late, i) \in LateBounds(b, late, i)
         /\ \A d \in LateBounds(b, late, i) : d \in Int /\ Latest(b, at, late, i) <= d
<1> DEFINE back == [j \in Successors(b, i) |->
                      WorkingDayOnOrBefore(SubtractWorkingDays(late[j], DurationDays[b[j].size] - 1) - 1)]
           backs == {back[j] : j \in Successors(b, i)}
           bounds == LateBounds(b, late, i)
<1>1. bounds = backs \cup Imposed(b, i)
  BY DEF LateBounds
<1>2. \A j \in Successors(b, i) : back[j] \in Int
  <2> SUFFICES ASSUME NEW j \in Successors(b, i)
               PROVE  WorkingDayOnOrBefore(SubtractWorkingDays(late[j], DurationDays[b[j].size] - 1) - 1) \in Int
    OBVIOUS
  <2>1. PICK n \in Nat : n = DurationDays[b[j].size] - 1
    BY DurationAssumption DEF Schedulable, Open, Successors
  <2>2. SubtractWorkingDays(late[j], n) \in Int
    BY SubtractOne
  <2>3. SubtractWorkingDays(late[j], n) - 1 \in Int
    BY <2>2
  <2> QED
    BY <2>1, <2>3, OnOrBefore
<1>3. IsFiniteSet(backs)
  <2>1. IsFiniteSet(Successors(b, i))
    BY FS_Subset DEF Successors, Sequenced, Placing
  <2> HIDE DEF back
  <2> QED
    BY <2>1, ImageOfFinite
<1>4. Imposed(b, i) \in SUBSET Int /\ IsFiniteSet(Imposed(b, i))
  <2>1. CASE b[i].deadline = NoDate
    BY <2>1, FS_EmptySet DEF Imposed
  <2>2. CASE b[i].deadline # NoDate
    <3>1. WorkingDayOnOrBefore(b[i].deadline) \in Int
      BY <2>2, OnOrBefore DEF Deadlined, Open
    <3> QED
      BY <2>2, <3>1, FS_Singleton DEF Imposed
  <2> QED
    BY <2>1, <2>2
<1>5. bounds \in SUBSET Int /\ IsFiniteSet(bounds)
  <2>1. IsFiniteSet(backs \cup Imposed(b, i))
    <3> HIDE DEF backs
    <3> QED
      BY <1>3, <1>4, FS_Union
  <2>2. backs \in SUBSET Int
    <3> HIDE DEF back
    <3> QED
      BY <1>2
  <2> HIDE DEF bounds, backs
  <2> QED
    BY <1>1, <1>4, <2>1, <2>2
<1>6. bounds # {} => Min(bounds) \in bounds /\ \A d \in bounds : Min(bounds) <= d
  <2> HIDE DEF bounds
  <2> QED
    BY <1>5, MinOfFinite
<1> DEFINE end == [j \in DOMAIN at |-> at[j].end]
           ends == {end[j] : j \in DOMAIN at}
<1>7. Max(ends) \in Int /\ \A j \in Open(b) : at[j].end <= Max(ends)
  <2>1. ends \in SUBSET Int /\ ends # {}
    BY DEF Sequenced, Placing, Placement
  <2>2. IsFiniteSet(ends)
    <3>1. IsFiniteSet(DOMAIN at)
      BY DEF Sequenced, Placing
    <3> HIDE DEF end
    <3> QED
      BY <3>1, ImageOfFinite
  <2>3. Max(ends) \in ends /\ \A e \in ends : Max(ends) >= e
    <3> HIDE DEF ends
    <3> QED
      BY <2>1, <2>2, MaxOfFinite
  <2>4. \A j \in Open(b) : at[j].end \in ends
    BY DEF Sequenced
  <2> HIDE DEF ends
  <2> QED
    BY <2>1, <2>3, <2>4
<1>8. {at[j].end : j \in DOMAIN at} = ends
  OBVIOUS
<1>9. Latest(b, at, late, i) = IF bounds = {} THEN Max(ends) ELSE Min(bounds)
  BY <1>8 DEF Latest
<1> HIDE DEF bounds, ends
<1>10. /\ bounds = {} => Latest(b, at, late, i) = Max(ends)
       /\ bounds # {} => Latest(b, at, late, i) = Min(bounds)
  BY <1>9
<1> QED
  BY <1>5, <1>6, <1>7, <1>10 DEF bounds

\* The latest finish of an initiative depends on that of its successors only.
LEMMA LatestLooksAhead ==
  ASSUME NEW b, NEW at, NEW g, NEW h, NEW i, \A j \in Successors(b, i) : g[j] = h[j]
  PROVE  Latest(b, at, g, i) = Latest(b, at, h, i)
<1>1. LateBounds(b, g, i) = LateBounds(b, h, i)
  BY DEF LateBounds
<1> QED
  BY <1>1 DEF Latest

\* LatestFinish is the function its recursion describes.
LEMMA LatestFinishUnfolds ==
  ASSUME WorkedCalendar, NEW b, NEW slots, Schedulable(b, slots), Deadlined(b),
         NEW at, Sequenced(b, at), NEW late, late = LatestFinish(b, at)
  PROVE  \A i \in Open(b) : late[i] \in Int /\ late[i] = Latest(b, at, late, i)
<1> DEFINE S == Open(b)
           F == [p \in [S -> Int] \X S |-> Latest(b, at, p[1], p[2])]
           below == [i \in S |-> Successors(b, i)]
           rank == [i \in S |-> 0 - at[i].end]
           Eq(l) == l = [i \in DOMAIN at |-> Latest(b, at, l, i)]
<1>1. ASSUME NEW g \in [S -> Int], NEW i \in S
      PROVE  F[<<g, i>>] = Latest(b, at, g, i) /\ Latest(b, at, g, i) \in Int
  <2>1. F[<<g, i>>] = Latest(b, at, g, i)
    OBVIOUS
  <2>2. \A j \in Successors(b, i) : g[j] \in Int
    BY DEF Successors
  <2>3. Latest(b, at, g, i) \in Int
    BY <2>2, LatestIs
  <2> QED
    BY <2>1, <2>3
<1>2. LooksBelow(F, S, Int, below, rank)
  <2>1. F \in [[S -> Int] \X S -> Int]
    BY <1>1
  <2>2. \A i \in S : at[i].end \in Int
    BY DEF Sequenced, Placing, Placement
  <2>3. rank \in [S -> Int]
    BY <2>2
  <2>4. \A i \in S : \A j \in below[i] : j \in S /\ rank[j] < rank[i]
    <3> SUFFICES ASSUME NEW i \in S, NEW j \in Successors(b, i) PROVE j \in S /\ rank[j] < rank[i]
      OBVIOUS
    <3>1. j \in S /\ at[i].end < at[j].end
      BY SuccessorsEndLater
    <3> QED
      BY <2>2, <3>1
  <2>5. ASSUME NEW g \in [S -> Int], NEW h \in [S -> Int], NEW i \in S, \A j \in below[i] : g[j] = h[j]
        PROVE  F[<<g, i>>] = F[<<h, i>>]
    <3>1. Latest(b, at, g, i) = Latest(b, at, h, i)
      BY <2>5, LatestLooksAhead
    <3> QED
      BY <1>1, <3>1
  <2> HIDE DEF F, below, rank
  <2> QED
    BY <2>1, <2>3, <2>4, <2>5 DEF LooksBelow
<1>3. IsFiniteSet(S)
  BY DEF Sequenced, Placing
<1>4. PICK g \in [S -> Int] : \A i \in S : g[i] = F[<<g, i>>]
  <2> HIDE DEF F, below, rank, S
  <2>1. Int # {}
    OBVIOUS
  <2>2. \E g : IsFixedPoint(g, F, S, Int)
    BY <1>2, <1>3, <2>1, RecursionHasAFixedPoint
  <2> QED
    BY <2>2 DEF IsFixedPoint
<1>5. Eq(g)
  <2>1. \A i \in S : g[i] = Latest(b, at, g, i)
    BY <1>1, <1>4
  <2>2. DOMAIN at = S
    BY DEF Sequenced
  <2> HIDE DEF S, F
  <2> QED
    BY <1>4, <2>1, <2>2
<1>6. Eq(CHOOSE l : Eq(l))
  BY <1>5, Zenon
<1>7. late = CHOOSE l : Eq(l)
  BY DEF LatestFinish, Latest, LateBounds
<1>8. Eq(late)
  BY <1>6, <1>7
<1>9. \A i \in S : late[i] = Latest(b, at, late, i)
  <2>1. DOMAIN at = S
    BY DEF Sequenced
  <2> QED
    BY <1>8, <2>1
<1>10. \A i \in S : late[i] \in Int
  <2> DEFINE X == {i \in S : late[i] \notin Int}
  <2> SUFFICES ASSUME X # {} PROVE FALSE
    OBVIOUS
  <2>1. PICK i \in X : Successors(b, i) \cap X = {}
    <3>1. X \in SUBSET Open(b)
      OBVIOUS
    <3> HIDE DEF X
    <3> QED
      BY <3>1, LastOfAny
  <2>2. \A j \in Successors(b, i) : late[j] \in Int
    BY <2>1 DEF Successors
  <2>3. Latest(b, at, late, i) \in Int
    BY <2>1, <2>2, LatestIs
  <2> QED
    BY <1>9, <2>1, <2>3
<1> QED
  BY <1>9, <1>10

Overdue(b, at, i) == b[i].deadline # NoDate /\ at[i].end > b[i].deadline

\* An initiative ends after its latest finish when it misses its deadline, and
\* only then or when something that waits on it does the same.
LEMMA LateIsHandedOn ==
  ASSUME WorkedCalendar, NEW b, NEW slots, Schedulable(b, slots), Deadlined(b),
         NEW at, Sequenced(b, at), NEW late, late = LatestFinish(b, at), NEW i \in Open(b)
  PROVE  /\ late[i] \in Int /\ at[i].end \in Int /\ IsWorkingDay(at[i].end)
         /\ Overdue(b, at, i) => late[i] < at[i].end
         /\ late[i] < at[i].end =>
               Overdue(b, at, i) \/ \E j \in Successors(b, i) : late[j] < at[j].end
<1>1. \A j \in Open(b) : late[j] \in Int /\ late[j] = Latest(b, at, late, j)
  BY LatestFinishUnfolds
<1>2. /\ LateBounds(b, late, i) = {} => \A j \in Open(b) : at[j].end <= late[i]
      /\ LateBounds(b, late, i) # {} => late[i] \in LateBounds(b, late, i)
      /\ \A d \in LateBounds(b, late, i) : d \in Int /\ late[i] <= d
  <2>1. \A j \in Successors(b, i) : late[j] \in Int
    BY <1>1 DEF Successors
  <2>2. PICK l : l = Latest(b, at, late, i)
    OBVIOUS
  <2>3. /\ LateBounds(b, late, i) = {} => \A j \in Open(b) : at[j].end <= l
        /\ LateBounds(b, late, i) # {} => l \in LateBounds(b, late, i)
        /\ \A d \in LateBounds(b, late, i) : d \in Int /\ l <= d
    BY <2>1, <2>2, LatestIs
  <2>4. late[i] = l
    BY <1>1, <2>2
  <2> QED
    BY <2>3, <2>4
<1>3. ASSUME NEW j \in Open(b)
      PROVE  /\ at[j].start \in Int /\ at[j].end \in Int /\ IsWorkingDay(at[j].end)
             /\ \E n \in Nat : /\ n = DurationDays[b[j].size] - 1
                               /\ at[j].end = AddWorkingDays(at[j].start, n)
  <2>1. PICK n \in Nat : n = DurationDays[b[j].size] - 1
    BY DurationAssumption DEF Schedulable, Open
  <2>2. at[j].start \in Int /\ at[j].end \in Int /\ at[j].end = AddWorkingDays(at[j].start, n)
    BY <2>1 DEF Sequenced, Placing, Placement
  <2>3. IsWorkingDay(at[j].end)
    BY <2>2, AddIsLater
  <2> QED
    BY <2>1, <2>2, <2>3
<1>4. ASSUME b[i].deadline # NoDate
      PROVE  /\ b[i].deadline \in Int
             /\ WorkingDayOnOrBefore(b[i].deadline) \in LateBounds(b, late, i)
             /\ WorkingDayOnOrBefore(b[i].deadline) \in Int
             /\ WorkingDayOnOrBefore(b[i].deadline) <= b[i].deadline
             /\ at[i].end <= b[i].deadline => at[i].end <= WorkingDayOnOrBefore(b[i].deadline)
  <2>1. b[i].deadline \in Int
    BY <1>4 DEF Deadlined, Open
  <2> QED
    BY <1>3, <1>4, <2>1, OnOrBefore DEF LateBounds, Imposed
<1>5. Overdue(b, at, i) => late[i] < at[i].end
  <2> SUFFICES ASSUME Overdue(b, at, i) PROVE late[i] < at[i].end
    OBVIOUS
  <2>1. b[i].deadline # NoDate /\ at[i].end > b[i].deadline
    BY DEF Overdue
  <2>2. late[i] <= WorkingDayOnOrBefore(b[i].deadline)
    BY <1>2, <1>4, <2>1
  <2> QED
    BY <1>1, <1>3, <1>4, <2>1, <2>2
<1>6. ASSUME late[i] < at[i].end, ~Overdue(b, at, i)
      PROVE  \E j \in Successors(b, i) : late[j] < at[j].end
  <2>1. late[i] \in LateBounds(b, late, i)
    <3>1. CASE LateBounds(b, late, i) = {}
      <4>1. at[i].end <= late[i]
        BY <1>2, <3>1
      <4> QED
        BY <1>1, <1>3, <1>6, <4>1
    <3> QED
      BY <1>2, <3>1
  <2>2. late[i] \notin Imposed(b, i)
    <3>1. CASE b[i].deadline = NoDate
      BY <3>1 DEF Imposed
    <3>2. CASE b[i].deadline # NoDate
      <4>1. at[i].end <= b[i].deadline
        BY <1>3, <1>4, <1>6, <3>2 DEF Overdue
      <4>2. at[i].end <= WorkingDayOnOrBefore(b[i].deadline)
        BY <1>4, <3>2, <4>1
      <4>3. late[i] # WorkingDayOnOrBefore(b[i].deadline)
        BY <1>1, <1>3, <1>4, <1>6, <3>2, <4>2
      <4> QED
        BY <3>2, <4>3 DEF Imposed
    <3> QED
      BY <3>1, <3>2
  <2>3. PICK j \in Successors(b, i) :
           late[i] = WorkingDayOnOrBefore(SubtractWorkingDays(late[j], DurationDays[b[j].size] - 1) - 1)
    BY <2>1, <2>2 DEF LateBounds
  <2>4. j \in Open(b) /\ at[i].end < at[j].start
    BY SuccessorsEndLater
  <2>5. PICK n \in Nat : /\ n = DurationDays[b[j].size] - 1
                         /\ at[j].end = AddWorkingDays(at[j].start, n)
    BY <1>3, <2>4
  <2>6. ASSUME late[j] >= at[j].end
        PROVE  FALSE
    <3>1. PICK s \in Int : s = at[j].start
      BY <1>3, <2>4
    <3>2. PICK l \in Int : l = late[j]
      BY <1>1, <2>4
    <3>3. l >= AddWorkingDays(s, n)
      BY <2>5, <2>6, <3>1, <3>2
    <3>4. SubtractWorkingDays(l, n) \in Int /\ SubtractWorkingDays(l, n) >= s
      BY <3>3, SubtractUndoes
    <3>5. PICK f \in Int : f = SubtractWorkingDays(l, n) - 1
      BY <3>4
    <3>6. at[i].end <= f
      BY <1>3, <2>4, <3>1, <3>4, <3>5
    <3>7. WorkingDayOnOrBefore(f) >= at[i].end
      BY <1>3, <3>6, OnOrBefore
    <3>8. late[i] = WorkingDayOnOrBefore(f)
      BY <2>3, <2>5, <3>2, <3>5
    <3> QED
      BY <1>1, <1>3, <1>6, <3>7, <3>8
  <2>7. late[j] \in Int /\ at[j].end \in Int
    BY <1>1, <1>3, <2>4
  <2> QED
    BY <2>6, <2>7
<1> QED
  BY <1>1, <1>3, <1>5, <1>6

\* What lies downstream of each initiative, itself included.
Down(b, D) == D = [i \in Open(b) |-> {i} \cup UNION {D[j] : j \in Successors(b, i)}]

\* What lies downstream, defined by recursion over the successors, exists.
LEMMA DownstreamExists ==
  ASSUME NEW b, NEW at, Sequenced(b, at)
  PROVE  \E D : Down(b, D)
<1> DEFINE S == Open(b)
           V == SUBSET S
           Of(g, i) == {i} \cup UNION {g[j] : j \in Successors(b, i)}
           F == [p \in [S -> V] \X S |-> Of(p[1], p[2])]
           below == [i \in S |-> Successors(b, i)]
           rank == [i \in S |-> 0 - at[i].end]
<1>1. ASSUME NEW g \in [S -> V], NEW i \in S
      PROVE  F[<<g, i>>] = Of(g, i) /\ Of(g, i) \in V
  <2>1. F[<<g, i>>] = Of(g, i)
    OBVIOUS
  <2>2. \A j \in Successors(b, i) : g[j] \subseteq S
    BY DEF Successors
  <2> QED
    BY <2>1, <2>2
<1>2. LooksBelow(F, S, V, below, rank)
  <2>1. F \in [[S -> V] \X S -> V]
    BY <1>1
  <2>2. \A i \in S : at[i].end \in Int
    BY DEF Sequenced, Placing, Placement
  <2>3. rank \in [S -> Int]
    BY <2>2
  <2>4. \A i \in S : \A j \in below[i] : j \in S /\ rank[j] < rank[i]
    <3> SUFFICES ASSUME NEW i \in S, NEW j \in Successors(b, i) PROVE j \in S /\ rank[j] < rank[i]
      OBVIOUS
    <3>1. j \in S /\ at[i].end < at[j].end
      BY SuccessorsEndLater
    <3> QED
      BY <2>2, <3>1
  <2>5. ASSUME NEW g \in [S -> V], NEW h \in [S -> V], NEW i \in S, \A j \in below[i] : g[j] = h[j]
        PROVE  F[<<g, i>>] = F[<<h, i>>]
    <3>1. Of(g, i) = Of(h, i)
      BY <2>5
    <3> QED
      BY <1>1, <3>1
  <2> HIDE DEF F, below, rank
  <2> QED
    BY <2>1, <2>3, <2>4, <2>5 DEF LooksBelow
<1>3. PICK g \in [S -> V] : \A i \in S : g[i] = F[<<g, i>>]
  <2>1. V # {} /\ IsFiniteSet(S)
    BY DEF Sequenced, Placing
  <2> HIDE DEF F, below, rank, S, V
  <2>2. \E g : IsFixedPoint(g, F, S, V)
    BY <1>2, <2>1, RecursionHasAFixedPoint
  <2> QED
    BY <2>2 DEF IsFixedPoint
<1>4. \A i \in S : g[i] = Of(g, i)
  BY <1>1, <1>3
<1>5. Down(b, g)
  <2> HIDE DEF V, F
  <2> QED
    BY <1>3, <1>4 DEF Down
<1> QED
  BY <1>5

\* Lateness comes from a deadline missed downstream.
LEMMA LatenessComesFromDownstream ==
  ASSUME WorkedCalendar, NEW b, NEW slots, Schedulable(b, slots), Deadlined(b),
         NEW at, Sequenced(b, at), NEW late, late = LatestFinish(b, at),
         NEW D, Down(b, D), NEW i \in Open(b), late[i] < at[i].end
  PROVE  \E k \in D[i] : k \in Open(b) /\ Overdue(b, at, k)
<1> DEFINE Missed(j) == \E k \in D[j] : k \in Open(b) /\ Overdue(b, at, k)
           X == {j \in Open(b) : late[j] < at[j].end /\ ~Missed(j)}
<1>1. \A j \in Open(b) : D[j] = {j} \cup UNION {D[k] : k \in Successors(b, j)}
  BY DEF Down
<1>2. X = {}
  <2> SUFFICES ASSUME X # {} PROVE FALSE
    OBVIOUS
  <2>1. PICK j \in X : Successors(b, j) \cap X = {}
    <3>1. X \in SUBSET Open(b)
      OBVIOUS
    <3> HIDE DEF X
    <3> QED
      BY <3>1, LastOfAny
  <2>2. ~Missed(j) /\ late[j] < at[j].end /\ j \in Open(b)
    BY <2>1
  <2>3. j \in D[j]
    BY <1>1, <2>2
  <2>4. ~Overdue(b, at, j)
    BY <2>2, <2>3
  <2>5. PICK k \in Successors(b, j) : late[k] < at[k].end
    BY <2>2, <2>4, LateIsHandedOn
  <2>6. k \in Open(b)
    BY DEF Successors
  <2>7. Missed(k)
    BY <2>1, <2>5, <2>6
  <2>8. D[k] \subseteq D[j]
    BY <1>1, <2>2
  <2> QED
    BY <2>2, <2>7, <2>8
<1> QED
  BY <1>2

-----------------------------------------------------------------------------
(* The longest chain. *)

Waits(b, members, i) == b[i].deps \cap members

\* The length in working days of the longest chain that ends with each.
BestOf(b, members, best, i) ==
    DurationDays[b[i].size] + Max({0} \cup {best[p] : p \in Waits(b, members, i)})

Best(b, members, best) == best = [i \in members |-> BestOf(b, members, best, i)]

LongestOf(best, S) == Min({i \in S : \A j \in S : best[j] <= best[i]})

\* The longest chain that ends with each.
ChainOf(b, members, best, path, i) ==
    IF Waits(b, members, i) = {} THEN <<i>>
    ELSE Append(path[LongestOf(best, Waits(b, members, i))], i)

Chains(b, members, best, path) == path = [i \in members |-> ChainOf(b, members, best, path, i)]

\* What an initiative waits on ends before it does.
LEMMA WaitsEndEarlier ==
  ASSUME NEW b, NEW at, Sequenced(b, at), NEW members \in SUBSET Open(b), NEW i \in members,
         NEW p \in Waits(b, members, i)
  PROVE  p \in members /\ at[p].end \in Int /\ at[i].end \in Int /\ at[p].end < at[i].end
<1>1. p \in members /\ p \in Open(b) /\ i \in Open(b) /\ i \in Successors(b, p)
  BY DEF Waits, Successors
<1>2. at[p].end < at[i].end
  BY <1>1, SuccessorsEndLater
<1> QED
  BY <1>1, <1>2 DEF Sequenced, Placing, Placement

\* The longest wait that ends with an initiative is a number of days.
LEMMA BestIsANumber ==
  ASSUME NEW b, NEW slots, Schedulable(b, slots), NEW members \in SUBSET Open(b), NEW i \in members,
         NEW best, \A p \in Waits(b, members, i) : best[p] \in Int
  PROVE  BestOf(b, members, best, i) \in Int
<1> DEFINE W == Waits(b, members, i)
           bests == {best[p] : p \in W}
<1>1. IsFiniteSet(W)
  <2>1. IsFiniteSet(Open(b))
    BY OpenIsFinite DEF Schedulable
  <2>2. W \in SUBSET Open(b)
    BY DEF Waits
  <2> QED
    BY <2>1, <2>2, FS_Subset
<1>2. IsFiniteSet(bests)
  <2> HIDE DEF W
  <2> QED
    BY <1>1, ImageOfFinite
<1>3. IsFiniteSet({0} \cup bests) /\ {0} \cup bests \in SUBSET Int /\ {0} \cup bests # {}
  <2>1. IsFiniteSet(bests \cup {0})
    <3> HIDE DEF bests
    <3> QED
      BY <1>2, FS_AddElement
  <2>2. bests \cup {0} = {0} \cup bests
    OBVIOUS
  <2> QED
    BY <2>1, <2>2
<1>4. Max({0} \cup bests) \in Int
  <2> HIDE DEF bests
  <2> QED
    BY <1>3, MaxOfFinite
<1>5. DurationDays[b[i].size] \in Int
  BY DurationAssumption DEF Schedulable, Open
<1> QED
  BY <1>4, <1>5 DEF BestOf

\* The longest waits, defined by recursion over the dependencies, exist.
LEMMA BestExists ==
  ASSUME NEW b, NEW slots, Schedulable(b, slots), NEW at, Sequenced(b, at),
         NEW members \in SUBSET Open(b)
  PROVE  /\ \E best : Best(b, members, best)
         /\ \A best : Best(b, members, best) => \A i \in members : best[i] \in Int
<1> DEFINE V == Int
           Of(g, i) == BestOf(b, members, g, i)
           F == [p \in [members -> V] \X members |-> Of(p[1], p[2])]
           below == [i \in members |-> Waits(b, members, i)]
           rank == [i \in members |-> at[i].end]
<1>1. ASSUME NEW g \in [members -> V], NEW i \in members
      PROVE  F[<<g, i>>] = Of(g, i) /\ Of(g, i) \in V
  <2>1. F[<<g, i>>] = Of(g, i)
    OBVIOUS
  <2>2. \A p \in Waits(b, members, i) : g[p] \in Int
    BY DEF Waits
  <2> QED
    BY <2>1, <2>2, BestIsANumber
<1>2. LooksBelow(F, members, V, below, rank)
  <2>1. F \in [[members -> V] \X members -> V]
    BY <1>1
  <2>2. \A i \in members : at[i].end \in Int
    BY DEF Sequenced, Placing, Placement
  <2>3. rank \in [members -> Int]
    BY <2>2
  <2>4. \A i \in members : \A j \in below[i] : j \in members /\ rank[j] < rank[i]
    <3> SUFFICES ASSUME NEW i \in members, NEW j \in Waits(b, members, i)
                 PROVE  j \in members /\ rank[j] < rank[i]
      OBVIOUS
    <3>1. j \in members /\ at[j].end < at[i].end
      BY WaitsEndEarlier
    <3> QED
      BY <2>2, <3>1
  <2>5. ASSUME NEW g \in [members -> V], NEW h \in [members -> V], NEW i \in members,
               \A j \in below[i] : g[j] = h[j]
        PROVE  F[<<g, i>>] = F[<<h, i>>]
    <3>1. {g[p] : p \in Waits(b, members, i)} = {h[p] : p \in Waits(b, members, i)}
      BY <2>5
    <3>2. Of(g, i) = Of(h, i)
      BY <3>1 DEF BestOf
    <3> QED
      BY <1>1, <3>2
  <2> HIDE DEF F, below, rank
  <2> QED
    BY <2>1, <2>3, <2>4, <2>5 DEF LooksBelow
<1>3. PICK g \in [members -> V] : \A i \in members : g[i] = F[<<g, i>>]
  <2>1. V # {} /\ IsFiniteSet(members)
    BY FS_Subset DEF Sequenced, Placing
  <2> HIDE DEF F, below, rank, V
  <2>2. \E g : IsFixedPoint(g, F, members, V)
    BY <1>2, <2>1, RecursionHasAFixedPoint
  <2> QED
    BY <2>2 DEF IsFixedPoint
<1>4. \A i \in members : g[i] = Of(g, i)
  BY <1>1, <1>3
<1>5. Best(b, members, g)
  <2> HIDE DEF F
  <2> QED
    BY <1>3, <1>4 DEF Best
<1>6. ASSUME NEW best, Best(b, members, best)
      PROVE  \A i \in members : best[i] \in Int
  <2> DEFINE X == {i \in members : best[i] \notin Int}
  <2> SUFFICES ASSUME X # {} PROVE FALSE
    OBVIOUS
  <2>1. PICK i \in X : Predecessors(b, i) \cap X = {}
    <3>1. X \in SUBSET Open(b)
      OBVIOUS
    <3> HIDE DEF X
    <3> QED
      BY <3>1, LastOfAny
  <2>2. \A p \in Waits(b, members, i) : best[p] \in Int
    BY <2>1 DEF Waits, Predecessors
  <2>3. BestOf(b, members, best, i) \in Int
    BY <2>1, <2>2, BestIsANumber
  <2> QED
    BY <1>6, <2>1, <2>3 DEF Best
<1> QED
  BY <1>5, <1>6

\* Of a set with something in it, one of its members.
LEMMA LongestIsOneOf ==
  ASSUME NEW S \in SUBSET Int, IsFiniteSet(S), S # {}, NEW best, \A i \in S : best[i] \in Int
  PROVE  LongestOf(best, S) \in S
<1> DEFINE bests == {best[i] : i \in S}
           T == {i \in S : \A j \in S : best[j] <= best[i]}
<1>1. bests \in SUBSET Int /\ bests # {} /\ IsFiniteSet(bests)
  BY ImageOfFinite
<1>2. Max(bests) \in bests /\ \A e \in bests : Max(bests) >= e
  <2> HIDE DEF bests
  <2> QED
    BY <1>1, MaxOfFinite
<1>3. T # {} /\ T \in SUBSET Int /\ IsFiniteSet(T)
  <2>1. PICK i \in S : best[i] = Max(bests)
    BY <1>2
  <2>2. ASSUME NEW j \in S PROVE best[j] <= best[i]
    <3>1. Max(bests) >= best[j] /\ best[j] \in Int /\ best[i] \in Int
      BY <1>2
    <3> HIDE DEF bests
    <3> QED
      BY <2>1, <3>1
  <2>3. i \in T
    BY <2>2
  <2> QED
    BY <2>3, FS_Subset
<1>4. Min(T) \in T
  <2> HIDE DEF T
  <2> QED
    BY <1>3, MinOfFinite
<1> QED
  BY <1>4 DEF LongestOf

\* The one chosen for the longest wait is one of those there are.
LEMMA LongestWait ==
  ASSUME NEW b, NEW slots, Schedulable(b, slots), NEW members \in SUBSET Open(b),
         NEW best, \A i \in members : best[i] \in Int, NEW S \in SUBSET members, S # {}
  PROVE  LongestOf(best, S) \in S
<1>1. S \in SUBSET Int
  BY DEF Schedulable, Open
<1>2. IsFiniteSet(S)
  <2>1. IsFiniteSet(Open(b)) /\ S \in SUBSET Open(b)
    BY OpenIsFinite DEF Schedulable
  <2> QED
    BY <2>1, FS_Subset
<1>3. \A i \in S : best[i] \in Int
  OBVIOUS
<1> QED
  BY <1>1, <1>2, <1>3, LongestIsOneOf

\* The longest chains, defined by recursion over the dependencies, exist.
LEMMA ChainsExist ==
  ASSUME NEW b, NEW slots, Schedulable(b, slots), NEW at, Sequenced(b, at),
         NEW members \in SUBSET Open(b), NEW best, \A i \in members : best[i] \in Int
  PROVE  \E path : Chains(b, members, best, path)
<1> DEFINE V == Seq(members)
           F == [p \in [members -> V] \X members |-> ChainOf(b, members, best, p[1], p[2])]
           below == [i \in members |-> Waits(b, members, i)]
           rank == [i \in members |-> at[i].end]
<1>1. ASSUME NEW i \in members, Waits(b, members, i) # {}
      PROVE  LongestOf(best, Waits(b, members, i)) \in Waits(b, members, i)
  <2>1. Waits(b, members, i) \in SUBSET members
    BY DEF Waits
  <2> QED
    BY <1>1, <2>1, LongestWait
<1>2. ASSUME NEW g \in [members -> V], NEW i \in members
      PROVE  F[<<g, i>>] = ChainOf(b, members, best, g, i) /\ ChainOf(b, members, best, g, i) \in V
  <2>1. F[<<g, i>>] = ChainOf(b, members, best, g, i)
    OBVIOUS
  <2>2. CASE Waits(b, members, i) = {}
    BY <2>1, <2>2 DEF ChainOf
  <2>3. CASE Waits(b, members, i) # {}
    <3>1. PICK p \in members : p = LongestOf(best, Waits(b, members, i))
      BY <1>1, <2>3 DEF Waits
    <3>2. g[p] \in Seq(members)
      OBVIOUS
    <3>3. Append(g[p], i) \in Seq(members)
      BY <3>2
    <3> QED
      BY <2>1, <2>3, <3>1, <3>3 DEF ChainOf
  <2> QED
    BY <2>2, <2>3
<1>3. LooksBelow(F, members, V, below, rank)
  <2>1. F \in [[members -> V] \X members -> V]
    BY <1>2
  <2>2. \A i \in members : at[i].end \in Int
    BY DEF Sequenced, Placing, Placement
  <2>3. rank \in [members -> Int]
    BY <2>2
  <2>4. \A i \in members : \A j \in below[i] : j \in members /\ rank[j] < rank[i]
    <3> SUFFICES ASSUME NEW i \in members, NEW j \in Waits(b, members, i)
                 PROVE  j \in members /\ rank[j] < rank[i]
      OBVIOUS
    <3>1. j \in members /\ at[j].end < at[i].end
      BY WaitsEndEarlier
    <3> QED
      BY <2>2, <3>1
  <2>5. ASSUME NEW g \in [members -> V], NEW h \in [members -> V], NEW i \in members,
               \A j \in below[i] : g[j] = h[j]
        PROVE  F[<<g, i>>] = F[<<h, i>>]
    <3>1. ChainOf(b, members, best, g, i) = ChainOf(b, members, best, h, i)
      BY <1>1, <2>5 DEF ChainOf
    <3> QED
      BY <1>2, <3>1
  <2> HIDE DEF F, below, rank
  <2> QED
    BY <2>1, <2>3, <2>4, <2>5 DEF LooksBelow
<1>4. PICK g \in [members -> V] : \A i \in members : g[i] = F[<<g, i>>]
  <2>1. V # {} /\ IsFiniteSet(members)
    <3>1. <<>> \in V
      OBVIOUS
    <3>2. IsFiniteSet(members)
      BY FS_Subset DEF Sequenced, Placing
    <3> QED
      BY <3>1, <3>2
  <2> HIDE DEF F, below, rank, V
  <2>2. \E g : IsFixedPoint(g, F, members, V)
    BY <1>3, <2>1, RecursionHasAFixedPoint
  <2> QED
    BY <2>2 DEF IsFixedPoint
<1>5. \A i \in members : g[i] = ChainOf(b, members, best, g, i)
  BY <1>2, <1>4
<1>6. Chains(b, members, best, g)
  <2> HIDE DEF F, V
  <2> QED
    BY <1>4, <1>5 DEF Chains
<1> QED
  BY <1>6

\* A chain that ends with an initiative, each link waited on by the next.
IsChain(b, members, c, i) ==
    /\ c \in Seq(members) /\ Len(c) >= 1 /\ c[Len(c)] = i
    /\ \A k \in 2 .. Len(c) : c[k - 1] \in b[c[k]].deps

\* Each of them follows dependencies to the initiative it is of.
LEMMA EachIsAChain ==
  ASSUME NEW b, NEW slots, Schedulable(b, slots), NEW at, Sequenced(b, at),
         NEW members \in SUBSET Open(b), NEW best, \A i \in members : best[i] \in Int,
         NEW path, Chains(b, members, best, path)
  PROVE  \A i \in members : IsChain(b, members, path[i], i)
<1> DEFINE X == {i \in members : ~IsChain(b, members, path[i], i)}
<1> SUFFICES ASSUME X # {} PROVE FALSE
  OBVIOUS
<1>1. PICK i \in X : Predecessors(b, i) \cap X = {}
  <2>1. X \in SUBSET Open(b)
    OBVIOUS
  <2> HIDE DEF X
  <2> QED
    BY <2>1, LastOfAny
<1>2. i \in members /\ ~IsChain(b, members, path[i], i) /\ path[i] = ChainOf(b, members, best, path, i)
  BY <1>1 DEF Chains
<1>3. CASE Waits(b, members, i) = {}
  <2>1. path[i] = <<i>>
    BY <1>2, <1>3 DEF ChainOf
  <2>2. IsChain(b, members, <<i>>, i)
    BY <1>2 DEF IsChain
  <2> QED
    BY <1>2, <2>1, <2>2
<1>4. CASE Waits(b, members, i) # {}
  <2>1. PICK p \in Waits(b, members, i) : p = LongestOf(best, Waits(b, members, i))
    <3>1. Waits(b, members, i) \in SUBSET members
      BY DEF Waits
    <3> QED
      BY <1>4, <3>1, LongestWait
  <2>2. p \in members /\ p \in Predecessors(b, i) /\ p \in b[i].deps
    BY DEF Waits, Predecessors
  <2>3. PICK c : c = path[p]
    OBVIOUS
  <2>4. IsChain(b, members, c, p)
    BY <1>1, <2>2, <2>3
  <2>5. path[i] = Append(c, i)
    BY <1>2, <1>4, <2>1, <2>3 DEF ChainOf
  <2>6. c \in Seq(members) /\ Len(c) \in Nat /\ Len(c) >= 1
    BY <2>4 DEF IsChain
  <2>7. /\ Append(c, i) \in Seq(members) /\ Len(Append(c, i)) = Len(c) + 1
        /\ Append(c, i)[Len(c) + 1] = i
        /\ \A k \in 1 .. Len(c) : Append(c, i)[k] = c[k]
    BY <1>2, <2>6
  <2>8. ASSUME NEW k \in 2 .. Len(c) + 1
        PROVE  Append(c, i)[k - 1] \in b[Append(c, i)[k]].deps
    <3>1. k - 1 \in 1 .. Len(c)
      BY <2>6
    <3>2. Append(c, i)[k - 1] = c[k - 1]
      BY <2>7, <3>1
    <3>3. CASE k = Len(c) + 1
      <4>1. k - 1 = Len(c) /\ c[Len(c)] = p
        BY <2>4, <2>6, <3>3 DEF IsChain
      <4>2. Append(c, i)[k] = i
        BY <2>7, <3>3
      <4> QED
        BY <2>2, <3>2, <4>1, <4>2
    <3>4. CASE k # Len(c) + 1
      <4>1. k \in 2 .. Len(c) /\ k \in 1 .. Len(c)
        BY <2>6, <3>4
      <4>2. c[k - 1] \in b[c[k]].deps
        BY <2>4, <4>1 DEF IsChain
      <4>3. Append(c, i)[k] = c[k]
        BY <2>7, <4>1
      <4> QED
        BY <3>2, <4>2, <4>3
    <3> QED
      BY <3>3, <3>4
  <2>9. IsChain(b, members, Append(c, i), i)
    BY <2>6, <2>7, <2>8 DEF IsChain
  <2> QED
    BY <1>2, <2>5, <2>9
<1> QED
  BY <1>3, <1>4

\* LongestChain is a chain of its members.
LEMMA LongestChainIs ==
  ASSUME NEW b, NEW slots, Schedulable(b, slots), NEW at, Sequenced(b, at),
         NEW members \in SUBSET Open(b), members # {}
  PROVE  \E i \in members : IsChain(b, members, LongestChain(b, members), i)
<1> DEFINE before == [i \in members |-> b[i].deps \cap members]
           EqBest(best) == best = [i \in members |->
              DurationDays[b[i].size] + Max({0} \cup {best[p] : p \in before[i]})]
           best == CHOOSE x : EqBest(x)
           Longest(S) == Min({i \in S : \A j \in S : best[j] <= best[i]})
           EqPath(path) == path = [i \in members |->
              IF before[i] = {} THEN <<i>> ELSE Append(path[Longest(before[i])], i)]
           path == CHOOSE x : EqPath(x)
<1>1. \A i \in members : before[i] = Waits(b, members, i)
  BY DEF Waits
<1>2. ASSUME NEW x
      PROVE  EqBest(x) <=> Best(b, members, x)
  <2> HIDE DEF before
  <2>1. \A i \in members :
           DurationDays[b[i].size] + Max({0} \cup {x[p] : p \in before[i]}) = BestOf(b, members, x, i)
    BY <1>1 DEF BestOf
  <2> QED
    BY <2>1 DEF Best
<1>3. \E x : EqBest(x)
  <2>1. \E x : Best(b, members, x)
    BY BestExists
  <2> HIDE DEF EqBest
  <2> QED
    BY <1>2, <2>1
<1>4. EqBest(best)
  BY <1>3, Zenon
<1>5. PICK best1 : best1 = best
  OBVIOUS
<1>6. \A i \in members : best1[i] \in Int
  <2>1. Best(b, members, best1)
    BY <1>2, <1>4, <1>5
  <2> QED
    BY <2>1, BestExists
<1>7. \A S : Longest(S) = LongestOf(best1, S)
  BY <1>5 DEF LongestOf
<1> HIDE DEF best
<1>8. ASSUME NEW x
      PROVE  EqPath(x) <=> Chains(b, members, best1, x)
  <2> HIDE DEF before, Longest
  <2>1. \A i \in members :
           (IF before[i] = {} THEN <<i>> ELSE Append(x[Longest(before[i])], i))
             = ChainOf(b, members, best1, x, i)
    BY <1>1, <1>7 DEF ChainOf
  <2> QED
    BY <2>1 DEF Chains
<1>9. \E x : EqPath(x)
  <2>1. \E x : Chains(b, members, best1, x)
    BY <1>6, ChainsExist
  <2> HIDE DEF EqPath
  <2> QED
    BY <1>8, <2>1
<1>10. EqPath(path)
  BY <1>9, Zenon
<1>11. PICK path1 : path1 = path
  OBVIOUS
<1>12. Chains(b, members, best1, path1)
  BY <1>8, <1>10, <1>11
<1>13. LongestChain(b, members) = path1[LongestOf(best1, members)]
  <2>1. LongestChain(b, members) = path[Longest(members)]
    BY DEF LongestChain, best
  <2> HIDE DEF path, Longest
  <2> QED
    BY <1>7, <1>11, <2>1
<1>14. LongestOf(best1, members) \in members
  BY <1>6, LongestWait
<1>15. \A i \in members : IsChain(b, members, path1[i], i)
  BY <1>6, <1>12, EachIsAChain
<1> QED
  BY <1>13, <1>14, <1>15

-----------------------------------------------------------------------------
(* Slack on the page. *)

\* The slack of the plan shows the deadlines that cannot be met, and only those.
LEMMA SlackShows ==
  ASSUME WorkedCalendar, BoardTypes, Acyclic(board)
  PROVE  Tells(Plan)
<1> DEFINE b == board
           all == Open(board)
<1>1. Schedulable(board, Slots) /\ Deadlined(board) /\ today \in Int
  <2>1. \A i \in DOMAIN board : board[i].deadline \in Deadlines
    BY DEF BoardTypes, BoardRows, Ids
  <2>2. Deadlined(board)
    BY <2>1, BoardAssumption DEF Deadlined
  <2> QED
    BY <2>2, BoardsAreSchedulable DEF BoardTypes
<1>2. PICK so : so = Forward(board, today, Slots, {})
  OBVIOUS
<1>3. PICK at : at = so.at
  OBVIOUS
<1>4. PICK late : late = LatestFinish(board, at)
  OBVIOUS
<1>5. PICK plan : plan = Plan
  OBVIOUS
<1>6. /\ plan.at = at
      /\ plan.slack = [i \in all |-> WorkingDaysBetween(at[i].end, late[i])]
      /\ plan.infeasible = {i \in all : Overdue(board, at, i)}
  BY <1>2, <1>3, <1>4, <1>5 DEF Plan, ComputeSchedule, Measured, Overdue
<1>7. Sequenced(board, at)
  BY <1>1, <1>2, <1>3, ForwardSequences
<1>8. \A i \in all : /\ late[i] \in Int /\ at[i].end \in Int /\ IsWorkingDay(at[i].end)
                     /\ Overdue(board, at, i) => late[i] < at[i].end
  BY <1>1, <1>4, <1>7, LateIsHandedOn
<1>9. \A i \in all : plan.slack[i] \in Int /\ (plan.slack[i] < 0 <=> late[i] < at[i].end)
  <2> SUFFICES ASSUME NEW i \in all
               PROVE  plan.slack[i] \in Int /\ (plan.slack[i] < 0 <=> late[i] < at[i].end)
    OBVIOUS
  <2>1. plan.slack[i] = WorkingDaysBetween(at[i].end, late[i])
    BY <1>6
  <2>2. PICK from \in Int : from = at[i].end /\ IsWorkingDay(from)
    BY <1>8
  <2>3. PICK to \in Int : to = late[i]
    BY <1>8
  <2>4. WorkingDaysBetween(from, to) \in Int /\ (WorkingDaysBetween(from, to) < 0 <=> to < from)
    BY <2>2, BetweenIsNegative
  <2> QED
    BY <2>1, <2>2, <2>3, <2>4
<1>10. \A i \in plan.infeasible : i \in all /\ plan.slack[i] < 0
  BY <1>6, <1>8, <1>9
<1> DEFINE EqDown(x) == x = [i \in Open(board) |-> {i} \cup UNION {x[j] : j \in Successors(board, i)}]
           D == CHOOSE x : EqDown(x)
<1>11. Down(board, D)
  <2>1. \E x : EqDown(x)
    <3>1. \E x : Down(board, x)
      BY <1>7, DownstreamExists
    <3> QED
      BY <3>1 DEF Down
  <2>2. EqDown(D)
    BY <2>1, Zenon
  <2>3. ASSUME NEW x PROVE EqDown(x) <=> Down(board, x)
    BY DEF Down
  <2> HIDE DEF EqDown, D
  <2> QED
    BY <2>2, <2>3
<1> DEFINE members == {i \in Open(board) : \A j \in Open(board) : plan.slack[i] <= plan.slack[j]}
           path == CriticalPath(board, plan.slack)
<1>12. path = LongestChain(board, members)
  BY DEF CriticalPath
<1>13. ASSUME NEW i \in all, plan.slack[i] < 0
       PROVE  D[i] \cap plan.infeasible # {}
  <2>1. late[i] < at[i].end
    BY <1>9, <1>13
  <2> HIDE DEF D
  <2>2. \E k \in D[i] : k \in Open(board) /\ Overdue(board, at, k)
    BY <1>1, <1>4, <1>7, <1>11, <2>1, LatenessComesFromDownstream
  <2> QED
    BY <1>6, <2>2
<1>14. members # {} => \E i \in members : IsChain(board, members, path, i)
  <2>1. members \in SUBSET Open(board)
    OBVIOUS
  <2> HIDE DEF members, path
  <2> QED
    BY <1>1, <1>7, <1>12, <2>1, LongestChainIs
<1>15. all # {} => members # {}
  <2> SUFFICES ASSUME all # {} PROVE members # {}
    OBVIOUS
  <2> DEFINE slacks == {plan.slack[i] : i \in all}
  <2>1. IsFiniteSet(slacks) /\ slacks \in SUBSET Int /\ slacks # {}
    <3>1. IsFiniteSet(all)
      BY <1>7 DEF Sequenced, Placing
    <3> QED
      BY <1>9, <3>1, ImageOfFinite
  <2>2. Min(slacks) \in slacks /\ \A x \in slacks : Min(slacks) <= x
    <3> HIDE DEF slacks
    <3> QED
      BY <2>1, MinOfFinite
  <2>3. PICK i \in all : plan.slack[i] = Min(slacks)
    BY <2>2
  <2>4. \A j \in all : plan.slack[i] <= plan.slack[j]
    BY <2>2, <2>3
  <2> QED
    BY <2>4
<1>16. \A k \in 2 .. Len(path) : path[k - 1] \in board[path[k]].deps
  <2>1. CASE members = {}
    <3>1. path = <<>>
      BY <1>12, <2>1 DEF LongestChain
    <3>2. \A k \in 2 .. Len(<<>>) : FALSE
      OBVIOUS
    <3> QED
      BY <3>1, <3>2
  <2>2. CASE members # {}
    <3> HIDE DEF members, path
    <3> QED
      BY <1>14, <2>2 DEF IsChain
  <2> QED
    BY <2>1, <2>2
<1>17. ASSUME plan.infeasible # {}
       PROVE  plan.slack[path[1]] < 0
  <2>1. PICK i \in plan.infeasible : i \in all /\ plan.slack[i] < 0
    BY <1>10, <1>17
  <2>2. PICK k \in members : IsChain(board, members, path, k)
    BY <1>14, <1>15, <2>1
  <2>3. path[1] \in members
    <3> HIDE DEF members, path
    <3> QED
      BY <2>2 DEF IsChain
  <2>4. plan.slack[path[1]] <= plan.slack[i] /\ path[1] \in all
    BY <2>1, <2>3
  <2>5. plan.slack[path[1]] \in Int /\ plan.slack[i] \in Int
    BY <1>9, <2>1, <2>4
  <2> HIDE DEF path
  <2> QED
    BY <2>1, <2>4, <2>5
<1> HIDE DEF path, members
<1>18. Tells(plan)
  <2>1. \A i \in Open(board) : plan.slack[i] < 0 => D[i] \cap plan.infeasible # {}
    BY <1>13
  <2>2. \A i \in plan.infeasible : plan.slack[i] < 0
    BY <1>10
  <2>3. plan.infeasible # {} => plan.slack[path[1]] < 0
    BY <1>17
  <2>4. Tells(plan) <=> /\ \A i \in Open(board) : plan.slack[i] < 0 => D[i] \cap plan.infeasible # {}
                        /\ \A i \in plan.infeasible : plan.slack[i] < 0
                        /\ \A k \in 2 .. Len(path) : path[k - 1] \in board[path[k]].deps
                        /\ plan.infeasible # {} => plan.slack[path[1]] < 0
    BY DEF Tells, path
  <2> QED
    BY <1>16, <2>1, <2>2, <2>3, <2>4
<1> QED
  BY <1>5, <1>18

-----------------------------------------------------------------------------
(* A move and what it moves. *)

\* The placements of some of the initiatives.
Known(at, S) == [j \in S |-> at[j]]

\* What a forward pass amounts to, whatever the order is kept in: each
\* initiative is placed among those before it, and it is the one that goes
\* first of all that could have been placed then.
Turns(b, today_, slots, pinned, at, before) ==
    /\ DOMAIN at \subseteq Open(b) /\ at = Known(at, DOMAIN at)
    /\ before \in [DOMAIN at -> SUBSET DOMAIN at]
    /\ \A j \in DOMAIN at : j \notin before[j] /\ Predecessors(b, j) \subseteq before[j]
    /\ \A x, y \in DOMAIN at : x = y \/ x \in before[y] \/ y \in before[x]
    /\ \A x, y, z \in DOMAIN at : x \in before[y] /\ y \in before[z] => x \in before[z]
    /\ \A j \in DOMAIN at :
          LET so == Known(at, before[j])
              day == [x \in Ready(b, so) |-> ReadyDay(b, today_, so, x).day]
          IN /\ at[j] = Placed(b, today_, slots, so, j)
             /\ \A y \in Ready(b, so) \ {j} : Before(pinned, day, j, y)

\* One more turn: the initiative chosen comes after all that is placed.
LEMMA NextTurn ==
  ASSUME WorkedCalendar, NEW b, NEW slots, Schedulable(b, slots), Acyclic(b),
         NEW today_ \in Int, NEW pinned, NEW at, Placing(at), DOMAIN at # Open(b),
         NEW before, Turns(b, today_, slots, pinned, at, before),
         NEW i, i = Chosen(b, today_, at, pinned),
         NEW more, more = With(at, i, Placed(b, today_, slots, at, i))
  PROVE  \E after : Turns(b, today_, slots, pinned, more, after)
<1> DEFINE D == DOMAIN at
           after == [j \in D \cup {i} |-> IF j = i THEN D ELSE before[j]]
<1>1. D \subseteq Open(b) /\ at = Known(at, D)
  BY DEF Turns
<1>2. /\ i \in Ready(b, at)
      /\ \A y \in Ready(b, at) \ {i} :
            Before(pinned, [x \in Ready(b, at) |-> ReadyDay(b, today_, at, x).day], i, y)
  BY <1>1, ChosenIsReady
<1>3. i \in Open(b) /\ i \notin D /\ Predecessors(b, i) \subseteq D
  BY <1>2 DEF Ready
<1>4. PICK p : p = Placed(b, today_, slots, at, i)
  OBVIOUS
<1>5. /\ DOMAIN more = D \cup {i} /\ more = Known(more, DOMAIN more)
      /\ more[i] = p /\ \A j \in D : more[j] = at[j]
  BY <1>3, <1>4 DEF With, Known
<1>6. /\ before \in [D -> SUBSET D]
      /\ \A j \in D : j \notin before[j] /\ Predecessors(b, j) \subseteq before[j]
      /\ \A x, y \in D : x = y \/ x \in before[y] \/ y \in before[x]
      /\ \A x, y, z \in D : x \in before[y] /\ y \in before[z] => x \in before[z]
  BY DEF Turns
<1>7. after[i] = D /\ \A j \in D : j # i /\ after[j] = before[j]
  BY <1>3
<1>8. after \in [D \cup {i} -> SUBSET (D \cup {i})]
  <2> SUFFICES ASSUME NEW j \in D \cup {i} PROVE (IF j = i THEN D ELSE before[j]) \in SUBSET (D \cup {i})
    OBVIOUS
  <2> HIDE DEF D
  <2> QED
    BY <1>6
<1> HIDE DEF after, D
<1>9. \A j \in D \cup {i} : j \notin after[j] /\ Predecessors(b, j) \subseteq after[j]
  BY <1>3, <1>6, <1>7
<1>10. \A x, y \in D \cup {i} : x = y \/ x \in after[y] \/ y \in after[x]
  BY <1>6, <1>7
<1>11. \A x, y, z \in D \cup {i} : x \in after[y] /\ y \in after[z] => x \in after[z]
  BY <1>3, <1>6, <1>7
<1>12. \A j \in D : Known(more, after[j]) = Known(at, before[j])
  BY <1>5, <1>6, <1>7 DEF Known
<1>13. Known(more, after[i]) = at
  BY <1>1, <1>5, <1>7 DEF Known
<1>14. ASSUME NEW j \in D \cup {i}, NEW so, so = Known(more, after[j])
       PROVE  /\ more[j] = Placed(b, today_, slots, so, j)
              /\ \A y \in Ready(b, so) \ {j} :
                    Before(pinned, [x \in Ready(b, so) |-> ReadyDay(b, today_, so, x).day], j, y)
  <2>1. CASE j = i
    BY <1>2, <1>4, <1>5, <1>13, <1>14, <2>1
  <2>2. CASE j # i
    <3>1. j \in D /\ so = Known(at, before[j])
      BY <1>12, <1>14, <2>2
    <3> QED
      BY <1>5, <3>1 DEF Turns, D
  <2> QED
    BY <2>1, <2>2
<1>15. DOMAIN more \subseteq Open(b)
  BY <1>1, <1>3, <1>5
<1>16. Turns(b, today_, slots, pinned, more, after)
  BY <1>5, <1>8, <1>9, <1>10, <1>11, <1>14, <1>15 DEF Turns
<1> QED
  BY <1>16

\* A forward pass is made of such turns.
LEMMA ForwardTakesTurns ==
  ASSUME WorkedCalendar, NEW b, NEW slots, Schedulable(b, slots), Acyclic(b),
         NEW today_ \in Int, NEW pinned, NEW so, so = Forward(b, today_, slots, pinned)
  PROVE  \E before : Turns(b, today_, slots, pinned, so.at, before)
<1> DEFINE n == Cardinality(Open(b))
<1>1. IsFiniteSet(Open(b)) /\ n \in Nat
  BY OpenIsFinite DEF Schedulable
<1>2. PICK pass : /\ Passes(b, today_, slots, pinned, pass)
                  /\ so = pass[n]
                  /\ \A k \in 0 .. n : PlacedSoFar(b, slots, pass[k], k)
  BY ForwardStates
<1> DEFINE K == {k \in Nat : k <= n => \E before : Turns(b, today_, slots, pinned, pass[k].at, before)}
<1>3. 0 \in K
  <2>1. pass[0].at = <<>>
    BY <1>2 DEF Passes, Nothing
  <2>2. Turns(b, today_, slots, pinned, <<>>, <<>>)
    <3>1. DOMAIN <<>> = {} /\ <<>> \in [{} -> SUBSET {}]
      OBVIOUS
    <3>2. <<>> = Known(<<>>, {})
      BY DEF Known
    <3> QED
      BY <3>1, <3>2 DEF Turns
  <2> QED
    BY <2>1, <2>2
<1>4. ASSUME NEW k \in Nat, k \in K
      PROVE  k + 1 \in K
  <2> SUFFICES ASSUME k + 1 <= n
               PROVE  \E before : Turns(b, today_, slots, pinned, pass[k + 1].at, before)
    OBVIOUS
  <2>1. PICK at : at = pass[k].at
    OBVIOUS
  <2>2. PICK i : i = Chosen(b, today_, at, pinned)
    OBVIOUS
  <2>3. PICK more : more = With(at, i, Placed(b, today_, slots, at, i))
    OBVIOUS
  <2>4. pass[k + 1].at = more
    <3>1. k + 1 \in 1 .. n /\ (k + 1) - 1 = k
      BY <1>1
    <3>2. pass[k + 1] = Onward(b, today_, slots, pinned, pass[k])
      BY <1>2, <3>1 DEF Passes
    <3> QED
      BY <2>1, <2>2, <2>3, <3>2 DEF Onward
  <2>5. PICK before : Turns(b, today_, slots, pinned, at, before)
    BY <1>1, <1>4, <2>1
  <2>6. Placing(at) /\ Cardinality(DOMAIN at) = k
    BY <1>1, <1>2, <2>1 DEF PlacedSoFar
  <2>7. DOMAIN at # Open(b)
    BY <1>1, <2>6
  <2> QED
    BY <2>2, <2>3, <2>4, <2>5, <2>6, <2>7, NextTurn
<1>5. Nat \subseteq K
  <2> HIDE DEF K, n
  <2> QED
    BY <1>3, <1>4, Induction
<1> QED
  BY <1>1, <1>2, <1>5

-----------------------------------------------------------------------------
(* What a pass says of each initiative, by what was placed before it. *)

\* The initiatives of a set that run on a day in the area of another.
Holding(b, at, S, i, d) ==
    {j \in S : b[j].area = b[i].area /\ at[j].start <= d /\ d <= at[j].end}

RoomFor(b, slots, at, S, i, d) ==
    \A e \in d .. AddWorkingDays(d, DurationDays[b[i].size] - 1) :
       IsWorkingDay(e) => Cardinality(Holding(b, at, S, i, e)) < slots[b[i].area]

\* Placements are as many as the initiatives placed.
LEMMA HoldingCounts ==
  ASSUME NEW b, NEW at, Placing(at), NEW S \in SUBSET DOMAIN at, NEW i, NEW d
  PROVE  /\ IsFiniteSet(Holding(b, at, S, i, d))
         /\ Occupied(Peers(b, Known(at, S), i), d) = Cardinality(Holding(b, at, S, i, d))
<1> DEFINE H == Holding(b, at, S, i, d)
           peers == Peers(b, Known(at, S), i)
           T == {p \in peers : p.start <= d /\ d <= p.end}
           f == [j \in H |-> at[j]]
<1>1. IsFiniteSet(H)
  BY FS_Subset DEF Holding, Placing
<1>2. peers = {at[j] : j \in {k \in S : b[k].area = b[i].area}}
  BY DEF Peers, Known
<1>3. f \in [H -> T] /\ \A t \in T : \E j \in H : f[j] = t
  BY <1>2 DEF Holding
<1>4. \A j, k \in H : f[j] = f[k] => j = k
  BY DEF Holding, Placing, Placement
<1> HIDE DEF H, T, f
<1>5. f \in Bijection(H, T)
  BY <1>3, <1>4 DEF Bijection, Injection, Surjection, IsInjective
<1>6. Cardinality(T) = Cardinality(H)
  BY <1>1, <1>5, FS_Bijection DEF ExistsBijection
<1> QED
  BY <1>1, <1>6 DEF H, T, Occupied

\* The ready day looks only at what an initiative waits on.
LEMMA ReadyDayLooksBack ==
  ASSUME NEW b, NEW at, NEW i, NEW today_, NEW S, Predecessors(b, i) \subseteq S
  PROVE  ReadyDay(b, today_, Known(at, S), i) = ReadyDay(b, today_, at, i)
<1>1. \A p \in Predecessors(b, i) : Known(at, S)[p] = at[p]
  BY DEF Known
<1>2. [p \in Predecessors(b, i) |-> NextWorkingDay(Known(at, S)[p].end)]
        = [p \in Predecessors(b, i) |-> NextWorkingDay(at[p].end)]
  BY <1>1
<1> QED
  BY <1>2 DEF ReadyDay

\* An initiative's turn, with the placements before it.
Turn(b, today_, slots, at, before, j) ==
    /\ Placement(at[j], j)
    /\ at[j].ready = ReadyDay(b, today_, at, j).day
    /\ IsWorkingDay(at[j].start)
    /\ at[j].end = AddWorkingDays(at[j].start, DurationDays[b[j].size] - 1)
    /\ RoomFor(b, slots, at, before[j], j, at[j].start)
    /\ \A d \in Int : at[j].ready <= d /\ d < at[j].start /\ IsWorkingDay(d) =>
          ~RoomFor(b, slots, at, before[j], j, d)
    /\ \A p \in Predecessors(b, j) : at[p].end < at[j].ready
    /\ at[j].start > at[j].ready =>
          /\ at[j].boundBy = "capacity"
          /\ at[j].by # {} /\ before[j] # {}
          /\ \A q \in at[j].by : NextWorkingDay(at[q].end) = at[j].start
    /\ ~(at[j].start > at[j].ready) =>
          /\ at[j].start = at[j].ready
          /\ at[j].boundBy = ReadyDay(b, today_, at, j).boundBy
          /\ at[j].by = ReadyDay(b, today_, at, j).by

\* What a turn says of one initiative once it is placed.
LEMMA TurnIs ==
  ASSUME WorkedCalendar, NEW b, NEW slots, Schedulable(b, slots), NEW today_ \in Int,
         NEW pinned, NEW at, Placing(at), NEW before,
         Turns(b, today_, slots, pinned, at, before), NEW j \in DOMAIN at
  PROVE  Turn(b, today_, slots, at, before, j)
<1>1. /\ j \in Open(b) /\ before[j] \in SUBSET DOMAIN at /\ Predecessors(b, j) \subseteq before[j]
  BY DEF Turns
<1>2. PICK so : so = Known(at, before[j])
  OBVIOUS
<1>3. DOMAIN so = before[j] /\ \A k \in before[j] : so[k] = at[k]
  BY <1>2 DEF Known
<1>4. Placing(so)
  BY <1>1, <1>3, FS_Subset DEF Placing
<1>5. PICK p : p = Placed(b, today_, slots, so, j)
  OBVIOUS
<1>6. at[j] = p
  BY <1>2, <1>5 DEF Turns
<1> DEFINE peers == Peers(b, so, j)
<1>7. /\ Placement(p, j)
      /\ p.ready = ReadyDay(b, today_, so, j).day
      /\ IsWorkingDay(p.start)
      /\ p.end = AddWorkingDays(p.start, DurationDays[b[j].size] - 1)
      /\ IsFree(peers, slots[b[j].area], p.start, DurationDays[b[j].size])
      /\ \A d \in Int : p.ready <= d /\ d < p.start /\ IsWorkingDay(d) =>
            ~IsFree(peers, slots[b[j].area], d, DurationDays[b[j].size])
      /\ p.start > p.ready =>
            /\ p.boundBy = "capacity"
            /\ p.by = {q.id : q \in {u \in peers : NextWorkingDay(u.end) = p.start}}
            /\ \E q \in peers : NextWorkingDay(q.end) = p.start
      /\ ~(p.start > p.ready) => /\ p.start = p.ready
                                 /\ p.boundBy = ReadyDay(b, today_, so, j).boundBy
                                 /\ p.by = ReadyDay(b, today_, so, j).by
  BY <1>1, <1>3, <1>4, <1>5, PlacedIs
<1>8. ReadyDay(b, today_, so, j) = ReadyDay(b, today_, at, j)
  BY <1>1, <1>2, ReadyDayLooksBack
<1>9. \A d : IsFree(peers, slots[b[j].area], d, DurationDays[b[j].size])
               <=> RoomFor(b, slots, at, before[j], j, d)
  <2>1. \A e : Occupied(peers, e) = Cardinality(Holding(b, at, before[j], j, e))
    BY <1>1, <1>2, HoldingCounts
  <2> HIDE DEF peers
  <2> QED
    BY <2>1 DEF IsFree, RoomFor
<1>10. \A p_ \in Predecessors(b, j) : at[p_].end < at[j].ready
  <2>1. PICK r : r = ReadyDay(b, today_, at, j)
    OBVIOUS
  <2>2. \A q \in Predecessors(b, j) : at[q].end \in Int
    BY <1>1 DEF Placing, Placement
  <2>3. r.day \in Int /\ \A q \in Predecessors(b, j) : r.day >= NextWorkingDay(at[q].end)
    BY <1>1, <2>1, <2>2, ReadyDayIs
  <2>4. ASSUME NEW q \in Predecessors(b, j)
        PROVE  at[q].end < r.day
    <3>1. PICK e \in Int : e = at[q].end
      BY <2>2
    <3>2. NextWorkingDay(e) \in Int /\ NextWorkingDay(e) > e
      BY NextIsLater
    <3> QED
      BY <2>3, <3>1, <3>2
  <2> QED
    BY <1>6, <1>7, <1>8, <2>1, <2>4
<1>11. p.start > p.ready => before[j] # {} /\ p.by # {} /\ \A q \in p.by : NextWorkingDay(at[q].end) = p.start
  <2> SUFFICES ASSUME p.start > p.ready
               PROVE  before[j] # {} /\ p.by # {} /\ \A q \in p.by : NextWorkingDay(at[q].end) = p.start
    OBVIOUS
  <2>1. \A u \in peers : u.id \in before[j] /\ u = at[u.id]
    BY <1>3, <1>4 DEF Peers, Placing, Placement
  <2> HIDE DEF peers
  <2>2. /\ p.by = {q.id : q \in {u \in peers : NextWorkingDay(u.end) = p.start}}
        /\ \E q \in peers : NextWorkingDay(q.end) = p.start
    BY <1>7
  <2>3. \A q \in p.by : NextWorkingDay(at[q].end) = p.start
    BY <2>1, <2>2
  <2> QED
    BY <2>1, <2>2, <2>3
<1> HIDE DEF peers
<1> QED
  BY <1>6, <1>7, <1>8, <1>9, <1>10, <1>11 DEF Turn

\* Whatever is not moved is placed in the order of ready days, then of ids.
LEMMA TurnsAreSorted ==
  ASSUME WorkedCalendar, NEW b, NEW slots, Schedulable(b, slots), NEW today_ \in Int,
         NEW pinned, NEW at, Placing(at), NEW before, DOMAIN at = Open(b),
         Turns(b, today_, slots, pinned, at, before),
         NEW x \in Open(b), NEW y \in Open(b), x \in before[y], x \notin pinned
  PROVE  \/ at[x].ready < at[y].ready
         \/ at[x].ready = at[y].ready /\ y \notin pinned /\ x < y
<1> DEFINE After(z) == \/ at[x].ready < at[z].ready
                       \/ at[x].ready = at[z].ready /\ z \notin pinned /\ x < z
           bad == {z \in Open(b) : x \in before[z] /\ ~After(z)}
           R == {p \in Open(b) \X Open(b) : p[1] \in before[p[2]]}
<1>1. /\ before \in [Open(b) -> SUBSET Open(b)]
      /\ \A j \in Open(b) : j \notin before[j] /\ Predecessors(b, j) \subseteq before[j]
      /\ \A u, v \in Open(b) : u = v \/ u \in before[v] \/ v \in before[u]
      /\ \A u, v, w \in Open(b) : u \in before[v] /\ v \in before[w] => u \in before[w]
  BY DEF Turns
<1>2. \A j \in Open(b) : Turn(b, today_, slots, at, before, j)
  BY TurnIs
<1>3. Open(b) \in SUBSET Int /\ IsFiniteSet(Open(b))
  BY OpenIsFinite DEF Open, Schedulable
<1> SUFFICES ASSUME bad # {} PROVE FALSE
  BY DEF bad
<1>4. \A u, v \in Open(b) : <<u, v>> \in R <=> u \in before[v]
  OBVIOUS
<1> HIDE DEF R
<1>5. Orders(R, bad)
  BY <1>1, <1>4 DEF Orders
<1>6. IsFiniteSet(bad)
  BY <1>3, FS_Subset
<1>7. PICK z \in bad : Foremost(R, bad, z)
  <2> HIDE DEF bad
  <2> QED
    BY <1>5, <1>6, LeastOfFinite
<1>8. z \in Open(b) /\ x \in before[z] /\ ~After(z)
  OBVIOUS
<1>9. \A v \in Open(b) : v \in before[z] => v \notin bad
  <2> SUFFICES ASSUME NEW v \in Open(b), v \in before[z], v \in bad PROVE FALSE
    OBVIOUS
  <2>1. v # z
    BY <1>1
  <2>2. z \in before[v]
    BY <1>4, <1>7, <1>8, <2>1 DEF Foremost
  <2>3. v \in before[v]
    BY <1>1, <1>8, <2>2
  <2> QED
    BY <1>1, <2>3
<1>10. at[x].ready \in Int /\ at[x].end \in Int /\ at[x].ready <= at[x].end /\ at[z].ready \in Int
  BY <1>2, <1>8 DEF Turn, Placement
<1>11. PICK so : so = Known(at, before[x])
  OBVIOUS
<1>12. DOMAIN so = before[x]
  BY <1>11 DEF Known
<1>13. z \notin before[x] /\ z # x
  BY <1>1, <1>8
<1>14. CASE Predecessors(b, z) \subseteq before[x]
  <2>1. z \in Ready(b, so) \ {x}
    BY <1>8, <1>12, <1>13, <1>14 DEF Ready
  <2>2. x \in Ready(b, so)
    BY <1>1, <1>12 DEF Ready
  <2> DEFINE day == [u \in Ready(b, so) |-> ReadyDay(b, today_, so, u).day]
  <2>3. Before(pinned, day, x, z)
    BY <1>11, <2>1 DEF Turns
  <2>4. day[x] = at[x].ready /\ day[z] = at[z].ready
    <3>1. ReadyDay(b, today_, so, x) = ReadyDay(b, today_, at, x)
      BY <1>1, <1>11, ReadyDayLooksBack
    <3>2. ReadyDay(b, today_, so, z) = ReadyDay(b, today_, at, z)
      BY <1>11, <1>14, ReadyDayLooksBack
    <3> QED
      BY <1>2, <1>8, <2>1, <2>2, <3>1, <3>2 DEF Turn
  <2> HIDE DEF day
  <2> QED
    BY <1>8, <2>3, <2>4 DEF Before, Sooner
<1>15. CASE ~(Predecessors(b, z) \subseteq before[x])
  <2>1. PICK p \in Predecessors(b, z) : p \notin before[x]
    BY <1>15
  <2>2. p \in Open(b) /\ p \in before[z] /\ at[p].end < at[z].ready
    BY <1>1, <1>2, <1>8 DEF Turn, Predecessors
  <2>3. at[p].ready \in Int /\ at[p].end \in Int /\ at[p].ready <= at[p].end
    BY <1>2, <2>2 DEF Turn, Placement
  <2>4. CASE p = x
    BY <1>8, <1>10, <2>2, <2>4
  <2>5. CASE p # x
    <3>1. x \in before[p]
      BY <1>1, <2>1, <2>2, <2>5
    <3>2. After(p)
      BY <1>9, <2>2, <3>1
    <3> QED
      BY <1>8, <1>10, <2>2, <2>3, <3>2
  <2> QED
    BY <2>4, <2>5
<1> QED
  BY <1>14, <1>15

-----------------------------------------------------------------------------
(* Two passes, over boards that differ in one start. *)

SameButStart(b, c, i) ==
    /\ DOMAIN c = DOMAIN b
    /\ \A j \in DOMAIN b :
          /\ c[j].area = b[j].area /\ c[j].size = b[j].size
          /\ c[j].status = b[j].status /\ c[j].deps = b[j].deps
          /\ j # i => c[j].start = b[j].start

\* A start says nothing of what is open, what waits on what, and what room there is.
LEMMA SameBoard ==
  ASSUME NEW b, NEW c, NEW i, SameButStart(b, c, i)
  PROVE  /\ Open(c) = Open(b)
         /\ \A j \in Open(b) : Predecessors(c, j) = Predecessors(b, j)
         /\ \A at, slots, d : \A S \in SUBSET Open(b), j \in Open(b) :
               RoomFor(c, slots, at, S, j, d) <=> RoomFor(b, slots, at, S, j, d)
<1>1. Open(c) = Open(b)
  BY DEF SameButStart, Open
<1>2. \A j \in Open(b) : /\ c[j].area = b[j].area /\ c[j].size = b[j].size /\ c[j].deps = b[j].deps
  BY DEF SameButStart, Open
<1>3. \A at, d : \A S \in SUBSET Open(b), j \in Open(b) : Holding(c, at, S, j, d) = Holding(b, at, S, j, d)
  BY <1>2 DEF Holding
<1>4. ASSUME NEW at, NEW slots, NEW d, NEW S \in SUBSET Open(b), NEW j \in Open(b)
      PROVE  RoomFor(c, slots, at, S, j, d) <=> RoomFor(b, slots, at, S, j, d)
  BY <1>2, <1>3 DEF RoomFor
<1> QED
  BY <1>1, <1>2, <1>4 DEF Predecessors

\* Where an initiative starts has room beside every other placement, those that
\* came after it too: the area holds it and them within its slots.
LEMMA RoomBeside ==
  ASSUME WorkedCalendar, NEW b, NEW slots, Schedulable(b, slots), NEW at, Placing(at),
         DOMAIN at = Open(b), Room(b, slots, at), NEW x \in Open(b),
         at[x].end = AddWorkingDays(at[x].start, DurationDays[b[x].size] - 1),
         NEW S \in SUBSET Open(b), x \notin S
  PROVE  RoomFor(b, slots, at, S, x, at[x].start)
<1>1. /\ at[x].start \in Int /\ at[x].end \in Int
      /\ slots[b[x].area] \in Nat
  BY DEF Placing, Placement, Schedulable, Open
<1> SUFFICES ASSUME NEW e \in at[x].start .. at[x].end, IsWorkingDay(e)
             PROVE  Cardinality(Holding(b, at, S, x, e)) < slots[b[x].area]
  BY DEF RoomFor
<1>2. e \in Int /\ at[x].start <= e /\ e <= at[x].end
  BY <1>1
<1> DEFINE all == Holding(b, at, Open(b), x, e)
           held == Holding(b, at, S, x, e)
<1>3. IsFiniteSet(all) /\ Cardinality(all) = Occupied(Peers(b, Known(at, Open(b)), x), e)
  BY HoldingCounts
<1>4. Peers(b, Known(at, Open(b)), x) = Peers(b, at, x)
  BY DEF Peers, Known
<1>5. Cardinality(all) <= slots[b[x].area]
  BY <1>2, <1>3, <1>4 DEF Room
<1>6. x \in all /\ held \in SUBSET (all \ {x})
  BY <1>2 DEF Holding
<1> HIDE DEF all, held
<1>7. Cardinality(all) \in Nat /\ IsFiniteSet(all \ {x}) /\ Cardinality(all \ {x}) = Cardinality(all) - 1
  BY <1>3, <1>6, FS_CardinalityType, FS_RemoveElement
<1>8. IsFiniteSet(held) /\ Cardinality(held) <= Cardinality(all \ {x})
  BY <1>6, <1>7, FS_Subset
<1>9. Cardinality(held) \in Nat
  BY <1>8, FS_CardinalityType
<1>10. Cardinality(held) < slots[b[x].area]
  BY <1>1, <1>5, <1>7, <1>8, <1>9
<1> QED
  BY <1>10 DEF held

\* Less is held among fewer, and the dates are all that is looked at.
LEMMA RoomAmongFewer ==
  ASSUME WorkedCalendar, NEW b, NEW slots, Schedulable(b, slots), NEW at, Placing(at), NEW to, Placing(to),
         DOMAIN at = Open(b), DOMAIN to = Open(b), NEW x \in Open(b), NEW d \in Int,
         NEW S \in SUBSET Open(b), NEW T \in SUBSET Open(b), S \subseteq T,
         \A j \in S : at[j].start = to[j].start /\ at[j].end = to[j].end,
         RoomFor(b, slots, to, T, x, d)
  PROVE  RoomFor(b, slots, at, S, x, d)
<1> DEFINE last == AddWorkingDays(d, DurationDays[b[x].size] - 1)
<1>1. DurationDays[b[x].size] - 1 \in Nat /\ slots[b[x].area] \in Nat
  BY DurationAssumption DEF Schedulable, Open
<1>2. last \in Int
  BY <1>1, AddIsLater
<1> SUFFICES ASSUME NEW e \in d .. last, IsWorkingDay(e)
             PROVE  Cardinality(Holding(b, at, S, x, e)) < slots[b[x].area]
  BY DEF RoomFor
<1>3. Cardinality(Holding(b, to, T, x, e)) < slots[b[x].area]
  BY DEF RoomFor
<1>4. Holding(b, at, S, x, e) \in SUBSET Holding(b, to, T, x, e)
  BY DEF Holding
<1>5. IsFiniteSet(Holding(b, to, T, x, e))
  BY HoldingCounts
<1>6. /\ Cardinality(Holding(b, at, S, x, e)) <= Cardinality(Holding(b, to, T, x, e))
      /\ IsFiniteSet(Holding(b, at, S, x, e))
  BY <1>4, <1>5, FS_Subset
<1>7. Cardinality(Holding(b, at, S, x, e)) \in Nat /\ Cardinality(Holding(b, to, T, x, e)) \in Nat
  BY <1>5, <1>6, FS_CardinalityType
<1> QED
  BY <1>1, <1>3, <1>6, <1>7

\* The ready day is the same where the start, and the ends waited on, are.
LEMMA SameReadyDay ==
  ASSUME NEW b, NEW c, NEW at, NEW to, NEW today_, NEW x,
         c[x].start = b[x].start, Predecessors(c, x) = Predecessors(b, x),
         \A p \in Predecessors(b, x) : at[p].end = to[p].end
  PROVE  ReadyDay(c, today_, to, x) = ReadyDay(b, today_, at, x)
<1>1. [p \in Predecessors(b, x) |-> NextWorkingDay(at[p].end)]
        = [p \in Predecessors(c, x) |-> NextWorkingDay(to[p].end)]
  OBVIOUS
<1> QED
  BY <1>1 DEF ReadyDay

\* A pass that has placed everything.
Finished(b, slots, today_, pinned, at, before) ==
    /\ Schedulable(b, slots)
    /\ Placing(at) /\ DOMAIN at = Open(b) /\ Room(b, slots, at)
    /\ Turns(b, today_, slots, pinned, at, before)

SameDates(at, to, j) == at[j].start = to[j].start /\ at[j].end = to[j].end

\* A move that leaves its initiative where it was leaves every other there too:
\* of those it moved, take the one of the earliest ready day.  What it waits on
\* and what was placed before it are where they were, and the one moved took no
\* slot from it that it does not take without the move.
LEMMA NothingElseMoves ==
  ASSUME WorkedCalendar, NEW b, NEW c, NEW i \in Open(b), SameButStart(b, c, i),
         NEW slots, NEW today_ \in Int, NEW at, NEW before, NEW to, NEW after,
         Finished(b, slots, today_, {}, at, before), Finished(c, slots, today_, {i}, to, after),
         SameDates(at, to, i)
  PROVE  \A j \in Open(b) : SameDates(at, to, j)
<1> DEFINE Same(j) == at[j].ready = to[j].ready /\ SameDates(at, to, j)
           key == [j \in Open(b) |-> IF at[j].ready <= to[j].ready THEN at[j].ready ELSE to[j].ready]
           other == {j \in Open(b) : j # i /\ ~Same(j)}
           R == {p \in Open(b) \X Open(b) : key[p[1]] < key[p[2]] \/ (key[p[1]] = key[p[2]] /\ p[1] < p[2])}
<1> SUFFICES ASSUME other # {} PROVE FALSE
  BY DEF other
<1>1. /\ Open(c) = Open(b)
      /\ \A j \in Open(b) : Predecessors(c, j) = Predecessors(b, j)
      /\ \A at_, slots_, d : \A S \in SUBSET Open(b), j \in Open(b) :
            RoomFor(c, slots_, at_, S, j, d) <=> RoomFor(b, slots_, at_, S, j, d)
  BY SameBoard
<1>2. /\ Schedulable(b, slots) /\ Placing(at) /\ DOMAIN at = Open(b) /\ Room(b, slots, at)
      /\ Turns(b, today_, slots, {}, at, before)
      /\ Schedulable(c, slots) /\ Placing(to) /\ DOMAIN to = Open(b) /\ Room(c, slots, to)
      /\ Turns(c, today_, slots, {i}, to, after)
  BY <1>1 DEF Finished
<1>3. \A j \in Open(b) : /\ Turn(b, today_, slots, at, before, j)
                        /\ Turn(c, today_, slots, to, after, j)
  BY <1>2, TurnIs
<1>4. \A j \in Open(b) : /\ at[j].ready \in Int /\ at[j].start \in Int /\ at[j].end \in Int
                        /\ at[j].ready <= at[j].start /\ at[j].start <= at[j].end
                        /\ to[j].ready \in Int /\ to[j].start \in Int /\ to[j].end \in Int
                        /\ to[j].ready <= to[j].start /\ to[j].start <= to[j].end
  BY <1>2 DEF Placing, Placement
<1>5. Open(b) \in SUBSET Int /\ IsFiniteSet(Open(b))
  BY <1>2, OpenIsFinite DEF Open, Schedulable
<1>6. /\ before \in [Open(b) -> SUBSET Open(b)]
      /\ \A j \in Open(b) : j \notin before[j] /\ Predecessors(b, j) \subseteq before[j]
      /\ \A u, v \in Open(b) : u = v \/ u \in before[v] \/ v \in before[u]
      /\ \A u, v, w \in Open(b) : u \in before[v] /\ v \in before[w] => u \in before[w]
  BY <1>2 DEF Turns
<1>7. /\ after \in [Open(b) -> SUBSET Open(b)]
      /\ \A j \in Open(b) : j \notin after[j] /\ Predecessors(b, j) \subseteq after[j]
      /\ \A u, v \in Open(b) : u = v \/ u \in after[v] \/ v \in after[u]
      /\ \A u, v, w \in Open(b) : u \in after[v] /\ v \in after[w] => u \in after[w]
  BY <1>1, <1>2 DEF Turns
<1>a. \A u, v \in Open(b) : u \in before[v] =>
          at[u].ready < at[v].ready \/ (at[u].ready = at[v].ready /\ u < v)
  <2>1. PICK pinned : pinned = {}
    OBVIOUS
  <2>2. Turns(b, today_, slots, pinned, at, before)
    BY <1>2, <2>1
  <2>3. \A u, v \in Open(b) : u \in before[v] /\ u \notin pinned =>
          at[u].ready < at[v].ready \/ (at[u].ready = at[v].ready /\ u < v)
    BY <1>2, <2>2, TurnsAreSorted
  <2> QED
    BY <2>1, <2>3
<1>b. \A u, v \in Open(b) : u \in after[v] /\ u # i =>
          to[u].ready < to[v].ready \/ (to[u].ready = to[v].ready /\ u < v)
  <2>1. PICK pinned : pinned = {i}
    OBVIOUS
  <2>2. Turns(c, today_, slots, pinned, to, after) /\ DOMAIN to = Open(c)
    BY <1>1, <1>2, <2>1
  <2>3. \A u, v \in Open(c) : u \in after[v] /\ u \notin pinned =>
          to[u].ready < to[v].ready \/ (to[u].ready = to[v].ready /\ u < v)
    BY <1>2, <2>2, TurnsAreSorted
  <2> QED
    BY <1>1, <2>1, <2>3
<1>8. \A j \in Open(b) : key[j] \in Int /\ key[j] <= at[j].ready /\ key[j] <= to[j].ready
                          /\ (key[j] = at[j].ready \/ key[j] = to[j].ready)
  BY <1>4
<1>9. \A u, v \in Open(b) : <<u, v>> \in R <=> key[u] < key[v] \/ (key[u] = key[v] /\ u < v)
  <2> HIDE DEF key
  <2> QED
    OBVIOUS
<1> HIDE DEF key, R
<1>10. Orders(R, other)
  BY <1>5, <1>8, <1>9 DEF Orders
<1>11. PICK x \in other : Foremost(R, other, x)
  <2>1. IsFiniteSet(other)
    BY <1>5, FS_Subset
  <2> HIDE DEF other
  <2> QED
    BY <1>10, <2>1, LeastOfFinite
<1>12. x \in Open(b) /\ x # i /\ ~Same(x)
  OBVIOUS
<1>13. ASSUME NEW y \in Open(b), y # i, key[y] < key[x] \/ (key[y] = key[x] /\ y < x)
       PROVE  Same(y)
  <2> SUFFICES ASSUME y \in other PROVE FALSE
    BY <1>13
  <2>1. y # x
    BY <1>5, <1>8, <1>12, <1>13
  <2>2. <<x, y>> \in R
    BY <1>11, <2>1 DEF Foremost
  <2> QED
    BY <1>5, <1>8, <1>9, <1>12, <1>13, <2>2
<1> HIDE DEF other
<1>14. ASSUME NEW p \in Predecessors(b, x)
       PROVE  at[p].end = to[p].end
  <2>1. p \in Open(b) /\ at[p].end < at[x].ready /\ to[p].end < to[x].ready
    BY <1>1, <1>3, <1>12 DEF Turn, Predecessors
  <2>2. CASE p # i
    <3>1. key[p] < key[x]
      BY <1>4, <1>8, <1>12, <2>1
    <3> QED
      BY <1>13, <2>1, <2>2, <3>1 DEF SameDates
  <2> QED
    BY <2>2 DEF SameDates
<1>15. at[x].ready = to[x].ready
  <2>1. c[x].start = b[x].start
    BY <1>12 DEF SameButStart, Open
  <2>2. ReadyDay(c, today_, to, x) = ReadyDay(b, today_, at, x)
    BY <1>1, <1>12, <1>14, <2>1, SameReadyDay
  <2> QED
    BY <1>3, <1>12, <2>2 DEF Turn
<1>16. ASSUME NEW y \in Open(b), y # i, y \in before[x]
       PROVE  Same(y) /\ y \in after[x]
  <2>1. at[y].ready < at[x].ready \/ (at[y].ready = at[x].ready /\ y < x)
    BY <1>a, <1>12, <1>16
  <2>2. Same(y)
    BY <1>4, <1>8, <1>12, <1>13, <1>15, <1>16, <2>1
  <2>3. y # x
    BY <1>6, <1>12, <1>16
  <2>4. ASSUME x \in after[y]
        PROVE  FALSE
    <3>1. to[x].ready < to[y].ready \/ (to[x].ready = to[y].ready /\ x < y)
      BY <1>b, <1>12, <2>4
    <3> QED
      BY <1>4, <1>5, <1>12, <1>15, <2>1, <2>2, <3>1
  <2> QED
    BY <1>7, <1>12, <2>2, <2>3, <2>4
<1>17. ASSUME NEW y \in Open(b), y # i, y \in after[x]
       PROVE  Same(y) /\ y \in before[x]
  <2>1. to[y].ready < to[x].ready \/ (to[y].ready = to[x].ready /\ y < x)
    BY <1>b, <1>12, <1>17
  <2>2. Same(y)
    BY <1>4, <1>8, <1>12, <1>13, <1>15, <1>17, <2>1
  <2>3. y # x
    BY <1>7, <1>12, <1>17
  <2>4. ASSUME x \in before[y]
        PROVE  FALSE
    <3>1. at[x].ready < at[y].ready \/ (at[x].ready = at[y].ready /\ x < y)
      BY <1>a, <1>12, <2>4
    <3> QED
      BY <1>4, <1>5, <1>12, <1>15, <2>1, <2>2, <3>1
  <2> QED
    BY <1>6, <1>12, <2>2, <2>3, <2>4
<1>18. i \in before[x] => i \in after[x]
  <2> SUFFICES ASSUME i \in before[x], i \notin after[x] PROVE FALSE
    OBVIOUS
  <2>1. PICK so : so = Known(to, after[x])
    OBVIOUS
  <2>2. DOMAIN so = after[x]
    BY <2>1 DEF Known
  <2>3. Predecessors(b, i) \subseteq after[x]
    <3> SUFFICES ASSUME NEW p \in Predecessors(b, i) PROVE p \in after[x]
      OBVIOUS
    <3>1. p \in Open(b) /\ p \in before[i] /\ p # i
      BY <1>6 DEF Predecessors
    <3>2. p \in before[x]
      BY <1>6, <1>12, <3>1
    <3> QED
      BY <1>16, <3>1, <3>2
  <2>4. i \in Ready(c, so) \ {x}
    BY <1>1, <1>12, <2>2, <2>3 DEF Ready
  <2> DEFINE day == [u \in Ready(c, so) |-> ReadyDay(c, today_, so, u).day]
  <2>5. Before({i}, day, x, i)
    <3>1. x \in DOMAIN to /\ Turns(c, today_, slots, {i}, to, after)
      BY <1>2, <1>12
    <3>2. \A y \in Ready(c, so) \ {x} : Before({i}, day, x, y)
      BY <2>1, <3>1 DEF Turns
    <3> QED
      BY <2>4, <3>2
  <2> HIDE DEF day
  <2> QED
    BY <1>12, <2>5 DEF Before
<1>19. /\ before[x] \in SUBSET Open(b) /\ after[x] \in SUBSET Open(b) /\ before[x] \subseteq after[x]
       /\ \A j \in after[x] : SameDates(at, to, j)
       /\ x \notin after[x]
  BY <1>6, <1>7, <1>12, <1>16, <1>17, <1>18
<1>20. /\ at[x].start \in Int /\ to[x].start \in Int /\ at[x].ready \in Int
       /\ at[x].ready <= at[x].start /\ at[x].ready <= to[x].start
  BY <1>4, <1>12, <1>15
<1>21. ~(to[x].start < at[x].start)
  <2> SUFFICES ASSUME to[x].start < at[x].start PROVE FALSE
    OBVIOUS
  <2>1. ~RoomFor(b, slots, at, before[x], x, to[x].start)
    BY <1>3, <1>12, <1>20 DEF Turn
  <2>2. RoomFor(b, slots, to, after[x], x, to[x].start)
    BY <1>1, <1>3, <1>12, <1>19 DEF Turn
  <2>3. \A j \in before[x] : at[j].start = to[j].start /\ at[j].end = to[j].end
    BY <1>19 DEF SameDates
  <2>4. RoomFor(b, slots, at, before[x], x, to[x].start)
    BY <1>2, <1>12, <1>19, <1>20, <2>2, <2>3, RoomAmongFewer
  <2> QED
    BY <2>1, <2>4
<1>22. ~(at[x].start < to[x].start)
  <2> SUFFICES ASSUME at[x].start < to[x].start PROVE FALSE
    OBVIOUS
  <2>1. ~RoomFor(b, slots, to, after[x], x, at[x].start)
    <3>1. ~RoomFor(c, slots, to, after[x], x, at[x].start)
      BY <1>3, <1>12, <1>15, <1>20 DEF Turn
    <3> QED
      BY <1>1, <1>12, <1>19, <3>1
  <2>2. RoomFor(b, slots, at, after[x], x, at[x].start)
    <3>1. at[x].end = AddWorkingDays(at[x].start, DurationDays[b[x].size] - 1)
      BY <1>3, <1>12 DEF Turn
    <3> QED
      BY <1>2, <1>12, <1>19, <3>1, RoomBeside
  <2>3. \A j \in after[x] : to[j].start = at[j].start /\ to[j].end = at[j].end
    BY <1>19 DEF SameDates
  <2>4. RoomFor(b, slots, to, after[x], x, at[x].start)
    BY <1>2, <1>12, <1>19, <1>20, <2>2, <2>3, RoomAmongFewer
  <2> QED
    BY <2>1, <2>4
<1>23. at[x].start = to[x].start
  BY <1>20, <1>21, <1>22
<1>24. at[x].end = to[x].end
  <2>1. c[x].size = b[x].size
    BY <1>12 DEF SameButStart, Open
  <2> QED
    BY <1>3, <1>12, <1>23, <2>1 DEF Turn
<1> QED
  BY <1>12, <1>15, <1>23, <1>24 DEF SameDates

-----------------------------------------------------------------------------
(* The move itself. *)

\* An open initiative that waits on nothing open goes first, and nothing but the
\* clock keeps it from the day asked for.
LEMMA FreeMoveIsHonoured ==
  ASSUME WorkedCalendar, NEW c, NEW i \in Open(c), NEW slots, NEW today_ \in Int, NEW to, NEW after,
         Finished(c, slots, today_, {i}, to, after), NEW day \in Int, c[i].start = day, day # NoDate,
         WorkingDayOnOrAfter(day) >= WorkingDayOnOrAfter(today_), Predecessors(c, i) = {}
  PROVE  to[i].start = WorkingDayOnOrAfter(day)
<1>1. /\ Schedulable(c, slots) /\ Placing(to) /\ DOMAIN to = Open(c)
      /\ Turns(c, today_, slots, {i}, to, after)
  BY DEF Finished
<1>2. Turn(c, today_, slots, to, after, i)
  <2>1. PICK pinned : pinned = {i}
    OBVIOUS
  <2>2. Turns(c, today_, slots, pinned, to, after) /\ i \in DOMAIN to
    BY <1>1, <2>1
  <2> QED
    BY <1>1, <2>2, TurnIs
<1>3. after[i] = {}
  <2> SUFFICES ASSUME NEW x \in after[i] PROVE FALSE
    OBVIOUS
  <2>1. /\ x \in Open(c) /\ i \notin after[i] /\ after[x] \subseteq Open(c)
        /\ (i \in after[x] => i \in after[i])
    BY <1>1 DEF Turns
  <2>2. PICK so : so = Known(to, after[x])
    OBVIOUS
  <2>3. i \in Ready(c, so) \ {x}
    BY <2>1, <2>2 DEF Ready, Known
  <2> DEFINE when == [u \in Ready(c, so) |-> ReadyDay(c, today_, so, u).day]
  <2>4. Before({i}, when, x, i)
    <3>1. PICK pinned : pinned = {i}
      OBVIOUS
    <3>2. x \in DOMAIN to /\ Turns(c, today_, slots, pinned, to, after)
      BY <1>1, <2>1, <3>1
    <3>3. \A y \in Ready(c, so) \ {x} : Before(pinned, when, x, y)
      BY <2>2, <3>2 DEF Turns
    <3> QED
      BY <2>3, <3>1, <3>3
  <2> HIDE DEF when
  <2>5. x # i
    BY <2>1
  <2> QED
    BY <2>4, <2>5 DEF Before
<1>4. PICK r : r = ReadyDay(c, today_, to, i)
  OBVIOUS
<1>5. /\ r.day >= WorkingDayOnOrAfter(day) /\ r.day \in Int
      /\ r.day = WorkingDayOnOrAfter(today_) \/ r.day = WorkingDayOnOrAfter(day)
  <2>1. /\ r.day \in Int
        /\ c[i].start # NoDate => r.day >= WorkingDayOnOrAfter(c[i].start)
        /\ \/ r.day = WorkingDayOnOrAfter(today_)
           \/ c[i].start # NoDate /\ r.day = WorkingDayOnOrAfter(c[i].start)
           \/ \E p \in Predecessors(c, i) : r.day = NextWorkingDay(to[p].end)
    BY <1>1, <1>4, ReadyDayIs
  <2> QED
    BY <2>1
<1>6. to[i].start = to[i].ready /\ to[i].ready = r.day
  BY <1>2, <1>3, <1>4 DEF Turn, Placement
<1>7. WorkingDayOnOrAfter(day) \in Int /\ WorkingDayOnOrAfter(today_) \in Int
  BY OnOrAfter
<1> QED
  BY <1>5, <1>6, <1>7

\* What a refusal says.
Refused(to, i) ==
    /\ to[i].boundBy \in {"dependency", "capacity"}
    /\ to[i].by # {}
    /\ \A j \in to[i].by : NextWorkingDay(to[j].end) = to[i].start

\* A move refused names what refused it, each thing ending the working day before.
LEMMA RefusalIsExplained ==
  ASSUME WorkedCalendar, NEW c, NEW i \in Open(c), NEW slots, NEW today_ \in Int, NEW to, NEW after,
         Finished(c, slots, today_, {i}, to, after), NEW day \in Int, c[i].start = day, day # NoDate,
         WorkingDayOnOrAfter(day) >= WorkingDayOnOrAfter(today_),
         to[i].start # WorkingDayOnOrAfter(day)
  PROVE  Refused(to, i)
<1>1. /\ Schedulable(c, slots) /\ Placing(to) /\ DOMAIN to = Open(c)
      /\ Turns(c, today_, slots, {i}, to, after)
  BY DEF Finished
<1>2. Turn(c, today_, slots, to, after, i)
  <2>1. PICK pinned : pinned = {i}
    OBVIOUS
  <2>2. Turns(c, today_, slots, pinned, to, after) /\ i \in DOMAIN to
    BY <1>1, <2>1
  <2> QED
    BY <1>1, <2>2, TurnIs
<1>3. CASE to[i].start > to[i].ready
  BY <1>2, <1>3 DEF Turn, Refused
<1>4. CASE ~(to[i].start > to[i].ready)
  <2>1. PICK r : r = ReadyDay(c, today_, to, i)
    OBVIOUS
  <2>2. to[i].start = r.day /\ to[i].boundBy = r.boundBy /\ to[i].by = r.by
    BY <1>2, <1>4, <2>1 DEF Turn
  <2>3. \A p \in Predecessors(c, i) : to[p].end \in Int
    BY <1>1 DEF Placing, Placement, Predecessors
  <2>4. /\ r.day \in Int
        /\ c[i].start # NoDate => r.day >= WorkingDayOnOrAfter(c[i].start)
        /\ \/ r.day = WorkingDayOnOrAfter(today_)
           \/ c[i].start # NoDate /\ r.day = WorkingDayOnOrAfter(c[i].start)
           \/ \E p \in Predecessors(c, i) : r.day = NextWorkingDay(to[p].end)
        /\ r.by = {p \in Predecessors(c, i) : NextWorkingDay(to[p].end) = r.day}
        /\ r.by # {} => r.boundBy = "dependency"
    BY <1>1, <2>1, <2>3, ReadyDayIs
  <2>5. WorkingDayOnOrAfter(day) \in Int /\ WorkingDayOnOrAfter(today_) \in Int
    BY OnOrAfter
  <2>6. r.day # WorkingDayOnOrAfter(today_) /\ r.day # WorkingDayOnOrAfter(day)
    BY <2>2, <2>4, <2>5
  <2>7. r.by # {}
    BY <2>4, <2>6
  <2> QED
    BY <2>2, <2>4, <2>7 DEF Refused
<1> QED
  BY <1>3, <1>4

\* A pass that ForwardFits and ForwardTakesTurns are about has placed everything.
LEMMA ForwardFinishes ==
  ASSUME WorkedCalendar, NEW b, NEW slots, Schedulable(b, slots), Acyclic(b),
         NEW today_ \in Int, NEW pinned, NEW so, so = Forward(b, today_, slots, pinned)
  PROVE  \E before : Finished(b, slots, today_, pinned, so.at, before)
<1>1. PlacedSoFar(b, slots, so, Cardinality(Open(b))) /\ DOMAIN so.at = Open(b)
  BY ForwardFits
<1>2. PICK before : Turns(b, today_, slots, pinned, so.at, before)
  BY ForwardTakesTurns
<1>3. Finished(b, slots, today_, pinned, so.at, before)
  BY <1>1, <1>2 DEF PlacedSoFar, Finished
<1> QED
  BY <1>3

\* Every move in one state of the board.
LEMMA MoveIsExplained ==
  ASSUME WorkedCalendar, BoardTypes, Acyclic(board), NEW i \in Open(board), NEW d \in Starts \ {NoDate}
  PROVE  Explained(i, d, Moved(i, d))
<1>1. PICK c : c = [board EXCEPT ![i].start = d]
  OBVIOUS
<1>2. i \in Ids /\ d \in Int /\ d \in Starts /\ today \in Int
  BY BoardAssumption DEF Open, Ids, BoardTypes
<1>3. /\ Schedulable(board, Slots)
      /\ Schedulable(c, Slots) /\ Acyclic(c)
  BY <1>1, <1>2, BoardsAreSchedulable
<1>4. SameButStart(board, c, i) /\ c[i].start = d
  <2>1. PICK old \in BoardRows(Ids) : old = board[i]
    BY <1>2 DEF BoardTypes
  <2>2. PICK r : r = [old EXCEPT !.start = d]
    OBVIOUS
  <2>3. /\ r.start = d /\ r.area = old.area /\ r.size = old.size /\ r.status = old.status /\ r.deps = old.deps
    BY <2>2 DEF BoardRows
  <2>4. c = [board EXCEPT ![i] = r]
    BY <1>1, <2>1, <2>2
  <2> QED
    BY <1>2, <2>1, <2>3, <2>4 DEF SameButStart, Ids
<1>5. Open(c) = Open(board) /\ Predecessors(c, i) = Predecessors(board, i)
  BY <1>4, SameBoard
<1>6. PICK so : so = Forward(board, today, Slots, {})
  OBVIOUS
<1>7. PICK to : to = Forward(c, today, Slots, {i})
  OBVIOUS
<1>8. PICK before : Finished(board, Slots, today, {}, so.at, before)
  <2>1. PICK pinned : pinned = {}
    OBVIOUS
  <2>2. so = Forward(board, today, Slots, pinned)
    BY <1>6, <2>1
  <2>3. PICK before : Finished(board, Slots, today, pinned, so.at, before)
    BY <1>2, <1>3, <2>2, ForwardFinishes
  <2> QED
    BY <2>1, <2>3
<1>9. PICK after : Finished(c, Slots, today, {i}, to.at, after)
  <2>1. PICK pinned : pinned = {i}
    OBVIOUS
  <2>2. to = Forward(c, today, Slots, pinned)
    BY <1>7, <2>1
  <2>3. PICK after : Finished(c, Slots, today, pinned, to.at, after)
    BY <1>2, <1>3, <2>2, ForwardFinishes
  <2> QED
    BY <2>1, <2>3
<1>10. PICK r : r = Moved(i, d)
  OBVIOUS
<1>11. /\ r.after.at = to.at /\ r.actual = to.at[i]
       /\ r.honoured = (to.at[i].start = WorkingDayOnOrAfter(d))
       /\ r.shifted = {j \in Open(board) : <<so.at[j].start, so.at[j].end>> # <<to.at[j].start, to.at[j].end>>}
  BY <1>1, <1>6, <1>7, <1>10 DEF Moved, Replan, Compared, ComputeSchedule, Measured
<1>12. WorkingDayOnOrAfter(d) \in Int /\ WorkingDayOnOrAfter(today) \in Int
  BY <1>2, OnOrAfter
<1> DEFINE past == WorkingDayOnOrAfter(d) < WorkingDayOnOrAfter(today)
<1>13. Predecessors(board, i) = {} /\ ~past => r.honoured
  <2> SUFFICES ASSUME Predecessors(board, i) = {}, ~past PROVE r.honoured
    OBVIOUS
  <2>1. PICK at : at = to.at
    OBVIOUS
  <2>2. /\ i \in Open(c) /\ Finished(c, Slots, today, {i}, at, after) /\ d # NoDate
        /\ WorkingDayOnOrAfter(d) >= WorkingDayOnOrAfter(today) /\ Predecessors(c, i) = {}
    BY <1>5, <1>9, <1>12, <2>1
  <2>3. at[i].start = WorkingDayOnOrAfter(d)
    BY <1>2, <1>4, <2>2, FreeMoveIsHonoured
  <2> QED
    BY <1>11, <2>1, <2>3
<1>14. ~r.honoured /\ ~past =>
          /\ r.actual.boundBy \in {"dependency", "capacity"}
          /\ r.actual.by # {}
          /\ \A j \in r.actual.by : NextWorkingDay(r.after.at[j].end) = r.actual.start
  <2> SUFFICES ASSUME ~r.honoured, ~past
               PROVE  /\ r.actual.boundBy \in {"dependency", "capacity"}
                      /\ r.actual.by # {}
                      /\ \A j \in r.actual.by : NextWorkingDay(r.after.at[j].end) = r.actual.start
    OBVIOUS
  <2>1. PICK at : at = to.at
    OBVIOUS
  <2>2. /\ i \in Open(c) /\ Finished(c, Slots, today, {i}, at, after) /\ d # NoDate
        /\ WorkingDayOnOrAfter(d) >= WorkingDayOnOrAfter(today)
    BY <1>5, <1>9, <1>12, <2>1
  <2>3. at[i].start # WorkingDayOnOrAfter(d)
    BY <1>11, <2>1, Zenon
  <2>4. Refused(at, i)
    BY <2>3, <1>2, <1>4, <2>2, RefusalIsExplained
  <2> QED
    BY <1>11, <2>1, <2>4 DEF Refused
<1>15. i \notin r.shifted => r.shifted = {}
  <2> SUFFICES ASSUME i \notin r.shifted PROVE r.shifted = {}
    OBVIOUS
  <2>1. SameDates(so.at, to.at, i)
    BY <1>11 DEF SameDates
  <2>2. \A j \in Open(board) : SameDates(so.at, to.at, j)
    BY <1>2, <1>4, <1>8, <1>9, <2>1, NothingElseMoves
  <2> QED
    BY <1>11, <2>2 DEF SameDates
<1> QED
  BY <1>10, <1>13, <1>14, <1>15 DEF Explained

-----------------------------------------------------------------------------
(* The gate and the graph. *)

\* Some initiatives and what they wait on.
WaitedOn(b, S) == UNION {b[j].deps : j \in S}

More(b, S) == S \cup WaitedOn(b, S)

\* One more step reaches what was reached and what that waits on.
LEMMA MoreIs ==
  ASSUME NEW b, NEW S
  PROVE  \A x : x \in More(b, S) <=> x \in S \/ \E j \in S : x \in b[j].deps
<1>1. ASSUME NEW x, x \in UNION {b[j].deps : j \in S}
      PROVE  \E j \in S : x \in b[j].deps
  <2>1. PICK T \in {b[j].deps : j \in S} : x \in T
    BY <1>1
  <2> QED
    BY <2>1
<1>2. ASSUME NEW x, NEW j \in S, x \in b[j].deps
      PROVE  x \in UNION {b[k].deps : k \in S}
  <2>1. b[j].deps \in {b[k].deps : k \in S}
    OBVIOUS
  <2> QED
    BY <1>2, <2>1
<1>3. \A x : x \in WaitedOn(b, S) <=> \E j \in S : x \in b[j].deps
  BY <1>1, <1>2, Zenon DEF WaitedOn
<1> QED
  BY <1>3 DEF More

\* What can be reached from some initiatives in so many steps.
Reaches(b, deps, n, on) ==
    /\ on[0] = deps
    /\ \A k \in 1 .. n : on[k] = More(b, on[k - 1])

\* A set that holds some initiatives and what its own wait on.
Closes(b, deps, S) == deps \subseteq S /\ \A j \in S : b[j].deps \subseteq S

\* As many steps as there are initiatives reach all that any number does.
LEMMA ReachIsClosed ==
  ASSUME NEW ids, IsFiniteSet(ids), NEW b, \A j \in ids : b[j].deps \in SUBSET ids,
         NEW deps \in SUBSET ids, NEW n \in Nat, n = Cardinality(ids),
         NEW on \in [0 .. n -> SUBSET ids], Reaches(b, deps, n, on)
  PROVE  Closes(b, deps, on[n])
<1> DEFINE Closed_(k) == \A j \in on[k] : b[j].deps \subseteq on[k]
           K == {k \in Nat : k <= n => /\ deps \subseteq on[k]
                                       /\ Closed_(k) \/ Cardinality(on[k]) >= k + 1}
<1>1. \A k \in 0 .. n : on[k] \in SUBSET ids /\ IsFiniteSet(on[k]) /\ Cardinality(on[k]) \in Nat
  BY FS_Subset, FS_CardinalityType
<1>2. 0 \in K
  <2>1. on[0] = deps /\ 0 \in 0 .. n
    BY DEF Reaches
  <2>2. Cardinality(on[0]) \in Nat /\ IsFiniteSet(on[0])
    BY <1>1, <2>1
  <2>3. CASE on[0] = {}
    BY <2>1, <2>3
  <2>4. CASE on[0] # {}
    <3>1. Cardinality(on[0]) # 0
      BY <2>2, <2>4, FS_EmptySet
    <3> QED
      BY <2>1, <2>2, <3>1
  <2> QED
    BY <2>3, <2>4
<1>3. ASSUME NEW k \in Nat, k \in K
      PROVE  k + 1 \in K
  <2> SUFFICES ASSUME k + 1 <= n
               PROVE  deps \subseteq on[k + 1] /\ (Closed_(k + 1) \/ Cardinality(on[k + 1]) >= (k + 1) + 1)
    OBVIOUS
  <2>1. k + 1 \in 1 .. n /\ (k + 1) - 1 = k /\ k \in 0 .. n /\ k + 1 \in 0 .. n
    OBVIOUS
  <2>2. on[k + 1] = More(b, on[k])
    BY <2>1 DEF Reaches
  <2>3. deps \subseteq on[k] /\ (Closed_(k) \/ Cardinality(on[k]) >= k + 1)
    BY <1>3, <2>1
  <2>4. CASE Closed_(k)
    <3>1. on[k + 1] = on[k]
      <4>1. PICK S : S = on[k]
        OBVIOUS
      <4>2. \A x : x \in More(b, S) <=> x \in S
        BY <2>4, <4>1, MoreIs
      <4>3. More(b, S) = S
        BY <4>2
      <4> QED
        BY <2>2, <4>1, <4>3
    <3> QED
      BY <2>3, <2>4, <3>1
  <2>5. CASE ~Closed_(k)
    <3>1. on[k] # on[k + 1] /\ on[k] \in SUBSET on[k + 1]
      BY <2>2, <2>5, MoreIs
    <3>2. /\ Cardinality(on[k]) \in Nat /\ Cardinality(on[k + 1]) \in Nat
          /\ IsFiniteSet(on[k + 1])
      BY <1>1, <2>1
    <3>3. /\ Cardinality(on[k]) <= Cardinality(on[k + 1])
          /\ Cardinality(on[k]) # Cardinality(on[k + 1])
      BY <3>1, <3>2, FS_Subset
    <3>4. Cardinality(on[k]) >= k + 1
      BY <2>3, <2>5
    <3>5. Cardinality(on[k + 1]) >= (k + 1) + 1
      <4> HIDE DEF Closed_, K
      <4> QED
        BY <3>2, <3>3, <3>4
    <3>6. deps \subseteq on[k + 1]
      BY <2>3, <3>1
    <3> QED
      BY <3>5, <3>6
  <2> QED
    BY <2>4, <2>5
<1>4. n \in K
  <2> HIDE DEF K
  <2> QED
    BY <1>2, <1>3, Induction
<1>5. ~(Cardinality(on[n]) >= n + 1)
  <2>1. Cardinality(on[n]) <= n /\ Cardinality(on[n]) \in Nat
    BY <1>1, FS_Subset
  <2> QED
    BY <2>1
<1> QED
  BY <1>4, <1>5 DEF Closes

\* An initiative out of its own reach makes no cycle with a board that has none.
LEMMA OutOfReach ==
  ASSUME NEW b, NEW old, Acyclic(old), DOMAIN b = DOMAIN old, NEW i \in DOMAIN b,
         \A j \in DOMAIN b : j # i => b[j].deps = old[j].deps,
         NEW reach, i \notin reach, b[i].deps \subseteq reach,
         \A j \in reach : b[j].deps \subseteq reach
  PROVE  Acyclic(b)
<1> SUFFICES ASSUME NEW X \in SUBSET DOMAIN b, X # {}, \A j \in X : b[j].deps \cap X # {}
             PROVE  FALSE
  BY DEF Acyclic
<1>1. CASE i \notin X
  BY <1>1 DEF Acyclic
<1>2. CASE i \in X
  <2> DEFINE Y == X \cap reach
  <2>1. Y # {} /\ Y \in SUBSET DOMAIN old
    BY <1>2
  <2>2. PICK j \in Y : old[j].deps \cap Y = {}
    BY <2>1 DEF Acyclic
  <2>3. b[j].deps = old[j].deps /\ b[j].deps \subseteq reach
    BY <2>2
  <2> QED
    BY <2>2, <2>3
<1> QED
  BY <1>1, <1>2

-----------------------------------------------------------------------------
(* The walk over what waits on what. *)

\* Ids are numbers, and what waits waits on ids.
Graph(b) ==
    /\ DOMAIN b \in SUBSET Int /\ IsFiniteSet(DOMAIN b)
    /\ \A j \in DOMAIN b : b[j].deps \in SUBSET DOMAIN b

\* A cycle, written with its first initiative again at the end.
Names(b, c) ==
    /\ c \in Seq(DOMAIN b) /\ Len(c) >= 2 /\ c[1] = c[Len(c)]
    /\ \A k \in 1 .. Len(c) - 1 : c[k + 1] \in b[c[k]].deps

DoneIn(s) == {i \in DOMAIN s.mark : s.mark[i] = "done"}

\* A walk that has found no cycle: the path is of initiatives visited, each once
\* and each waiting on the next, what is done waits on what is done and has no
\* cycle, and of what is visited everything waited on is still to be looked at,
\* done or next, except one place.
WalkTypes(b, s) ==
    s \in [mark : [DOMAIN b -> Marks], path : Seq(DOMAIN b), left : SUBSET Edges(b), cycle : {<<>>}]

Walking(b, s, except) ==
    /\ WalkTypes(b, s)
    /\ \A m, n \in 1 .. Len(s.path) : s.path[m] = s.path[n] => m = n
    /\ \A i \in DOMAIN b : s.mark[i] = "visiting" <=> \E m \in 1 .. Len(s.path) : s.path[m] = i
    /\ \A m \in 1 .. Len(s.path) - 1 : s.path[m + 1] \in b[s.path[m]].deps
    /\ \A i \in DoneIn(s) : b[i].deps \subseteq DoneIn(s)
    /\ \A X \in SUBSET DoneIn(s) : X # {} => \E i \in X : b[i].deps \cap X = {}
    /\ \A m \in 1 .. Len(s.path) : \A j \in b[s.path[m]].deps :
          \/ <<s.path[m], j>> \in s.left \/ j \in DoneIn(s)
          \/ m < Len(s.path) /\ j = s.path[m + 1]
          \/ <<s.path[m], j>> \in except
    /\ \A i \in New(s) : \A j \in b[i].deps : <<i, j>> \in s.left

\* How much a walk has left to do, at most.
Work(s) == Cardinality(s.left) + 2 * Cardinality(New(s)) + Len(s.path)

\* What a walk is made of is finite.
LEMMA WorkIsFinite ==
  ASSUME NEW b, Graph(b), NEW s, WalkTypes(b, s)
  PROVE  /\ IsFiniteSet(s.left) /\ Cardinality(s.left) \in Nat
         /\ IsFiniteSet(New(s)) /\ Cardinality(New(s)) \in Nat
         /\ Len(s.path) \in Nat /\ DOMAIN s.mark = DOMAIN b
<1>1. IsFiniteSet(Edges(b))
  <2>1. IsFiniteSet((DOMAIN b) \X (DOMAIN b))
    BY FS_Product DEF Graph
  <2> QED
    BY <2>1, FS_Subset DEF Edges
<1>2. s.left \in SUBSET Edges(b) /\ s.path \in Seq(DOMAIN b) /\ s.mark \in [DOMAIN b -> Marks]
  BY DEF WalkTypes
<1>3. New(s) \in SUBSET DOMAIN b
  BY <1>2 DEF New
<1> QED
  BY <1>1, <1>2, <1>3, FS_Subset, FS_CardinalityType, LenProperties DEF Graph

\* So what is left to do is a number.
LEMMA WorkIsANumber ==
  ASSUME NEW b, Graph(b), NEW s, NEW except, Walking(b, s, except)
  PROVE  Work(s) \in Int
<1>1. WalkTypes(b, s)
  BY DEF Walking
<1>2. /\ Cardinality(s.left) \in Nat /\ Cardinality(New(s)) \in Nat /\ Len(s.path) \in Nat
  BY <1>1, WorkIsFinite
<1> QED
  BY <1>2 DEF Work

\* Into an initiative, from what waits on it or from nowhere.
LEMMA Entering ==
  ASSUME NEW b, Graph(b), NEW s, NEW except, Walking(b, s, except), NEW i \in New(s),
         \/ s.path = <<>>
         \/ /\ s.path # <<>> /\ i \in b[Last(s.path)].deps
            /\ except \subseteq {<<Last(s.path), i>>},
         NEW t, t = Enter(s, i)
  PROVE  Walking(b, t, {}) /\ Work(t) <= Work(s) - 1
<1> DEFINE n == Len(s.path)
<1>1. /\ s.mark \in [DOMAIN b -> Marks] /\ s.path \in Seq(DOMAIN b) /\ s.left \in SUBSET Edges(b)
      /\ s.cycle = <<>>
  BY DEF Walking, WalkTypes
<1>2. i \in DOMAIN b /\ s.mark[i] = "new"
  BY <1>1 DEF New
<1>3. /\ t.mark = [s.mark EXCEPT ![i] = "visiting"] /\ t.path = Append(s.path, i)
      /\ t.left = s.left /\ t.cycle = s.cycle
  BY DEF Enter, Walking, WalkTypes
<1>4. WalkTypes(b, t)
  <2>1. [s.mark EXCEPT ![i] = "visiting"] \in [DOMAIN b -> Marks]
    BY <1>1 DEF Marks
  <2>2. Append(s.path, i) \in Seq(DOMAIN b)
    BY <1>1, <1>2
  <2> QED
    BY <2>1, <2>2 DEF WalkTypes, Walking, Enter
<1>5. /\ n \in Nat /\ Len(t.path) = n + 1 /\ t.path[n + 1] = i
      /\ \A m \in 1 .. n : t.path[m] = s.path[m] /\ s.path[m] \in DOMAIN b
  BY <1>1, <1>2, <1>3
<1>6. /\ t.mark[i] = "visiting" /\ DOMAIN t.mark = DOMAIN b /\ DOMAIN s.mark = DOMAIN b
      /\ \A j \in DOMAIN b : j # i => t.mark[j] = s.mark[j]
  BY <1>1, <1>2, <1>3
<1>7. DoneIn(t) = DoneIn(s) /\ New(t) = New(s) \ {i}
  BY <1>2, <1>6 DEF DoneIn, New
<1>8. \A m \in 1 .. n : s.path[m] # i
  BY <1>2, <1>5 DEF Walking
<1> HIDE DEF n
<1>9. \A m \in 1 .. n + 1 : m = n + 1 \/ m \in 1 .. n
  BY <1>5
<1>10. \A m, k \in 1 .. n + 1 : t.path[m] = t.path[k] => m = k
  <2>1. \A m, k \in 1 .. n : s.path[m] = s.path[k] => m = k
    BY DEF Walking, n
  <2>2. \A m \in 1 .. n : t.path[m] # i
    BY <1>5, <1>8
  <2> SUFFICES ASSUME NEW m \in 1 .. n + 1, NEW k \in 1 .. n + 1, t.path[m] = t.path[k] PROVE m = k
    OBVIOUS
  <2>3. CASE m \in 1 .. n /\ k \in 1 .. n
    BY <1>5, <2>1, <2>3
  <2>4. CASE m = n + 1 \/ k = n + 1
    BY <1>5, <1>9, <2>2, <2>4
  <2> QED
    BY <1>9, <2>3, <2>4
<1>11. \A j \in DOMAIN b : t.mark[j] = "visiting" <=> \E m \in 1 .. n + 1 : t.path[m] = j
  <2> SUFFICES ASSUME NEW j \in DOMAIN b
               PROVE  t.mark[j] = "visiting" <=> \E m \in 1 .. n + 1 : t.path[m] = j
    OBVIOUS
  <2>1. CASE j = i
    <3>1. n + 1 \in 1 .. n + 1
      BY <1>5
    <3> QED
      BY <1>5, <1>6, <2>1, <3>1
  <2>2. CASE j # i
    <3>1. s.mark[j] = "visiting" <=> \E m \in 1 .. n : s.path[m] = j
      BY DEF Walking, n
    <3>2. \A m \in 1 .. n : m \in 1 .. n + 1
      BY <1>5
    <3> QED
      BY <1>5, <1>6, <1>9, <2>2, <3>1, <3>2
  <2> QED
    BY <2>1, <2>2
<1>12. n > 0 => i \in b[s.path[n]].deps /\ except \subseteq {<<s.path[n], i>>}
  BY <1>1, <1>5 DEF Last, n
<1>13. \A m \in 1 .. (n + 1) - 1 : t.path[m + 1] \in b[t.path[m]].deps
  <2> SUFFICES ASSUME NEW m \in 1 .. n PROVE t.path[m + 1] \in b[t.path[m]].deps
    BY <1>5
  <2>1. CASE m = n
    BY <1>5, <1>12, <2>1
  <2>2. CASE m # n
    <3>1. m \in 1 .. n - 1 /\ m + 1 \in 1 .. n
      BY <1>5, <2>2
    <3>2. s.path[m + 1] \in b[s.path[m]].deps
      BY <3>1 DEF Walking, n
    <3> QED
      BY <1>5, <3>1, <3>2
  <2> QED
    BY <2>1, <2>2
<1>14. \A j \in b[i].deps : <<i, j>> \in t.left
  BY <1>3 DEF Walking
<1>15. ASSUME NEW m \in 1 .. n + 1, NEW j \in b[t.path[m]].deps
       PROVE  \/ <<t.path[m], j>> \in t.left \/ j \in DoneIn(t)
              \/ m < n + 1 /\ j = t.path[m + 1]
  <2>1. CASE m = n + 1
    BY <1>5, <1>14, <1>15, <2>1
  <2>2. CASE m # n + 1
    <3>1. m \in 1 .. n /\ t.path[m] = s.path[m] /\ j \in b[s.path[m]].deps
      BY <1>5, <1>9, <1>15, <2>2
    <3>2. \/ <<s.path[m], j>> \in s.left \/ j \in DoneIn(s)
          \/ m < n /\ j = s.path[m + 1]
          \/ <<s.path[m], j>> \in except
      BY <3>1 DEF Walking, n
    <3>3. CASE <<s.path[m], j>> \in except
      <4>1. s.path[m] = s.path[n] /\ j = i /\ n \in 1 .. n
        BY <1>5, <1>12, <3>1, <3>3
      <4>2. m = n
        BY <3>1, <4>1 DEF Walking, n
      <4> QED
        BY <1>5, <4>1, <4>2
    <3>4. CASE m < n /\ j = s.path[m + 1]
      <4>1. m + 1 \in 1 .. n
        BY <1>5, <3>1, <3>4
      <4> QED
        BY <1>5, <3>1, <3>4, <4>1
    <3> QED
      BY <1>3, <1>7, <3>1, <3>2, <3>3, <3>4
  <2> QED
    BY <2>1, <2>2
<1>16. Walking(b, t, {})
  <2>1. /\ \A k \in DoneIn(t) : b[k].deps \subseteq DoneIn(t)
        /\ \A X \in SUBSET DoneIn(t) : X # {} => \E k \in X : b[k].deps \cap X = {}
    BY <1>7 DEF Walking
  <2>2. \A k \in New(t) : \A j \in b[k].deps : <<k, j>> \in t.left
    BY <1>3, <1>7 DEF Walking
  <2>3. Len(t.path) = n + 1
    BY <1>5
  <2> QED
    BY <1>4, <1>10, <1>11, <1>13, <1>15, <2>1, <2>2, <2>3 DEF Walking
<1>17. Work(t) <= Work(s) - 1
  <2>1. /\ Cardinality(s.left) \in Nat /\ IsFiniteSet(New(s)) /\ Cardinality(New(s)) \in Nat
    BY WorkIsFinite DEF Walking
  <2>2. Cardinality(New(t)) = Cardinality(New(s)) - 1
    BY <1>7, <2>1, FS_RemoveElement
  <2>3. Len(t.path) = Len(s.path) + 1 /\ Len(s.path) \in Nat /\ t.left = s.left
    BY <1>3, <1>5 DEF n
  <2> QED
    BY <2>1, <2>2, <2>3 DEF Work
<1> QED
  BY <1>16, <1>17

\* Out of an initiative whose dependencies have all been looked at.
LEMMA Leaving ==
  ASSUME NEW b, Graph(b), NEW s, Walking(b, s, {}), s.path # <<>>,
         \A e \in s.left : e[1] # Last(s.path), NEW t, t = Leave(s)
  PROVE  Walking(b, t, {}) /\ Work(t) <= Work(s) - 1
<1> DEFINE n == Len(s.path)
<1>1. /\ s.mark \in [DOMAIN b -> Marks] /\ s.path \in Seq(DOMAIN b) /\ s.left \in SUBSET Edges(b)
      /\ s.cycle = <<>>
  BY DEF Walking, WalkTypes
<1>2. n \in Nat \ {0} /\ \A m \in 1 .. n : s.path[m] \in DOMAIN b
  BY <1>1, EmptySeq, ElementOfSeq
<1>3. PICK i : i = s.path[n]
  OBVIOUS
<1>4. n \in 1 .. n /\ i \in DOMAIN b /\ i = Last(s.path) /\ s.mark[i] = "visiting"
  <2>1. n \in 1 .. n
    BY <1>2
  <2>2. i \in DOMAIN b /\ i = Last(s.path)
    BY <1>2, <1>3, <2>1 DEF Last
  <2> QED
    BY <1>3, <2>1, <2>2 DEF Walking
<1>5. /\ t.mark = [s.mark EXCEPT ![i] = "done"] /\ t.path = Front(s.path)
      /\ t.left = s.left /\ t.cycle = s.cycle
  BY <1>4 DEF Leave, Walking, WalkTypes
<1>6. /\ t.path \in Seq(DOMAIN b) /\ Len(t.path) = n - 1
      /\ \A m \in 1 .. n - 1 : t.path[m] = s.path[m]
  <2>1. t.path = SubSeq(s.path, 1, n - 1)
    BY <1>5 DEF Front
  <2>2. 1 \in Int /\ n - 1 \in Int /\ \A m \in 1 .. n - 1 : s.path[m] \in DOMAIN b
    BY <1>2
  <2> HIDE DEF n
  <2>3. /\ SubSeq(s.path, 1, n - 1) \in Seq(DOMAIN b)
        /\ Len(SubSeq(s.path, 1, n - 1)) = IF 1 <= n - 1 THEN (n - 1) - 1 + 1 ELSE 0
        /\ \A m \in 1 .. (n - 1) - 1 + 1 : SubSeq(s.path, 1, n - 1)[m] = s.path[1 + m - 1]
    BY <2>2, SubSeqProperties
  <2> QED
    BY <1>2, <2>1, <2>3
<1>7. WalkTypes(b, t)
  <2>1. [s.mark EXCEPT ![i] = "done"] \in [DOMAIN b -> Marks]
    BY <1>1 DEF Marks
  <2>2. Front(s.path) \in Seq(DOMAIN b)
    BY <1>5, <1>6
  <2> QED
    BY <1>4, <2>1, <2>2 DEF WalkTypes, Walking, Leave
<1>8. /\ t.mark[i] = "done" /\ DOMAIN t.mark = DOMAIN b /\ DOMAIN s.mark = DOMAIN b
      /\ \A j \in DOMAIN b : j # i => t.mark[j] = s.mark[j]
  BY <1>1, <1>4, <1>5
<1>9. DoneIn(t) = DoneIn(s) \cup {i} /\ New(t) = New(s) /\ i \notin DoneIn(s)
  BY <1>4, <1>8 DEF DoneIn, New
<1> HIDE DEF n
<1>10. \A m, k \in 1 .. n : s.path[m] = s.path[k] => m = k
  BY DEF Walking, n
<1>11. \A m \in 1 .. n - 1 : m \in 1 .. n /\ m # n /\ s.path[m] # i
  <2> SUFFICES ASSUME NEW m \in 1 .. n - 1
               PROVE  m \in 1 .. n /\ m # n /\ s.path[m] # i
    OBVIOUS
  <2>1. m \in 1 .. n /\ m # n
    BY <1>2
  <2>2. n \in 1 .. n
    BY <1>2
  <2> QED
    BY <1>3, <1>10, <2>1, <2>2
<1>12. \A j \in b[i].deps : j \in DoneIn(s)
  <2> SUFFICES ASSUME NEW j \in b[i].deps PROVE j \in DoneIn(s)
    OBVIOUS
  <2>1. \/ <<i, j>> \in s.left \/ j \in DoneIn(s)
        \/ n < n /\ j = s.path[n + 1]
    BY <1>3, <1>4 DEF Walking, n
  <2>2. <<i, j>> \notin s.left
    BY <1>4
  <2> QED
    BY <1>2, <2>1, <2>2
<1>13. \A j \in DOMAIN b : t.mark[j] = "visiting" <=> \E m \in 1 .. n - 1 : t.path[m] = j
  <2> SUFFICES ASSUME NEW j \in DOMAIN b
               PROVE  t.mark[j] = "visiting" <=> \E m \in 1 .. n - 1 : t.path[m] = j
    OBVIOUS
  <2>1. CASE j = i
    BY <1>6, <1>8, <1>11, <2>1
  <2>2. CASE j # i
    <3>1. s.mark[j] = "visiting" <=> \E m \in 1 .. n : s.path[m] = j
      BY DEF Walking, n
    <3>2. \A m \in 1 .. n : m = n \/ m \in 1 .. n - 1
      BY <1>2
    <3> QED
      BY <1>3, <1>6, <1>8, <1>11, <2>2, <3>1, <3>2
  <2> QED
    BY <2>1, <2>2
<1>14. \A m \in 1 .. (n - 1) - 1 : t.path[m + 1] \in b[t.path[m]].deps
  <2> SUFFICES ASSUME NEW m \in 1 .. (n - 1) - 1 PROVE t.path[m + 1] \in b[t.path[m]].deps
    OBVIOUS
  <2>1. m \in 1 .. n - 1 /\ m + 1 \in 1 .. n - 1
    BY <1>2
  <2>2. s.path[m + 1] \in b[s.path[m]].deps
    BY <2>1 DEF Walking, n
  <2> QED
    BY <1>6, <2>1, <2>2
<1>15. ASSUME NEW m \in 1 .. n - 1, NEW j \in b[t.path[m]].deps
       PROVE  \/ <<t.path[m], j>> \in t.left \/ j \in DoneIn(t)
              \/ m < n - 1 /\ j = t.path[m + 1]
  <2>1. t.path[m] = s.path[m] /\ m \in 1 .. n /\ j \in b[s.path[m]].deps
    BY <1>6, <1>11, <1>15
  <2>2. \/ <<s.path[m], j>> \in s.left \/ j \in DoneIn(s)
        \/ m < n /\ j = s.path[m + 1]
    BY <2>1 DEF Walking, n
  <2>3. CASE m < n /\ j = s.path[m + 1]
    <3>1. CASE m + 1 = n
      BY <1>3, <1>9, <2>3, <3>1
    <3>2. CASE m + 1 # n
      <4>1. m + 1 \in 1 .. n - 1 /\ m < n - 1
        BY <1>2, <2>3, <3>2
      <4> QED
        BY <1>6, <2>3, <4>1
    <3> QED
      BY <3>1, <3>2
  <2> QED
    BY <1>5, <1>9, <2>1, <2>2, <2>3
<1>16. \A k \in DoneIn(t) : b[k].deps \subseteq DoneIn(t)
  BY <1>9, <1>12 DEF Walking
<1>17. ASSUME NEW X \in SUBSET DoneIn(t), X # {}
       PROVE  \E k \in X : b[k].deps \cap X = {}
  <2>1. CASE X \ {i} = {}
    <3>1. X = {i}
      BY <1>17, <2>1
    <3> QED
      BY <1>9, <1>12, <3>1
  <2>2. CASE X \ {i} # {}
    <3>1. X \ {i} \in SUBSET DoneIn(s)
      BY <1>9
    <3>2. PICK k \in X \ {i} : b[k].deps \cap (X \ {i}) = {}
      BY <2>2, <3>1 DEF Walking
    <3>3. b[k].deps \subseteq DoneIn(s)
      BY <3>1 DEF Walking
    <3> QED
      BY <1>9, <3>2, <3>3
  <2> QED
    BY <2>1, <2>2
<1>18. Walking(b, t, {})
  <2>1. \A k \in New(t) : \A j \in b[k].deps : <<k, j>> \in t.left
    BY <1>5, <1>9 DEF Walking
  <2>2. Len(t.path) = n - 1
    BY <1>6
  <2>3. \A m, k \in 1 .. n - 1 : t.path[m] = t.path[k] => m = k
    BY <1>6, <1>10, <1>11
  <2> QED
    BY <1>7, <1>13, <1>14, <1>15, <1>16, <1>17, <2>1, <2>2, <2>3 DEF Walking
<1>19. Work(t) <= Work(s) - 1
  <2>1. /\ Cardinality(s.left) \in Nat /\ Cardinality(New(s)) \in Nat
    BY WorkIsFinite DEF Walking
  <2>2. Len(t.path) = Len(s.path) - 1 /\ Len(s.path) \in Nat /\ t.left = s.left /\ New(t) = New(s)
    BY <1>2, <1>5, <1>6, <1>9 DEF n
  <2> QED
    BY <2>1, <2>2 DEF Work
<1> QED
  BY <1>18, <1>19

\* A dependency looked at is one fewer to look at.
LEMMA Dropping ==
  ASSUME NEW b, Graph(b), NEW s, Walking(b, s, {}), s.path # <<>>,
         NEW i, i = Last(s.path), NEW j, <<i, j>> \in s.left,
         NEW except, except = {<<i, j>>},
         NEW t, t = [s EXCEPT !.left = s.left \ {<<i, j>>}]
  PROVE  /\ Walking(b, t, except) /\ Work(t) <= Work(s) - 1
         /\ t.mark = s.mark /\ t.path = s.path /\ t.cycle = s.cycle
         /\ i \in DOMAIN b /\ j \in b[i].deps /\ j \in DOMAIN b
         /\ i = s.path[Len(s.path)] /\ Len(s.path) \in Nat \ {0}
<1>1. /\ s.mark \in [DOMAIN b -> Marks] /\ s.path \in Seq(DOMAIN b) /\ s.left \in SUBSET Edges(b)
      /\ s.cycle = <<>>
  BY DEF Walking, WalkTypes
<1>2. /\ t.mark = s.mark /\ t.path = s.path /\ t.cycle = s.cycle
      /\ t.left = s.left \ {<<i, j>>} /\ WalkTypes(b, t)
  BY DEF Walking, WalkTypes
<1>3. i \in DOMAIN b /\ j \in b[i].deps /\ j \in DOMAIN b
  <2>1. <<i, j>> \in Edges(b)
    BY <1>1
  <2> QED
    BY <2>1 DEF Edges
<1>4. Len(s.path) \in Nat \ {0} /\ i = s.path[Len(s.path)]
  BY <1>1, EmptySeq DEF Last
<1>5. s.mark[i] = "visiting"
  <2>1. Len(s.path) \in 1 .. Len(s.path)
    BY <1>4
  <2> QED
    BY <1>3, <1>4, <2>1 DEF Walking
<1>6. DoneIn(t) = DoneIn(s) /\ New(t) = New(s) /\ i \notin New(s)
  BY <1>2, <1>5 DEF DoneIn, New
<1>7. \A m \in 1 .. Len(t.path) : \A k \in b[t.path[m]].deps :
          \/ <<t.path[m], k>> \in t.left \/ k \in DoneIn(t)
          \/ m < Len(t.path) /\ k = t.path[m + 1]
          \/ <<t.path[m], k>> \in except
  BY <1>2, <1>6 DEF Walking
<1>8. \A m \in New(t) : \A k \in b[m].deps : <<m, k>> \in t.left
  BY <1>2, <1>6 DEF Walking
<1>9. Walking(b, t, except)
  <2>1. /\ \A m, k \in 1 .. Len(t.path) : t.path[m] = t.path[k] => m = k
        /\ \A k \in DOMAIN b : t.mark[k] = "visiting" <=> \E m \in 1 .. Len(t.path) : t.path[m] = k
        /\ \A m \in 1 .. Len(t.path) - 1 : t.path[m + 1] \in b[t.path[m]].deps
    BY <1>2 DEF Walking
  <2>2. /\ \A k \in DoneIn(t) : b[k].deps \subseteq DoneIn(t)
        /\ \A X \in SUBSET DoneIn(t) : X # {} => \E k \in X : b[k].deps \cap X = {}
    BY <1>6 DEF Walking
  <2> QED
    BY <1>2, <1>7, <1>8, <2>1, <2>2, Zenon DEF Walking
<1>10. Work(t) <= Work(s) - 1
  <2>1. /\ IsFiniteSet(s.left) /\ Cardinality(s.left) \in Nat /\ Cardinality(New(s)) \in Nat
        /\ Len(s.path) \in Nat
    BY WorkIsFinite DEF Walking
  <2>2. Cardinality(t.left) = Cardinality(s.left) - 1
    BY <1>2, <2>1, FS_RemoveElement
  <2> QED
    BY <1>2, <1>6, <2>1, <2>2 DEF Work
<1> QED
  BY <1>2, <1>3, <1>4, <1>9, <1>10

\* Back on the path the walk came by: a cycle.
LEMMA Closing ==
  ASSUME NEW b, Graph(b), NEW s, Walking(b, s, {}), s.path # <<>>,
         NEW i, i = Last(s.path), NEW j \in DOMAIN b, j \in b[i].deps, s.mark[j] = "visiting",
         NEW from \in 1 .. Len(s.path), s.path[from] = j
  PROVE  Names(b, Append(SubSeq(s.path, from, Len(s.path)), j))
<1> DEFINE n == Len(s.path)
           part == SubSeq(s.path, from, n)
           c == Append(part, j)
<1>1. s.path \in Seq(DOMAIN b) /\ n \in Nat \ {0} /\ DOMAIN s.path = 1 .. n /\ i = s.path[n]
  BY EmptySeq DEF Walking, WalkTypes, Last
<1>3. from \in 1 .. n /\ s.path[from] = j
  OBVIOUS
<1>a. n \in Int /\ from \in Int /\ 1 <= from /\ from <= n
  <2> HIDE DEF n
  <2> QED
    BY <1>1, <1>3
<1>4. /\ part \in Seq(DOMAIN b) /\ Len(part) = n - from + 1
      /\ \A k \in 1 .. n - from + 1 : part[k] = s.path[from + k - 1]
  <2>1. PICK m : m = n
    OBVIOUS
  <2>2. \A k \in from .. m : s.path[k] \in DOMAIN b
    <3> HIDE DEF n
    <3>1. \A k \in from .. n : k \in 1 .. n
      BY <1>a
    <3> QED
      BY <1>1, <2>1, <3>1, ElementOfSeq DEF n
  <2>3. m \in Int /\ from \in Int /\ from <= m
    BY <1>a, <2>1
  <2>4. PICK S, p : S = DOMAIN b /\ p = s.path
    OBVIOUS
  <2> HIDE DEF n
  <2>5. /\ SubSeq(p, from, m) \in Seq(S)
        /\ Len(SubSeq(p, from, m)) = IF from <= m THEN m - from + 1 ELSE 0
        /\ \A k \in 1 .. m - from + 1 : SubSeq(p, from, m)[k] = p[from + k - 1]
    BY <2>2, <2>3, <2>4, SubSeqProperties
  <2> QED
    BY <2>1, <2>3, <2>4, <2>5
<1>5. PICK l : l = n - from + 1
  OBVIOUS
<1>6. l \in Nat \ {0} /\ l = n - from + 1
  <2> HIDE DEF n
  <2> QED
    BY <1>a, <1>5
<1>7. /\ c \in Seq(DOMAIN b) /\ Len(c) = l + 1 /\ c[l + 1] = j
      /\ \A k \in 1 .. l : c[k] = part[k]
  <2>1. part \in Seq(DOMAIN b) /\ Len(part) = l
    BY <1>4, <1>6
  <2> HIDE DEF part, n
  <2> QED
    BY <2>1
<1>8. \A k \in 1 .. l : c[k] = s.path[from + k - 1]
  BY <1>4, <1>5, <1>7
<1> HIDE DEF n, part, c
<1>9. c[1] = j /\ c[l] = i
  <2>1. 1 \in 1 .. l /\ l \in 1 .. l
    BY <1>6
  <2>2. from + 1 - 1 = from /\ from + l - 1 = n
    BY <1>a, <1>6
  <2> QED
    BY <1>1, <1>3, <1>8, <2>1, <2>2
<1>10. \A k \in 1 .. (l + 1) - 1 : c[k + 1] \in b[c[k]].deps
  <2> SUFFICES ASSUME NEW k \in 1 .. l PROVE c[k + 1] \in b[c[k]].deps
    BY <1>6
  <2>1. CASE k = l
    BY <1>7, <1>9, <2>1
  <2>2. CASE k # l
    <3>1. k + 1 \in 1 .. l
      BY <1>6, <2>2
    <3>2. PICK m : m = from + k - 1
      OBVIOUS
    <3>3. m \in 1 .. n - 1 /\ m + 1 = from + (k + 1) - 1
      BY <1>a, <1>6, <2>2, <3>2
    <3>4. c[k] = s.path[m] /\ c[k + 1] = s.path[m + 1]
      BY <1>8, <3>1, <3>2, <3>3
    <3> QED
      BY <3>3, <3>4 DEF Walking, n
  <2> QED
    BY <2>1, <2>2
<1>11. Names(b, c)
  BY <1>6, <1>7, <1>9, <1>10 DEF Names
<1> QED
  BY <1>11 DEF c, part, n

\* At a dependency.
LEMMA Following ==
  ASSUME NEW b, Graph(b), NEW s, Walking(b, s, {}), s.path # <<>>,
         NEW j, <<Last(s.path), j>> \in s.left, NEW t, t = Follow(s, j)
  PROVE  \/ t.cycle # <<>> /\ Names(b, t.cycle)
         \/ Walking(b, t, {}) /\ Work(t) <= Work(s) - 1
<1>1. PICK i : i = Last(s.path)
  OBVIOUS
<1>2. PICK except : except = {<<i, j>>}
  OBVIOUS
<1>3. PICK u : u = [s EXCEPT !.left = s.left \ {<<i, j>>}]
  OBVIOUS
<1>4. /\ Walking(b, u, except) /\ Work(u) <= Work(s) - 1
      /\ u.mark = s.mark /\ u.path = s.path /\ u.cycle = s.cycle
      /\ i \in DOMAIN b /\ j \in b[i].deps /\ j \in DOMAIN b
  BY <1>1, <1>2, <1>3, Dropping
<1>5. s.mark[j] \in Marks /\ s.mark \in [DOMAIN b -> Marks]
  BY <1>4 DEF Walking, WalkTypes
<1>6. Work(s) \in Int /\ Work(u) \in Int
  <2>1. Work(u) \in Int
    BY <1>4, WorkIsANumber
  <2>2. PICK none : none = {}
    OBVIOUS
  <2>3. Work(s) \in Int
    BY <2>2, WorkIsANumber
  <2> QED
    BY <2>1, <2>3
<1>7. CASE s.mark[j] = "new"
  <2>1. t = Enter(u, j)
    BY <1>1, <1>3, <1>7 DEF Follow
  <2>2. j \in New(u) /\ u.path # <<>> /\ j \in b[Last(u.path)].deps
        /\ except \subseteq {<<Last(u.path), j>>}
    BY <1>1, <1>2, <1>4, <1>5, <1>7 DEF New
  <2>3. Walking(b, t, {}) /\ Work(t) <= Work(u) - 1
    BY <1>4, <2>1, <2>2, Entering
  <2>4. Work(t) \in Int
    <3>1. PICK none : none = {}
      OBVIOUS
    <3> QED
      BY <2>3, <3>1, WorkIsANumber
  <2> QED
    BY <1>4, <1>6, <2>3, <2>4
<1>8. CASE s.mark[j] = "done"
  <2>1. t = u
    BY <1>1, <1>3, <1>8 DEF Follow
  <2>2. j \in DoneIn(u)
    BY <1>4, <1>5, <1>8 DEF DoneIn
  <2>3. Walking(b, u, {})
    <3>1. \A m \in 1 .. Len(u.path) : \A k \in b[u.path[m]].deps :
            \/ <<u.path[m], k>> \in u.left \/ k \in DoneIn(u)
            \/ m < Len(u.path) /\ k = u.path[m + 1]
      BY <1>2, <1>4, <2>2 DEF Walking
    <3> QED
      BY <1>4, <3>1 DEF Walking
  <2> QED
    BY <1>4, <2>1, <2>3
<1>9. CASE s.mark[j] = "visiting"
  <2>1. PICK from : from = CHOOSE m \in DOMAIN s.path : s.path[m] = j
    OBVIOUS
  <2>2. PICK c : c = Append(SubSeq(s.path, from, Len(s.path)), j)
    OBVIOUS
  <2>3. t = [u EXCEPT !.cycle = c]
    BY <1>1, <1>3, <1>9, <2>1, <2>2 DEF Follow
  <2>4. t.cycle = c
    BY <1>4, <2>3 DEF Walking, WalkTypes
  <2>5. Names(b, c)
    <3>1. s.path \in Seq(DOMAIN b) /\ DOMAIN s.path = 1 .. Len(s.path)
      BY DEF Walking, WalkTypes
    <3>2. \E m \in DOMAIN s.path : s.path[m] = j
      BY <1>4, <1>9, <3>1 DEF Walking
    <3>3. from \in 1 .. Len(s.path) /\ s.path[from] = j
      BY <2>1, <3>1, <3>2
    <3> QED
      BY <1>1, <1>4, <1>9, <2>2, <3>3, Closing
  <2>6. c # <<>>
    BY <2>5, EmptySeq DEF Names
  <2> QED
    BY <2>4, <2>5, <2>6
<1> QED
  BY <1>5, <1>7, <1>8, <1>9 DEF Marks

\* Everything has been looked at, and no cycle found.
Walked(s) == s.path = <<>> /\ New(s) = {}

\* A step of the walk names a cycle, has less to do, or is one of a walk that is over.
LEMMA WalkingOn ==
  ASSUME NEW b, Graph(b), NEW s, Walking(b, s, {}), NEW t, t = WalkOn(s)
  PROVE  \/ t.cycle # <<>> /\ Names(b, t.cycle)
         \/ Walking(b, t, {}) /\ Work(t) <= Work(s) - 1
         \/ t = s /\ Walked(s)
<1>1. s.cycle = <<>> /\ s.mark \in [DOMAIN b -> Marks] /\ s.left \in SUBSET Edges(b)
  BY DEF Walking, WalkTypes
<1>2. CASE s.path = <<>> /\ New(s) = {}
  BY <1>1, <1>2 DEF WalkOn, Walked
<1>3. CASE s.path = <<>> /\ New(s) # {}
  <2>1. New(s) \in SUBSET DOMAIN b
    BY <1>1 DEF New
  <2>2. PICK S : S = New(s)
    OBVIOUS
  <2>3. S \in SUBSET Int /\ IsFiniteSet(S) /\ S # {}
    BY <1>3, <2>1, <2>2, WorkIsFinite DEF Walking, Graph
  <2>4. PICK i : i = Min(S)
    OBVIOUS
  <2>5. i \in New(s)
    BY <2>2, <2>3, <2>4, MinOfFinite
  <2>6. t = Enter(s, i)
    BY <1>1, <1>3, <2>2, <2>4 DEF WalkOn
  <2>7. PICK except : except = {}
    OBVIOUS
  <2>8. Walking(b, s, except)
    BY <2>7
  <2>9. Walking(b, t, {}) /\ Work(t) <= Work(s) - 1
    BY <1>3, <2>5, <2>6, <2>8, Entering
  <2> QED
    BY <2>9
<1>4. CASE s.path # <<>>
  <2> DEFINE left == {e[2] : e \in {f \in s.left : f[1] = Last(s.path)}}
  <2>1. \A e \in s.left : e \in (DOMAIN b) \X (DOMAIN b)
    BY <1>1 DEF Edges
  <2>2. CASE left = {}
    <3>1. t = Leave(s)
      BY <1>1, <1>4, <2>2 DEF WalkOn
    <3>2. \A e \in s.left : e[1] # Last(s.path)
      BY <2>2
    <3>3. Walking(b, t, {}) /\ Work(t) <= Work(s) - 1
      BY <1>4, <3>1, <3>2, Leaving
    <3> QED
      BY <3>3
  <2>3. CASE left # {}
    <3>1. left \in SUBSET DOMAIN b
      BY <2>1
    <3>2. PICK S : S = left
      OBVIOUS
    <3>3. PICK j : j = Min(S)
      OBVIOUS
    <3>4. t = Follow(s, j)
      BY <1>1, <1>4, <2>3, <3>2, <3>3 DEF WalkOn
    <3> HIDE DEF left
    <3>5. S \in SUBSET Int /\ IsFiniteSet(S) /\ S # {}
      BY <2>3, <3>1, <3>2, FS_Subset DEF Graph
    <3>6. j \in S
      BY <3>3, <3>5, MinOfFinite
    <3>7. <<Last(s.path), j>> \in s.left
      BY <2>1, <3>2, <3>6 DEF left
    <3> QED
      BY <1>4, <3>4, <3>7, Following
  <2> QED
    BY <2>2, <2>3
<1> QED
  BY <1>2, <1>3, <1>4

\* The walk as a sequence of states.
Walks(b, n, g) == g = [k \in 0 .. n |-> IF k = 0 THEN Unwalked(b) ELSE WalkOn(g[k - 1])]

\* The walk FindCycle defines by recursion exists.
LEMMA WalksExist ==
  ASSUME NEW b, NEW n \in Nat
  PROVE  \E g : Walks(b, n, g)
<1> DEFINE K == {m \in Nat : \E g : Walks(b, m, g)}
<1>1. 0 \in K
  <2>1. Walks(b, 0, [k \in 0 .. 0 |-> Unwalked(b)])
    BY DEF Walks
  <2> QED
    BY <2>1
<1>2. ASSUME NEW m \in Nat, m \in K
      PROVE  m + 1 \in K
  <2>1. PICK g : Walks(b, m, g)
    BY <1>2
  <2> DEFINE h == [k \in 0 .. m + 1 |-> IF k = m + 1 THEN WalkOn(g[m]) ELSE g[k]]
  <2>2. \A k \in 0 .. m + 1 : h[k] = IF k = 0 THEN Unwalked(b) ELSE WalkOn(h[k - 1])
    <3> SUFFICES ASSUME NEW k \in 0 .. m + 1
                 PROVE  h[k] = IF k = 0 THEN Unwalked(b) ELSE WalkOn(h[k - 1])
      OBVIOUS
    <3>1. CASE k = m + 1
      <4>1. k - 1 = m /\ m \in 0 .. m + 1 /\ k # 0 /\ m # m + 1
        BY <3>1
      <4> QED
        BY <3>1, <4>1
    <3>2. CASE k # m + 1 /\ k # 0
      <4>1. k \in 0 .. m /\ k - 1 \in 0 .. m + 1 /\ k - 1 # m + 1
        BY <3>2
      <4>2. g[k] = WalkOn(g[k - 1])
        BY <2>1, <3>2, <4>1 DEF Walks
      <4> QED
        BY <3>2, <4>1, <4>2
    <3>3. CASE k = 0
      <4>1. 0 \in 0 .. m /\ 0 # m + 1
        OBVIOUS
      <4> QED
        BY <2>1, <3>3, <4>1 DEF Walks
    <3> QED
      BY <3>1, <3>2, <3>3
  <2>3. h = [k \in 0 .. m + 1 |-> h[k]]
    OBVIOUS
  <2> HIDE DEF h
  <2>4. Walks(b, m + 1, h)
    BY <2>2, <2>3 DEF Walks
  <2> QED
    BY <2>4
<1> HIDE DEF K
<1>3. n \in K
  BY <1>1, <1>2, Induction
<1> QED
  BY <1>3 DEF K

\* A walk that starts has as much to do as it is given steps for.
LEMMA Starting ==
  ASSUME NEW b, Graph(b), NEW s, s = Unwalked(b)
  PROVE  Walking(b, s, {}) /\ Work(s) = 2 * Cardinality(DOMAIN b) + Cardinality(Edges(b))
<1>1. /\ s.mark = [i \in DOMAIN b |-> "new"] /\ s.path = <<>> /\ s.left = Edges(b) /\ s.cycle = <<>>
      /\ s = [mark |-> [i \in DOMAIN b |-> "new"], path |-> <<>>, left |-> Edges(b), cycle |-> <<>>]
  BY DEF Unwalked
<1>2. WalkTypes(b, s)
  <2>1. [i \in DOMAIN b |-> "new"] \in [DOMAIN b -> Marks]
    BY DEF Marks
  <2>2. <<>> \in Seq(DOMAIN b) /\ Edges(b) \in SUBSET Edges(b)
    OBVIOUS
  <2> QED
    BY <1>1, <2>1, <2>2 DEF WalkTypes
<1>3. DoneIn(s) = {} /\ New(s) = DOMAIN b /\ Len(s.path) = 0
  BY <1>1, EmptySeq DEF DoneIn, New
<1>4. \A i \in DOMAIN b : \A j \in b[i].deps : <<i, j>> \in s.left
  BY <1>1 DEF Graph, Edges
<1>5. \A m \in 1 .. 0 : FALSE
  OBVIOUS
<1>6. \A i \in DOMAIN b : s.mark[i] # "visiting"
  BY <1>1
<1>7. \A m \in 1 .. 0 - 1 : FALSE
  OBVIOUS
<1>8. Walking(b, s, {})
  BY <1>2, <1>3, <1>4, <1>5, <1>6, <1>7 DEF Walking
<1>9. /\ Cardinality(s.left) \in Nat /\ Cardinality(New(s)) \in Nat
  BY <1>2, WorkIsFinite
<1>10. Work(s) = 2 * Cardinality(DOMAIN b) + Cardinality(Edges(b))
  BY <1>1, <1>3, <1>9 DEF Work
<1> QED
  BY <1>8, <1>10

\* What is done when a walk is over is everything.
LEMMA WalkedIsAcyclic ==
  ASSUME NEW b, Graph(b), NEW s, Walking(b, s, {}), Walked(s)
  PROVE  Acyclic(b)
<1>1. s.mark \in [DOMAIN b -> Marks] /\ Len(s.path) = 0
  BY EmptySeq DEF Walking, WalkTypes, Walked
<1>2. \A i \in DOMAIN b : s.mark[i] # "visiting"
  <2>1. \A m \in 1 .. 0 : FALSE
    OBVIOUS
  <2> QED
    BY <1>1, <2>1 DEF Walking
<1>3. \A i \in DOMAIN b : s.mark[i] # "new"
  BY <1>1 DEF Walked, New
<1>4. DoneIn(s) = DOMAIN b
  BY <1>1, <1>2, <1>3 DEF DoneIn, Marks
<1> QED
  BY <1>4 DEF Walking, Acyclic

\* The walk finds a cycle or there is none.
LEMMA FindCycleIs ==
  ASSUME NEW b, Graph(b)
  PROVE  \/ FindCycle(b) = <<>> /\ Acyclic(b)
         \/ FindCycle(b) # <<>> /\ Names(b, FindCycle(b))
<1> DEFINE n == 2 * Cardinality(DOMAIN b) + Cardinality(Edges(b))
           Eq(g) == g = [k \in 0 .. n |-> IF k = 0 THEN Unwalked(b) ELSE WalkOn(g[k - 1])]
           walk == CHOOSE g : Eq(g)
<1>1. PICK u : u = Unwalked(b)
  OBVIOUS
<1>2. Walking(b, u, {}) /\ Work(u) = n
  BY <1>1, Starting
<1>3. n \in Nat
  <2>1. /\ Cardinality(u.left) \in Nat /\ Cardinality(New(u)) \in Nat /\ Len(u.path) \in Nat
    BY <1>2, WorkIsFinite DEF Walking
  <2> HIDE DEF n
  <2> QED
    BY <1>2, <2>1 DEF Work
<1>4. \E g : Eq(g)
  <2> HIDE DEF n
  <2>1. \E g : Walks(b, n, g)
    BY <1>3, WalksExist
  <2> QED
    BY <2>1 DEF Walks
<1>5. Eq(walk)
  BY <1>4, Zenon
<1>6. FindCycle(b) = walk[n].cycle
  BY DEF FindCycle
<1>7. PICK g : g = walk
  OBVIOUS
<1>8. Eq(g)
  BY <1>5, <1>7, Zenon
<1>9. FindCycle(b) = g[n].cycle
  BY <1>6, <1>7, Zenon
<1> HIDE DEF walk, n
<1>10. g[0] = u /\ \A k \in 1 .. n : g[k] = WalkOn(g[k - 1])
  <2>1. 0 \in 0 .. n /\ \A k \in 1 .. n : k \in 0 .. n /\ k # 0
    BY <1>3
  <2> QED
    BY <1>1, <1>8, <2>1
<1> HIDE DEF Eq
<1> DEFINE SoundAt(k) == \/ g[k].cycle # <<>> /\ Names(b, g[k].cycle)
                         \/ Walking(b, g[k], {}) /\ (Work(g[k]) <= n - k \/ Walked(g[k]))
           K == {k \in Nat : k <= n => SoundAt(k)}
<1>11. 0 \in K
  BY <1>2, <1>3, <1>10
<1>12. ASSUME NEW k \in Nat, k \in K
       PROVE  k + 1 \in K
  <2> SUFFICES ASSUME k + 1 <= n PROVE SoundAt(k + 1)
    OBVIOUS
  <2>1. SoundAt(k)
    BY <1>3, <1>12
  <2>2. g[k + 1] = WalkOn(g[k])
    <3>1. k + 1 \in 1 .. n /\ (k + 1) - 1 = k
      BY <1>3
    <3> QED
      BY <1>10, <3>1
  <2>3. PICK s, t : s = g[k] /\ t = g[k + 1]
    OBVIOUS
  <2>4. t = WalkOn(s)
    BY <2>2, <2>3
  <2>5. CASE s.cycle # <<>> /\ Names(b, s.cycle)
    <3>1. t = s
      BY <2>4, <2>5 DEF WalkOn
    <3> QED
      BY <2>3, <2>5, <3>1
  <2>6. CASE Walking(b, s, {}) /\ (Work(s) <= n - k \/ Walked(s))
    <3>1. \/ t.cycle # <<>> /\ Names(b, t.cycle)
          \/ Walking(b, t, {}) /\ Work(t) <= Work(s) - 1
          \/ t = s /\ Walked(s)
      BY <2>4, <2>6, WalkingOn
    <3>2. CASE Walking(b, t, {}) /\ Work(t) <= Work(s) - 1
      <4>1. CASE Walked(s)
        <5>1. t = s
          BY <2>4, <2>6, <4>1 DEF WalkOn, Walked, Walking, WalkTypes
        <5> QED
          BY <2>3, <2>6, <4>1, <5>1
      <4>2. CASE Work(s) <= n - k
        <5>1. Work(s) \in Int /\ Work(t) \in Int
          <6>1. PICK none : none = {}
            OBVIOUS
          <6> QED
            BY <2>6, <3>2, <6>1, WorkIsANumber
        <5>2. Work(t) <= n - (k + 1)
          BY <1>3, <3>2, <4>2, <5>1
        <5> QED
          BY <2>3, <3>2, <5>2
      <4> QED
        BY <2>6, <4>1, <4>2
    <3> QED
      BY <2>3, <2>6, <3>1, <3>2
  <2> QED
    BY <2>1, <2>3, <2>5, <2>6
<1> HIDE DEF K
<1>13. n \in K
  BY <1>3, <1>11, <1>12, Induction
<1>14. SoundAt(n)
  BY <1>3, <1>13 DEF K
<1>15. PICK s : s = g[n]
  OBVIOUS
<1>16. CASE s.cycle # <<>> /\ Names(b, s.cycle)
  BY <1>9, <1>15, <1>16
<1>17. CASE Walking(b, s, {}) /\ (Work(s) <= n - n \/ Walked(s))
  <2>1. Walked(s)
    <3>1. /\ Cardinality(s.left) \in Nat /\ Cardinality(New(s)) \in Nat /\ Len(s.path) \in Nat
          /\ IsFiniteSet(New(s))
      BY <1>17, WorkIsFinite DEF Walking
    <3>2. ASSUME Work(s) <= n - n PROVE Walked(s)
      <4>1. Cardinality(New(s)) = 0 /\ Len(s.path) = 0
        BY <1>3, <3>1, <3>2 DEF Work
      <4>2. New(s) = {}
        BY <3>1, <4>1, FS_EmptySet
      <4>3. s.path \in Seq(DOMAIN b)
        BY <1>17 DEF Walking, WalkTypes
      <4>4. s.path = <<>>
        BY <4>1, <4>3, EmptySeq
      <4> QED
        BY <4>2, <4>4 DEF Walked
    <3> QED
      BY <1>17, <3>2
  <2>2. Acyclic(b)
    BY <1>17, <2>1, WalkedIsAcyclic
  <2>3. s.cycle = <<>>
    BY <1>17 DEF Walking, WalkTypes
  <2> QED
    BY <1>9, <1>15, <2>2, <2>3
<1> QED
  BY <1>14, <1>15, <1>16, <1>17

\* A board with what one initiative waits on replaced.
IsReplaced(b, old, i, deps) ==
    /\ Graph(b) /\ DOMAIN b = DOMAIN old /\ b[i].deps = deps
    /\ \A j \in DOMAIN old : j # i => b[j].deps = old[j].deps

\* It is a graph on the same ids, and only that one's dependencies are others.
LEMMA Replaced ==
  ASSUME BoardTypes, NEW i \in Ids, NEW deps \in SUBSET Ids,
         NEW b, b = [board EXCEPT ![i].deps = deps]
  PROVE  IsReplaced(b, board, i, deps)
<1>1. /\ DOMAIN b = Ids /\ b[i].deps = deps
      /\ \A j \in Ids : j # i => b[j].deps = board[j].deps
  <2>1. PICK old \in BoardRows(Ids) : old = board[i]
    BY DEF BoardTypes
  <2>2. PICK r : r = [old EXCEPT !.deps = deps]
    OBVIOUS
  <2>3. r.deps = deps
    BY <2>2 DEF BoardRows
  <2>4. b = [board EXCEPT ![i] = r]
    BY <2>1, <2>2
  <2> QED
    BY <2>3, <2>4 DEF Ids
<1>2. \A j \in Ids : b[j].deps \in SUBSET Ids
  <2>1. \A j \in Ids : board[j].deps \in SUBSET Ids
    BY DEF BoardTypes, BoardRows
  <2> QED
    BY <1>1, <2>1
<1> QED
  BY <1>1, <1>2 DEF Graph, BoardTypes, IsReplaced, Ids

\* A board without cycles stays so: replacing what an initiative waits on is the
\* one request that could make one, and AssertAcyclic, whose walk finds what there
\* is to find, stands before its write.
THEOREM BoardsStayAcyclic ==
  BoardSpec => []Acyclic(board)
<1>1. BoardInit => Acyclic(board)
  BY BoardAssumption DEF BoardInit
<1>2. ASSUME BoardTypes, Acyclic(board), [BoardNext]_boardVars
      PROVE  Acyclic(board)'
  <2>1. ASSUME DOMAIN board' = DOMAIN board, \A j \in Ids : board'[j].deps = board[j].deps
        PROVE  Acyclic(board)'
    BY <1>2, <2>1 DEF Acyclic, Ids
  <2>2. ASSUME NEW i \in Ids, NEW r, board' = [board EXCEPT ![i] = r], r.deps = board[i].deps
        PROVE  Acyclic(board)'
    BY <2>1, <2>2 DEF Ids
  <2>3. ASSUME NEW i \in Ids, NEW s \in Statuses, Transition(i, s)
        PROVE  Acyclic(board)'
    <3>1. PICK old \in BoardRows(Ids) : old = board[i]
      BY <1>2 DEF BoardTypes
    <3>2. PICK r : r = [old EXCEPT !.status = s]
      OBVIOUS
    <3>3. r.deps = old.deps
      BY <3>2 DEF BoardRows
    <3> QED
      BY <2>2, <2>3, <3>1, <3>2, <3>3 DEF Transition
  <2>4. ASSUME NEW i \in Ids, NEW start \in Starts, NEW deadline \in Deadlines, Update(i, start, deadline)
        PROVE  Acyclic(board)'
    <3>1. PICK old \in BoardRows(Ids) : old = board[i]
      BY <1>2 DEF BoardTypes
    <3>2. PICK r : r = [old EXCEPT !.start = start, !.deadline = deadline]
      OBVIOUS
    <3>3. r.deps = old.deps
      BY <3>2 DEF BoardRows
    <3>4. board' = [board EXCEPT ![i] = [board[i] EXCEPT !.start = start, !.deadline = deadline]]
      BY <2>4 DEF Update
    <3> QED
      BY <2>2, <3>1, <3>2, <3>3, <3>4
  <2>5. ASSUME NEW i \in Ids, Estimate(i)
        PROVE  Acyclic(board)'
    <3>1. PICK old \in BoardRows(Ids) : old = board[i]
      BY <1>2 DEF BoardTypes
    <3>2. PICK r : r = [old EXCEPT !.estimated = TRUE]
      OBVIOUS
    <3>3. r.deps = old.deps
      BY <3>2 DEF BoardRows
    <3> QED
      BY <2>2, <2>5, <3>1, <3>2, <3>3 DEF Estimate
  <2>6. ASSUME NEW i \in Ids, NEW deps \in SUBSET Ids, ReplaceDependencies(i, deps)
        PROVE  Acyclic(board)'
    <3>1. PICK b : b = [board EXCEPT ![i].deps = deps]
      OBVIOUS
    <3>2. AssertAcyclic(b) /\ board' = b
      BY <2>6, <3>1 DEF ReplaceDependencies
    <3>3. Graph(b)
      BY <1>2, <3>1, Replaced DEF IsReplaced
    <3>4. Acyclic(b)
      BY <3>2, <3>3, FindCycleIs DEF AssertAcyclic
    <3> QED
      BY <3>2, <3>4
  <2>7. CASE UNCHANGED board
    BY <1>2, <2>7
  <2> QED
    BY <1>2, <2>3, <2>4, <2>5, <2>6, <2>7 DEF BoardNext, Edit, SetProjectStatus, Complete, NextDay, boardVars
<1> QED
  BY <1>1, <1>2, BoardTypesHold, PTL DEF BoardSpec

\* A named cycle is one: no board that has it is acyclic, and if the board was
\* before one initiative's dependencies were replaced, it goes through that one.
LEMMA NamedIsThere ==
  ASSUME NEW b, NEW c, Names(b, c), NEW X, X = Range(c)
  PROVE  X \in SUBSET DOMAIN b /\ X # {} /\ \A j \in X : b[j].deps \cap X # {}
<1>1. PICK l : l = Len(c)
  OBVIOUS
<1>2. /\ c \in Seq(DOMAIN b) /\ l \in Nat /\ l >= 2 /\ DOMAIN c = 1 .. l
      /\ \A k \in 1 .. l : c[k] \in DOMAIN b
      /\ c[1] = c[l] /\ \A k \in 1 .. l - 1 : c[k + 1] \in b[c[k]].deps
  BY <1>1, LenProperties, ElementOfSeq DEF Names
<1>3. X = {c[k] : k \in 1 .. l}
  BY <1>2 DEF Range
<1>4. 1 \in 1 .. l /\ 1 \in 1 .. l - 1
  BY <1>2
<1>5. ASSUME NEW k \in 1 .. l - 1
      PROVE  c[k + 1] \in X /\ c[k + 1] \in b[c[k]].deps
  <2>1. k + 1 \in 1 .. l
    BY <1>2
  <2> QED
    BY <1>2, <1>3, <2>1
<1>6. ASSUME NEW j \in X PROVE b[j].deps \cap X # {}
  <2>1. PICK k \in 1 .. l : j = c[k]
    BY <1>3
  <2>2. CASE k = l
    BY <1>2, <1>4, <1>5, <2>1, <2>2
  <2>3. CASE k # l
    <3>1. k \in 1 .. l - 1
      BY <1>2, <2>3
    <3> QED
      BY <1>5, <2>1, <3>1
  <2> QED
    BY <2>2, <2>3
<1> QED
  BY <1>2, <1>3, <1>4, <1>6

\* An initiative in reach of what it waits on is on a cycle.
LEMMA InReach ==
  ASSUME NEW ids, NEW b, DOMAIN b = ids, \A j \in ids : b[j].deps \in SUBSET ids,
         NEW i \in ids, NEW n \in Nat, NEW on, Reaches(b, b[i].deps, n, on), i \in on[n]
  PROVE  ~Acyclic(b)
<1> DEFINE Away(S) == S \in SUBSET ids /\ i \notin S /\ \A j \in S : b[j].deps \subseteq S
           L == UNION {S \in SUBSET ids : Away(S)}
           X == ids \ L
<1>1. \A k : k \in L <=> \E S \in SUBSET ids : Away(S) /\ k \in S
  OBVIOUS
<1>2. Away(L)
  BY <1>1
<1>3. ~(b[i].deps \subseteq L)
  <2> SUFFICES ASSUME b[i].deps \subseteq L PROVE FALSE
    OBVIOUS
  <2> DEFINE K == {k \in Nat : k <= n => on[k] \subseteq L}
  <2> HIDE DEF L
  <2>1. 0 \in K
    BY DEF Reaches
  <2>2. ASSUME NEW k \in Nat, k \in K
        PROVE  k + 1 \in K
    <3> SUFFICES ASSUME k + 1 <= n PROVE on[k + 1] \subseteq L
      OBVIOUS
    <3>1. k + 1 \in 1 .. n /\ (k + 1) - 1 = k /\ on[k] \subseteq L
      BY <2>2
    <3>2. PICK S : S = on[k]
      OBVIOUS
    <3>3. on[k + 1] = More(b, S)
      BY <3>1, <3>2 DEF Reaches
    <3>4. \A x : x \in More(b, S) <=> x \in S \/ \E j \in S : x \in b[j].deps
      BY MoreIs
    <3> QED
      BY <1>2, <3>1, <3>2, <3>3, <3>4
  <2> HIDE DEF K
  <2>3. n \in K
    BY <2>1, <2>2, Induction
  <2>4. on[n] \subseteq L
    BY <2>3 DEF K
  <2> QED
    BY <1>2, <2>4
<1>4. ASSUME NEW x \in X, x # i PROVE b[x].deps \cap X # {}
  <2> SUFFICES ASSUME b[x].deps \cap X = {} PROVE FALSE
    OBVIOUS
  <2>1. x \in ids /\ x \notin L /\ b[x].deps \subseteq L
    OBVIOUS
  <2> HIDE DEF L
  <2>2. Away(L \cup {x})
    BY <1>2, <1>4, <2>1
  <2>3. L \cup {x} \in SUBSET ids
    BY <1>2, <2>1
  <2>4. x \in L
    BY <1>1, <2>2, <2>3
  <2> QED
    BY <2>1, <2>4
<1>5. i \in X /\ b[i].deps \cap X # {} /\ X \in SUBSET DOMAIN b
  <2> HIDE DEF L
  <2> QED
    BY <1>2, <1>3
<1> HIDE DEF X
<1> QED
  BY <1>4, <1>5 DEF Acyclic

\* What the gate says of an initiative and of what it is to wait on.
GateSays(b, i, c, reach) ==
    /\ c = <<>> <=> i \notin reach
    /\ \A k \in 1 .. Len(c) - 1 : c[k + 1] \in b[c[k]].deps
    /\ c # <<>> => c[1] = c[Len(c)] /\ i \in Range(c)

\* On a board without cycles the gate refuses what would make one, and only that.
LEMMA GateIsExact ==
  ASSUME NEW b, NEW old, Graph(b), Acyclic(old), DOMAIN b = DOMAIN old, NEW i \in DOMAIN b,
         \A j \in DOMAIN b : j # i => b[j].deps = old[j].deps,
         NEW n \in Nat, n = Cardinality(DOMAIN b),
         NEW on \in [0 .. n -> SUBSET DOMAIN b], Reaches(b, b[i].deps, n, on)
  PROVE  GateSays(b, i, FindCycle(b), on[n])
<1>1. PICK ids : ids = DOMAIN b
  OBVIOUS
<1>2. IsFiniteSet(ids) /\ \A j \in ids : b[j].deps \in SUBSET ids
  BY <1>1 DEF Graph
<1>3. PICK c : c = FindCycle(b)
  OBVIOUS
<1>4. \/ c = <<>> /\ Acyclic(b)
      \/ c # <<>> /\ Names(b, c)
  BY <1>3, FindCycleIs
<1>5. CASE i \in on[n]
  <2>1. ~Acyclic(b)
    BY <1>1, <1>2, <1>5, InReach
  <2>2. c # <<>> /\ Names(b, c)
    BY <1>4, <2>1
  <2>3. i \in Range(c)
    <3>1. PICK X : X = Range(c)
      OBVIOUS
    <3>2. X \in SUBSET DOMAIN b /\ X # {} /\ \A j \in X : b[j].deps \cap X # {}
      BY <2>2, <3>1, NamedIsThere
    <3>3. ASSUME i \notin X PROVE FALSE
      BY <3>2, <3>3 DEF Acyclic
    <3> QED
      BY <3>1, <3>3
  <2> QED
    BY <1>3, <1>5, <2>2, <2>3 DEF GateSays, Names
<1>6. CASE i \notin on[n]
  <2>1. PICK deps, reach : deps = b[i].deps /\ reach = on[n]
    OBVIOUS
  <2>2. deps \in SUBSET ids /\ n = Cardinality(ids) /\ on \in [0 .. n -> SUBSET ids]
        /\ Reaches(b, deps, n, on)
    BY <1>1, <1>2, <2>1
  <2>3. Closes(b, deps, on[n])
    BY <1>2, <2>2, ReachIsClosed
  <2>4. i \notin reach /\ b[i].deps \subseteq reach /\ \A j \in reach : b[j].deps \subseteq reach
    BY <1>6, <2>1, <2>3 DEF Closes
  <2>5. Acyclic(b)
    BY <2>4, OutOfReach
  <2>6. ASSUME Names(b, c) PROVE FALSE
    <3>1. PICK X : X = Range(c)
      OBVIOUS
    <3>2. X \in SUBSET DOMAIN b /\ X # {} /\ \A j \in X : b[j].deps \cap X # {}
      BY <2>6, <3>1, NamedIsThere
    <3> QED
      BY <2>5, <3>2 DEF Acyclic
  <2>7. c = <<>>
    BY <1>4, <2>6
  <2>8. \A k \in 1 .. Len(c) - 1 : FALSE
    BY <2>7, EmptySeq
  <2> QED
    BY <1>3, <1>6, <2>7, <2>8 DEF GateSays
<1> QED
  BY <1>5, <1>6

\* What can be reached, as the property writes it.
Reached(b, deps, n, on) == on = [k \in 0 .. n |-> IF k = 0 THEN deps ELSE More(b, on[k - 1])]

\* What CycleIsReal defines by recursion exists.
LEMMA ReachedExists ==
  ASSUME NEW ids, NEW b, \A j \in ids : b[j].deps \in SUBSET ids, NEW deps \in SUBSET ids, NEW n \in Nat
  PROVE  \E on : Reached(b, deps, n, on)
<1> DEFINE F == [S \in SUBSET ids |-> More(b, S)]
<1>1. \A S \in SUBSET ids : More(b, S) \in SUBSET ids
  BY MoreIs
<1>2. F \in [SUBSET ids -> SUBSET ids]
  BY <1>1
<1>3. PICK g : IsIterate(g, SUBSET ids, deps, F, n)
  <2> HIDE DEF F
  <2>1. deps \in SUBSET ids
    OBVIOUS
  <2> QED
    BY <1>2, <2>1, Iterates
<1>4. g \in [0 .. n -> SUBSET ids] /\ g[0] = deps /\ \A k \in 1 .. n : g[k] = F[g[k - 1]]
  BY <1>3 DEF IsIterate
<1>5. \A k \in 0 .. n : g[k] = IF k = 0 THEN deps ELSE More(b, g[k - 1])
  <2> SUFFICES ASSUME NEW k \in 0 .. n, k # 0
               PROVE  g[k] = More(b, g[k - 1])
    BY <1>4
  <2>1. k \in 1 .. n /\ k - 1 \in 0 .. n
    OBVIOUS
  <2> QED
    BY <1>4, <2>1
<1> QED
  BY <1>4, <1>5 DEF Reached

\* It reaches what the steps reach, and nothing that is not an id.
LEMMA ReachedReaches ==
  ASSUME NEW ids, NEW b, \A j \in ids : b[j].deps \in SUBSET ids, NEW deps \in SUBSET ids, NEW n \in Nat,
         NEW on, Reached(b, deps, n, on)
  PROVE  Reaches(b, deps, n, on) /\ on \in [0 .. n -> SUBSET ids]
<1>1. on = [k \in 0 .. n |-> IF k = 0 THEN deps ELSE More(b, on[k - 1])]
  BY DEF Reached
<1>2. on[0] = deps /\ \A k \in 1 .. n : on[k] = More(b, on[k - 1])
  <2>1. 0 \in 0 .. n /\ \A k \in 1 .. n : k \in 0 .. n /\ k # 0
    OBVIOUS
  <2> QED
    BY <1>1, <2>1
<1> DEFINE K == {k \in Nat : k <= n => on[k] \in SUBSET ids}
<1>3. 0 \in K
  BY <1>2
<1>4. ASSUME NEW k \in Nat, k \in K
      PROVE  k + 1 \in K
  <2> SUFFICES ASSUME k + 1 <= n PROVE on[k + 1] \in SUBSET ids
    OBVIOUS
  <2>1. k + 1 \in 1 .. n /\ (k + 1) - 1 = k /\ on[k] \in SUBSET ids
    BY <1>4
  <2> QED
    BY <1>2, <2>1, MoreIs
<1>5. Nat \subseteq K
  <2> HIDE DEF K
  <2> QED
    BY <1>3, <1>4, Induction
<1>6. \A k \in 0 .. n : on[k] \in SUBSET ids
  BY <1>5
<1>7. on = [k \in 0 .. n |-> on[k]]
  BY <1>1
<1> QED
  BY <1>2, <1>6, <1>7 DEF Reaches

\* Of every initiative and whatever it is to wait on, the gate says whether that
\* makes a cycle and names one that goes through it.
THEOREM CyclesAreReal == BoardSpec => []CycleIsReal
<1>1. ASSUME BoardTypes, Acyclic(board), NEW i \in Ids, NEW deps \in SUBSET Ids
      PROVE  LET b == [board EXCEPT ![i].deps = deps]
                 Reach[n \in 0 .. Cardinality(Ids)] ==
                   IF n = 0 THEN deps
                   ELSE Reach[n - 1] \cup UNION {b[j].deps : j \in Reach[n - 1]}
             IN GateSays(b, i, FindCycle(b), Reach[Cardinality(Ids)])
  <2>1. PICK b : b = [board EXCEPT ![i].deps = deps]
    OBVIOUS
  <2>2. /\ Graph(b) /\ DOMAIN b = Ids /\ b[i].deps = deps
        /\ \A j \in Ids : j # i => b[j].deps = board[j].deps
        /\ \A j \in Ids : b[j].deps \in SUBSET Ids
    <3>1. IsReplaced(b, board, i, deps)
      BY <1>1, <2>1, Replaced, Zenon
    <3> QED
      BY <3>1 DEF IsReplaced, Graph, Ids
  <2>3. PICK n \in Nat : n = Cardinality(Ids)
    BY <1>1, FS_CardinalityType DEF BoardTypes
  <2>4. PICK ids : ids = Ids
    OBVIOUS
  <2>5. \A j \in ids : b[j].deps \in SUBSET ids
    BY <2>2, <2>4
  <2> DEFINE c == [board EXCEPT ![i].deps = deps]
             Eq(d, m, on) == on = [k \in 0 .. m |->
                                    IF k = 0 THEN deps
                                    ELSE on[k - 1] \cup UNION {d[j].deps : j \in on[k - 1]}]
             reach == CHOOSE on : Eq(c, Cardinality(Ids), on)
  <2>6. \E on : Eq(b, n, on)
    <3>1. PICK on : Reached(b, deps, n, on)
      BY <1>1, <2>4, <2>5, ReachedExists
    <3>2. Eq(b, n, on)
      BY <3>1, Zenon DEF Reached, More, WaitedOn
    <3> QED
      BY <3>2, Zenon
  <2>7. b = c
    BY <2>1
  <2>8. PICK on : on = reach
    OBVIOUS
  <2>a. Eq(c, Cardinality(Ids), on) /\ Eq(b, n, on)
    <3> HIDE DEF c, Eq
    <3>1. Eq(c, Cardinality(Ids), reach)
      BY <2>3, <2>6, <2>7, Zenon
    <3> QED
      BY <2>3, <2>7, <2>8, <3>1, Zenon
  <2>9. Reached(b, deps, n, on)
    <3> HIDE DEF c, reach
    <3> QED
      BY <2>a, Zenon DEF Reached, More, WaitedOn
  <2>10. Reaches(b, deps, n, on) /\ on \in [0 .. n -> SUBSET ids]
    BY <1>1, <2>4, <2>5, <2>9, ReachedReaches
  <2>11. PICK old : old = board
    OBVIOUS
  <2>12. /\ Acyclic(old) /\ DOMAIN b = DOMAIN old /\ n = Cardinality(DOMAIN b)
         /\ on \in [0 .. n -> SUBSET DOMAIN b] /\ Reaches(b, b[i].deps, n, on)
         /\ \A j \in DOMAIN b : j # i => b[j].deps = old[j].deps
    BY <1>1, <2>2, <2>3, <2>4, <2>10, <2>11 DEF Ids
  <2>13. GateSays(b, i, FindCycle(b), on[n])
    BY <1>1, <2>2, <2>12, GateIsExact
  <2>14. GateSays(c, i, FindCycle(c), reach[Cardinality(Ids)])
    <3> HIDE DEF c, reach
    <3> QED
      BY <2>3, <2>7, <2>8, <2>13, Zenon
  <2> QED
    BY <2>14
<1>2. BoardTypes /\ Acyclic(board) => CycleIsReal
  BY <1>1 DEF CycleIsReal, GateSays
<1> QED
  BY <1>2, BoardTypesHold, BoardsStayAcyclic, PTL

-----------------------------------------------------------------------------
(* What holds of every board people can make. *)

\* PlanFits, of every reachable board: the forward pass fills no slot twice,
\* starts nothing before what it waits on has ended, and leaves no earlier room
\* unused, whatever is edited and whatever is moved.
THEOREM PlacementsFit ==
  BoardSpec => []PlanFits
<1>1. BoardTypes /\ Acyclic(board) => PlanFits
  BY BoardPlansFit, CalendarIsWorked
<1> QED
  BY <1>1, BoardTypesHold, BoardsStayAcyclic, PTL

\* SlackIsAboutDeadlines, of every reachable board: the backward pass says that
\* there is no time left exactly of what a deadline downstream is missed for.
THEOREM SlackTellsOfDeadlines ==
  BoardSpec => []SlackIsAboutDeadlines
<1>1. BoardTypes /\ Acyclic(board) => SlackIsAboutDeadlines
  BY SlackShows, CalendarIsWorked DEF SlackIsAboutDeadlines
<1> QED
  BY <1>1, BoardTypesHold, BoardsStayAcyclic, PTL

\* MoveIsHonouredOrExplained, of every reachable board: replan honours what it
\* can, names what it cannot, and disturbs nothing it need not.
THEOREM MovesAreExplained ==
  BoardSpec => []MoveIsHonouredOrExplained
<1>1. BoardTypes /\ Acyclic(board) => MoveIsHonouredOrExplained
  BY MoveIsExplained, CalendarIsWorked DEF MoveIsHonouredOrExplained
<1> QED
  BY <1>1, BoardTypesHold, BoardsStayAcyclic, PTL

-----------------------------------------------------------------------------
(* The ranking. *)

Ratios == Int \X (Nat \ {0})

\* Not being less is transitive, of ratios.
LEMMA NotLessIsTransitive ==
  ASSUME NEW p \in Ratios, NEW q \in Ratios, NEW r \in Ratios, ~Less(p, q), ~Less(q, r)
  PROVE  ~Less(p, r)
<1>1. PICK a \in Int, x \in Nat \ {0} : p = <<a, x>>
  BY DEF Ratios
<1>2. PICK b \in Int, y \in Nat \ {0} : q = <<b, y>>
  BY DEF Ratios
<1>3. PICK c \in Int, z \in Nat \ {0} : r = <<c, z>>
  BY DEF Ratios
<1>4. b * x <= a * y /\ c * y <= b * z
  BY <1>1, <1>2, <1>3 DEF Less
<1>5. (b * x) * z <= (a * y) * z /\ (c * y) * x <= (b * z) * x
  <2>1. \A u, v \in Int, w \in Nat \ {0} : u <= v => u * w <= v * w
    OBVIOUS
  <2>2. b * x \in Int /\ a * y \in Int /\ c * y \in Int /\ b * z \in Int
    OBVIOUS
  <2> QED
    BY <1>4, <2>1, <2>2
<1>6. (b * x) * z = (b * z) * x /\ (c * y) * x = (c * x) * y /\ (a * y) * z = (a * z) * y
  OBVIOUS
<1>7. (c * x) * y <= (a * z) * y
  <2>1. \A u, v, w \in Int : u <= v /\ v <= w => u <= w
    OBVIOUS
  <2>2. (c * x) * y \in Int /\ (b * z) * x \in Int /\ (a * z) * y \in Int
    OBVIOUS
  <2> QED
    BY <1>5, <1>6, <2>1, <2>2
<1>8. c * x <= a * z
  <2>1. \A u, v \in Int, w \in Nat \ {0} : u * w <= v * w => u <= v
    OBVIOUS
  <2>2. c * x \in Int /\ a * z \in Int
    OBVIOUS
  <2> QED
    BY <1>7, <2>1, <2>2
<1>9. ~(a * z < c * x)
  <2>1. c * x \in Int /\ a * z \in Int
    OBVIOUS
  <2> QED
    BY <1>8, <2>1
<1> QED
  BY <1>1, <1>3, <1>9 DEF Less

\* Of two ratios, one at most is less.
LEMMA OneIsLess ==
  ASSUME NEW p \in Ratios, NEW q \in Ratios
  PROVE  ~Less(p, q) \/ ~Less(q, p)
<1>1. PICK a \in Int, x \in Nat \ {0} : p = <<a, x>>
  BY DEF Ratios
<1>2. PICK b \in Int, y \in Nat \ {0} : q = <<b, y>>
  BY DEF Ratios
<1>3. a * y \in Int /\ b * x \in Int
  OBVIOUS
<1> QED
  BY <1>1, <1>2, <1>3 DEF Less

\* A preference any two have, then two numbers and the id.
BreaksTies(S, W, c, z, R) ==
    /\ \A i, j \in S : <<i, j>> \in W \/ <<j, i>> \in W
    /\ \A i, j, k \in S : <<i, j>> \in W /\ <<j, k>> \in W => <<i, k>> \in W
    /\ \A i, j \in S : <<i, j>> \in R <=>
            \/ <<j, i>> \notin W
            \/ /\ <<i, j>> \in W
               /\ \/ c[i] > c[j]
                  \/ c[i] = c[j] /\ z[i] < z[j]
                  \/ c[i] = c[j] /\ z[i] = z[j] /\ i < j

\* It orders strictly.
LEMMA TieBreak ==
  ASSUME NEW S \in SUBSET Int, NEW W, NEW c \in [S -> Int], NEW z \in [S -> Int], NEW R,
         BreaksTies(S, W, c, z, R)
  PROVE  Orders(R, S) /\ \A i \in S : <<i, i>> \notin R
<1> USE DEF BreaksTies
<1> DEFINE Lex(i, j) == \/ c[i] > c[j]
                        \/ c[i] = c[j] /\ z[i] < z[j]
                        \/ c[i] = c[j] /\ z[i] = z[j] /\ i < j
<1>1. \A i \in S : i \in Int /\ c[i] \in Int /\ z[i] \in Int
  OBVIOUS
<1>2. \A i, j \in S : <<i, j>> \in R <=> (<<j, i>> \notin W \/ (<<i, j>> \in W /\ Lex(i, j)))
  OBVIOUS
<1>3. \A i, j \in S : i = j \/ Lex(i, j) \/ Lex(j, i)
  BY <1>1
<1>4. \A i, j, k \in S : Lex(i, j) /\ Lex(j, k) => Lex(i, k)
  BY <1>1
<1>5. \A i \in S : ~Lex(i, i)
  BY <1>1
<1> HIDE DEF Lex
<1>6. \A i, j, k \in S : <<i, j>> \in R /\ <<j, k>> \in R => <<i, k>> \in R
  <2> SUFFICES ASSUME NEW i \in S, NEW j \in S, NEW k \in S, <<i, j>> \in R, <<j, k>> \in R
               PROVE  <<i, k>> \in R
    OBVIOUS
  <2>1. <<i, j>> \in W /\ <<j, k>> \in W
    BY <1>2
  <2>2. <<i, k>> \in W
    BY <2>1
  <2>3. CASE <<j, i>> \notin W \/ <<k, j>> \notin W
    <3>1. <<k, i>> \notin W
      BY <2>1, <2>3
    <3> QED
      BY <1>2, <3>1
  <2>4. CASE <<j, i>> \in W /\ <<k, j>> \in W
    <3>1. Lex(i, j) /\ Lex(j, k)
      BY <1>2, <2>4
    <3> QED
      BY <1>2, <1>4, <2>2, <3>1
  <2> QED
    BY <2>3, <2>4
<1> QED
  BY <1>2, <1>3, <1>5, <1>6 DEF Orders

\* A ranking names each of some initiatives once.
Ranks(ranked, S) ==
    /\ IsFiniteSet(S)
    /\ ranked \in [1 .. Cardinality(S) -> S]
    /\ \A k, l \in 1 .. Cardinality(S) : ranked[k] = ranked[l] => k = l
    /\ \A i \in S : \E k \in 1 .. Cardinality(S) : ranked[k] = i

\* Ratios, and numbers beside them, put initiatives in an order.
LEMMA SortedRanks ==
  ASSUME NEW S \in SUBSET Int, IsFiniteSet(S), NEW score \in [S -> Ratios],
         NEW cod \in [S -> Int], NEW size \in [S -> Int]
  PROVE  Ranks(Sorted(S, score, cod, size), S)
<1> DEFINE R == {p \in S \X S : Above(score, cod, size, p[1], p[2])}
           W == {p \in S \X S : ~Less(score[p[1]], score[p[2]])}
           n == Cardinality(S)
           Good(s) == \A k, l \in DOMAIN s : k < l => Above(score, cod, size, s[k], s[l])
<1>1. ASSUME NEW i \in S, NEW j \in S
      PROVE  /\ <<i, j>> \in R <=> Above(score, cod, size, i, j)
             /\ <<i, j>> \in W <=> ~Less(score[i], score[j])
  <2>1. <<i, j>> \in S \X S /\ <<i, j>>[1] = i /\ <<i, j>>[2] = j
    OBVIOUS
  <2> QED
    BY <2>1
<1> HIDE DEF R, W
<1>2. \A i, j \in S : <<i, j>> \in W \/ <<j, i>> \in W
  BY <1>1, OneIsLess
<1>3. \A i, j, k \in S : <<i, j>> \in W /\ <<j, k>> \in W => <<i, k>> \in W
  <2> SUFFICES ASSUME NEW i \in S, NEW j \in S, NEW k \in S, <<i, j>> \in W, <<j, k>> \in W
               PROVE  <<i, k>> \in W
    OBVIOUS
  <2>1. score[i] \in Ratios /\ score[j] \in Ratios /\ score[k] \in Ratios
    OBVIOUS
  <2>2. ~Less(score[i], score[j]) /\ ~Less(score[j], score[k])
    BY <1>1
  <2>3. ~Less(score[i], score[k])
    BY <2>1, <2>2, NotLessIsTransitive
  <2> QED
    BY <1>1, <2>3
<1>4. \A i, j \in S : <<i, j>> \in R <=>
         \/ <<j, i>> \notin W
         \/ /\ <<i, j>> \in W
            /\ \/ cod[i] > cod[j]
               \/ cod[i] = cod[j] /\ size[i] < size[j]
               \/ cod[i] = cod[j] /\ size[i] = size[j] /\ i < j
  BY <1>1 DEF Above
<1>5. Orders(R, S) /\ \A i \in S : <<i, i>> \notin R
  <2>1. BreaksTies(S, W, cod, size, R)
    BY <1>2, <1>3, <1>4 DEF BreaksTies
  <2> QED
    BY <2>1, TieBreak
<1>6. PICK t \in [1 .. n -> S] :
         /\ \A k, l \in 1 .. n : k < l => <<t[k], t[l]>> \in R
         /\ \A i \in S : \E k \in 1 .. n : t[k] = i
  BY <1>5, SortedExists
<1>7. n \in Nat
  BY FS_CardinalityType
<1> HIDE DEF n
<1>8. ASSUME NEW s \in [1 .. n -> S], \A k, l \in 1 .. n : k < l => <<s[k], s[l]>> \in R
      PROVE  \A k, l \in 1 .. n : s[k] = s[l] => k = l
  <2> SUFFICES ASSUME NEW k \in 1 .. n, NEW l \in 1 .. n, s[k] = s[l], k # l PROVE FALSE
    OBVIOUS
  <2>1. k < l \/ l < k
    BY <1>7
  <2>2. <<s[k], s[l]>> \in R \/ <<s[l], s[k]>> \in R
    BY <1>8, <2>1
  <2> QED
    BY <1>5, <2>2
<1>9. ASSUME NEW s \in [1 .. n -> S]
      PROVE  Good(s) <=> \A k, l \in 1 .. n : k < l => <<s[k], s[l]>> \in R
  BY <1>1
<1> HIDE DEF Good
<1>a. t \in SetToSeqs(S) /\ Good(t)
  BY <1>6, <1>8, <1>9 DEF SetToSeqs, n
<1>b. PICK s : s = Sorted(S, score, cod, size)
  OBVIOUS
<1>c. s \in SetToSeqs(S) /\ Good(s)
  <2>1. s = CHOOSE v \in SetToSeqs(S) : Good(v)
    BY <1>b DEF Sorted, Good
  <2> QED
    BY <1>a, <2>1
<1>d. s \in [1 .. n -> S] /\ \A k, l \in 1 .. n : s[k] = s[l] => k = l
  BY <1>c DEF SetToSeqs, n
<1>e. \A i \in S : \E k \in 1 .. n : s[k] = i
  <2>1. PICK T : T = 1 .. n
    OBVIOUS
  <2>2. IsFiniteSet(T) /\ Cardinality(T) = n
    <3>1. PICK z : z = 1
      OBVIOUS
    <3>2. IsFiniteSet(z .. n) /\ Cardinality(z .. n) = IF z > n THEN 0 ELSE n - z + 1
      BY <1>7, <3>1, FS_Interval
    <3> QED
      BY <1>7, <2>1, <3>1, <3>2
  <2>3. s \in Injection(T, S)
    BY <1>d, <2>1 DEF Injection, IsInjective
  <2>4. s \in Surjection(T, S)
    BY <2>2, <2>3, FS_Injection DEF n
  <2> QED
    BY <2>1, <2>4 DEF Surjection
<1> QED
  BY <1>b, <1>d, <1>e DEF Ranks, n

\* The completions recorded are finitely many, of lengths people give.
DoneTypes == IsFiniteSet(done) /\ \A c \in done : c.minutes \in Minutes

\* DoneTypes, of every reachable board.
LEMMA DoneTypesHold == BoardSpec => []DoneTypes
<1>1. BoardInit => DoneTypes
  BY FS_EmptySet DEF BoardInit, DoneTypes
<1>2. DoneTypes /\ [BoardNext]_boardVars => DoneTypes'
  <2> SUFFICES ASSUME DoneTypes, [BoardNext]_boardVars PROVE DoneTypes'
    OBVIOUS
  <2>1. ASSUME NEW a \in DOMAIN Areas, NEW m \in Minutes, Complete(a, m)
        PROVE  DoneTypes'
    <3>1. PICK c : c = [id |-> Cardinality(done), area |-> a, day |-> today, minutes |-> m]
      OBVIOUS
    <3>2. done' = done \cup {c} /\ c.minutes = m
      BY <2>1, <3>1 DEF Complete
    <3>3. IsFiniteSet(done \cup {c})
      BY FS_AddElement DEF DoneTypes
    <3> QED
      BY <3>2, <3>3 DEF DoneTypes
  <2>2. CASE UNCHANGED done
    BY <2>2 DEF DoneTypes
  <2> QED
    BY <2>1, <2>2 DEF BoardNext, boardVars, Edit, Transition, Update, Estimate, ReplaceDependencies,
                      SetProjectStatus, NextDay
<1> QED
  BY <1>1, <1>2, PTL DEF BoardSpec

\* What completions add up to is a number.
LEMMA MinutesAreInt ==
  ASSUME DoneTypes, NEW today_, NEW areas
  PROVE  MinutesOf(done, today_, areas) \in Int
<1> DEFINE C == {c \in CountCompletions(done, today_) : c.area \in areas}
           Eq(iter) == iter = [t \in SUBSET C |->
               IF t = {} THEN 0
               ELSE iter[t \ {CHOOSE x \in t : TRUE}] + Attributed(CHOOSE x \in t : TRUE)]
           pick == [t \in SUBSET C |-> CHOOSE x \in t : TRUE]
           f == [q \in Int \X C |-> q[1] + Attributed(q[2])]
<1>1. C \in SUBSET done /\ IsFiniteSet(C)
  <2>1. C \in SUBSET done
    BY DEF CountCompletions
  <2> HIDE DEF C
  <2> QED
    BY <2>1, FS_Subset DEF DoneTypes
<1> HIDE DEF C
<1>2. ASSUME NEW c \in C PROVE Attributed(c) \in Int
  <2>1. c.minutes = NoDate \/ c.minutes \in Int
    BY <1>1, BoardAssumption DEF DoneTypes
  <2> QED
    BY <2>1, ScoringAssumption DEF Attributed
<1>3. \A t \in SUBSET C : t # {} => pick[t] \in t
  OBVIOUS
<1>4. f \in [Int \X C -> Int]
  <2>1. f = [q \in Int \X C |-> f[q]]
    OBVIOUS
  <2>2. ASSUME NEW q \in Int \X C PROVE f[q] \in Int
    BY <1>2
  <2> HIDE DEF f
  <2> QED
    BY <2>1, <2>2
<1>5. ASSUME NEW n \in Int, NEW c \in C PROVE f[<<n, c>>] = n + Attributed(c)
  OBVIOUS
<1>6. \E g : Eq(g)
  <2>1. PICK zero \in Int : zero = 0
    OBVIOUS
  <2>2. PICK g \in [SUBSET C -> Int] : IsFold(g, C, zero, f, pick)
    <3> HIDE DEF f, pick
    <3> QED
      BY <1>1, <1>3, <1>4, FoldExists
  <2>3. ASSUME NEW t \in SUBSET C
        PROVE  g[t] = IF t = {} THEN 0
                      ELSE g[t \ {CHOOSE x \in t : TRUE}] + Attributed(CHOOSE x \in t : TRUE)
    <3>1. CASE t = {}
      BY <2>1, <2>2, <3>1 DEF IsFold
    <3>2. CASE t # {}
      <4>1. pick[t] = (CHOOSE x \in t : TRUE) /\ pick[t] \in C /\ g[t \ {pick[t]}] \in Int
        BY <1>3, <3>2
      <4>2. f[<<g[t \ {pick[t]}], pick[t]>>] = g[t \ {pick[t]}] + Attributed(pick[t])
        <5> HIDE DEF f, pick
        <5> QED
          BY <1>5, <4>1
      <4>3. g[t] = f[<<g[t \ {pick[t]}], pick[t]>>]
        BY <2>2, <3>2 DEF IsFold
      <4> HIDE DEF f, pick
      <4> QED
        BY <3>2, <4>1, <4>2, <4>3
    <3> QED
      BY <3>1, <3>2
  <2> QED
    BY <2>3
<1>7. PICK iter : iter = CHOOSE g : Eq(g)
  OBVIOUS
<1>8. Eq(iter)
  <2> HIDE DEF Eq
  <2> QED
    BY <1>6, <1>7, Zenon
<1>9. MinutesOf(done, today_, areas) = iter[C]
  BY <1>7, Zenon DEF MinutesOf, FoldSet, MapThenFoldSet, C
<1>a. iter[{}] = 0 /\ \A t \in SUBSET C : t # {} => iter[t] = iter[t \ {pick[t]}] + Attributed(pick[t])
  BY <1>8
<1>b. \A t \in SUBSET C : iter[t] \in Int
  <2>1. \A t \in SUBSET C : t # {} => pick[t] \in t /\ (iter[t \ {pick[t]}] \in Int => iter[t] \in Int)
    <3> SUFFICES ASSUME NEW t \in SUBSET C, t # {}, iter[t \ {pick[t]}] \in Int PROVE iter[t] \in Int
      BY <1>3
    <3>1. Attributed(pick[t]) \in Int
      BY <1>2, <1>3
    <3>2. iter[t] = iter[t \ {pick[t]}] + Attributed(pick[t])
      BY <1>a
    <3> HIDE DEF pick, Eq
    <3> QED
      BY <3>1, <3>2
  <2> HIDE DEF pick, Eq
  <2>2. iter[{}] \in Int
    BY <1>a
  <2> QED
    BY <1>1, <2>1, <2>2, FoldKeeps
<1> QED
  BY <1>9, <1>b

\* A balance factor is a ratio.
LEMMA FactorIsRatio ==
  ASSUME DoneTypes, NEW today_, NEW a
  PROVE  BalanceFactor(done, today_, a) \in Ratios
<1>1. PICK weights : weights = ResolveWeights(YearOf(today_))
  OBVIOUS
<1>2. PICK own \in Int : own = MinutesOf(done, today_, {a})
  BY MinutesAreInt
<1>3. PICK total \in Int : total = MinutesOf(done, today_, DOMAIN Areas)
  BY MinutesAreInt
<1>4. ClampMin \in Ratios /\ ClampMax \in Ratios /\ <<1, 1>> \in Ratios
  BY ScoringAssumption DEF Ratios
<1>5. a \in DOMAIN weights => weights[a] \in Nat
  <2> SUFFICES ASSUME a \in DOMAIN weights PROVE weights[a] \in Nat
    OBVIOUS
  <2> DEFINE decided == {y \in DOMAIN Weights : y <= YearOf(today_)}
  <2>1. CASE decided = {}
    <3>1. weights = <<>>
      BY <1>1, <2>1 DEF ResolveWeights
    <3> QED
      BY <3>1
  <2>2. CASE decided # {}
    <3>1. weights = Weights[Max(decided)]
      BY <1>1, <2>2 DEF ResolveWeights
    <3>2. decided \in SUBSET DOMAIN Weights
      OBVIOUS
    <3> HIDE DEF decided
    <3>3. Max(decided) \in DOMAIN Weights
      <4>1. decided \in SUBSET Int /\ IsFiniteSet(decided)
        BY <3>2, WeightsAssumption, FS_Subset
      <4>2. Max(decided) \in decided
        BY <2>2, <4>1, MaxOfFinite
      <4> QED
        BY <3>2, <4>2
    <3>4. PICK y \in DOMAIN Weights : y = Max(decided)
      BY <3>3
    <3>5. Weights[y] \in [DOMAIN Weights[y] -> Nat]
      BY WeightsAssumption
    <3> QED
      BY <3>1, <3>4, <3>5
  <2> QED
    BY <2>1, <2>2
<1>6. CASE ~IsRankable(a) \/ a \notin DOMAIN weights
  BY <1>1, <1>4, <1>6 DEF BalanceFactor
<1>7. CASE ~(~IsRankable(a) \/ a \notin DOMAIN weights) /\ own > 0
  <2>1. PICK q : q = <<weights[a] * total, 100 * own>>
    OBVIOUS
  <2>2. weights[a] * total \in Int /\ 100 * own \in Nat \ {0}
    BY <1>5, <1>7
  <2>3. q \in Ratios
    BY <2>1, <2>2 DEF Ratios
  <2>4. BalanceFactor(done, today_, a) = Clamp(q)
    BY <1>1, <1>2, <1>3, <1>7, <2>1 DEF BalanceFactor
  <2> QED
    BY <1>4, <2>3, <2>4 DEF Clamp
<1>8. CASE ~(~IsRankable(a) \/ a \notin DOMAIN weights) /\ ~(own > 0)
  <2>1. BalanceFactor(done, today_, a) = IF weights[a] > 0 THEN ClampMax ELSE ClampMin
    BY <1>1, <1>2, <1>3, <1>8 DEF BalanceFactor
  <2> QED
    BY <1>4, <2>1
<1> QED
  BY <1>6, <1>7, <1>8

\* A cost of delay is a number.
LEMMA CostIsInt ==
  ASSUME NEW ids, NEW r \in BoardRows(ids), NEW today_ \in Int
  PROVE  CostOfDelay(r, today_) \in Int
<1>1. r.value \in Int /\ r.timeCriticality \in Int /\ r.risk \in Int
  BY DEF BoardRows
<1>2. EffectiveTimeCriticality(r, today_) \in Int
  <2>1. PICK t, v \in Int : t = r.timeCriticality /\ v = OverrideValue
    BY <1>1, ScoringAssumption
  <2>2. PICK two : two = {t, v}
    OBVIOUS
  <2>3. t \in Int /\ two \in SUBSET Int /\ two # {} /\ IsFiniteSet(two)
    <3>1. t \in Int
      BY <1>1, <2>1
    <3>2. IsFiniteSet({t}) /\ IsFiniteSet({t} \cup {v})
      BY FS_Singleton, FS_AddElement
    <3>3. {t} \cup {v} = two
      BY <2>2
    <3> QED
      BY <2>2, <3>1, <3>2, <3>3
  <2>4. Max(two) \in Int
    BY <2>3, MaxOfFinite
  <2> QED
    BY <2>1, <2>2, <2>3, <2>4 DEF EffectiveTimeCriticality
<1>3. PICK e \in Int : e = EffectiveTimeCriticality(r, today_)
  BY <1>2
<1> QED
  BY <1>1, <1>3 DEF CostOfDelay

\* Boards of the same ids whose rows differ at most in status.
SameButStatus(b, c) ==
    /\ DOMAIN c = DOMAIN b
    /\ \A i \in DOMAIN b : /\ c[i].area = b[i].area /\ c[i].value = b[i].value
                           /\ c[i].timeCriticality = b[i].timeCriticality /\ c[i].risk = b[i].risk
                           /\ c[i].size = b[i].size /\ c[i].deadline = b[i].deadline

\* What the ranking reads of a board.
CostsOf(b) == [i \in Scored(b) |-> CostOfDelay(b[i], today)]
SizesOf(b) == [i \in Scored(b) |-> b[i].size]
FactorOf(a) == BalanceFactor(done, today, a)
ScoresOf(b) == [i \in Scored(b) |-> <<CostsOf(b)[i] * FactorOf(b[i].area)[1],
                                       SizesOf(b)[i] * FactorOf(b[i].area)[2]>>]

\* ComputeScores sorts by that.
LEMMA ScoresAreSorted ==
  ASSUME NEW b, \A i \in DOMAIN b : b[i].area \in DOMAIN Areas
  PROVE  ComputeScores(b, done, today) = Sorted(Scored(b), ScoresOf(b), CostsOf(b), SizesOf(b))
<1> DEFINE factor == [a \in DOMAIN Areas |-> BalanceFactor(done, today, a)]
           score == [i \in Scored(b) |-> <<CostsOf(b)[i] * factor[b[i].area][1],
                                            SizesOf(b)[i] * factor[b[i].area][2]>>]
<1>1. ComputeScores(b, done, today) = Sorted(Scored(b), score, CostsOf(b), SizesOf(b))
  BY DEF ComputeScores, CostsOf, SizesOf
<1>2. score = ScoresOf(b)
  <2>1. \A i \in Scored(b) : factor[b[i].area] = FactorOf(b[i].area)
    BY DEF FactorOf, Scored, Open
  <2> HIDE DEF factor
  <2> QED
    BY <2>1 DEF ScoresOf
<1> QED
  BY <1>1, <1>2

\* The ranking of a board names each initiative that is scored once.
LEMMA ScoresRank ==
  ASSUME BoardTypes, DoneTypes
  PROVE  Ranks(ComputeScores(board, done, today), Scored(board))
<1>1. PICK S : S = Scored(board)
  OBVIOUS
<1>2. S \in SUBSET Int /\ IsFiniteSet(S) /\ S \subseteq Ids
  <2>1. S \in SUBSET Ids
    BY <1>1 DEF Scored, Open, Ids
  <2> QED
    BY <2>1, FS_Subset DEF BoardTypes
<1>3. ASSUME NEW i \in S
      PROVE  CostsOf(board)[i] \in Int /\ SizesOf(board)[i] \in Nat \ {0}
  <2>1. PICK r \in BoardRows(Ids) : r = board[i]
    BY <1>2 DEF BoardTypes
  <2>2. CostOfDelay(r, today) \in Int
    BY CostIsInt DEF BoardTypes
  <2>3. r.size \in Nat \ {0}
    BY ScoringAssumption DEF BoardRows
  <2> QED
    BY <1>1, <2>1, <2>2, <2>3 DEF CostsOf, SizesOf
<1>4. CostsOf(board) \in [S -> Int] /\ SizesOf(board) \in [S -> Int]
  <2>1. CostsOf(board) = [i \in S |-> CostsOf(board)[i]] /\ SizesOf(board) = [i \in S |-> SizesOf(board)[i]]
    BY <1>1 DEF CostsOf, SizesOf
  <2> QED
    BY <1>3, <2>1
<1>5. ScoresOf(board) \in [S -> Ratios]
  <2>1. ASSUME NEW i \in S
        PROVE  <<CostsOf(board)[i] * FactorOf(board[i].area)[1],
                 SizesOf(board)[i] * FactorOf(board[i].area)[2]>> \in Ratios
    <3>1. PICK q \in Ratios : q = FactorOf(board[i].area)
      BY FactorIsRatio DEF FactorOf
    <3>2. q[1] \in Int /\ q[2] \in Nat \ {0}
      BY DEF Ratios
    <3>3. PICK c \in Int, z \in Nat \ {0} : c = CostsOf(board)[i] /\ z = SizesOf(board)[i]
      BY <1>3
    <3>4. c * q[1] \in Int /\ z * q[2] \in Nat \ {0}
      BY <3>2
    <3> QED
      BY <3>1, <3>3, <3>4 DEF Ratios
  <2> QED
    BY <1>1, <2>1 DEF ScoresOf
<1>6. \A i \in DOMAIN board : board[i].area \in DOMAIN Areas
  <2> SUFFICES ASSUME NEW i \in DOMAIN board PROVE board[i].area \in DOMAIN Areas
    OBVIOUS
  <2>1. PICK r \in BoardRows(Ids) : r = board[i]
    BY DEF BoardTypes, Ids
  <2> QED
    BY <2>1 DEF BoardRows
<1>7. Ranks(Sorted(S, ScoresOf(board), CostsOf(board), SizesOf(board)), S)
  BY <1>2, <1>4, <1>5, SortedRanks
<1> QED
  BY <1>1, <1>6, <1>7, ScoresAreSorted

\* Statuses do not move the ranking of what stays open.
LEMMA SameRanking ==
  ASSUME NEW b, NEW c, SameButStatus(b, c), Open(c) = Open(b),
         \A i \in DOMAIN b : b[i].area \in DOMAIN Areas
  PROVE  Scored(c) = Scored(b) /\ ComputeScores(c, done, today) = ComputeScores(b, done, today)
<1> USE DEF SameButStatus
<1>1. Open(b) \subseteq DOMAIN b
  BY DEF Open
<1>2. Scored(c) = Scored(b)
  BY <1>1 DEF Scored
<1>3. \A i \in Scored(b) : i \in DOMAIN b
  BY <1>1 DEF Scored
<1>4. \A i \in Scored(b) : CostOfDelay(c[i], today) = CostOfDelay(b[i], today)
  BY <1>3 DEF CostOfDelay, EffectiveTimeCriticality
<1>5. CostsOf(c) = CostsOf(b) /\ SizesOf(c) = SizesOf(b)
  BY <1>2, <1>3, <1>4 DEF CostsOf, SizesOf
<1>6. ScoresOf(c) = ScoresOf(b)
  BY <1>2, <1>3, <1>5 DEF ScoresOf
<1>7. \A i \in DOMAIN c : c[i].area \in DOMAIN Areas
  OBVIOUS
<1> QED
  BY <1>2, <1>5, <1>6, <1>7, ScoresAreSorted

-----------------------------------------------------------------------------
(* Selection. *)

Verdicts == {"in_flight", "selected", "not_a_candidate", "not_started", "project_inactive",
            "blocked", "unestimated", "too_large", "wip_full", "area_at_cap"}

\* The states of a selection that goes down a ranking of X.
Sofar(X) == [now : SUBSET X, reason : UNION {[Y -> Verdicts] : Y \in SUBSET X}]

\* What is said of an initiative when it is reached.
Verdict(b, now, i) == IF b[i].status = "now" THEN "in_flight" ELSE Reason(b, today, active, now, i)

\* One more is a state too.
LEMMA TakeIsSofar ==
  ASSUME NEW b, NEW X, NEW s \in Sofar(X), NEW i \in X
  PROVE  Take(b, today, active, s, i) \in Sofar(X)
<1>1. PICK why : why = Verdict(b, s.now, i)
  OBVIOUS
<1>2. why \in Verdicts
  BY <1>1 DEF Verdict, Reason, NotUnderWay, Verdicts
<1>3. Take(b, today, active, s, i) =
         [now |-> IF why = "selected" THEN s.now \cup {i} ELSE s.now, reason |-> With(s.reason, i, why)]
  BY <1>1 DEF Take, Verdict
<1>4. PICK now, reason : now = s.now /\ reason = s.reason
  OBVIOUS
<1>5. now \in SUBSET X /\ reason \in UNION {[Y -> Verdicts] : Y \in SUBSET X}
  BY <1>4 DEF Sofar
<1>6. With(reason, i, why) \in UNION {[Y -> Verdicts] : Y \in SUBSET X}
  <2>1. PICK Y \in SUBSET X : reason \in [Y -> Verdicts]
    BY <1>5
  <2>2. PICK Z \in SUBSET X : Z = Y \cup {i}
    OBVIOUS
  <2>3. With(reason, i, why) \in [Z -> Verdicts]
    BY <1>2, <2>1, <2>2 DEF With
  <2> QED
    BY <2>3
<1>7. PICK said : said = With(reason, i, why)
  OBVIOUS
<1>8. (IF why = "selected" THEN now \cup {i} ELSE now) \in SUBSET X
  BY <1>5
<1> QED
  BY <1>1, <1>2, <1>3, <1>4, <1>6, <1>7, <1>8 DEF Sofar

\* A selection, step by step down the ranking.
Selects(h, b, ranked, n) ==
    /\ h[0] = [now |-> InFlight(b, ranked), reason |-> <<>>]
    /\ \A k \in 1 .. n : h[k] = Take(b, today, active, h[k - 1], ranked[k])

\* The selection is where its steps end.
LEMMA SelectionIsWalked ==
  ASSUME NEW b, NEW X, NEW n \in Nat, NEW ranked \in [1 .. n -> X]
  PROVE  \E h : /\ Selects(h, b, ranked, n)
                /\ SelectNowSet(b, ranked, today, active) = h[n]
                /\ \A k \in 0 .. n : h[k] \in Sofar(X)
<1> DEFINE D == DOMAIN ranked
           base == [now |-> InFlight(b, ranked), reason |-> <<>>]
           V == Sofar(X)
           Eq(iter) == iter = [t \in SUBSET D |->
               IF t = {} THEN base
               ELSE Take(b, today, active, iter[t \ {Max(t)}], ranked[Max(t)])]
           pick == [t \in SUBSET D |-> Max(t)]
           f == [q \in V \X D |-> Take(b, today, active, q[1], ranked[q[2]])]
<1>1. D = 1 .. n /\ IsFiniteSet(D)
  <2>1. D = 1 .. n
    OBVIOUS
  <2>2. PICK z : z = 1
    OBVIOUS
  <2>3. IsFiniteSet(z .. n)
    BY <2>2, FS_Interval
  <2> QED
    BY <2>1, <2>2, <2>3
<1>2. base \in V
  <2>1. InFlight(b, ranked) \in SUBSET X
    BY DEF InFlight, Range
  <2>2. <<>> \in UNION {[Y -> Verdicts] : Y \in SUBSET X}
    <3>1. PICK Z \in SUBSET X : Z = {}
      OBVIOUS
    <3>2. <<>> \in [Z -> Verdicts]
      BY <3>1
    <3> QED
      BY <3>2
  <2>3. PICK now, reason : now = InFlight(b, ranked) /\ reason = <<>>
    OBVIOUS
  <2> QED
    BY <2>1, <2>2, <2>3 DEF Sofar
<1> HIDE DEF base
<1>3. \A t \in SUBSET D : t # {} => pick[t] \in t /\ pick[t] = Max(t)
  <2> SUFFICES ASSUME NEW t \in SUBSET D, t # {} PROVE Max(t) \in t
    OBVIOUS
  <2>1. IsFiniteSet(t) /\ t \in SUBSET Int
    <3>1. t \in SUBSET D /\ D \in SUBSET Int
      BY <1>1
    <3> HIDE DEF D
    <3>2. IsFiniteSet(t)
      BY <1>1, <3>1, FS_Subset
    <3> QED
      BY <3>1, <3>2
  <2> QED
    BY <2>1, MaxOfFinite
<1>4. f \in [V \X D -> V]
  <2>1. f = [q \in V \X D |-> f[q]]
    OBVIOUS
  <2>2. ASSUME NEW q \in V \X D PROVE f[q] \in V
    <3>1. PICK s \in V, k \in D : q = <<s, k>>
      OBVIOUS
    <3>2. PICK i \in X : i = ranked[k]
      BY <1>1
    <3>3. Take(b, today, active, s, i) \in V
      BY TakeIsSofar
    <3>4. f[q] = Take(b, today, active, s, i)
      BY <3>1, <3>2
    <3> QED
      BY <3>3, <3>4
  <2> HIDE DEF f
  <2> QED
    BY <2>1, <2>2
<1>5. ASSUME NEW s \in V, NEW k \in D PROVE f[<<s, k>>] = Take(b, today, active, s, ranked[k])
  OBVIOUS
<1> HIDE DEF V
<1>6. PICK g \in [SUBSET D -> V] : IsFold(g, D, base, f, pick)
  <2> HIDE DEF f, pick, D
  <2> QED
    BY <1>1, <1>2, <1>3, <1>4, FoldExists
<1>7. ASSUME NEW t \in SUBSET D
      PROVE  g[t] = IF t = {} THEN base
                    ELSE Take(b, today, active, g[t \ {Max(t)}], ranked[Max(t)])
  <2>1. CASE t = {}
    BY <1>6, <2>1 DEF IsFold
  <2>2. CASE t # {}
    <3>1. pick[t] = Max(t) /\ pick[t] \in D /\ g[t \ {pick[t]}] \in V
      <4>1. pick[t] \in t /\ pick[t] = Max(t)
        BY <1>3, <2>2
      <4> HIDE DEF pick
      <4> QED
        BY <4>1
    <3>2. g[t] = f[<<g[t \ {pick[t]}], pick[t]>>]
      BY <1>6, <2>2 DEF IsFold
    <3> HIDE DEF f, pick
    <3>3. PICK s \in V, k \in D : s = g[t \ {pick[t]}] /\ k = pick[t]
      BY <3>1
    <3>4. f[<<s, k>>] = Take(b, today, active, s, ranked[k])
      BY <1>5
    <3> QED
      BY <2>2, <3>1, <3>2, <3>3, <3>4
  <2> QED
    BY <2>1, <2>2
<1>8. \E v : Eq(v)
  <2>1. Eq(g)
    BY <1>7
  <2> QED
    BY <2>1
<1>9. PICK iter : iter = CHOOSE v : Eq(v)
  OBVIOUS
<1>a. Eq(iter)
  <2> HIDE DEF Eq
  <2> QED
    BY <1>8, <1>9, Zenon
<1>b. SelectNowSet(b, ranked, today, active) = iter[D]
  BY <1>9, Zenon DEF SelectNowSet, FoldLeft, MapThenFoldSet, D, base
<1>c. /\ iter[{}] = base
      /\ \A t \in SUBSET D : t # {} =>
            iter[t] = Take(b, today, active, iter[t \ {Max(t)}], ranked[Max(t)])
  BY <1>a
<1> HIDE DEF Eq, pick, f, D
<1> DEFINE h == [k \in 0 .. n |-> iter[1 .. k]]
<1>d. h[0] = base /\ h[n] = iter[D]
  <2>1. 1 .. 0 = {} /\ 0 \in 0 .. n /\ n \in 0 .. n
    OBVIOUS
  <2> QED
    BY <1>1, <1>c, <2>1
<1>e. ASSUME NEW k \in 1 .. n
      PROVE  h[k] = Take(b, today, active, h[k - 1], ranked[k])
  <2>1. PICK t : t = 1 .. k
    OBVIOUS
  <2>2. t \in SUBSET D /\ t # {} /\ t \in SUBSET Int /\ k \in t
    BY <1>1, <2>1
  <2>3. IsFiniteSet(t)
    BY <1>1, <2>2, FS_Subset
  <2>4. Max(t) \in t /\ \A y \in t : Max(t) >= y
    BY <2>2, <2>3, MaxOfFinite
  <2>5. Max(t) = k
    BY <2>1, <2>2, <2>4
  <2>6. t \ {k} = 1 .. k - 1 /\ k - 1 \in 0 .. n /\ k \in 0 .. n
    BY <2>1
  <2>7. iter[t] = Take(b, today, active, iter[t \ {k}], ranked[k])
    BY <1>c, <2>2, <2>5
  <2> QED
    BY <2>1, <2>6, <2>7
<1>f. \A k \in 0 .. n : h[k] \in V
  <2> DEFINE N == {k \in Nat : k <= n => h[k] \in V}
  <2>1. 0 \in N
    BY <1>2, <1>d
  <2>2. ASSUME NEW k \in Nat, k \in N PROVE k + 1 \in N
    <3> SUFFICES ASSUME k + 1 <= n PROVE h[k + 1] \in V
      OBVIOUS
    <3>1. PICK s \in V : s = h[k]
      BY <2>2
    <3> HIDE DEF h, N
    <3>2. PICK i \in X : i = ranked[k + 1]
      OBVIOUS
    <3>3. Take(b, today, active, s, i) \in V
      BY TakeIsSofar DEF V
    <3>4. h[k + 1] = Take(b, today, active, s, i)
      <4>1. k + 1 \in 1 .. n /\ (k + 1) - 1 = k
        OBVIOUS
      <4> QED
        BY <1>e, <3>1, <3>2, <4>1
    <3> QED
      BY <3>3, <3>4
  <2> HIDE DEF N, h
  <2>3. Nat \subseteq N
    BY <2>1, <2>2, Induction
  <2> QED
    BY <2>3 DEF N
<1> HIDE DEF h
<1>g. Selects(h, b, ranked, n)
  BY <1>d, <1>e DEF Selects, base
<1> QED
  BY <1>b, <1>d, <1>f, <1>g DEF V

\* A selection fills the now set from the top, and says why of each.
Fills(now, s, b, ranked, X) ==
    LET n == Cardinality(X)
    IN /\ now \in [0 .. n -> SUBSET X]
       /\ now[0] = InFlight(b, ranked) /\ now[n] = s.now
       /\ \A k \in 1 .. n : now[k] = IF Verdict(b, now[k - 1], ranked[k]) = "selected"
                                     THEN now[k - 1] \cup {ranked[k]} ELSE now[k - 1]
       /\ DOMAIN s.reason = X
       /\ \A k \in 1 .. n : s.reason[ranked[k]] = Verdict(b, now[k - 1], ranked[k])

\* So does SelectNowSet.
LEMMA SelectionFills ==
  ASSUME NEW b, NEW X, NEW ranked, Ranks(ranked, X)
  PROVE  \E now : Fills(now, SelectNowSet(b, ranked, today, active), b, ranked, X)
<1>1. PICK n \in Nat : n = Cardinality(X)
  BY FS_CardinalityType DEF Ranks
<1>2. /\ ranked \in [1 .. n -> X]
      /\ \A k, l \in 1 .. n : ranked[k] = ranked[l] => k = l
      /\ \A i \in X : \E k \in 1 .. n : ranked[k] = i
  BY <1>1 DEF Ranks
<1>3. PICK h : /\ Selects(h, b, ranked, n)
               /\ SelectNowSet(b, ranked, today, active) = h[n]
               /\ \A k \in 0 .. n : h[k] \in Sofar(X)
  BY <1>2, SelectionIsWalked
<1>4. ASSUME NEW k \in 1 .. n
      PROVE  /\ h[k].now = IF Verdict(b, h[k - 1].now, ranked[k]) = "selected"
                           THEN h[k - 1].now \cup {ranked[k]} ELSE h[k - 1].now
             /\ h[k].reason = With(h[k - 1].reason, ranked[k], Verdict(b, h[k - 1].now, ranked[k]))
  <2>1. k - 1 \in 0 .. n
    OBVIOUS
  <2>2. PICK s \in Sofar(X), i \in X : s = h[k - 1] /\ i = ranked[k]
    BY <1>2, <1>3, <2>1
  <2>3. h[k] = Take(b, today, active, s, i)
    BY <1>3, <2>2 DEF Selects
  <2>4. PICK why : why = Verdict(b, s.now, i)
    OBVIOUS
  <2>5. /\ Take(b, today, active, s, i).now = IF why = "selected" THEN s.now \cup {i} ELSE s.now
        /\ Take(b, today, active, s, i).reason = With(s.reason, i, why)
    BY <2>4 DEF Take, Verdict
  <2>6. why = Verdict(b, h[k - 1].now, ranked[k])
    BY <2>2, <2>4
  <2> HIDE DEF Verdict
  <2> QED
    BY <2>2, <2>3, <2>5, <2>6
<1> DEFINE Said(m) == /\ DOMAIN h[m].reason = {ranked[j] : j \in 1 .. m}
                      /\ \A j \in 1 .. m : h[m].reason[ranked[j]] = Verdict(b, h[j - 1].now, ranked[j])
           N == {m \in Nat : m <= n => Said(m)}
<1>5. 0 \in N
  <2>1. h[0].reason = <<>>
    BY <1>3 DEF Selects
  <2> QED
    BY <2>1
<1>6. ASSUME NEW m \in Nat, m \in N
      PROVE  m + 1 \in N
  <2> SUFFICES ASSUME m + 1 <= n PROVE Said(m + 1)
    OBVIOUS
  <2>1. Said(m)
    BY <1>6
  <2>2. PICK k \in 1 .. n : k = m + 1
    OBVIOUS
  <2>3. PICK i, why : i = ranked[k] /\ why = Verdict(b, h[m].now, i)
    OBVIOUS
  <2>4. h[k].reason = With(h[m].reason, i, why)
    <3>1. k - 1 = m
      BY <2>2
    <3> QED
      BY <1>4, <2>3, <3>1
  <2>5. DOMAIN h[k].reason = DOMAIN h[m].reason \cup {i}
    BY <2>4 DEF With
  <2>6. DOMAIN h[k].reason = {ranked[j] : j \in 1 .. k}
    BY <2>1, <2>2, <2>3, <2>5
  <2>7. ASSUME NEW j \in 1 .. m
        PROVE  h[k].reason[ranked[j]] = h[m].reason[ranked[j]]
    <3>1. ranked[j] # i /\ ranked[j] \in DOMAIN h[m].reason
      BY <1>2, <2>1, <2>2, <2>3
    <3> QED
      BY <2>4, <3>1 DEF With
  <2>8. h[k].reason[i] = why
    BY <2>4 DEF With
  <2>9. \A j \in 1 .. k : h[k].reason[ranked[j]] = Verdict(b, h[j - 1].now, ranked[j])
    <3> SUFFICES ASSUME NEW j \in 1 .. k
                 PROVE  h[k].reason[ranked[j]] = Verdict(b, h[j - 1].now, ranked[j])
      OBVIOUS
    <3>1. CASE j = k
      <4>1. j - 1 = m
        BY <2>2, <3>1
      <4> QED
        BY <2>3, <2>8, <3>1, <4>1
    <3>2. CASE j # k
      <4>1. j \in 1 .. m
        BY <2>2, <3>2
      <4> QED
        BY <2>1, <2>7, <4>1
    <3> QED
      BY <3>1, <3>2
  <2> QED
    BY <2>2, <2>6, <2>9
<1> HIDE DEF N
<1>7. Said(n)
  <2>1. Nat \subseteq N
    BY <1>5, <1>6, Induction
  <2> QED
    BY <2>1 DEF N
<1> DEFINE now == [k \in 0 .. n |-> h[k].now]
<1>8. now \in [0 .. n -> SUBSET X]
  BY <1>3 DEF Sofar
<1>9. now[0] = InFlight(b, ranked) /\ now[n] = h[n].now
  <2>1. h[0].now = InFlight(b, ranked)
    BY <1>3 DEF Selects
  <2> QED
    BY <2>1
<1>a. \A k \in 1 .. n : now[k] = h[k].now /\ now[k - 1] = h[k - 1].now
  OBVIOUS
<1> HIDE DEF now
<1>b. \A k \in 1 .. n : now[k] = IF Verdict(b, now[k - 1], ranked[k]) = "selected"
                                 THEN now[k - 1] \cup {ranked[k]} ELSE now[k - 1]
  BY <1>4, <1>a
<1>c. DOMAIN h[n].reason = X
  BY <1>2, <1>7
<1>d. \A k \in 1 .. n : h[n].reason[ranked[k]] = Verdict(b, now[k - 1], ranked[k])
  BY <1>7, <1>a
<1>e. Fills(now, h[n], b, ranked, X)
  BY <1>1, <1>8, <1>9, <1>b, <1>c, <1>d DEF Fills
<1> QED
  BY <1>3, <1>e

\* Slots that are filled stay filled.
LEMMA NowGrows ==
  ASSUME NEW b, NEW X, NEW ranked, Ranks(ranked, X), NEW s, NEW now, Fills(now, s, b, ranked, X)
  PROVE  \A k \in 0 .. Cardinality(X) : now[k] \subseteq s.now
<1>1. PICK n \in Nat : n = Cardinality(X)
  BY FS_CardinalityType DEF Ranks
<1> DEFINE N == {m \in Nat : m <= n => now[n - m] \subseteq now[n]}
<1>2. 0 \in N
  OBVIOUS
<1>3. ASSUME NEW m \in Nat, m \in N
      PROVE  m + 1 \in N
  <2> SUFFICES ASSUME m + 1 <= n PROVE now[n - (m + 1)] \subseteq now[n]
    OBVIOUS
  <2>1. PICK k \in 1 .. n : k = n - m
    OBVIOUS
  <2>2. now[k] \subseteq now[n] /\ k - 1 = n - (m + 1)
    BY <1>3, <2>1
  <2>3. now[k - 1] \subseteq now[k]
    BY <1>1 DEF Fills
  <2> QED
    BY <2>2, <2>3
<1> HIDE DEF N
<1>4. Nat \subseteq N
  BY <1>2, <1>3, Induction
<1> SUFFICES ASSUME NEW k \in 0 .. n PROVE now[k] \subseteq now[n]
  BY <1>1 DEF Fills
<1>5. n - k \in N
  BY <1>4
<1>6. n - k <= n /\ n - (n - k) = k
  OBVIOUS
<1> QED
  BY <1>5, <1>6 DEF N

\* What a verdict says of the set it is given over.
VerdictHolds(b, now, i, why) ==
    /\ why = "wip_full" => Cardinality(now) >= MaxNow
    /\ why = "area_at_cap" => Cardinality(InArea(b, now, b[i].area)) >= MaxNowPerArea
    /\ why = "selected" =>
          ~(Cardinality(now) >= MaxNow) /\ ~(Cardinality(InArea(b, now, b[i].area)) >= MaxNowPerArea)

\* It is so.
LEMMA VerdictsHold ==
  ASSUME NEW b, NEW now, NEW i, NEW why, why = Verdict(b, now, i)
  PROVE  VerdictHolds(b, now, i, why)
<1> DEFINE full == Cardinality(now) >= MaxNow
           capped == Cardinality(InArea(b, now, b[i].area)) >= MaxNowPerArea
<1>1. why = IF b[i].status = "now" THEN "in_flight"
            ELSE IF b[i].status \notin {"next", "later"} THEN "not_a_candidate"
            ELSE IF NotUnderWay(b[i], today, active) # "under_way" THEN NotUnderWay(b[i], today, active)
            ELSE IF BlockedBy(b, i) # {} THEN "blocked"
            ELSE IF ~b[i].estimated THEN "unestimated"
            ELSE IF b[i].size > SizeForNow THEN "too_large"
            ELSE IF full THEN "wip_full"
            ELSE IF capped THEN "area_at_cap"
            ELSE "selected"
  BY DEF Verdict, Reason
<1>2. NotUnderWay(b[i], today, active) \in {"not_started", "project_inactive", "under_way"}
  BY DEF NotUnderWay
<1>3. why = "wip_full" => full
  BY <1>1, <1>2
<1>4. why = "area_at_cap" => capped
  BY <1>1, <1>2
<1>5. why = "selected" => ~full /\ ~capped
  BY <1>1, <1>2
<1> QED
  BY <1>3, <1>4, <1>5 DEF VerdictHolds

\* One initiative more than fewer than a limit is within it.
LEMMA OneMoreFits ==
  ASSUME NEW S, IsFiniteSet(S), NEW i, NEW limit \in Nat, ~(Cardinality(S) >= limit)
  PROVE  Cardinality(S \cup {i}) <= limit /\ Cardinality(S) <= limit
<1>1. Cardinality(S) \in Nat
  BY FS_CardinalityType
<1>2. Cardinality(S \cup {i}) = IF i \in S THEN Cardinality(S) ELSE Cardinality(S) + 1
  <2>1. i \in S => S \cup {i} = S
    OBVIOUS
  <2>2. i \notin S => Cardinality(S \cup {i}) = Cardinality(S) + 1
    BY FS_AddElement
  <2> QED
    BY <2>1, <2>2
<1> QED
  BY <1>1, <1>2

\* Limits that one selected initiative finds room in, those after it leave whole.
LEMMA LimitsKeep ==
  ASSUME NEW b, NEW X, NEW ranked, Ranks(ranked, X), NEW s, NEW now, Fills(now, s, b, ranked, X),
         NEW k \in 1 .. Cardinality(X), s.reason[ranked[k]] = "selected"
  PROVE  Cardinality(s.now) <= MaxNow /\ Cardinality(InArea(b, s.now, b[ranked[k]].area)) <= MaxNowPerArea
<1>1. PICK n \in Nat : n = Cardinality(X)
  BY FS_CardinalityType DEF Ranks
<1>2. PICK a : a = b[ranked[k]].area
  OBVIOUS
<1> DEFINE Within(m) == Cardinality(now[m]) <= MaxNow /\ Cardinality(InArea(b, now[m], a)) <= MaxNowPerArea
           N == {m \in Nat : k + m <= n => Within(k + m)}
<1>3. ASSUME NEW m \in 0 .. n
      PROVE  IsFiniteSet(now[m]) /\ IsFiniteSet(InArea(b, now[m], a))
  <2>1. now[m] \in SUBSET X /\ IsFiniteSet(X)
    BY <1>1 DEF Fills, Ranks
  <2>2. IsFiniteSet(now[m])
    BY <2>1, FS_Subset
  <2>3. InArea(b, now[m], a) \in SUBSET now[m]
    BY DEF InArea
  <2> QED
    BY <2>2, <2>3, FS_Subset
<1>4. ASSUME NEW m \in 1 .. n, m = k \/ Within(m - 1)
      PROVE  Within(m)
  <2>1. PICK i, before : i = ranked[m] /\ before = now[m - 1]
    OBVIOUS
  <2>2. PICK why : why = Verdict(b, before, i)
    OBVIOUS
  <2>3. now[m] = IF why = "selected" THEN before \cup {i} ELSE before
    BY <1>1, <2>1, <2>2 DEF Fills
  <2>4. VerdictHolds(b, before, i, why)
    BY <2>2, VerdictsHold
  <2>5. IsFiniteSet(before) /\ IsFiniteSet(InArea(b, before, a))
    <3>1. m - 1 \in 0 .. n
      OBVIOUS
    <3> QED
      BY <1>3, <2>1, <3>1
  <2>6. CASE why = "selected"
    <3>1. Cardinality(now[m]) <= MaxNow
      BY <2>3, <2>4, <2>5, <2>6, OneMoreFits, ScoringAssumption DEF VerdictHolds
    <3>2. CASE b[i].area = a
      <4>1. InArea(b, now[m], a) = InArea(b, before, a) \cup {i}
        BY <2>3, <2>6, <3>2 DEF InArea
      <4>2. PICK S : S = InArea(b, before, a)
        OBVIOUS
      <4>3. IsFiniteSet(S) /\ ~(Cardinality(S) >= MaxNowPerArea)
        BY <2>4, <2>5, <2>6, <3>2, <4>2 DEF VerdictHolds
      <4>4. Cardinality(S \cup {i}) <= MaxNowPerArea
        BY <4>3, OneMoreFits, ScoringAssumption
      <4> QED
        BY <3>1, <4>1, <4>2, <4>4
    <3>3. CASE b[i].area # a
      <4>1. InArea(b, now[m], a) = InArea(b, before, a)
        BY <2>3, <2>6, <3>3 DEF InArea
      <4>2. m # k
        BY <1>2, <2>1, <3>3
      <4> QED
        BY <1>4, <2>1, <3>1, <4>1, <4>2
    <3> QED
      BY <3>2, <3>3
  <2>7. CASE why # "selected"
    <3>1. m # k
      BY <1>1, <2>1, <2>2, <2>7 DEF Fills
    <3> QED
      BY <1>4, <2>1, <2>3, <2>7, <3>1
  <2> QED
    BY <2>6, <2>7
<1> HIDE DEF Within
<1>5. 0 \in N
  <2>1. k \in 1 .. n /\ k + 0 = k
    BY <1>1
  <2> QED
    BY <1>4, <2>1
<1>6. ASSUME NEW m \in Nat, m \in N
      PROVE  m + 1 \in N
  <2> SUFFICES ASSUME k + (m + 1) <= n PROVE Within(k + (m + 1))
    OBVIOUS
  <2>1. PICK l \in 1 .. n : l = k + (m + 1)
    BY <1>1
  <2>2. l - 1 = k + m /\ k + m <= n
    BY <1>1, <2>1
  <2>3. Within(l - 1)
    BY <1>6, <2>2
  <2> QED
    BY <1>4, <2>1, <2>3
<1> HIDE DEF N
<1>7. Nat \subseteq N
  BY <1>5, <1>6, Induction
<1>8. Within(n)
  <2>1. n - k \in N /\ k + (n - k) = n
    BY <1>1, <1>7
  <2> QED
    BY <2>1 DEF N
<1>9. now[n] = s.now
  BY <1>1 DEF Fills
<1> QED
  BY <1>2, <1>8, <1>9 DEF Within

\* The same, or both times no room.
Agree(why, again) ==
    \/ again = why
    \/ {again, why} \subseteq {"wip_full", "area_at_cap"}

\* An initiative passed over is passed over again when more slots are taken.
LEMMA PassedOverAgain ==
  ASSUME NEW b, NEW c, NEW i, NEW now, NEW later \in SUBSET DOMAIN b, now \subseteq later, IsFiniteSet(later),
         c[i] = b[i], BlockedBy(c, i) = BlockedBy(b, i),
         InArea(c, later, b[i].area) = InArea(b, later, b[i].area),
         NEW why, why = Verdict(b, now, i), why # "selected"
  PROVE  Verdict(c, later, i) # "selected" /\ Agree(why, Verdict(c, later, i))
<1> DEFINE Full(S) == Cardinality(S) >= MaxNow
           Capped(S) == Cardinality(InArea(b, S, b[i].area)) >= MaxNowPerArea
           Said(S) == IF b[i].status = "now" THEN "in_flight"
            ELSE IF b[i].status \notin {"next", "later"} THEN "not_a_candidate"
            ELSE IF NotUnderWay(b[i], today, active) # "under_way" THEN NotUnderWay(b[i], today, active)
            ELSE IF BlockedBy(b, i) # {} THEN "blocked"
            ELSE IF ~b[i].estimated THEN "unestimated"
            ELSE IF b[i].size > SizeForNow THEN "too_large"
            ELSE IF Full(S) THEN "wip_full"
            ELSE IF Capped(S) THEN "area_at_cap"
            ELSE "selected"
<1>1. why = Said(now)
  BY DEF Verdict, Reason
<1>2. Verdict(c, later, i) = Said(later)
  BY DEF Verdict, Reason
<1>3. Full(now) => Full(later)
  <2>1. Cardinality(now) <= Cardinality(later) /\ Cardinality(now) \in Nat /\ Cardinality(later) \in Nat
    BY FS_Subset, FS_CardinalityType
  <2> QED
    BY <2>1, ScoringAssumption
<1>4. Capped(now) => Capped(later)
  <2>1. PICK S, T : S = InArea(b, now, b[i].area) /\ T = InArea(b, later, b[i].area)
    OBVIOUS
  <2>2. S \in SUBSET T /\ T \in SUBSET later
    BY <2>1 DEF InArea
  <2>3. IsFiniteSet(T)
    BY <2>2, FS_Subset
  <2>4. Cardinality(S) <= Cardinality(T) /\ Cardinality(S) \in Nat /\ Cardinality(T) \in Nat
    BY <2>2, <2>3, FS_Subset, FS_CardinalityType
  <2> QED
    BY <2>1, <2>4, ScoringAssumption
<1>5. NotUnderWay(b[i], today, active) \in {"not_started", "project_inactive", "under_way"}
  BY DEF NotUnderWay
<1> HIDE DEF Full, Capped
<1>6. CASE ~Full(later) /\ ~Capped(later)
  <2>1. Said(now) = Said(later)
    BY <1>3, <1>4, <1>6
  <2> QED
    BY <1>1, <1>2, <2>1 DEF Agree
<1>7. CASE Full(later) \/ Capped(later)
  <2>1. Said(later) # "selected"
    BY <1>5, <1>7
  <2>2. Agree(Said(now), Said(later))
    <3>1. Said(now) = Said(later) \/ ({Said(now), Said(later)} \subseteq {"wip_full", "area_at_cap"})
      BY <1>1, <1>5, <1>7
    <3> HIDE DEF Said
    <3> QED
      BY <3>1 DEF Agree
  <2> HIDE DEF Said
  <2> QED
    BY <1>1, <1>2, <2>1, <2>2
<1> QED
  BY <1>6, <1>7

\* A board reviewed: what was selected is in flight, and the rest as it was.
LEMMA ReviewedBoard ==
  ASSUME BoardTypes, NEW s, s.now \in SUBSET Open(board), NEW c, c = Reviewed(s)
  PROVE  /\ SameButStatus(board, c) /\ Open(c) = Open(board)
         /\ \A i \in s.now : c[i].status = "now"
         /\ \A i \in Ids \ s.now : c[i] = board[i]
         /\ \A i \in Ids : BlockedBy(c, i) = BlockedBy(board, i)
<1>1. DOMAIN c = Ids /\ s.now \subseteq Ids
  BY DEF Reviewed, Open, Ids
<1>2. ASSUME NEW i \in Ids
      PROVE  /\ c[i].status = IF i \in s.now THEN "now" ELSE board[i].status
             /\ c[i].area = board[i].area /\ c[i].value = board[i].value
             /\ c[i].timeCriticality = board[i].timeCriticality /\ c[i].risk = board[i].risk
             /\ c[i].size = board[i].size /\ c[i].deadline = board[i].deadline
             /\ c[i].deps = board[i].deps
  <2>1. PICK r \in BoardRows(Ids) : r = board[i]
    BY DEF BoardTypes
  <2>2. c[i] = IF i \in s.now THEN [r EXCEPT !.status = "now"] ELSE r
    BY <2>1 DEF Reviewed
  <2>3. CASE i \in s.now
    <3>1. c[i] = [r EXCEPT !.status = "now"]
      BY <2>2, <2>3
    <3> QED
      BY <2>1, <2>3, <3>1 DEF BoardRows
  <2>4. CASE i \notin s.now
    BY <2>1, <2>2, <2>4
  <2> QED
    BY <2>3, <2>4
<1>3. \A i \in Ids \ s.now : c[i] = board[i]
  BY DEF Reviewed
<1>4. \A i \in s.now : c[i].status = "now" /\ board[i].status \notin Closed
  BY <1>1, <1>2 DEF Open
<1>5. \A i \in Ids : c[i].status \in Closed <=> board[i].status \in Closed
  BY <1>3, <1>4 DEF Closed
<1>6. Open(c) = Open(board)
  BY <1>1, <1>5 DEF Open, Ids
<1>7. \A i \in Ids : BlockedBy(c, i) = BlockedBy(board, i)
  BY <1>1, <1>2, <1>5 DEF BlockedBy, Ids
<1>8. SameButStatus(board, c)
  BY <1>1, <1>2 DEF SameButStatus, Ids
<1> QED
  BY <1>3, <1>4, <1>6, <1>7, <1>8

\* The selection made again over the set the first one ended with takes nobody.
LEMMA TakenAgain ==
  ASSUME BoardTypes, NEW X, X = Scored(board), NEW ranked, Ranks(ranked, X),
         NEW s, NEW now, Fills(now, s, board, ranked, X), NEW c, c = Reviewed(s),
         NEW again, NEW later, Fills(later, again, c, ranked, X)
  PROVE  /\ again.now = s.now
         /\ \A i \in DOMAIN s.reason \ s.now : Agree(s.reason[i], again.reason[i])
<1>1. PICK n \in Nat : n = Cardinality(X)
  BY FS_CardinalityType DEF Ranks
<1>2. PICK taken : taken = s.now
  OBVIOUS
<1>3. taken \in SUBSET X /\ X \in SUBSET Open(board) /\ Open(board) \in SUBSET Ids /\ IsFiniteSet(X)
  <2>1. taken = now[n] /\ n \in 0 .. n
    BY <1>1, <1>2 DEF Fills
  <2> QED
    BY <1>1, <2>1 DEF Fills, Ranks, Scored, Open, Ids
<1>4. /\ SameButStatus(board, c) /\ Open(c) = Open(board)
      /\ \A i \in taken : c[i].status = "now"
      /\ \A i \in Ids \ taken : c[i] = board[i]
      /\ \A i \in Ids : BlockedBy(c, i) = BlockedBy(board, i)
  <2>1. s.now \in SUBSET Open(board)
    BY <1>2, <1>3
  <2> QED
    BY <1>2, <2>1, ReviewedBoard
<1>5. IsFiniteSet(taken)
  BY <1>3, FS_Subset
<1>6. \A a : InArea(c, taken, a) = InArea(board, taken, a)
  BY <1>3, <1>4 DEF InArea, SameButStatus, Ids
<1>7. \A k \in 1 .. n : ranked[k] \in X /\ now[k - 1] \subseteq taken
  <2>1. \A k \in 0 .. n : now[k] \subseteq taken
    BY <1>1, <1>2, NowGrows
  <2>2. \A k \in 1 .. n : k - 1 \in 0 .. n
    OBVIOUS
  <2> QED
    BY <1>1, <2>1, <2>2 DEF Ranks
<1>8. ASSUME NEW k \in 1 .. n, ranked[k] \in taken
      PROVE  Verdict(c, taken, ranked[k]) # "selected"
  BY <1>4, <1>8 DEF Verdict
<1>9. ASSUME NEW k \in 1 .. n, ranked[k] \notin taken
      PROVE  /\ Verdict(c, taken, ranked[k]) # "selected"
             /\ Agree(s.reason[ranked[k]], Verdict(c, taken, ranked[k]))
  <2>1. PICK i, before, why : i = ranked[k] /\ before = now[k - 1] /\ why = Verdict(board, before, i)
    OBVIOUS
  <2>2. i \in X /\ i \in Ids /\ i \notin taken /\ before \subseteq taken
    BY <1>3, <1>7, <1>9, <2>1
  <2>3. s.reason[i] = why /\ now[k] = IF why = "selected" THEN before \cup {i} ELSE before
    BY <1>1, <2>1 DEF Fills
  <2>4. why # "selected"
    <3>1. now[k] \subseteq taken
      <4>1. k \in 0 .. n
        OBVIOUS
      <4> QED
        BY <1>1, <1>2, <4>1, NowGrows
    <3> QED
      BY <2>2, <2>3, <3>1
  <2>5. /\ c[i] = board[i] /\ BlockedBy(c, i) = BlockedBy(board, i)
        /\ InArea(c, taken, board[i].area) = InArea(board, taken, board[i].area)
        /\ taken \in SUBSET DOMAIN board
    BY <1>3, <1>4, <1>6, <2>2 DEF Ids
  <2>6. Verdict(c, taken, i) # "selected" /\ Agree(why, Verdict(c, taken, i))
    BY <1>5, <2>1, <2>2, <2>4, <2>5, PassedOverAgain
  <2> QED
    BY <2>1, <2>3, <2>6
<1> DEFINE N == {m \in Nat : m <= n => later[m] = taken}
<1>a. 0 \in N
  <2>1. later[0] = InFlight(c, ranked)
    BY <1>1 DEF Fills
  <2>2. Range(ranked) = X
    BY <1>1 DEF Ranks, Range
  <2>3. InFlight(c, ranked) = {i \in X : c[i].status = "now"}
    BY <2>2 DEF InFlight
  <2>4. InFlight(board, ranked) = {i \in X : board[i].status = "now"}
    BY <2>2 DEF InFlight
  <2>5. InFlight(board, ranked) \subseteq taken
    <3>1. now[0] = InFlight(board, ranked) /\ 0 \in 0 .. n
      BY <1>1 DEF Fills
    <3> QED
      BY <1>1, <1>2, <3>1, NowGrows
  <2>6. {i \in X : c[i].status = "now"} = taken
    BY <1>3, <1>4, <2>4, <2>5
  <2> QED
    BY <2>1, <2>3, <2>6
<1>b. ASSUME NEW m \in Nat, m \in N
      PROVE  m + 1 \in N
  <2> SUFFICES ASSUME m + 1 <= n PROVE later[m + 1] = taken
    OBVIOUS
  <2>1. PICK k \in 1 .. n : k = m + 1
    OBVIOUS
  <2>2. later[k - 1] = taken
    <3>1. k - 1 = m /\ m <= n
      BY <2>1
    <3> QED
      BY <1>b, <3>1
  <2>3. Verdict(c, taken, ranked[k]) # "selected"
    BY <1>8, <1>9
  <2>4. later[k] = later[k - 1]
    BY <1>1, <2>2, <2>3 DEF Fills
  <2> QED
    BY <2>1, <2>2, <2>4
<1> HIDE DEF N
<1>c. \A m \in 0 .. n : later[m] = taken
  <2>1. Nat \subseteq N
    BY <1>a, <1>b, Induction
  <2> QED
    BY <2>1 DEF N
<1>d. again.now = taken
  BY <1>1, <1>c DEF Fills
<1>e. ASSUME NEW i \in DOMAIN s.reason \ s.now
      PROVE  Agree(s.reason[i], again.reason[i])
  <2>1. i \in X /\ i \notin taken
    BY <1>2 DEF Fills
  <2>2. PICK k \in 1 .. n : ranked[k] = i
    BY <1>1, <2>1 DEF Ranks
  <2>3. later[k - 1] = taken
    <3>1. k - 1 \in 0 .. n
      OBVIOUS
    <3> QED
      BY <1>c, <3>1
  <2>4. again.reason[i] = Verdict(c, taken, i)
    BY <1>1, <2>2, <2>3 DEF Fills
  <2> QED
    BY <1>9, <2>1, <2>2, <2>4
<1> QED
  BY <1>2, <1>d, <1>e

\* SelectionStands, of every state of a board.
LEMMA SelectionStandsHere ==
  ASSUME BoardTypes, DoneTypes
  PROVE  SelectionStands
<1>1. PICK X, ranked : X = Scored(board) /\ ranked = ComputeScores(board, done, today)
  OBVIOUS
<1>2. Ranks(ranked, X)
  BY <1>1, ScoresRank
<1>3. PICK s : s = Selection(board)
  OBVIOUS
<1>4. s = SelectNowSet(board, ranked, today, active)
  BY <1>1, <1>3 DEF Selection
<1>5. PICK now : Fills(now, s, board, ranked, X)
  BY <1>2, <1>4, SelectionFills
<1>6. PICK n \in Nat : n = Cardinality(X)
  BY <1>2, FS_CardinalityType DEF Ranks
<1>7. PICK c : c = Reviewed(s)
  OBVIOUS
<1>8. s.now \in SUBSET Open(board)
  <2>1. s.now \in SUBSET X
    <3>1. s.now = now[n] /\ n \in 0 .. n
      BY <1>5, <1>6 DEF Fills
    <3> QED
      BY <1>5, <1>6, <3>1 DEF Fills
  <2> QED
    BY <1>1, <2>1 DEF Scored
<1>9. Scored(c) = X /\ ComputeScores(c, done, today) = ranked
  <2>1. SameButStatus(board, c) /\ Open(c) = Open(board)
    BY <1>7, <1>8, ReviewedBoard
  <2>2. \A i \in DOMAIN board : board[i].area \in DOMAIN Areas
    <3> SUFFICES ASSUME NEW i \in DOMAIN board PROVE board[i].area \in DOMAIN Areas
      OBVIOUS
    <3>1. PICK r \in BoardRows(Ids) : r = board[i]
      BY DEF BoardTypes, Ids
    <3> QED
      BY <3>1 DEF BoardRows
  <2> QED
    BY <1>1, <2>1, <2>2, SameRanking
<1>a. PICK again : again = Selection(c)
  OBVIOUS
<1>b. again = SelectNowSet(c, ranked, today, active)
  BY <1>9, <1>a DEF Selection
<1>c. PICK later : Fills(later, again, c, ranked, X)
  BY <1>2, <1>b, SelectionFills
<1>d. /\ again.now = s.now
      /\ \A i \in DOMAIN s.reason \ s.now : Agree(s.reason[i], again.reason[i])
  BY <1>1, <1>2, <1>5, <1>7, <1>c, TakenAgain
<1>e. ASSUME NEW i \in DOMAIN s.reason
      PROVE  /\ s.reason[i] = "wip_full" => Cardinality(s.now) >= MaxNow
             /\ s.reason[i] = "area_at_cap" =>
                   Cardinality(InArea(board, s.now, board[i].area)) >= MaxNowPerArea
             /\ s.reason[i] = "selected" =>
                   /\ Cardinality(s.now) <= MaxNow
                   /\ Cardinality(InArea(board, s.now, board[i].area)) <= MaxNowPerArea
  <2>1. PICK k \in 1 .. n : ranked[k] = i
    <3>1. i \in X
      BY <1>5 DEF Fills
    <3> QED
      BY <1>2, <1>6, <3>1 DEF Ranks
  <2>2. PICK before, why : before = now[k - 1] /\ why = Verdict(board, before, i)
    OBVIOUS
  <2>3. s.reason[i] = why
    BY <1>5, <1>6, <2>1, <2>2 DEF Fills
  <2>4. VerdictHolds(board, before, i, why)
    BY <2>2, VerdictsHold
  <2>5. before \subseteq s.now /\ IsFiniteSet(s.now)
    <3>1. k - 1 \in 0 .. n
      OBVIOUS
    <3>2. before \subseteq s.now
      BY <1>2, <1>5, <1>6, <2>2, <3>1, NowGrows
    <3>3. IsFiniteSet(Open(board))
      <4>1. Open(board) \in SUBSET Ids
        BY DEF Open, Ids
      <4> QED
        BY <4>1, FS_Subset DEF BoardTypes
    <3> QED
      BY <1>8, <3>2, <3>3, FS_Subset
  <2>6. s.reason[i] = "wip_full" => Cardinality(s.now) >= MaxNow
    <3>1. Cardinality(before) <= Cardinality(s.now) /\ Cardinality(before) \in Nat /\ Cardinality(s.now) \in Nat
      <4>1. PICK taken : taken = s.now
        OBVIOUS
      <4>2. IsFiniteSet(taken) /\ before \in SUBSET taken
        BY <2>5, <4>1
      <4>3. IsFiniteSet(before) /\ Cardinality(before) <= Cardinality(taken)
        BY <4>2, FS_Subset
      <4> QED
        BY <4>1, <4>2, <4>3, FS_CardinalityType
    <3> QED
      BY <2>3, <2>4, <3>1, ScoringAssumption DEF VerdictHolds
  <2>7. s.reason[i] = "area_at_cap" =>
           Cardinality(InArea(board, s.now, board[i].area)) >= MaxNowPerArea
    <3>1. PICK S, T : S = InArea(board, before, board[i].area) /\ T = InArea(board, s.now, board[i].area)
      OBVIOUS
    <3>2. S \in SUBSET T /\ T \in SUBSET s.now
      BY <2>5, <3>1 DEF InArea
    <3>3. IsFiniteSet(T)
      BY <2>5, <3>2, FS_Subset
    <3>4. IsFiniteSet(S) /\ Cardinality(S) <= Cardinality(T)
      BY <3>2, <3>3, FS_Subset
    <3>5. Cardinality(S) \in Nat /\ Cardinality(T) \in Nat
      BY <3>3, <3>4, FS_CardinalityType
    <3> QED
      BY <2>3, <2>4, <3>1, <3>4, <3>5, ScoringAssumption DEF VerdictHolds
  <2>8. s.reason[i] = "selected" =>
                   /\ Cardinality(s.now) <= MaxNow
                   /\ Cardinality(InArea(board, s.now, board[i].area)) <= MaxNowPerArea
    BY <1>2, <1>5, <1>6, <2>1, LimitsKeep
  <2> QED
    BY <2>6, <2>7, <2>8
<1>f. Stands(s, again)
  BY <1>d, <1>e DEF Stands, Agree
<1> QED
  BY <1>3, <1>7, <1>a, <1>f DEF SelectionStands

\* The set a review is shown stands: every reason given holds of it, and accepted
\* as it is it frees nobody and proposes nothing more.
THEOREM ProposalsStand == BoardSpec => []SelectionStands
<1>1. BoardTypes /\ DoneTypes => SelectionStands
  BY SelectionStandsHere
<1> QED
  BY <1>1, BoardTypesHold, DoneTypesHold, PTL
=============================================================================
