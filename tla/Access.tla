-------------------------------- MODULE Access --------------------------------
(***************************************************************************)
(* How the API decides whether a request may run (apps/api/src/auth):      *)
(* tokens whose row is read on every request and whose secret is verified  *)
(* through a cache, and the write switch, of which every replica keeps a   *)
(* copy for a moment.  The rate limiter is a refusal that may come.        *)
(*                                                                         *)
(* Every await of the code is a step boundary here: other requests, other  *)
(* replicas and the clock move between two steps of one request.           *)
(***************************************************************************)
EXTENDS Integers, Sequences, FiniteSets, SequencesExt

CONSTANTS
    Replicas, Requests, Tokens,
    Human,              \* the owner, through the identity provider
    Scopes, WriteScopes, OutwardScopes, HumanOnlyScopes,
    None,
    CacheTtl, CacheMax,             \* the verification cache
    SwitchTtl,                      \* a replica's copy of the switch
    MaxLifetime,                    \* of a token
    LastTick                        \* the bound of the clock

ASSUME ScopeAssumption ==
    /\ OutwardScopes \subseteq WriteScopes
    /\ WriteScopes \subseteq Scopes
    /\ HumanOnlyScopes \subseteq Scopes
    /\ HumanOnlyScopes \cap WriteScopes = {}

\* api_token, but for the name and the hash.
Rows == [granted : SUBSET Scopes, revoked : BOOLEAN, expires : Nat]

ASSUME SpansAssumption ==
    /\ {CacheTtl, MaxLifetime, LastTick} \subseteq Nat
    /\ {CacheMax, SwitchTtl} \subseteq Nat \ {0}
    /\ None \notin Rows

VARIABLES
    clock,
    token,      \* api_token: the row of each token
    switch,     \* write_switch: "off", "outward" or "all"
    cache,      \* per replica: presented tokens verified, oldest first
    view,       \* per replica: its copy of the switch
    setting,    \* per replica: a change of the switch written, not yet copied
    req,        \* the requests under way
    frozen      \* since when the database withholds each scope

vars == <<clock, token, switch, cache, view, setting, req, frozen>>

Presented == [id : Tokens, right : BOOLEAN]

\* One credential: an assertion and an Authorization header are refused unread.
Credentials == Presented \cup {Human}

Positions == {"off", "outward", "all"}

Phases == {"finding", "found", "hashing", "asserting", "switching",
           "read", "allowed", "refused"}

Idle == [phase |-> "refused", at |-> 0, cred |-> None, scope |-> None,
         replica |-> None, row |-> None, since |-> 0, seen |-> None,
         blind |-> FALSE, barred |-> FALSE]

Times == 0 .. LastTick
Entries == [key : Presented, matched : BOOLEAN, at : Times]
Copies == [position : Positions, at : Times]

Inquiries ==
    [phase : Phases, at : Times, cred : Credentials \cup {None}, scope : Scopes \cup {None},
     replica : Replicas \cup {None}, row : Rows \cup {None}, since : Times,
     seen : Positions \cup {None}, blind : BOOLEAN, barred : BOOLEAN]

TypeOK ==
    /\ clock \in Times
    /\ token \in [Tokens -> Rows \cup {None}]
    /\ switch \in Positions
    /\ cache \in [Replicas -> Seq(Entries)]
    /\ view \in [Replicas -> Copies \cup {None}]
    /\ setting \in [Replicas -> Copies \cup {None}]
    /\ req \in [Requests -> Inquiries]
    /\ frozen \in [Scopes -> Times \cup {None}]

\* A replica's cache stays within its size, and holds a credential once.
CacheIsBounded ==
    \A p \in Replicas :
       /\ Len(cache[p]) <= CacheMax
       /\ \A j, k \in DOMAIN cache[p] : cache[p][j].key = cache[p][k].key => j = k

Init ==
    /\ clock = 0
    /\ token = [t \in Tokens |-> None]
    /\ switch = "off"
    /\ cache = [p \in Replicas |-> <<>>]
    /\ view = [p \in Replicas |-> None]
    /\ setting = [p \in Replicas |-> None]
    /\ req = [r \in Requests |-> Idle]
    /\ frozen = [s \in Scopes |-> None]

-----------------------------------------------------------------------------
(* Tokens. *)

\* The row is written once; a person mints, with no scope kept to people.
Issue(t, granted, lifetime) ==
    /\ token[t] = None
    /\ granted # {}
    /\ granted \cap HumanOnlyScopes = {}
    /\ token' = [token EXCEPT ![t] =
          [granted |-> granted, revoked |-> FALSE,
           expires |-> clock + Min({lifetime, MaxLifetime})]]
    /\ UNCHANGED <<clock, switch, cache, view, setting, req, frozen>>

Revoke(T) ==
    /\ T # {}
    /\ \A t \in T : token[t] # None /\ ~token[t].revoked
    /\ token' = [t \in Tokens |-> IF t \in T THEN [token[t] EXCEPT !.revoked = TRUE]
                                             ELSE token[t]]
    /\ UNCHANGED <<clock, switch, cache, view, setting, req, frozen>>

RevokeAll == Revoke({t \in Tokens : token[t] # None /\ ~token[t].revoked})

Hit(p, key) == {k \in DOMAIN cache[p] : cache[p][k].key = key
                                        /\ clock - cache[p][k].at <= CacheTtl}

\* What is past its time is dropped when it is looked up.
LookedUp(p, key) ==
    LET stale == {k \in DOMAIN cache[p] : cache[p][k].key = key
                                          /\ clock - cache[p][k].at > CacheTtl}
    IN IF stale = {} THEN cache[p] ELSE RemoveAt(cache[p], CHOOSE k \in stale : TRUE)

\* The oldest makes room, whether or not the key is there already.
Remembered(p, key, matched, at) ==
    LET room == IF Len(cache[p]) >= CacheMax THEN Tail(cache[p]) ELSE cache[p]
        entry == [key |-> key, matched |-> matched, at |-> at]
        old == {k \in DOMAIN room : room[k].key = key}
    IN IF old = {} THEN Append(room, entry)
       ELSE [k \in DOMAIN room |-> IF k \in old THEN entry ELSE room[k]]

-----------------------------------------------------------------------------
(* The write switch. *)

WithheldScopes(position) ==
    CASE position = "off" -> {}
      [] position = "outward" -> OutwardScopes
      [] position = "all" -> WriteScopes

\* Engaged or released: written to the database, and copied here under the time
\* the request came in when the database answers.
SetSwitch(p, position) ==
    /\ setting[p] = None
    /\ switch' = position
    /\ setting' = [setting EXCEPT ![p] = [position |-> position, at |-> clock]]
    /\ frozen' = [s \in Scopes |->
          IF s \notin WithheldScopes(position) THEN None
          ELSE IF s \in WithheldScopes(switch) THEN frozen[s] ELSE clock]
    /\ UNCHANGED <<clock, token, cache, view, req>>

CopySwitch(p) ==
    /\ setting[p] # None
    /\ view' = [view EXCEPT ![p] = setting[p]]
    /\ setting' = [setting EXCEPT ![p] = None]
    /\ UNCHANGED <<clock, token, switch, cache, req, frozen>>

Fresh(p) == view[p] # None /\ clock - view[p].at < SwitchTtl

-----------------------------------------------------------------------------
(* One request.  What it may do is what its credential holds and the switch *)
(* does not withhold.                                                       *)

Held(r) == IF req[r].cred = Human THEN Scopes ELSE req[r].row.granted

Decided(r, position) ==
    IF req[r].scope \in Held(r) \ WithheldScopes(position) THEN "allowed" ELSE "refused"

\* Answered: nothing of the request is left but its answer.
Answer(r, decision, blind) ==
    req' = [req EXCEPT ![r] = [Idle EXCEPT !.phase = decision, !.blind = blind]]

Refuse(r) == Answer(r, "refused", FALSE)

\* The limiter has its say, then the switch: the copy's while it is fresh.
Proceed(r) ==
    \/ Refuse(r)
    \/ /\ Fresh(req[r].replica)
       /\ Answer(r, Decided(r, view[req[r].replica].position), FALSE)
    \/ /\ ~Fresh(req[r].replica)
       /\ req' = [req EXCEPT ![r].phase = "switching", ![r].at = clock]

\* For the properties: the token was revoked or past its time already.
Barred(cred) ==
    /\ cred \in Presented
    /\ token[cred.id] # None
    /\ token[cred.id].revoked \/ token[cred.id].expires <= clock

Present(r, p, cred, scope) ==
    /\ req[r].phase \in {"refused", "allowed"}
    /\ req' = [req EXCEPT ![r] =
          [Idle EXCEPT !.cred = cred, !.scope = scope, !.replica = p, !.since = clock,
             !.barred = Barred(cred),
             !.phase = IF cred = Human THEN "asserting" ELSE "finding"]]
    /\ UNCHANGED <<clock, token, switch, cache, view, setting, frozen>>

\* The assertion and the origin are good, or they are not.
VerifyAssertion(r) ==
    /\ req[r].phase = "asserting"
    /\ Proceed(r)
    /\ UNCHANGED <<clock, token, switch, cache, view, setting, frozen>>

FindToken(r) ==
    /\ req[r].phase = "finding"
    /\ IF token[req[r].cred.id] = None THEN Refuse(r)
       ELSE req' = [req EXCEPT ![r].row = token[req[r].cred.id], ![r].phase = "found"]
    /\ UNCHANGED <<clock, token, switch, cache, view, setting, frozen>>

\* Mutation of Accepted: the row is not asked whether it was revoked.
AcceptedOnceMatched(row, matched, at) == matched /\ row.expires > at

\* The row's answer counts whether or not the cache spoke for the secret.
Accepted(row, matched, at) == matched /\ ~row.revoked /\ row.expires > at

Verify(r) ==
    LET p == req[r].replica
        hit == Hit(p, req[r].cred)
    IN /\ req[r].phase = "found"
       /\ cache' = [cache EXCEPT ![p] = LookedUp(p, req[r].cred)]
       /\ IF hit = {}
          THEN req' = [req EXCEPT ![r].phase = "hashing", ![r].at = clock]
          ELSE IF \A k \in hit : Accepted(req[r].row, cache[p][k].matched, clock)
          THEN Proceed(r)
          ELSE Refuse(r)
       /\ UNCHANGED <<clock, token, switch, view, setting, frozen>>

Hashed(r) ==
    LET p == req[r].replica
        matched == req[r].cred.right
    IN /\ req[r].phase = "hashing"
       /\ cache' = [cache EXCEPT ![p] = Remembered(p, req[r].cred, matched, req[r].at)]
       /\ IF Accepted(req[r].row, matched, req[r].at) THEN Proceed(r)
          ELSE Refuse(r)
       /\ UNCHANGED <<clock, token, switch, view, setting, frozen>>

ReadSwitch(r) ==
    /\ req[r].phase = "switching"
    /\ req' = [req EXCEPT ![r].phase = "read", ![r].seen = switch]
    /\ UNCHANGED <<clock, token, switch, cache, view, setting, frozen>>

\* Mutation of Settled: the copy is dated when the answer comes.
SettledAtAnswer(r) == [position |-> req[r].seen, at |-> clock]

Settled(r) == [position |-> req[r].seen, at |-> req[r].at]

\* The copy is overwritten, whatever was copied since the question was asked.
SettleSwitch(r) ==
    /\ req[r].phase = "read"
    /\ view' = [view EXCEPT ![req[r].replica] = Settled(r)]
    /\ Answer(r, Decided(r, req[r].seen), FALSE)
    /\ UNCHANGED <<clock, token, switch, cache, setting, frozen>>

\* A switch that cannot be read is as it was last known, however long ago.
SwitchUnread(r) ==
    LET p == req[r].replica
    IN /\ req[r].phase = "switching"
       /\ Answer(r, Decided(r, IF view[p] = None THEN "off" ELSE view[p].position), TRUE)
       /\ UNCHANGED <<clock, token, switch, cache, view, setting, frozen>>

Tick ==
    /\ clock < LastTick
    /\ clock' = clock + 1
    /\ UNCHANGED <<token, switch, cache, view, setting, req, frozen>>

Step(r) == VerifyAssertion(r) \/ FindToken(r) \/ Verify(r) \/ Hashed(r) \/ ReadSwitch(r)
           \/ SettleSwitch(r)

Next ==
    \/ \E r \in Requests, p \in Replicas, cred \in Credentials, s \in Scopes :
          Present(r, p, cred, s)
    \/ \E r \in Requests : Step(r) \/ SwitchUnread(r)
    \/ \E t \in Tokens, granted \in SUBSET Scopes, n \in 1 .. LastTick : Issue(t, granted, n)
    \/ \E t \in Tokens : Revoke({t})
    \/ RevokeAll
    \/ \E p \in Replicas, x \in Positions : SetSwitch(p, x)
    \/ \E p \in Replicas : CopySwitch(p)
    \/ Tick

Spec == Init /\ [][Next]_vars

-----------------------------------------------------------------------------

Allows(r) == req[r].phase # "allowed" /\ req'[r].phase = "allowed"

\* "Immediate: revocation is read from the database on every request"
\* (auth/routes.ts): a request that came in after its token was revoked or had
\* expired is never allowed, whatever the cache of its replica holds, nor one
\* with another secret, nor what its token was not minted with.
RevocationIsImmediate ==
    [][\A r \in Requests : Allows(r) /\ req[r].cred # Human =>
         /\ ~req[r].barred
         /\ req[r].cred.right
         /\ req[r].scope \in token[req[r].cred.id].granted]_vars

\* A freeze is in force everywhere once a replica's copy can be no older: what
\* came in SwitchTtl after its scope was withheld is refused on every replica
\* that can read the switch (auth/write-switch.ts CACHE_TTL_MS), and the copy a
\* slow answer leaves counts from when it was asked for.
FreezeTakesHold ==
    [][\A r \in Requests : Allows(r) /\ ~req'[r].blind =>
         \/ frozen[req[r].scope] = None
         \/ clock < frozen[req[r].scope] + SwitchTtl
         \/ req[r].since < frozen[req[r].scope] + SwitchTtl]_vars
=============================================================================
