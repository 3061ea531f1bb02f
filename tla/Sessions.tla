------------------------------- MODULE Sessions -------------------------------
(***************************************************************************)
(* sessions::middleware and its MemoryStore, run by requests on several    *)
(* worker threads.  A request opens a session from the credential it       *)
(* brings, its handler works on that copy, and what follows next() writes  *)
(* it back: the store is locked for one call at a time, never from the     *)
(* load to the save.                                                       *)
(*                                                                         *)
(* A credential is what a signed cookie or a JWT says once its signature   *)
(* has been verified; signatures are taken to be unforgeable and ids drawn *)
(* at random never to collide.                                             *)
(***************************************************************************)
EXTENDS Integers, FiniteSets

CONSTANTS
  Reqs,         (* requests                                                *)
  Ids,          (* session ids, positive numbers                           *)
  Keys,         (* what a handler keeps in a session                       *)
  User,         (* the key that says who has logged in                     *)
  Confs,        (* the Options a server may have been started with         *)
  NoCred,       (* a request that brings no credential                     *)
  BadCred,      (* one whose signature does not verify                     *)
  TTL,          (* Options::ttl, in ticks                                  *)
  PruneAt,      (* entries from which a save drops the expired ones        *)
  MaxOps,       (* bound: calls of one handler on its session              *)
  MaxClock      (* bound: ticks                                            *)

Strategies == {"ServerStore", "SignedCookie", "JWT"}
Transports == {"Cookie", "Bearer", "Both"}
Options == [strategy : Strategies, transport : Transports,
            rolling : BOOLEAN, saveUninitialized : BOOLEAN]

ASSUME SessionsAssumption ==
  /\ Ids \subseteq Nat \ {0}
  /\ User \in Keys
  /\ Confs \subseteq Options
  /\ NoCred # BadCred
  /\ TTL \in Nat \ {0} /\ PruneAt \in Nat /\ MaxOps \in Nat /\ MaxClock \in Nat

VARIABLES
  conf,         (* the Options of this server                              *)
  clock,        (* now                                                     *)
  store,        (* MemoryStore::entries_: per id the data and its expiry   *)
  phase,        (* how far a request has come                              *)
  sess,         (* the Session it works on                                 *)
  \* history
  brought,      (* the credential a request opened its session from        *)
  alone,        (* no other request has had its session since it loaded it *)
  before,       (* what was promised of that credential when it came       *)
  issued,       (* credentials sent to clients                             *)
  guest,        (* those of them first issued when nobody had logged in    *)
  kept,         (* promises: credential, data it opens, until when         *)
  gone,         (* credentials destroyed or replaced                       *)
  used          (* when a request last had the session of an id            *)

server  == <<conf, store>>
request == <<phase, sess>>
history == <<brought, alone, before, issued, guest, kept, gone, used>>
vars == <<conf, clock, store, phase, sess, history>>

NoId == 0
Absent == [data |-> {}, expires |-> 0]     (* no entry: expired since ever *)
Credential == [id : Ids \cup {NoId}, data : SUBSET Keys, exp : 0..(MaxClock + TTL)]

ASSUME CredentialAssumption == NoCred \notin Credential /\ BadCred \notin Credential

NoSession == [id |-> NoId, data |-> {}, isNew |-> TRUE, dirty |-> FALSE,
              touched |-> FALSE, destroyed |-> FALSE, regenerated |-> FALSE]

Active == {r \in Reqs : phase[r] \in {"handler", "save"}}
UsedIds == {c.id : c \in issued} \cup {sess[r].id : r \in Active}

(* new_id_() draws an id no one has. *)
NewId == CHOOSE i \in Ids \ UsedIds : \A j \in Ids \ UsedIds : i <= j

Init ==
  /\ conf \in Confs
  /\ clock = 0
  /\ store = [i \in Ids |-> Absent]
  /\ phase = [r \in Reqs |-> "new"] /\ sess = [r \in Reqs |-> NoSession]
  /\ brought = [r \in Reqs |-> NoCred] /\ alone = [r \in Reqs |-> FALSE]
  /\ before = [r \in Reqs |-> {}]
  /\ issued = {} /\ guest = {} /\ kept = {} /\ gone = {}
  /\ used = [i \in Ids \cup {NoId} |-> 0]

-----------------------------------------------------------------------------
(* MemoryStore::load, which drops the entry it finds expired. *)
LiveAnyway(i) == store[i] # Absent

Live(i) == store[i].expires > clock

AfterLoad(i) == IF Live(i) THEN store ELSE [store EXCEPT ![i] = Absent]

(* MemoryStore::prune_locked_ *)
Pruned == IF Cardinality({i \in Ids : store[i] # Absent}) < PruneAt THEN store
          ELSE [i \in Ids |-> IF Live(i) THEN store[i] ELSE Absent]

(* MemoryStore::save *)
SavedMillis(i, data) == [Pruned EXCEPT ![i] = [data |-> data, expires |-> clock + 1000 * TTL]]

Saved(i, data) == [Pruned EXCEPT ![i] = [data |-> data, expires |-> clock + TTL]]

(* MemoryStore::destroy *)
Dropped(i) == [store EXCEPT ![i] = Absent]

-----------------------------------------------------------------------------
(* The token the middleware looks at: a Bearer token that is there wins,   *)
(* valid or not.                                                           *)
TokenOf(cookie, bearer) ==
  IF conf.strategy # "JWT" THEN cookie
  ELSE IF conf.transport \in {"Bearer", "Both"} /\ bearer # NoCred THEN bearer
  ELSE IF conf.transport \in {"Cookie", "Both"} THEN cookie ELSE NoCred

(* verify_id_cookie_ and load; unseal_payload_, which knows of no expiry;  *)
(* jwt::decode.                                                            *)
Opens(c) ==
  /\ c \notin {NoCred, BadCred}
  /\ conf.strategy = "ServerStore" => Live(c.id)
  /\ conf.strategy = "JWT" => clock < c.exp

DataOf(c) == IF ~Opens(c) THEN {}
             ELSE IF conf.strategy = "ServerStore" THEN store[c.id].data ELSE c.data

(* The session a credential opens; without one, a new and empty one.  The  *)
(* id of a SignedCookie session is drawn anew each time and never used.    *)
Opened(c) ==
  [NoSession EXCEPT
     !.isNew = ~Opens(c),
     !.data = DataOf(c),
     !.id = IF conf.strategy = "SignedCookie" THEN NoId
            ELSE IF Opens(c) /\ c.id # NoId THEN c.id ELSE NewId]

NeedsId(c) == conf.strategy # "SignedCookie" /\ (~Opens(c) \/ c.id = NoId)

(* A request comes with what its client has, which may be an old           *)
(* credential, and its session is loaded.                                  *)
Load(r) ==
  /\ phase[r] = "new"
  /\ \E cookie, bearer \in issued \cup {NoCred, BadCred} :
       /\ (conf.strategy # "JWT" \/ conf.transport = "Cookie") => bearer = NoCred
       /\ conf.strategy = "JWT" /\ conf.transport = "Bearer" => cookie = NoCred
       /\ LET c == TokenOf(cookie, bearer)
              s == Opened(c)
              shared == {q \in Active : sess[q].id = s.id}
          IN /\ NeedsId(c) => Ids \ UsedIds # {}
             /\ sess' = [sess EXCEPT ![r] = s]
             /\ store' = IF conf.strategy = "ServerStore" /\ c \notin {NoCred, BadCred}
                         THEN AfterLoad(c.id) ELSE store
             /\ brought' = [brought EXCEPT ![r] = c]
             /\ alone' = [q \in Reqs |-> IF q = r THEN shared = {} ELSE
                                         IF q \in shared THEN FALSE ELSE alone[q]]
             /\ before' = [before EXCEPT ![r] = {p \in kept : p.cred = c /\ Opens(c)}]
             /\ kept' = {p \in kept : p.cred = c => ~Opens(c)}
             /\ used' = [used EXCEPT ![s.id] = clock]
  /\ phase' = [phase EXCEPT ![r] = "handler"]
  /\ UNCHANGED <<conf, clock, issued, guest, gone>>

(* An application hands out a JWT of its own, with jwt::encode: flat       *)
(* claims, no jti.                                                         *)
IssueFlat ==
  /\ conf.strategy = "JWT" /\ issued = {}
  /\ \E data \in SUBSET (Keys \ {User}) :
       LET c == [id |-> NoId, data |-> data, exp |-> clock + TTL]
       IN issued' = {c} /\ guest' = {c}
  /\ used' = [used EXCEPT ![NoId] = clock]
  /\ UNCHANGED <<server, clock, request, brought, alone, before, kept, gone>>

-----------------------------------------------------------------------------
(* What one call of a handler makes of its session.  "Call on login to      *)
(* prevent session fixation": a login regenerates, then says who it is.    *)
Erased(s, k) == [s EXCEPT !.data = @ \ {k}, !.dirty = @ \/ k \in s.data]

Regenerate(s) == [s EXCEPT !.regenerated = TRUE, !.dirty = TRUE, !.touched = TRUE, !.isNew = TRUE]

CallsOn(s) ==
  {[s EXCEPT !.data = @ \cup {k}, !.dirty = TRUE] : k \in Keys \ {User}}         \* set
  \cup {Erased(s, k) : k \in Keys}                                               \* erase
  \cup {[s EXCEPT !.data = {}, !.dirty = @ \/ s.data # {}]}                       \* clear
  \cup {[s EXCEPT !.touched = TRUE], [s EXCEPT !.destroyed = TRUE]}               \* touch, destroy
  \cup {Regenerate(s), [Regenerate(s) EXCEPT !.data = @ \cup {User}]}

(* The sessions a handler may return, after up to MaxOps calls.  The calls *)
(* touch nothing but the request's own copy, so they are made in one step  *)
(* with what follows them.                                                 *)
Handled(r) ==
  LET after[n \in 0..MaxOps] ==
        IF n = 0 THEN {sess[r]}
        ELSE after[n - 1] \cup UNION {CallsOn(s) : s \in after[n - 1]}
  IN after[MaxOps]

-----------------------------------------------------------------------------
(* History: what the client may count on once its request is answered.     *)
(* Nothing when another request had the same session meanwhile.            *)
Undisturbed(r) == alone[r] \/ conf.strategy = "SignedCookie"

Promise(c, data) == [cred |-> c, data |-> data, until |-> clock + TTL]

Finish(r, promises) ==
  /\ phase' = [phase EXCEPT ![r] = "done"]
  /\ kept' = kept \cup (IF Undisturbed(r) THEN promises ELSE {})
  /\ sess' = [sess EXCEPT ![r] = NoSession]
  /\ brought' = [brought EXCEPT ![r] = NoCred] /\ alone' = [alone EXCEPT ![r] = FALSE]
  /\ before' = [before EXCEPT ![r] = {}]
  /\ used' = [used EXCEPT ![sess[r].id] = clock]

Ended(r) == IF Undisturbed(r) /\ ~sess[r].isNew THEN {brought[r]} ELSE {}

(* The handler throws: nothing behind next() runs. *)
Throw(r) ==
  /\ phase[r] = "handler"
  /\ Finish(r, before[r])
  /\ UNCHANGED <<server, clock, issued, guest, gone>>

(* A destroyed session leaves the store, and its cookie is expired. *)
PersistDestroyed(r) ==
  /\ phase[r] = "handler" /\ \E s \in Handled(r) : s.destroyed
  /\ store' = IF conf.strategy = "ServerStore" THEN Dropped(sess[r].id) ELSE store
  /\ gone' = gone \cup Ended(r)
  /\ Finish(r, {})
  /\ UNCHANGED <<conf, clock, issued, guest>>

(* A regenerated session gets its new id, and the old one leaves the store *)
(* before the new one is in it.                                            *)
SameId(r) == sess[r].id

FreshId(r) == NewId

PersistRegenerated(r) ==
  /\ phase[r] = "handler" /\ conf.strategy = "ServerStore"
  /\ Ids \ UsedIds # {}
  /\ \E s \in Handled(r) :
       /\ s.regenerated /\ ~s.destroyed
       /\ sess' = [sess EXCEPT ![r] = [s EXCEPT !.id = FreshId(r)]]
  /\ store' = Dropped(sess[r].id)
  /\ gone' = gone \cup Ended(r)
  /\ alone' = [alone EXCEPT ![r] = TRUE]
  /\ phase' = [phase EXCEPT ![r] = "save"]
  /\ UNCHANGED <<conf, clock, brought, before, issued, guest, kept, used>>

(* should_persist, and the brand-new empty session that is skipped. *)
ShouldPersistUnrolled(s) ==
  /\ \/ s.dirty \/ s.regenerated \/ s.touched
     \/ s.isNew /\ (conf.saveUninitialized \/ s.data # {})
  /\ ~(s.isNew /\ s.data = {} /\ ~conf.saveUninitialized /\ ~s.regenerated)

ShouldPersist(s) ==
  /\ \/ s.dirty \/ s.regenerated \/ s.touched
     \/ conf.rolling /\ ~s.isNew
     \/ s.isNew /\ (conf.saveUninitialized \/ s.data # {})
  /\ ~(s.isNew /\ s.data = {} /\ ~conf.saveUninitialized /\ ~s.regenerated)

(* The sessions that are ready to be saved: the one that has its new id,   *)
(* or what the handler returned when there is no new id to give.           *)
ToPersist(r) ==
  CASE phase[r] = "save"    -> {sess[r]}
    [] phase[r] = "handler" -> {s \in Handled(r) : ~s.destroyed
                                  /\ ~(s.regenerated /\ conf.strategy = "ServerStore")}
    [] OTHER                -> {}

(* sign_id_, seal_payload_, jwt::encode: the credential of a saved session. *)
Sealed(s) ==
  CASE conf.strategy = "ServerStore"  -> [id |-> s.id, data |-> {}, exp |-> 0]
    [] conf.strategy = "SignedCookie" -> [id |-> NoId, data |-> s.data, exp |-> 0]
    [] conf.strategy = "JWT"          -> [id |-> s.id, data |-> s.data, exp |-> clock + TTL]

(* The session is saved and its credential goes out with the response. *)
Persist(r) == \E s \in ToPersist(r) :
  /\ ShouldPersist(s)
  /\ store' = IF conf.strategy = "ServerStore" THEN Saved(s.id, s.data) ELSE store
  /\ LET c == Sealed(s)
     IN /\ issued' = issued \cup {c}
        /\ guest' = guest \cup IF User \in s.data \/ c \in issued THEN {} ELSE {c}
        /\ Finish(r, {Promise(c, s.data)})
  /\ UNCHANGED <<conf, clock, gone>>

(* Nothing changed: the session stays as it was, and expires when it would *)
(* have; a rolling one that was loaded is promised its extension.          *)
PersistNothing(r) == \E s \in ToPersist(r) :
  /\ ~ShouldPersist(s)
  /\ Finish(r, IF conf.rolling /\ ~s.isNew THEN {Promise(brought[r], s.data)}
               ELSE {[p EXCEPT !.data = s.data] : p \in before[r]})
  /\ UNCHANGED <<server, clock, issued, guest, gone>>

Tick ==
  /\ clock < MaxClock
  /\ clock' = clock + 1
  /\ UNCHANGED <<server, request, history>>

Next ==
  \/ Tick \/ IssueFlat
  \/ \E r \in Reqs : \/ Load(r) \/ Throw(r)
                     \/ PersistDestroyed(r) \/ PersistRegenerated(r)
                     \/ Persist(r) \/ PersistNothing(r)

Spec == Init /\ [][Next]_vars

-----------------------------------------------------------------------------
TypeOK ==
  /\ conf \in Confs
  /\ clock \in 0..MaxClock
  /\ store \in [Ids -> [data : SUBSET Keys, expires : 0..(MaxClock + TTL)]]
  /\ phase \in [Reqs -> {"new", "handler", "save", "done"}]
  /\ sess \in [Reqs -> [id : Ids \cup {NoId}, data : SUBSET Keys, isNew : BOOLEAN,
                        dirty : BOOLEAN, touched : BOOLEAN, destroyed : BOOLEAN,
                        regenerated : BOOLEAN]]
  /\ issued \subseteq Credential /\ guest \subseteq issued /\ gone \subseteq issued
  /\ brought \in [Reqs -> issued \cup {NoCred, BadCred}]
  /\ alone \in [Reqs -> BOOLEAN]

(* A credential the server has destroyed or replaced: the store has        *)
(* forgotten its id; a JWT is good until it expires, and a SignedCookie    *)
(* for ever, wherever a copy of it is left.                                *)
OutlivesItsEnd(c) ==
  \/ conf.strategy = "SignedCookie"
  \/ conf.strategy = "JWT" /\ clock < c.exp

(* What a request left in its session is what the next one finds under the *)
(* credential the client then has, for as long as the ttl promises, and no *)
(* longer: one that no request has had for its ttl is not opened again,    *)
(* however lazily the store drops it.  A handler that threw left the       *)
(* session as it was.  The credential of a session that was destroyed      *)
(* opens nothing any more when the sessions are in the store, and neither  *)
(* does the one that regenerate() replaced; of the other strategies        *)
(* destroy() only expires the client's cookie, and a copy of it, or of a   *)
(* JWT, still opens the session, against the comment at sessions.h line 97 *)
(* and API.md line 305, which say that it invalidates the JWT.             *)
(* Only requests that had the session to themselves are promised anything: *)
(* of two that overlap the later save wins whole, and brings back what the *)
(* other destroyed.  (A SignedCookie seals no expiry.)                     *)
KeptPromises ==
  /\ \A p \in kept : clock < p.until => Opens(p.cred) /\ DataOf(p.cred) = p.data
  /\ \A c \in gone : Opens(c) <=> OutlivesItsEnd(c)
  /\ conf.strategy # "SignedCookie" => \A c \in issued : Opens(c) => clock < used[c.id] + TTL

(* No credential given out to a guest ever opens a session somebody has    *)
(* logged in to, whatever requests run beside the login and however old    *)
(* the credentials they bring: what regenerate() is called for.            *)
NoFixation == \A c \in guest : User \notin DataOf(c)
=============================================================================
