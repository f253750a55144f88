------------------------------ MODULE Account ------------------------------
(***************************************************************************)
(* The row of a user in users: every authenticated request first brings it *)
(* up to date with the claims of its token (internal/server/auth.go,       *)
(* authenticate and ensureUser, behind an in-process cache), and           *)
(* PATCH /v1/me (user.go, UpdateMe) reads it, merges the fields of the     *)
(* request and writes them all back. Requests are handled concurrently,    *)
(* with tokens of different age; statements fail, and the API restarts.    *)
(* Rows and cache entries of different users have nothing to do with each  *)
(* other, so there is one user. What a request does after ensureUser, if   *)
(* it is not PATCH /v1/me, is in the other modules.                        *)
(***************************************************************************)
EXTENDS Integers

CONSTANTS
  Requests,       \* as many as are handled at a time
  MaxVersion,     \* bounds the states of the user in Keycloak
  Claims,         \* Claims[v]: what tokens issued in state v say
  Emails, Names, Roles,
  Fields,         \* the settings that a PATCH can change
  DisplayName,    \* the one of them that tokens fill in as well
  Values,         \* values of settings, Names among them
  Patches,        \* bodies of PATCH: some fields, with their new values
  Null,           \* a missing claim, an empty setting
  Bad,            \* a value that UpdateMe refuses
  NoRow, NoEntry, NoPatch

ASSUME AccountAssumption ==
  /\ MaxVersion \in Nat \ {0}
  /\ Claims \in [1..MaxVersion -> [email : Emails \cup {Null}, name : Names \cup {Null},
                                  role : Roles]]
  /\ DisplayName \in Fields /\ Names \subseteq Values
  /\ \A p \in Patches : \E F \in SUBSET Fields : p \in [F -> Values \cup {Null, Bad}]
  /\ Bad \notin Values \cup {Null}
  /\ NoPatch \notin Patches
  /\ NoRow \notin [email : Emails \cup {Null}, role : Roles,
                   settings : [Fields -> Values \cup {Null}]]
  /\ NoEntry \notin [email : Emails \cup {Null}, role : Roles]

Versions == 1..MaxVersion

Settings == [Fields -> Values \cup {Null}]
Row      == [email : Emails \cup {Null}, role : Roles, settings : Settings]
Entry    == [email : Emails \cup {Null}, role : Roles]

NoSettings == [f \in Fields |-> Null]

VARIABLES
  issued,     \* the state of the user in Keycloak
  oldest,     \* of the states whose tokens have not all expired
  row,        \* the user's row
  seen,       \* users.seen: the user's entry, without its time
  fresh,      \* whether the entry is younger than ten minutes
  pc,         \* where each request is
  token,      \* the state its token was issued in
  patch,      \* its body
  cur,        \* the settings that UpdateMe read
  chosen,     \* history: what the user chose last, field by field
  outdated,   \* history: the requests whose cur another PATCH has overtaken
  lost        \* history: whether one of those wrote its settings

vars == <<issued, oldest, row, seen, fresh, pc, token, patch, cur, chosen, outdated, lost>>

keycloakVars == <<issued, oldest>>
cacheVars    == <<seen, fresh>>
historyVars  == <<chosen, outdated, lost>>

TypeOK ==
  /\ issued \in Versions /\ oldest \in Versions
  /\ row \in Row \cup {NoRow}
  /\ seen \in Entry \cup {NoEntry}
  /\ fresh \in BOOLEAN
  /\ pc \in [Requests -> {"idle", "check", "upsert", "store", "read", "update", "load"}]
  /\ token \in [Requests -> Versions]
  /\ patch \in [Requests -> Patches \cup {NoPatch}]
  /\ cur \in [Requests -> Settings]
  /\ chosen \in Settings
  /\ outdated \subseteq Requests
  /\ lost \in BOOLEAN

Init ==
  /\ issued = 1 /\ oldest = 1
  /\ row = NoRow
  /\ seen = NoEntry /\ fresh = FALSE
  /\ pc = [r \in Requests |-> "idle"]
  /\ token = [r \in Requests |-> 1]
  /\ patch = [r \in Requests |-> NoPatch]
  /\ cur = [r \in Requests |-> NoSettings]
  /\ chosen = NoSettings /\ outdated = {} /\ lost = FALSE

-----------------------------------------------------------------------------
(* The user's requests, and time.                                          *)

\* The user's email, name or role changes in Keycloak.
Change ==
  /\ issued + 1 \in Versions
  /\ issued' = issued + 1
  /\ UNCHANGED <<oldest, row, cacheVars, pc, token, patch, cur, historyVars>>

\* The last tokens of a state expire.
Expire ==
  /\ oldest < issued
  /\ oldest' = oldest + 1
  /\ UNCHANGED <<issued, row, cacheVars, pc, token, patch, cur, historyVars>>

\* A request with a valid token: PATCH /v1/me with a body, or any other.
Arrive(r) ==
  /\ pc[r] = "idle"
  /\ pc' = [pc EXCEPT ![r] = "check"]
  /\ \E v \in oldest..issued : token' = [token EXCEPT ![r] = v]
  /\ \E p \in Patches \cup {NoPatch} : patch' = [patch EXCEPT ![r] = p]
  /\ UNCHANGED <<keycloakVars, row, cacheVars, cur, historyVars>>

\* The entry becomes ten minutes old.
Age ==
  /\ fresh
  /\ fresh' = FALSE
  /\ UNCHANGED <<keycloakVars, row, seen, pc, token, patch, cur, historyVars>>

\* Request r is over, and its variables with it.
End(r) ==
  /\ pc' = [pc EXCEPT ![r] = "idle"]
  /\ token' = [token EXCEPT ![r] = 1]
  /\ patch' = [patch EXCEPT ![r] = NoPatch]
  /\ cur' = [cur EXCEPT ![r] = NoSettings]
  /\ outdated' = outdated \ {r}

\* A statement fails: 401 from ensureUser, 500 from UpdateMe.
Fail(r) ==
  /\ pc[r] \in {"upsert", "read", "update", "load"}
  /\ End(r)
  /\ UNCHANGED <<keycloakVars, row, cacheVars, chosen, lost>>

\* The API stops and starts again, with an empty cache.
Restart ==
  /\ seen' = NoEntry /\ fresh' = FALSE
  /\ pc' = [r \in Requests |-> "idle"]
  /\ token' = [r \in Requests |-> 1]
  /\ patch' = [r \in Requests |-> NoPatch]
  /\ cur' = [r \in Requests |-> NoSettings]
  /\ outdated' = {}
  /\ UNCHANGED <<keycloakVars, row, chosen, lost>>

-----------------------------------------------------------------------------
(* ensureUser.                                                             *)

EntryOf(c) == [email |-> c.email, role |-> c.role]

HitForEver(c) == seen = EntryOf(c)
Hit(c) == seen = EntryOf(c) /\ fresh

\* Where a request goes when ensureUser is done with it.
Handler(r) == IF patch[r] = NoPatch THEN "load" ELSE "read"

CheckCacheStoring(r) ==
  /\ pc[r] = "check"
  /\ IF Hit(Claims[token[r]])
       THEN pc' = [pc EXCEPT ![r] = Handler(r)] /\ UNCHANGED cacheVars
       ELSE /\ pc' = [pc EXCEPT ![r] = "upsert"]
            /\ seen' = EntryOf(Claims[token[r]]) /\ fresh' = TRUE
  /\ UNCHANGED <<keycloakVars, row, token, patch, cur, historyVars>>

CheckCache(r) ==
  /\ pc[r] = "check"
  /\ pc' = [pc EXCEPT ![r] = IF Hit(Claims[token[r]]) THEN Handler(r) ELSE "upsert"]
  /\ UNCHANGED <<keycloakVars, row, cacheVars, token, patch, cur, historyVars>>

\* COALESCE(a, b)
Coalesce(a, b) == IF a # Null THEN a ELSE b

\* The row that UpsertUserFromToken inserts, and the one it makes of another.
NewRow(c) ==
  [email |-> c.email, role |-> c.role, settings |-> [NoSettings EXCEPT ![DisplayName] = c.name]]

FilledFromToken(old, c) ==
  [email    |-> Coalesce(c.email, old.email),
   role     |-> c.role,
   settings |-> [old.settings EXCEPT ![DisplayName] = Coalesce(c.name, @)]]
Filled(old, c) ==
  [email    |-> Coalesce(c.email, old.email),
   role     |-> c.role,
   settings |-> [old.settings EXCEPT ![DisplayName] = Coalesce(@, c.name)]]

UpsertUserFromToken(r) ==
  /\ pc[r] = "upsert"
  /\ row' = LET c == Claims[token[r]] IN IF row = NoRow THEN NewRow(c) ELSE Filled(row, c)
  /\ pc' = [pc EXCEPT ![r] = "store"]
  /\ UNCHANGED <<keycloakVars, cacheVars, token, patch, cur, historyVars>>

StoreEntry(r) ==
  /\ pc[r] = "store"
  /\ seen' = EntryOf(Claims[token[r]]) /\ fresh' = TRUE
  /\ pc' = [pc EXCEPT ![r] = Handler(r)]
  /\ UNCHANGED <<keycloakVars, row, token, patch, cur, historyVars>>

-----------------------------------------------------------------------------
(* UpdateMe.                                                               *)

IsValid(p) == \A f \in DOMAIN p : p[f] # Bad

GetUser(r) ==
  /\ pc[r] = "read" /\ row # NoRow
  /\ cur' = [cur EXCEPT ![r] = row.settings]
  /\ pc' = [pc EXCEPT ![r] = "update"]
  /\ UNCHANGED <<keycloakVars, row, cacheVars, token, patch, historyVars>>

\* 400, before anything is written.
Reject(r) ==
  /\ pc[r] = "update" /\ ~IsValid(patch[r])
  /\ End(r)
  /\ UNCHANGED <<keycloakVars, row, cacheVars, chosen, lost>>

Merged(s, p) == [f \in Fields |-> IF f \in DOMAIN p THEN p[f] ELSE s[f]]

UpdateUserSettings(r) ==
  /\ pc[r] = "update" /\ IsValid(patch[r])
  /\ row' = [row EXCEPT !.settings = Merged(cur[r], patch[r])]
  /\ pc' = [pc EXCEPT ![r] = "load"]
  /\ cur' = [cur EXCEPT ![r] = NoSettings]
  /\ chosen' = Merged(chosen, patch[r])
  /\ outdated' = {q \in Requests \ {r} : pc[q] = "update"}
  /\ lost' = (lost \/ r \in outdated)
  /\ UNCHANGED <<keycloakVars, cacheVars, token, patch>>

\* The answer, with the row as loadMe reads it.
LoadMe(r) ==
  /\ pc[r] = "load"
  /\ row # NoRow \/ patch[r] = NoPatch
  /\ End(r)
  /\ UNCHANGED <<keycloakVars, row, cacheVars, chosen, lost>>

-----------------------------------------------------------------------------
EnsureUser(r) == CheckCache(r) \/ UpsertUserFromToken(r) \/ StoreEntry(r)
UpdateMe(r)   == GetUser(r) \/ Reject(r) \/ UpdateUserSettings(r) \/ LoadMe(r)

Next ==
  \/ Change \/ Expire \/ Age \/ Restart
  \/ \E r \in Requests : Arrive(r) \/ EnsureUser(r) \/ UpdateMe(r) \/ Fail(r)

Spec == Init /\ [][Next]_vars

\* Tokens and entries age, the user goes on using the app, handlers run on, and neither
\* failing statements nor restarts keep every request from the row for ever.
Fairness ==
  /\ WF_vars(Expire) /\ WF_vars(Age)
  /\ \A r \in Requests :
       /\ WF_vars(Arrive(r)) /\ WF_vars(EnsureUser(r)) /\ WF_vars(UpdateMe(r))
       /\ SF_vars(CheckCache(r)) /\ SF_vars(UpsertUserFromToken(r))

FairSpec == Spec /\ Fairness

-----------------------------------------------------------------------------
(* What the account promises.                                              *)

\* Settings s are what the user chose, but for a display name left to the tokens.
AsChosen(s) == \A f \in Fields : s[f] = chosen[f] \/ (f = DisplayName /\ chosen[f] = Null)

\* "Only provided fields change" (openapi.yaml:728), and "a display name the user set in
\* the app is never overwritten" by tokens (users.sql:2-3): every setting is what the user
\* last chose for it, as long as no PATCH is written between another's read and write.
PatchesKept == ~lost /\ row # NoRow => AsChosen(row.settings)

\* "Email and role follow Keycloak" (users.sql:2): in the end the row has what the tokens
\* say, however requests with old and new tokens were mixed, although an entry of the cache
\* may then say something that the row does not: it does so for ten minutes.
RoleFollows ==
  <>[](/\ row # NoRow
       /\ row.role = Claims[issued].role
       /\ Claims[issued].email \in {Null, row.email})

-----------------------------------------------------------------------------
(* Why PatchesKept holds, and why no handler finds the user missing.       *)

\* Neither the cache nor a handler knows a user who has no row.
KnownHasRow ==
  /\ seen # NoEntry => row # NoRow
  /\ \A r \in Requests : pc[r] \in {"store", "read", "update", "load"} => row # NoRow

\* A PATCH that none has overtaken has read what the user chose.
ReadsKept ==
  \A r \in Requests : pc[r] = "update" /\ r \notin outdated /\ ~lost => AsChosen(cur[r])

\* Only a PATCH gets to UpdateMe's read and write, and nothing is chosen without a row.
PatchesRun ==
  /\ \A r \in Requests : pc[r] \in {"read", "update"} => patch[r] # NoPatch
  /\ row = NoRow => chosen = NoSettings

\* The inductive invariant of Account.
AccountInv == KnownHasRow /\ ReadsKept /\ PatchesRun
=============================================================================
