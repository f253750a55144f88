---------------------------- MODULE AccountProofs ----------------------------
(***************************************************************************)
(* Proofs about Account, for any number of requests, any claims, settings  *)
(* and patches.                                                            *)
(***************************************************************************)
EXTENDS Account, TLAPS

InvA == TypeOK /\ AccountInv /\ PatchesKept

\* TypeOK in parts, by who writes them.
TimeOK    == issued \in Versions /\ oldest \in Versions
CacheOK   == seen \in Entry \cup {NoEntry} /\ fresh \in BOOLEAN
HistoryOK == chosen \in Settings /\ outdated \subseteq Requests /\ lost \in BOOLEAN
RequestsOK ==
  /\ pc \in [Requests -> {"idle", "check", "upsert", "store", "read", "update", "load"}]
  /\ token \in [Requests -> Versions]
  /\ patch \in [Requests -> Patches \cup {NoPatch}]
  /\ cur \in [Requests -> Settings]

LEMMA TypeParts ==
  /\ TypeOK <=> TimeOK /\ row \in Row \cup {NoRow} /\ CacheOK /\ HistoryOK /\ RequestsOK
  /\ TypeOK' <=> TimeOK' /\ row' \in Row \cup {NoRow} /\ CacheOK' /\ HistoryOK' /\ RequestsOK'
BY DEF TypeOK, TimeOK, CacheOK, HistoryOK, RequestsOK

LEMMA NoSettingsType == NoSettings \in Settings
BY DEF NoSettings, Settings

LEMMA OneIsAVersion == 1 \in Versions
BY AccountAssumption DEF Versions

\* The claims of a token have their types.
LEMMA ClaimsType ==
  ASSUME NEW v \in Versions
  PROVE  /\ Claims[v].email \in Emails \cup {Null}
         /\ Claims[v].name \in Values \cup {Null}
         /\ Claims[v].role \in Roles
BY AccountAssumption DEF AccountAssumption, Versions

\* A valid patch gives settings.
LEMMA MergedType ==
  ASSUME NEW s \in Settings, NEW p \in Patches, IsValid(p)
  PROVE  Merged(s, p) \in Settings
<1>1. PICK F \in SUBSET Fields : p \in [F -> Values \cup {Null, Bad}]
  BY AccountAssumption DEF AccountAssumption
<1>2. ASSUME NEW f \in DOMAIN p PROVE p[f] \in Values \cup {Null}
  BY <1>1, <1>2 DEF IsValid
<1> QED BY <1>2 DEF Merged, Settings

\* The upsert makes a row of the claims, or of a row and the claims, and leaves the
\* settings as chosen.
LEMMA UpsertedType ==
  ASSUME NEW v \in Versions
  PROVE  /\ NewRow(Claims[v]) \in Row
         /\ \A old \in Row : Filled(old, Claims[v]) \in Row
<1>1. [NoSettings EXCEPT ![DisplayName] = Claims[v].name] \in Settings
  BY NoSettingsType, ClaimsType DEF Settings
<1>2. ASSUME NEW old \in Row
      PROVE  [old.settings EXCEPT ![DisplayName] = Coalesce(@, Claims[v].name)] \in Settings
  <2>1. old.settings \in Settings
    BY DEF Row
  <2> QED BY <2>1, ClaimsType DEF Settings, Coalesce
<1>3. ASSUME NEW old \in Row PROVE Coalesce(Claims[v].email, old.email) \in Emails \cup {Null}
  BY ClaimsType DEF Row, Coalesce
<1>4. NewRow(Claims[v]) \in Row
  BY <1>1, ClaimsType DEF NewRow, Row
<1>5. ASSUME NEW old \in Row PROVE Filled(old, Claims[v]) \in Row
  BY <1>2, <1>3, ClaimsType DEF Filled, Row
<1> QED BY <1>4, <1>5

LEMMA UpsertedAsChosen ==
  ASSUME NEW c
  PROVE  /\ chosen = NoSettings => AsChosen(NewRow(c).settings)
         /\ \A old \in Row : AsChosen(old.settings) => AsChosen(Filled(old, c).settings)
<1>1. ASSUME chosen = NoSettings PROVE AsChosen(NewRow(c).settings)
  BY <1>1 DEF AsChosen, NewRow, NoSettings
<1>2. ASSUME NEW old \in Row, AsChosen(old.settings) PROVE AsChosen(Filled(old, c).settings)
  BY <1>2 DEF AsChosen, Filled, Row, Settings, Coalesce
<1> QED BY <1>1, <1>2

-----------------------------------------------------------------------------
(* Types. *)

LEMMA HandlerType == \A r \in Requests : Handler(r) \in {"load", "read"}
BY DEF Handler

LEMMA EndType ==
  ASSUME TypeOK, NEW r \in Requests, End(r)
  PROVE  RequestsOK' /\ outdated' \subseteq Requests
BY TypeParts, NoSettingsType, OneIsAVersion DEF End, RequestsOK, HistoryOK

\* What UpdateMe writes.
LEMMA UpdatedType ==
  ASSUME TypeOK, AccountInv, NEW r \in Requests, UpdateUserSettings(r)
  PROVE  /\ Merged(cur[r], patch[r]) \in Settings /\ Merged(chosen, patch[r]) \in Settings
         /\ row \in Row /\ row' \in Row
         /\ row'.settings = Merged(cur[r], patch[r])
<1> USE TypeParts
<1>1. patch[r] \in Patches /\ IsValid(patch[r])
  BY DEF UpdateUserSettings, AccountInv, PatchesRun, RequestsOK
<1>2. Merged(cur[r], patch[r]) \in Settings /\ Merged(chosen, patch[r]) \in Settings
  BY <1>1, MergedType DEF RequestsOK, HistoryOK
<1>3. row \in Row
  BY DEF UpdateUserSettings, AccountInv, KnownHasRow
<1> QED BY <1>2, <1>3 DEF UpdateUserSettings, Row

LEMMA RowIsARow == \A x \in Row : x # NoRow
BY AccountAssumption DEF AccountAssumption, Row, Settings

LEMMA TypeStep ==
  ASSUME TypeOK, AccountInv, [Next]_vars
  PROVE  TypeOK'
<1> USE TypeParts
<1>1. CASE Change \/ Expire
  BY <1>1, AccountAssumption
     DEF Change, Expire, TimeOK, CacheOK, HistoryOK, RequestsOK, cacheVars, historyVars,
         Versions
<1>2. CASE Age
  BY <1>2 DEF Age, TimeOK, CacheOK, HistoryOK, RequestsOK, keycloakVars, historyVars
<1>3. CASE Restart
  BY <1>3, NoSettingsType, OneIsAVersion
     DEF Restart, TimeOK, CacheOK, HistoryOK, RequestsOK, keycloakVars
<1>4. ASSUME NEW r \in Requests, Arrive(r) PROVE TypeOK'
  <2>1. \A v \in oldest..issued : v \in Versions
    BY AccountAssumption DEF AccountAssumption, TimeOK, Versions
  <2> QED
    BY <1>4, <2>1
       DEF Arrive, TimeOK, CacheOK, HistoryOK, RequestsOK, keycloakVars, cacheVars, historyVars
<1>5. ASSUME NEW r \in Requests, CheckCache(r) PROVE TypeOK'
  BY <1>5, HandlerType
     DEF CheckCache, TimeOK, CacheOK, HistoryOK, RequestsOK, keycloakVars, cacheVars, historyVars
<1>6. ASSUME NEW r \in Requests, UpsertUserFromToken(r) PROVE TypeOK'
  <2>1. row' \in Row
    BY <1>6, UpsertedType DEF UpsertUserFromToken, RequestsOK
  <2> QED
    BY <1>6, <2>1
       DEF UpsertUserFromToken, TimeOK, CacheOK, HistoryOK, RequestsOK, keycloakVars,
           cacheVars, historyVars
<1>7. ASSUME NEW r \in Requests, StoreEntry(r) PROVE TypeOK'
  <2>1. EntryOf(Claims[token[r]]) \in Entry
    BY ClaimsType DEF RequestsOK, EntryOf, Entry
  <2> QED
    BY <1>7, <2>1, HandlerType
       DEF StoreEntry, TimeOK, CacheOK, HistoryOK, RequestsOK, keycloakVars, historyVars
<1>8. ASSUME NEW r \in Requests, GetUser(r) PROVE TypeOK'
  <2>1. row.settings \in Settings
    BY <1>8 DEF GetUser, Row
  <2> QED
    BY <1>8, <2>1
       DEF GetUser, TimeOK, CacheOK, HistoryOK, RequestsOK, keycloakVars, cacheVars, historyVars
<1>9. ASSUME NEW r \in Requests, Reject(r) \/ LoadMe(r) \/ Fail(r) PROVE TypeOK'
  <2>1. End(r) /\ UNCHANGED <<keycloakVars, row, cacheVars, chosen, lost>>
    BY <1>9 DEF Reject, LoadMe, Fail
  <2>2. RequestsOK' /\ outdated' \subseteq Requests
    BY <2>1, EndType
  <2> QED BY <2>1, <2>2 DEF TimeOK, CacheOK, HistoryOK, keycloakVars, cacheVars
<1>10. ASSUME NEW r \in Requests, UpdateUserSettings(r) PROVE TypeOK'
  <2>1. RequestsOK'
    BY <1>10, NoSettingsType DEF UpdateUserSettings, RequestsOK
  <2>2. TimeOK' /\ CacheOK' /\ HistoryOK'
    BY <1>10, UpdatedType
       DEF UpdateUserSettings, TimeOK, CacheOK, HistoryOK, keycloakVars, cacheVars
  <2> QED BY <1>10, <2>1, <2>2, UpdatedType
<1>11. CASE UNCHANGED vars
  BY <1>11 DEF vars, TimeOK, CacheOK, HistoryOK, RequestsOK
<1> QED
  BY <1>1, <1>2, <1>3, <1>4, <1>5, <1>6, <1>7, <1>8, <1>9, <1>10, <1>11
     DEF Next, EnsureUser, UpdateMe

-----------------------------------------------------------------------------
(* The invariant. *)

LEMMA InitInv == Init => InvA
<1> SUFFICES ASSUME Init PROVE InvA
  OBVIOUS
<1>1. TypeOK
  BY TypeParts, NoSettingsType, OneIsAVersion
     DEF Init, TimeOK, CacheOK, HistoryOK, RequestsOK
<1>2. AccountInv /\ PatchesKept
  BY DEF Init, AccountInv, KnownHasRow, ReadsKept, PatchesRun, PatchesKept
<1> QED BY <1>1, <1>2 DEF InvA

\* A row is there before anyone knows it, and stays.
LEMMA KnownStep ==
  ASSUME TypeOK, AccountInv, [Next]_vars
  PROVE  KnownHasRow'
<1> USE TypeParts DEF AccountInv, KnownHasRow, RequestsOK
<1>1. CASE Change \/ Expire \/ Age
  BY <1>1 DEF Change, Expire, Age, keycloakVars, cacheVars, historyVars
<1>2. CASE Restart
  BY <1>2 DEF Restart
<1>3. ASSUME NEW r \in Requests, Arrive(r) PROVE KnownHasRow'
  BY <1>3 DEF Arrive, cacheVars
<1>4. ASSUME NEW r \in Requests, CheckCache(r) PROVE KnownHasRow'
  <2>1. Hit(Claims[token[r]]) => row # NoRow
    BY AccountAssumption, ClaimsType DEF AccountAssumption, Hit, EntryOf, Entry
  <2> QED BY <1>4, <2>1 DEF CheckCache, Handler, cacheVars
<1>5. ASSUME NEW r \in Requests, UpsertUserFromToken(r) PROVE KnownHasRow'
  <2>1. row' \in Row
    BY <1>5, UpsertedType DEF UpsertUserFromToken
  <2> QED BY <2>1, RowIsARow
<1>6. ASSUME NEW r \in Requests, StoreEntry(r) PROVE KnownHasRow'
  BY <1>6 DEF StoreEntry
<1>7. ASSUME NEW r \in Requests, GetUser(r) PROVE KnownHasRow'
  BY <1>7 DEF GetUser, cacheVars
<1>8. ASSUME NEW r \in Requests, Reject(r) \/ LoadMe(r) \/ Fail(r) PROVE KnownHasRow'
  BY <1>8 DEF Reject, LoadMe, Fail, End, cacheVars
<1>9. ASSUME NEW r \in Requests, UpdateUserSettings(r) PROVE KnownHasRow'
  BY <1>9, UpdatedType, RowIsARow
<1>10. CASE UNCHANGED vars
  BY <1>10 DEF vars
<1> QED
  BY <1>1, <1>2, <1>3, <1>4, <1>5, <1>6, <1>7, <1>8, <1>9, <1>10
     DEF Next, EnsureUser, UpdateMe

LEMMA PatchesRunStep ==
  ASSUME TypeOK, AccountInv, [Next]_vars
  PROVE  PatchesRun'
<1> USE TypeParts DEF AccountInv, PatchesRun, RequestsOK
<1>1. CASE Change \/ Expire \/ Age
  BY <1>1 DEF Change, Expire, Age, keycloakVars, cacheVars, historyVars
<1>2. CASE Restart
  BY <1>2 DEF Restart
<1>3. ASSUME NEW r \in Requests, Arrive(r) PROVE PatchesRun'
  BY <1>3 DEF Arrive, historyVars
<1>4. ASSUME NEW r \in Requests, CheckCache(r) \/ StoreEntry(r) PROVE PatchesRun'
  BY <1>4 DEF CheckCache, StoreEntry, Handler, historyVars
<1>5. ASSUME NEW r \in Requests, UpsertUserFromToken(r) PROVE PatchesRun'
  <2>1. row' \in Row
    BY <1>5, UpsertedType DEF UpsertUserFromToken
  <2> QED BY <1>5, <2>1, RowIsARow DEF UpsertUserFromToken
<1>6. ASSUME NEW r \in Requests, GetUser(r) PROVE PatchesRun'
  BY <1>6 DEF GetUser, historyVars
<1>7. ASSUME NEW r \in Requests, Reject(r) \/ LoadMe(r) \/ Fail(r) PROVE PatchesRun'
  BY <1>7 DEF Reject, LoadMe, Fail, End
<1>8. ASSUME NEW r \in Requests, UpdateUserSettings(r) PROVE PatchesRun'
  <2>1. row' # NoRow
    BY <1>8, UpdatedType, RowIsARow
  <2> QED BY <1>8, <2>1 DEF UpdateUserSettings
<1>9. CASE UNCHANGED vars
  BY <1>9 DEF vars
<1> QED
  BY <1>1, <1>2, <1>3, <1>4, <1>5, <1>6, <1>7, <1>8, <1>9 DEF Next, EnsureUser, UpdateMe

\* A request reads settings as they were chosen, and another's PATCH marks it as outdated.
LEMMA ReadsKeptStep ==
  ASSUME TypeOK, AccountInv, PatchesKept, [Next]_vars
  PROVE  ReadsKept'
<1> USE TypeParts DEF AccountInv, ReadsKept, RequestsOK
<1>1. CASE Change \/ Expire \/ Age
  BY <1>1 DEF Change, Expire, Age, keycloakVars, cacheVars, historyVars, AsChosen
<1>2. CASE Restart
  BY <1>2 DEF Restart
<1>3. ASSUME NEW r \in Requests,
             Arrive(r) \/ CheckCache(r) \/ UpsertUserFromToken(r) \/ StoreEntry(r)
      PROVE  ReadsKept'
  BY <1>3
     DEF Arrive, CheckCache, UpsertUserFromToken, StoreEntry, Handler, historyVars, AsChosen
<1>4. ASSUME NEW r \in Requests, GetUser(r) PROVE ReadsKept'
  BY <1>4 DEF GetUser, historyVars, PatchesKept, AsChosen
<1>5. ASSUME NEW r \in Requests, Reject(r) \/ LoadMe(r) \/ Fail(r) PROVE ReadsKept'
  BY <1>5 DEF Reject, LoadMe, Fail, End, AsChosen
<1>6. ASSUME NEW r \in Requests, UpdateUserSettings(r) PROVE ReadsKept'
  <2>1. \A q \in Requests : pc'[q] = "update" => q \in outdated'
    BY <1>6 DEF UpdateUserSettings
  <2> QED BY <2>1
<1>7. CASE UNCHANGED vars
  BY <1>7 DEF vars, AsChosen
<1> QED
  BY <1>1, <1>2, <1>3, <1>4, <1>5, <1>6, <1>7 DEF Next, EnsureUser, UpdateMe

LEMMA PatchesKeptStep ==
  ASSUME TypeOK, AccountInv, PatchesKept, [Next]_vars
  PROVE  PatchesKept'
<1> USE DEF PatchesKept
<1>1. ASSUME UNCHANGED <<row, chosen, lost>> PROVE PatchesKept'
  BY <1>1 DEF AsChosen
<1>2. ASSUME NEW r \in Requests, UpsertUserFromToken(r) PROVE PatchesKept'
  <2>1. row # NoRow => row \in Row
    BY TypeParts
  <2>2. ~lost => AsChosen(row'.settings)
    BY <1>2, <2>1, UpsertedAsChosen DEF UpsertUserFromToken, AccountInv, PatchesRun
  <2> QED BY <1>2, <2>2 DEF UpsertUserFromToken, historyVars, AsChosen
<1>3. ASSUME NEW r \in Requests, UpdateUserSettings(r) PROVE PatchesKept'
  <2>1. ASSUME ~lost' PROVE AsChosen(cur[r]) /\ cur[r] \in Settings
    BY <1>3, <2>1, TypeParts DEF UpdateUserSettings, AccountInv, ReadsKept, RequestsOK
  <2>2. row'.settings = Merged(cur[r], patch[r]) /\ chosen' = Merged(chosen, patch[r])
    BY <1>3, UpdatedType DEF UpdateUserSettings
  <2> QED BY <2>1, <2>2 DEF AsChosen, Merged
<1> QED
  BY <1>1, <1>2, <1>3
     DEF Next, EnsureUser, UpdateMe, Change, Expire, Age, Restart, Arrive, CheckCache,
         StoreEntry, GetUser, Reject, LoadMe, Fail, vars, historyVars

-----------------------------------------------------------------------------
(* The theorems. *)

LEMMA InvIsInvariant == Spec => []InvA
<1>1. InvA /\ [Next]_vars => InvA'
  BY TypeStep, KnownStep, PatchesRunStep, ReadsKeptStep, PatchesKeptStep DEF InvA, AccountInv
<1> QED BY InitInv, <1>1, PTL DEF Spec

\* Every variable keeps its type: whatever requests overlap or die, UpdateMe writes only
\* values that it accepted.
THEOREM AccountTypeCorrect == Spec => []TypeOK
<1>1. InvA => TypeOK
  BY DEF InvA
<1> QED BY InvIsInvariant, <1>1, PTL

\* No request that ensureUser lets through, from the cache or not, finds the user
\* missing, although upserts fail after the cache was read and the API restarts.
THEOREM NoUserMissing == Spec => []AccountInv
<1>1. InvA => AccountInv
  BY DEF InvA
<1> QED BY InvIsInvariant, <1>1, PTL

\* Settings, the display name among them, are what the user last chose as long as no
\* PATCH overtakes another, whatever the tokens of the user's requests say.
THEOREM ChoicesKept == Spec => []PatchesKept
<1>1. InvA => PatchesKept
  BY DEF InvA
<1> QED BY InvIsInvariant, <1>1, PTL
=============================================================================
