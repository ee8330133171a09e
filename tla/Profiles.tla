------------------------------ MODULE Profiles ------------------------------
(***************************************************************************)
(* User service, together with the Auth service whose access tokens it     *)
(* asks for: profiles, seller profiles, addresses, preferences, consents   *)
(* and privacy requests.                                                   *)
(*                                                                         *)
(* No handler locks what it reads.  Every row has a version that the ORM   *)
(* asks for again when it writes (version_id_col), so a row that changed   *)
(* since the request read it makes the commit fail.  As in Auth a request  *)
(* is a step that reads and a step that commits; a commit that the         *)
(* database refuses is an Abandon.  Default addresses are cleared by an    *)
(* UPDATE of its own, whose row locks stay until the commit.               *)
(***************************************************************************)
EXTENDS Auth, FiniteSetsExt

CONSTANTS
  Sellers,         \* users who registered with the seller role
  Slugs,           \* store_slug
  Addresses,
  Keys,            \* values of Idempotency-Key
  Consents,        \* consent types, and channels and categories of notification
  ProfileRequests, \* requests that are under way at once
  MaxWork,         \* bound on rows, changes and requests under way
  None             \* a key that was not used

ASSUME SellersAssumption == Sellers \subseteq Users
ASSUME NoRowAssumption   == None \notin Slugs \union Addresses
ASSUME ConsentsAssumption == "preferences" \notin Consents
ASSUME WorkAssumption    == MaxWork \in Nat

VARIABLES
  profile,  \* buyer_profiles
  store,    \* seller_profiles
  address,  \* addresses
  setting,  \* user_preferences, user_consents and notification_preferences
  privacy,  \* privacy_requests that are open: none is ever closed
  used,     \* idempotency_records: what each key was used for
  edit      \* what each request has read and will write

profileVars == <<profile, store, address, setting, privacy, used, edit>>

Types        == {"shipping", "billing"}
Statuses     == {"active", "deactivated", "deletion_pending"}
PrivacyTypes == {"access", "deletion"}
Settings     == Consents \union {"preferences"}
Versions     == Nat \ {0}

ProfileRows == [version : Versions, complete : BOOLEAN, status : Statuses]
StoreRows   == [version : Versions, slug : Slugs]
AddressRows == [version : Versions, user : Users, type : Types, default : BOOLEAN,
                deleted : BOOLEAN, key : Keys]
SettingRows == [version : Versions, value : BOOLEAN]

NoRow == [version |-> 0]

UserSettings == [Settings -> SettingRows \union {NoRow}]

\* New values for some of the settings.
SettingValues == UNION {[chosen -> BOOLEAN] : chosen \in SUBSET Settings}

Edits == {Idle}
  \union [op : {"profile"}, user : Users, saw : ProfileRows, new : ProfileRows]
  \union [op : {"store"}, user : Users, saw : StoreRows, new : StoreRows]
  \union [op : {"address"}, address : Addresses, saw : AddressRows, new : AddressRows,
          cleared : SUBSET Addresses]
  \union [op : {"new address"}, new : AddressRows, cleared : SUBSET Addresses]
  \union [op : {"settings"}, user : Users, saw : UserSettings, values : SettingValues]
  \union [op : {"privacy"}, user : Users, type : PrivacyTypes, key : Keys, saw : ProfileRows]

ProfilesTypeOK ==
  /\ profile \in [Users -> ProfileRows \union {NoRow}]
  /\ store   \in [Users -> StoreRows \union {NoRow}]
  /\ address \in [Addresses -> AddressRows \union {NoRow}]
  /\ setting \in [Users -> UserSettings]
  /\ privacy \in [Users -> SUBSET PrivacyTypes]
  /\ used    \in [Users -> [address : [Keys -> Addresses \union {None}],
                            privacy : [Keys -> PrivacyTypes \union {None}]]]
  /\ edit    \in [ProfileRequests -> Edits]

-----------------------------------------------------------------------------
Exists(row) == row.version > 0

Active(a) == Exists(address[a]) /\ ~address[a].deleted

DefaultsOf(u, type) == {a \in Addresses :
  Active(a) /\ address[a].user = u /\ address[a].type = type /\ address[a].default}

\* Rows under the lock of an UPDATE of another request.
Cleared(r) == IF edit[r].op \in {"address", "new address"} THEN edit[r].cleared ELSE {}
Locked(r)  == UNION {Cleared(q) : q \in ProfileRequests \ {r}}

\* Mutant: the row is written whatever its version is.
AnyVersion(row, saw) == TRUE

\* The ORM finds the row under the version it read.
SameVersion(row, saw) == row.version = saw.version

NextVersion(row) == [row EXCEPT !.version = @ + 1]

Store(row, saw, new) == Flush(row, saw, [new EXCEPT !.version = saw.version + 1])

Begins(r, e) ==
  /\ edit[r] = Idle
  /\ edit' = [edit EXCEPT ![r] = e]

Done(r) == edit' = [edit EXCEPT ![r] = Idle]

Member(u) == u \in access /\ Exists(profile[u])

\* A change to the profile row that will be tried.
Change(r, u, new) ==
  /\ Begins(r, [op |-> "profile", user |-> u, saw |-> profile[u], new |-> new])
  /\ UNCHANGED <<profile, store, address, setting, privacy, used>>

-----------------------------------------------------------------------------
ProfilesInit ==
  /\ profile = [u \in Users |-> NoRow]
  /\ store   = [u \in Users |-> NoRow]
  /\ address = [a \in Addresses |-> NoRow]
  /\ setting = [u \in Users |-> [s \in Settings |-> NoRow]]
  /\ privacy = [u \in Users |-> {}]
  /\ used    = [u \in Users |-> [address |-> [k \in Keys |-> None],
                                 privacy |-> [k \in Keys |-> None]]]
  /\ edit    = [r \in ProfileRequests |-> Idle]

\* One step: user_id is unique.  The preferences come with the profile.
CreateProfile(u, complete) ==
  /\ u \in access /\ ~Exists(profile[u])
  /\ profile' = [profile EXCEPT ![u] = [version |-> 1, complete |-> complete, status |-> "active"]]
  /\ setting' = [setting EXCEPT ![u]["preferences"] = [version |-> 1, value |-> FALSE]]
  /\ UNCHANGED <<store, address, privacy, used, edit>>

AskToUpdateProfile(r, u, complete) ==
  Member(u) /\ Change(r, u, [profile[u] EXCEPT !.complete = complete])

AskToDeactivate(r, u) ==
  /\ Member(u) /\ profile[u].status # "deactivated"
  /\ Change(r, u, [profile[u] EXCEPT !.status = "deactivated"])

AskToReactivate(r, u) ==
  /\ Member(u) /\ profile[u].status # "deletion_pending"
  /\ Change(r, u, [profile[u] EXCEPT !.status = "active"])

UpdateProfile(r) ==
  LET e == edit[r] IN
  /\ e.op = "profile"
  /\ SameVersion(profile[e.user], e.saw)
  /\ profile' = [profile EXCEPT ![e.user] = Store(@, e.saw, e.new)]
  /\ Done(r)
  /\ UNCHANGED <<store, address, setting, privacy, used>>

SlugFree(u, slug) == \A v \in Users \ {u} : Exists(store[v]) => store[v].slug # slug

CreateSeller(u, slug) ==
  /\ Member(u) /\ u \in Sellers
  /\ ~Exists(store[u]) /\ SlugFree(u, slug)
  /\ store' = [store EXCEPT ![u] = [version |-> 1, slug |-> slug]]
  /\ UNCHANGED <<profile, address, setting, privacy, used, edit>>

AskToUpdateSeller(r, u, slug) ==
  /\ Member(u) /\ u \in Sellers
  /\ Exists(store[u]) /\ SlugFree(u, slug)
  /\ Begins(r, [op |-> "store", user |-> u, saw |-> store[u], new |-> [store[u] EXCEPT !.slug = slug]])
  /\ UNCHANGED <<profile, store, address, setting, privacy, used>>

UpdateSeller(r) ==
  LET e == edit[r] IN
  /\ e.op = "store"
  /\ SameVersion(store[e.user], e.saw) /\ SlugFree(e.user, e.new.slug)
  /\ store' = [store EXCEPT ![e.user] = Store(@, e.saw, e.new)]
  /\ Done(r)
  /\ UNCHANGED <<profile, address, setting, privacy, used>>

-----------------------------------------------------------------------------
\* A key that was used answers with its address; one whose address was deleted,
\* or that has expired, is refused by the unique index.
AskToCreateAddress(r, u, k, type, default) ==
  LET old == IF default THEN DefaultsOf(u, type) ELSE {} IN
  /\ Member(u) /\ used[u].address[k] = None
  /\ old \intersect Locked(r) = {}
  /\ Begins(r, [op |-> "new address", cleared |-> old,
       new |-> [version |-> 1, user |-> u, type |-> type, default |-> default,
                deleted |-> FALSE, key |-> k]])
  /\ UNCHANGED <<profile, store, address, setting, privacy, used>>

\* Mutant: no unique index on default addresses.
AnyDefaults(rows) == TRUE

\* uq_active_default_address_per_type.
OneDefault(rows) == \A a, b \in Addresses :
  /\ a # b /\ Exists(rows[a]) /\ Exists(rows[b])
  /\ ~rows[a].deleted /\ ~rows[b].deleted
  /\ rows[a].default /\ rows[b].default
  => rows[a].user # rows[b].user \/ rows[a].type # rows[b].type

KeyFree(u, k) == used[u].address[k] = None

\* The addresses with one more written, and the earlier defaults cleared.
Write(rows, cleared, a, row) == [x \in Addresses |->
  IF x = a THEN row
  ELSE IF x \in cleared THEN NextVersion([rows[x] EXCEPT !.default = FALSE])
  ELSE rows[x]]

CreateAddress(r) ==
  LET e == edit[r]
      u == e.new.user
      a == CHOOSE a \in Addresses : ~Exists(address[a]) IN
  /\ e.op = "new address"
  /\ \E x \in Addresses : ~Exists(address[x])
  /\ KeyFree(u, e.new.key)
  /\ address' = Write(address, e.cleared, a, e.new)
  /\ OneDefault(address')
  /\ used' = [used EXCEPT ![u].address[e.new.key] = a]
  /\ Done(r)
  /\ UNCHANGED <<profile, store, setting, privacy>>

\* Earlier defaults are cleared when the request names is_default, not when it
\* gives a default address another type.
AskToUpdateAddress(r, a, type, default, named) ==
  LET u   == address[a].user
      old == IF named /\ default THEN DefaultsOf(u, type) \ {a} ELSE {} IN
  /\ Active(a) /\ Member(u)
  /\ ~named => default = address[a].default
  /\ old \intersect Locked(r) = {}
  /\ Begins(r, [op |-> "address", address |-> a, saw |-> address[a], cleared |-> old,
                new |-> [address[a] EXCEPT !.type = type, !.default = default]])
  /\ UNCHANGED <<profile, store, address, setting, privacy, used>>

AskToDeleteAddress(r, a) ==
  /\ Active(a) /\ Member(address[a].user)
  /\ Begins(r, [op |-> "address", address |-> a, saw |-> address[a], cleared |-> {},
                new |-> [address[a] EXCEPT !.deleted = TRUE, !.default = FALSE]])
  /\ UNCHANGED <<profile, store, address, setting, privacy, used>>

UpdateAddress(r) ==
  LET e == edit[r] IN
  /\ e.op = "address"
  /\ e.address \notin Locked(r) /\ SameVersion(address[e.address], e.saw)
  /\ address' = Write(address, e.cleared, e.address, Store(address[e.address], e.saw, e.new))
  /\ OneDefault(address')
  /\ Done(r)
  /\ UNCHANGED <<profile, store, setting, privacy, used>>

-----------------------------------------------------------------------------
\* Preferences are updated, consents and notification preferences made or
\* updated, several at once.
AskToSet(r, u, values) ==
  /\ Member(u)
  /\ Begins(r, [op |-> "settings", user |-> u, saw |-> setting[u], values |-> values])
  /\ UNCHANGED <<profile, store, address, setting, privacy, used>>

AskToUpdatePreferences(r, u, value) == AskToSet(r, u, [s \in {"preferences"} |-> value])

AskToUpsertConsents(r, u) == \E chosen \in SUBSET Consents \ {{}} :
  \E values \in [chosen -> BOOLEAN] : AskToSet(r, u, values)

Set(row, saw, value) ==
  IF Exists(saw) THEN Store(row, saw, [saw EXCEPT !.value = value])
  ELSE [version |-> 1, value |-> value]

UpdateSettings(r) ==
  LET e == edit[r] IN
  /\ e.op = "settings"
  /\ \A s \in DOMAIN e.values : SameVersion(setting[e.user][s], e.saw[s])
  /\ setting' = [setting EXCEPT ![e.user] = [s \in Settings |->
       IF s \in DOMAIN e.values THEN Set(@[s], e.saw[s], e.values[s]) ELSE @[s]]]
  /\ Done(r)
  /\ UNCHANGED <<profile, store, address, privacy, used>>

AskForPrivacy(r, u, type, k) ==
  /\ Member(u) /\ used[u].privacy[k] = None
  /\ Begins(r, [op |-> "privacy", user |-> u, type |-> type, key |-> k, saw |-> profile[u]])
  /\ UNCHANGED <<profile, store, address, setting, privacy, used>>

\* uq_active_privacy_request_per_type lets one request of a type be open.
CreatePrivacyRequest(r) ==
  LET e == edit[r] IN
  /\ e.op = "privacy"
  /\ used[e.user].privacy[e.key] = None /\ e.type \notin privacy[e.user]
  /\ IF e.type = "deletion"
     THEN /\ SameVersion(profile[e.user], e.saw)
          /\ profile' = [profile EXCEPT ![e.user] =
               Store(@, e.saw, [e.saw EXCEPT !.status = "deletion_pending"])]
     ELSE profile' = profile
  /\ privacy' = [privacy EXCEPT ![e.user] = @ \union {e.type}]
  /\ used' = [used EXCEPT ![e.user].privacy[e.key] = e.type]
  /\ Done(r)
  /\ UNCHANGED <<store, address, setting>>

\* The process stops, or the database refuses the commit.
AbandonEdit(r) ==
  /\ edit[r] # Idle
  /\ Done(r)
  /\ UNCHANGED <<profile, store, address, setting, privacy, used>>

RowAsks ==
  \/ \E u \in Users, b \in BOOLEAN : CreateProfile(u, b)
  \/ \E u \in Users, slug \in Slugs : CreateSeller(u, slug)
  \/ \E r \in ProfileRequests, u \in Users :
       \/ \E b \in BOOLEAN : AskToUpdateProfile(r, u, b)
       \/ \E slug \in Slugs : AskToUpdateSeller(r, u, slug)

AddressAsks == \E r \in ProfileRequests :
  \/ \E u \in Users, k \in Keys, type \in Types, b \in BOOLEAN : AskToCreateAddress(r, u, k, type, b)
  \/ \E a \in Addresses, type \in Types, b, named \in BOOLEAN :
       AskToUpdateAddress(r, a, type, b, named)
  \/ \E a \in Addresses : AskToDeleteAddress(r, a)

SettingAsks == \E r \in ProfileRequests, u \in Users :
  \/ \E b \in BOOLEAN : AskToUpdatePreferences(r, u, b)
  \/ AskToUpsertConsents(r, u)

PrivacyAsks == \E r \in ProfileRequests, u \in Users :
  \/ AskToDeactivate(r, u) \/ AskToReactivate(r, u)
  \/ \E type \in PrivacyTypes, k \in Keys : AskForPrivacy(r, u, type, k)

ProfileAsks == RowAsks \/ AddressAsks \/ SettingAsks \/ PrivacyAsks

ProfileCommits == \E r \in ProfileRequests :
  \/ UpdateProfile(r) \/ UpdateSeller(r) \/ UpdateAddress(r) \/ UpdateSettings(r)
  \/ CreateAddress(r) \/ CreatePrivacyRequest(r)
  \/ AbandonEdit(r)

-----------------------------------------------------------------------------
\* Bound: how much of an account's life is looked at, counting what was made,
\* changed or ran out and what is under way.
Count(S, P(_)) == Cardinality({x \in S : P(x)})

AuthWork ==
  Count(Tokens, LAMBDA t : ~Fresh(t)) + Count(Tokens, LAMBDA t : ~Fresh(t) /\ token[t].expired)
  + Count(Sessions, LAMBDA s : ~Unmade(s))
  + Count(Sessions, LAMBDA s : ~Unmade(s) /\ (session[s].revoked \/ session[s].expired))
  + Count(Users, LAMBDA u : Registered(u) /\ ~user[u].active)
  + Count(Users, LAMBDA u : Registered(u) /\ user[u].lock # "none")
  + Count(Requests, LAMBDA r : call[r] # Idle)

ProfileWork ==
  Count(ProfileRequests, LAMBDA r : edit[r] # Idle)
  + MapThenSumSet(LAMBDA a : address[a].version, Addresses)
  + MapThenSumSet(LAMBDA u : profile[u].version + store[u].version + Cardinality(privacy[u])
      + MapThenSumSet(LAMBDA s : setting[u][s].version, Settings), Users)

Work     == 2 * AuthWork + ProfileWork
InBounds == Work < MaxWork

Init == AuthInit /\ ProfilesInit

Next ==
  \/ InBounds /\ AuthAsks /\ UNCHANGED profileVars
  \/ InBounds /\ AuthPasses /\ UNCHANGED profileVars
  \/ AuthCommits /\ UNCHANGED profileVars
  \/ InBounds /\ ProfileAsks /\ UNCHANGED authVars
  \/ ProfileCommits /\ UNCHANGED authVars

Spec == Init /\ [][Next]_<<authVars, profileVars>>

-----------------------------------------------------------------------------
\* A user has at most one default address of each type, whatever requests race;
\* an address still answers to the key it was made under, so a key made one
\* address; a profile that waits to be deleted has a request that says so; and
\* whatever the two services keep of a user, the address was verified first.
AccountsAgree ==
  /\ AuthTypeOK /\ ProfilesTypeOK
  /\ HoldersAreVerified
  /\ \A u \in Users :
       /\ Exists(profile[u]) => Registered(u) /\ user[u].verified
       /\ Exists(store[u])   => Exists(profile[u]) /\ u \in Sellers
       /\ Exists(profile[u]) /\ profile[u].status = "deletion_pending" => "deletion" \in privacy[u]
       /\ \A type \in Types : Cardinality(DefaultsOf(u, type)) <= 1
  /\ \A a \in Addresses :
       Exists(address[a]) => used[address[a].user].address[address[a].key] = a

Changed(row, new) == new # row => new.version = row.version + 1

\* A version never stands for two contents of a row of the User service:
\* whatever requests race, every change moves the row to its next version, so no
\* update is lost under one that did not see it.
VersionsNameContents ==
  [][/\ \A u \in Users :
          /\ Changed(profile[u], profile'[u]) /\ Changed(store[u], store'[u])
          /\ \A s \in Settings : Changed(setting[u][s], setting'[u][s])
     /\ \A a \in Addresses : Changed(address[a], address'[a])]_profileVars

=============================================================================
