------------------------------- MODULE Accounts -------------------------------
(***************************************************************************)
(* Profiles, PINs and sessions: auth_routes.py, family_routes.py and       *)
(* auth.py over the JSON files of store.py.                                *)
(*                                                                         *)
(* The functions of the store never suspend, so that a handler is one step *)
(* from one hash of a PIN, or one call on the disk of the NAS, to the      *)
(* next.  The list of profiles is kept in a cache for some seconds; most   *)
(* writers change the cached list in place before they save it.            *)
(* Sessions and PINs are not read where files are stored, nor the folders  *)
(* where a PIN is checked: a behaviour has one or the other beside the     *)
(* changes to the list of profiles that both depend on.                    *)
(***************************************************************************)
EXTENDS Focus, Integers, FiniteSets, Functions

CONSTANTS
    Ids,            \* bound: profile ids, 1..n, given in this order
    Names,          \* names of profiles, and of their personal folders
    Logins,         \* bound: requests that wait for a hash or the disk, numbered
    MaxChanges,     \* bound: changes of one PIN
    AccountMishaps, \* "write", "lost", "crash"
    MaxMishaps,     \* bound: mishaps in one behaviour
    Absent          \* no value

\* A PIN is known by the change that set it and by the rounds of its hash.
Pins == [era : Nat, rounds : {"old", "new"}]
Profiles == [name : Names, pin : Pins \cup {Absent}, admin : BOOLEAN]

ASSUME AccountsAssumption ==
    /\ Ids = 1..Cardinality(Ids) /\ IsFiniteSet(Ids) /\ 1 \in Ids
    /\ Logins \subseteq Nat /\ MaxChanges \in Nat /\ MaxMishaps \in Nat
    /\ Absent \notin Ids \cup Names \cup Logins
    /\ \A S \in SUBSET Ids : Absent \notin [S -> Profiles]

VARIABLES
    users,      \* users.json: id -> profile
    cached,     \* the cached list where it is not what the file says, or Absent
    marker,     \* the file setup_completed
    tokens,     \* refresh tokens that are not revoked: [user, era]
    folder,     \* name -> ids with files in the personal folder
    up,         \* is the process serving?
    creating,   \* holder of _user_creation_lock
    call,       \* login -> what waits
    \* History.
    made,       \* number of ids given so far
    era,        \* id -> number of changes of its PIN that were saved
    owners,     \* admins created without authentication
    answered,   \* profiles whose creation was answered and that were not removed
    home,       \* id -> the name it last uploaded under
    mishaps,    \* number of mishaps so far
    blame       \* excuses: what went wrong that a property leaves out

vars_accounts == <<users, cached, marker, tokens, folder, up, creating, call, made, era, owners,
                   answered, home, mishaps, blame>>

Pin(e, rounds) == [era |-> e, rounds |-> rounds]
Profile(name, pin, admin) == [name |-> name, pin |-> pin, admin |-> admin]
NoCall == [kind |-> "none", pc |-> "new", id |-> Absent, name |-> Absent, pin |-> Absent,
           by |-> Absent]

\* A new board, or one set up by an earlier version, under any name: no marker, a hash of
\* few rounds.
NewBoard == << >>
OldBoards == {[i \in {1} |-> Profile(n, Pin(0, "old"), TRUE)] : n \in Names}

AccountsInit ==
    /\ users \in {NewBoard} \cup OldBoards
    /\ cached = Absent
    /\ marker = FALSE
    /\ tokens = {}
    /\ folder = [n \in Names |-> {}]
    /\ up = FALSE
    /\ creating = Absent
    /\ call = [r \in Logins |-> NoCall]
    /\ made = Cardinality(DOMAIN users)
    /\ era = [i \in Ids |-> 0]
    /\ owners = made
    /\ answered = DOMAIN users
    /\ home = [i \in Ids |-> Absent]
    /\ mishaps = 0
    /\ blame = {}

\* get_users.
Users == IF cached = Absent THEN users ELSE cached
Live == DOMAIN Users
IsAdmin(i) == i \in Live /\ Users[i].admin
Admins == {i \in Live : Users[i].admin}
With(i, profile) == [j \in Live \cup {i} |-> IF j = i THEN profile ELSE Users[j]]
Without(i) == Restrict(Users, Live \ {i})
Why(what) == <<what, Absent>>

------------------------------------------------------------------------------
\* Wrong versions of definitions below; the runs' mutants put them in place.

NeverSetUp == FALSE
RehashAnyway(r) == call[r].id \in Live

------------------------------------------------------------------------------
\* store.py.

\* save_users: the file, then the cache.
Mishap(kind) == kind \in AccountMishaps /\ mishaps < MaxMishaps /\ mishaps' = mishaps + 1
Saved(new) == users' = new /\ cached' = Absent /\ UNCHANGED mishaps
\* The write fails after the cached list was changed in place.
WriteFails(new) == Mishap("write") /\ cached' = new /\ UNCHANGED users
SessionsOf(i) == {t \in tokens : t.user = i}
Revoke(i) == tokens' = tokens \ SessionsOf(i)
\* The request fails after what it wrote before; the tokens were revoked in the cached list,
\* which another writer may save before it expires.
RevokeFails(i) == Mishap("write") /\ tokens' \in {tokens, tokens \ SessionsOf(i)}
\* A token whose write fails is given to nobody: like a login that was not made.
AddToken(i, e) == tokens' = tokens \cup {[user |-> i, era |-> e]}
SetUp == marker

\* The TTL of the cache; a cached list that is what the file says is not told apart from none.
Expire == /\ cached # Absent /\ cached' = Absent
          /\ UNCHANGED <<users, marker, tokens, folder, up, creating, call, made, era, owners,
                         answered, home, mishaps, blame>>

\* users.json becomes unreadable and is taken for an empty list.
LoseUsers == /\ users # NewBoard /\ Mishap("lost")
             /\ users' = NewBoard
             /\ cached' \in {Absent, Users}
             /\ blame' = blame \cup {Why("lost")} \cup (IF marker THEN {} ELSE {Why("exposed")})
             /\ UNCHANGED <<marker, tokens, folder, up, creating, call, made, era, owners, answered,
                            home>>

------------------------------------------------------------------------------
\* The process.

\* backfill_setup_marker, before the first request.
AccountsBoot == /\ ~up /\ up' = TRUE
        /\ marker' = (marker \/ Users # NewBoard)
        /\ UNCHANGED <<users, cached, tokens, folder, creating, call, made, era, owners, answered, home,
                       mishaps, blame>>

Die == /\ Mishap("crash") /\ up /\ \E r \in Logins : call[r].pc \notin {"new", "done"}
       /\ up' = FALSE
       /\ cached' = Absent
       /\ creating' = Absent
       /\ call' = [r \in Logins |-> IF call[r].pc = "new" THEN NoCall
                                   ELSE [NoCall EXCEPT !.pc = "done"]]
       /\ UNCHANGED <<users, marker, tokens, folder, made, era, owners, answered, home, blame>>

\* A handler that waits; one that has ended keeps nothing.
Start(r, c) == /\ up /\ call[r] = NoCall /\ \A q \in Logins : q < r => call[q] # NoCall
               /\ call' = [call EXCEPT ![r] = c]
Waits(r, kind, pc) == call[r].kind = kind /\ call[r].pc = pc
Continue(r, pc) == call' = [call EXCEPT ![r].pc = pc]
Finish(r) == call' = [call EXCEPT ![r] = [NoCall EXCEPT !.pc = "done"]]

------------------------------------------------------------------------------
\* POST /users.

Taken(n, i) == \E j \in Live \ {i} : Users[j].name = n
\* Somebody who was renamed away still has files under the name.
LeftUnder(n, i) == \E j \in Live \ {i} : j \in folder[n] /\ Users[j].name # n

Create(r) ==
    \E n \in Names, by \in Live \cup {Absent} :
        /\ made < Cardinality(Ids)
        /\ Start(r, [NoCall EXCEPT !.kind = "create", !.pc = "hashing", !.name = n, !.by = by])
        /\ UNCHANGED <<users, cached, marker, tokens, folder, up, creating, made, era, owners,
                       answered, home, mishaps, blame>>

\* add_user appends to the cached list and saves it; a folder follows, on the NAS.
AddUser(r, n, pin, admin) ==
    /\ made < Cardinality(Ids)
    /\ made' = made + 1
    /\ LET new == With(made + 1, Profile(n, pin, admin))
       IN \/ /\ Saved(new)
             /\ call' = [call EXCEPT ![r].pc = IF admin THEN "first" ELSE "folders",
                                     ![r].id = made + 1]
             /\ owners' = owners + (IF admin THEN 1 ELSE 0)
          \/ /\ WriteFails(new)
             /\ Finish(r)
             /\ UNCHANGED owners
    /\ blame' = blame \cup (IF LeftUnder(n, made + 1) THEN {<<"shared", n>>} ELSE {})

\* The lock is held from the look at the list to the tokens. Only a list that is empty
\* on a board never set up lets an admin in without authentication.
CreateLocked(r) ==
    /\ Waits(r, "create", "hashing") /\ creating = Absent
    /\ LET first == Live = {} /\ ~SetUp
           refused == Taken(call[r].name, Absent) \/ (Live = {} /\ SetUp)
                      \/ (~first /\ ~IsAdmin(call[r].by))
       IN \/ /\ refused
             /\ Finish(r)
             /\ UNCHANGED <<users, cached, creating, made, owners, mishaps, blame>>
          \/ /\ ~refused /\ first
             /\ creating' = r
             /\ Continue(r, "wiping")
             /\ UNCHANGED <<users, cached, made, owners, mishaps, blame>>
          \/ /\ ~refused /\ ~first
             /\ AddUser(r, call[r].name, Pin(0, "new"), FALSE)
             /\ creating' = IF call'[r].pc = "done" THEN Absent ELSE r
    /\ UNCHANGED <<marker, tokens, folder, up, era, answered, home>>

\* Empty folders of an earlier installation have been removed in the meantime.
CreateFirst(r) ==
    /\ Waits(r, "create", "wiping")
    /\ AddUser(r, call[r].name, Pin(0, "new"), TRUE)
    /\ creating' = IF call'[r].pc = "done" THEN Absent ELSE r
    /\ UNCHANGED <<marker, tokens, folder, up, era, answered, home>>

\* The marker follows the first admin; its failure is only logged.
CreateEnds(r) ==
    /\ Waits(r, "create", "folders") \/ Waits(r, "create", "first")
    /\ creating' = Absent
    /\ LET i == call[r].id
       IN /\ IF call[r].pc = "first" /\ ~marker
             THEN \/ marker' = TRUE /\ UNCHANGED mishaps
                  \/ Mishap("write") /\ UNCHANGED marker
             ELSE UNCHANGED <<marker, mishaps>>
          /\ AddToken(i, 0)
          /\ answered' = answered \cup (IF i \in Live THEN {i} ELSE {})
          /\ blame' = blame \cup (IF era[i] = 0 THEN {} ELSE {<<"overtaken", i>>})
    /\ Finish(r)
    /\ UNCHANGED <<users, cached, folder, up, made, era, owners, home>>

\* POST /users/family asks for no free name and takes no lock.
AddFamily(r) ==
    \E a \in Admins, n \in Names :
        /\ up /\ call[r] = NoCall /\ \A q \in Logins : q < r => call[q] # NoCall
        /\ made < Cardinality(Ids)
        /\ made' = made + 1
        /\ LET new == With(made + 1, Profile(n, Absent, FALSE))
           IN \/ Saved(new) /\ answered' = answered \cup {made + 1}
              \/ WriteFails(new) /\ UNCHANGED answered
        /\ blame' = blame \cup (IF Taken(n, Absent) \/ LeftUnder(n, Absent) THEN {<<"shared", n>>} ELSE {})
        /\ Finish(r)
        /\ UNCHANGED <<marker, tokens, folder, up, creating, era, owners, home>>

------------------------------------------------------------------------------
\* Sessions and PINs.

\* A profile without a PIN gets its tokens at once.
Login(r) ==
    \E i \in Live :
        /\ trouble = "sessions"
        /\ IF Users[i].pin = Absent
           THEN /\ up /\ call[r] = NoCall /\ \A q \in Logins : q < r => call[q] # NoCall
                /\ Finish(r) /\ AddToken(i, era[i])
           ELSE /\ Start(r, [NoCall EXCEPT !.kind = "login", !.pc = "verifying", !.id = i,
                                           !.pin = Users[i].pin])
                /\ UNCHANGED tokens
        /\ UNCHANGED <<users, cached, marker, folder, up, creating, made, era, owners, answered, home,
                       mishaps, blame>>

\* The tokens are for the profile as it was read: a change of the PIN that was answered
\* in between has revoked nothing of this login.
LoginVerified(r) ==
    /\ Waits(r, "login", "verifying")
    /\ AddToken(call[r].id, call[r].pin.era)
    /\ blame' = blame \cup (IF call[r].pin.era = era[call[r].id] THEN {} ELSE {<<"overtaken", call[r].id>>})
    /\ IF call[r].pin.rounds = "old" THEN Continue(r, "rehashing") ELSE Finish(r)
    /\ UNCHANGED <<users, cached, marker, folder, up, creating, made, era, owners, answered, home, mishaps>>

\* _rehash_pin writes only over the hash that was verified.
Unchanged(r) == call[r].id \in Live /\ Users[call[r].id].pin = call[r].pin

Rehashed(r) ==
    /\ Waits(r, "login", "rehashing")
    /\ LET i == call[r].id
           new == With(i, [Users[i] EXCEPT !.pin = Pin(call[r].pin.era, "new")])
       IN \/ Unchanged(r) /\ (Saved(new) \/ WriteFails(new))
          \/ ~Unchanged(r) /\ UNCHANGED <<users, cached, mishaps>>
    /\ Finish(r)
    /\ UNCHANGED <<marker, tokens, folder, up, creating, made, era, owners, answered, home, blame>>

\* PUT /users/pin by somebody who knows the PIN.
ChangePin(r) ==
    \E i \in Live :
        /\ trouble = "sessions"
        /\ era[i] < MaxChanges
        /\ Start(r, [NoCall EXCEPT !.kind = "pin", !.pc = "hashing", !.id = i])
        /\ UNCHANGED <<users, cached, marker, tokens, folder, up, creating, made, era, owners, answered,
                       home, mishaps, blame>>

\* The sessions end in a second write, which may fail once the PIN is saved; nothing else runs
\* in between, and a process that ends there leaves what the failed write leaves. A first write
\* that fails leaves the new PIN in the cached list, for another writer to save.
PinChanged(r) ==
    /\ Waits(r, "pin", "hashing")
    /\ LET i == call[r].id
           new == With(i, [Users[i] EXCEPT !.pin = Pin(era[i] + 1, "new")])
       IN \/ /\ i \in Live /\ era[i] < MaxChanges
             /\ users' = new /\ cached' = Absent
             /\ era' = [era EXCEPT ![i] = @ + 1]
             /\ \/ Revoke(i) /\ UNCHANGED <<mishaps, blame>>
                \/ RevokeFails(i) /\ blame' = blame \cup {<<"unrevoked", i>>}
          \/ /\ i \in Live /\ era[i] < MaxChanges
             /\ WriteFails(new) /\ blame' = blame \cup {<<"torn", i>>}
             /\ UNCHANGED <<era, tokens>>
          \/ /\ i \notin Live \/ era[i] = MaxChanges
             /\ IF i \in Live THEN UNCHANGED tokens ELSE Revoke(i)
             /\ UNCHANGED <<users, cached, era, mishaps, blame>>
    /\ Finish(r)
    /\ UNCHANGED <<marker, folder, up, creating, made, owners, answered, home>>

RemovePin(i) ==
    /\ trouble = "sessions"
    /\ up /\ i \in Live /\ Users[i].pin # Absent
    /\ LET new == With(i, [Users[i] EXCEPT !.pin = Absent])
       IN Saved(new) \/ WriteFails(new)
    /\ UNCHANGED <<marker, tokens, folder, up, creating, call, made, era, owners, answered, home,
                   blame>>

Logout(t) ==
    /\ trouble = "sessions"
    /\ up /\ tokens' = tokens \ {t}
    /\ UNCHANGED <<users, cached, marker, folder, up, creating, call, made, era, owners, answered,
                   home, mishaps, blame>>

------------------------------------------------------------------------------
\* Profiles.

\* PUT /users/me renames the profile and leaves its folder where it is.
Rename(i, n) ==
    /\ up /\ i \in Live /\ Users[i].name # n /\ ~Taken(n, i)
    /\ LET new == With(i, [Users[i] EXCEPT !.name = n])
           left == IF LeftUnder(n, i) THEN {<<"shared", n>>} ELSE {}
       IN \/ Saved(new) /\ blame' = blame \cup left
          \/ WriteFails(new) /\ blame' = blame \cup left \cup {<<"shared", Users[i].name>>}
    /\ UNCHANGED <<marker, tokens, folder, up, creating, call, made, era, owners, answered, home>>

SeveralAdmins == Cardinality(Admins) > 1

\* PUT /users/family/{id}/role.
SetRole(i, admin) ==
    /\ up /\ Admins # {} /\ i \in Live /\ Users[i].admin # admin
    /\ admin \/ SeveralAdmins
    /\ LET new == With(i, [Users[i] EXCEPT !.admin = admin])
       IN Saved(new) \/ WriteFails(new)
    /\ UNCHANGED <<marker, tokens, folder, up, creating, call, made, era, owners, answered, home,
                   blame>>

\* The profile, its tokens and its folder, in this order: what fails leaves what comes after
\* it. That the folder cannot be removed is only logged.
RemoveProfile(i) ==
    \/ /\ users' = Without(i) /\ cached' = Absent
       /\ answered' = answered \ {i}
       /\ \/ /\ Revoke(i) /\ UNCHANGED mishaps
             /\ folder' = [folder EXCEPT ![Users[i].name] = {}]
          \/ Revoke(i) /\ Mishap("write") /\ UNCHANGED folder
          \/ RevokeFails(i) /\ UNCHANGED folder
    \/ Mishap("write") /\ UNCHANGED <<users, cached, tokens, folder, answered>>

RemoveSelf(i) ==
    /\ up /\ i \in Live /\ Cardinality(Live) > 1
    /\ IsAdmin(i) => SeveralAdmins
    /\ RemoveProfile(i)
    /\ UNCHANGED <<marker, up, creating, call, made, era, owners, home, blame>>

\* DELETE /users/family/{id} asks neither whether the profile is the last nor whether it
\* is the last admin.
RemoveFamily(i) ==
    /\ up /\ Admins # {} /\ i \in Live
    /\ RemoveProfile(i)
    /\ blame' = blame \cup (IF IsAdmin(i) THEN {Why("ousted")} ELSE {})
                      \cup (IF Live = {i} /\ ~marker THEN {Why("exposed")} ELSE {})
    /\ UNCHANGED <<marker, up, creating, call, made, era, owners, home>>

\* An upload to the personal folder.
Fill(i) ==
    /\ trouble = "folders"
    /\ up /\ i \in Live /\ i \notin folder[Users[i].name]
    /\ folder' = [folder EXCEPT ![Users[i].name] = @ \cup {i}]
    /\ home' = [home EXCEPT ![i] = Users[i].name]
    /\ UNCHANGED <<users, cached, marker, tokens, up, creating, call, made, era, owners, answered,
                   mishaps, blame>>

AccountsNext ==
    \/ AccountsBoot \/ Die \/ Expire \/ LoseUsers
    \/ \E r \in Logins :
          \/ Create(r) \/ CreateLocked(r) \/ CreateFirst(r) \/ CreateEnds(r) \/ AddFamily(r)
          \/ Login(r) \/ LoginVerified(r) \/ Rehashed(r) \/ ChangePin(r) \/ PinChanged(r)
    \/ \E i \in Ids : RemovePin(i) \/ RemoveSelf(i) \/ RemoveFamily(i) \/ Fill(i)
    \/ \E i \in Ids, n \in Names : Rename(i, n)
    \/ \E i \in Ids, admin \in BOOLEAN : SetRole(i, admin)
    \/ \E t \in tokens : Logout(t)

------------------------------------------------------------------------------
\* Properties.

\* An admin is created without authentication once in the life of a board, through
\* crashes, failed writes of the marker and a damaged list of profiles (auth_routes.py:391,
\* store.py:131); left out: a list that is lost, or whose last profile is removed by
\* DELETE /users/family/{id}, while the marker is not there.
OneOwner == owners > 1 => Why("exposed") \in blame

\* A board that has been set up has an admin; left out: DELETE /users/family/{id}, which
\* removes the last one, and a lost list.
AdminRemains == marker => Admins # {} \/ blame \cap {Why("ousted"), Why("lost")} # {}

\* A profile whose creation was answered with success is in the file, whatever writes
\* fail and whenever the cache expires or the process dies (store.py:285-297).
AnsweredIsSaved == answered \subseteq DOMAIN users \/ Why("lost") \in blame

\* The PIN in the file is the one of the last change that was saved, or none: the re-hash
\* that runs behind a login brings no old one back (auth_routes.py:157). Left out: a change
\* whose write failed in the middle, which a later write saves.
PinStands ==
    \A i \in DOMAIN users :
        users[i].pin = Absent \/ users[i].pin.era = era[i] \/ <<"torn", i>> \in blame

\* A change of the PIN ends every session of the profile (auth_routes.py:602); left out:
\* a login that was being verified, or a profile being created, meanwhile: its token
\* is given after the change; and a change whose second write fails, which was answered
\* with an error: the new PIN stands and the sessions of the old one go on.
SessionsEndWithPin ==
    \A t \in tokens : t.user \in Live =>
        t.era = era[t.user] \/ {<<"overtaken", t.user>>, <<"unrevoked", t.user>>} \cap blame # {}

\* Removing a profile removes no files of another: what a profile has uploaded stays
\* (auth_routes.py:354); left out: names that two profiles share through
\* POST /users/family, that a renamed profile has left its files under, or that a rename
\* took from it in the cached list alone, since its write failed.
FilesKept ==
    \A i \in Live : home[i] = Absent \/ <<"shared", home[i]>> \in blame \/ i \in folder[home[i]]

\* The board keeps its owners: nobody becomes admin unauthenticated once it is set up, an
\* admin remains, and no profile that was created is lost with or without its files, in any
\* order of creation, removal, role changes, failed writes and crashes (auth_routes.py:340-449,
\* family_routes.py:69-205, store.py:131-297).
OwnersHold == OneOwner /\ AdminRemains /\ AnsweredIsSaved /\ FilesKept

\* A changed PIN is the one that counts: no re-hash brings the old one back, and no session
\* given under the old one survives a change that was answered with success
\* (auth_routes.py:157-177, 486-603).
SessionsHold == PinStands /\ SessionsEndWithPin
=============================================================================
