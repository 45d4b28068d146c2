---------------------------- MODULE HouseholdProofs ----------------------------
(***************************************************************************)
(* The theorems of module Household, for every value of its constants.     *)
(* A step of one part leaves the variables of the others as they were, so  *)
(* that an invariant of a part, preserved by the steps of this part, is    *)
(* one of the whole.                                                       *)
(***************************************************************************)
EXTENDS Household, TelegramProofs, WellFoundedInduction

------------------------------------------------------------------------------
\* Profiles and sessions. The list of profiles is in two places, the file and the cache, and
\* either may be served next; what is said of it is said of both.

Rolls == {users} \cup ({cached} \ {Absent})
Blamed(what) == Why(what) \in blame
Shared(n) == <<"shared", n>> \in blame
Holding == {"wiping", "first", "folders"}

AccountTypes ==
    /\ made \in Nat /\ made <= Cardinality(Ids)
    /\ owners \in Nat /\ marker \in BOOLEAN /\ era \in [Ids -> Nat]
    /\ folder \in [Names -> SUBSET (1..made)]
    /\ home \in [Ids -> Names \cup {Absent}]
    /\ \A i \in Ids : i > made => home[i] = Absent
    /\ \A t \in tokens : t.user \in 1..made
    /\ \A f \in Rolls : f \in [DOMAIN f -> Profiles] /\ DOMAIN f \subseteq 1..made

CallRecords ==
    [kind : {"none", "create", "login", "pin"},
     pc : {"new", "hashing", "wiping", "first", "folders", "verifying", "rehashing", "done"},
     id : Ids \cup {Absent}, name : Names \cup {Absent}, pin : Pins \cup {Absent},
     by : Ids \cup {Absent}]

CallTypes ==
    /\ call \in [Logins -> CallRecords]
    /\ \A r \in Logins :
          /\ call[r].kind = "create" => call[r].name \in Names
          /\ call[r].kind = "pin" \/ call[r].pc \in {"first", "folders", "verifying", "rehashing"}
                => call[r].id \in 1..made
          /\ call[r].kind = "login" => call[r].pin \in Pins \ {Absent}

\* A cached list is never empty, and has what the file has.
RollsAgree == /\ cached # Absent => DOMAIN cached # {}
              /\ \A f \in Rolls : DOMAIN users \subseteq DOMAIN f

\* Whoever is at a step under the lock holds it; nobody is while the process is down.
LockHeld == \A r \in Logins : call[r].pc \in Holding => creating = r
DownIsQuiet == ~up => /\ \A r \in Logins : call[r].pc \in {"new", "done"}
                      /\ cached = Absent \/ Blamed("lost")

\* While the first admin is on the way the setup stays as it was found: open and empty.
SetupOpen == \A r \in Logins : call[r].pc = "wiping" =>
                /\ users = NewBoard /\ cached = Absent /\ ~marker
                /\ owners = 0 \/ Blamed("exposed")

\* Once there was an owner, the marker or a profile keeps the setup closed.
Opened == \/ Blamed("exposed")
          \/ owners <= 1 /\ (owners = 1 => marker \/ DOMAIN users # {})

\* Every list that is not empty has an admin; that of a closed setup is not empty.
Governed == \/ Blamed("ousted") \/ Blamed("lost")
            \/ /\ marker \/ (\E r \in Logins : call[r].pc = "first") => DOMAIN users # {}
               /\ \A f \in Rolls : DOMAIN f # {} => \E i \in DOMAIN f : f[i].admin

\* What was answered, or is about to be, is in the file, or was removed.
AnswersKept == \/ Blamed("lost")
               \/ /\ answered \subseteq DOMAIN users
                  /\ \A r \in Logins : call[r].pc \in {"first", "folders"} =>
                        call[r].id \in DOMAIN users \/ call[r].id \notin Live

\* Two profiles have one name, or a profile two, only where "shared" says so ...
NamesApart ==
    /\ \A f \in Rolls : \A i, j \in DOMAIN f : f[i].name = f[j].name => i = j \/ Shared(f[i].name)
    /\ \A f \in Rolls : \A i \in DOMAIN users :
          users[i].name = f[i].name \/ Shared(users[i].name)

\* ... and so do two profiles have files in one folder that one of them may take along.
FoldersApart == \A f \in Rolls : \A i, j \in DOMAIN f :
                   j \in folder[f[i].name] => i = j \/ Shared(f[i].name)

\* A session of an earlier PIN goes on.
Late(i) == <<"overtaken", i>> \in blame \/ <<"unrevoked", i>> \in blame

\* PINs and tokens are of the last change.
PinsAgree == /\ \A i \in Ids : i > made => era[i] = 0
             /\ \A f \in Rolls : \A i \in DOMAIN f :
                   f[i].pin = Absent \/ f[i].pin.era = era[i] \/ <<"torn", i>> \in blame
             /\ \A t \in tokens : t.era = era[t.user] \/ Late(t.user)

AccountsInv == /\ AccountTypes /\ CallTypes /\ RollsAgree /\ LockHeld /\ DownIsQuiet
               /\ SetupOpen /\ Opened /\ Governed /\ AnswersKept
               /\ NamesApart /\ FoldersApart /\ FilesKept /\ PinsAgree

\* The ids are numbers, and what is served is the file or the cache.
LEMMA IdsAreNumbers ==
  /\ Cardinality(Ids) \in Nat /\ Ids = 1..Cardinality(Ids) /\ 1 \in Ids
  /\ Absent \notin Ids \cup Names \cup Logins
  /\ \A S \in SUBSET Ids : Absent \notin [S -> Profiles]
  BY AccountsAssumption, FS_CardinalityType

LEMMA UsersIsRoll == Users \in Rolls
  BY DEF Users, Rolls

\* A set with two elements has another one.
LEMMA AnotherOne ==
  ASSUME NEW S, NEW i, Cardinality(S) > 1
  PROVE  \E j \in S : j # i
<1> SUFFICES ASSUME S \subseteq {i} PROVE FALSE
  OBVIOUS
<1>1. IsFiniteSet({i}) /\ Cardinality({i}) = 1
  BY FS_Singleton
<1>2. Cardinality(S) \in Nat /\ Cardinality(S) <= 1
  BY <1>1, FS_Subset, FS_CardinalityType
<1> QED BY <1>2

\* A profile with one field changed.
LEMMA ProfileWith ==
  ASSUME NEW p \in Profiles
  PROVE  /\ \A n \in Names : /\ [p EXCEPT !.name = n] \in Profiles /\ [p EXCEPT !.name = n].name = n
                             /\ [p EXCEPT !.name = n].pin = p.pin
                             /\ [p EXCEPT !.name = n].admin = p.admin
         /\ \A q \in Pins \cup {Absent} :
               /\ [p EXCEPT !.pin = q] \in Profiles /\ [p EXCEPT !.pin = q].pin = q
               /\ [p EXCEPT !.pin = q].name = p.name /\ [p EXCEPT !.pin = q].admin = p.admin
         /\ \A a \in BOOLEAN :
               /\ [p EXCEPT !.admin = a] \in Profiles /\ [p EXCEPT !.admin = a].admin = a
               /\ [p EXCEPT !.admin = a].name = p.name /\ [p EXCEPT !.admin = a].pin = p.pin
<1>1. ASSUME NEW n \in Names
      PROVE  /\ [p EXCEPT !.name = n] \in Profiles /\ [p EXCEPT !.name = n].name = n
             /\ [p EXCEPT !.name = n].pin = p.pin /\ [p EXCEPT !.name = n].admin = p.admin
  BY DEF Profiles
<1>2. ASSUME NEW q \in Pins \cup {Absent}
      PROVE  /\ [p EXCEPT !.pin = q] \in Profiles /\ [p EXCEPT !.pin = q].pin = q
             /\ [p EXCEPT !.pin = q].name = p.name /\ [p EXCEPT !.pin = q].admin = p.admin
  BY DEF Profiles
<1>3. ASSUME NEW a \in BOOLEAN
      PROVE  /\ [p EXCEPT !.admin = a] \in Profiles /\ [p EXCEPT !.admin = a].admin = a
             /\ [p EXCEPT !.admin = a].name = p.name /\ [p EXCEPT !.admin = a].pin = p.pin
  BY DEF Profiles
<1> QED BY <1>1, <1>2, <1>3

LEMMA NewProfile ==
  ASSUME NEW n \in Names, NEW p \in Pins \cup {Absent}, NEW a \in BOOLEAN
  PROVE  /\ Profile(n, p, a) \in Profiles
         /\ Profile(n, p, a).name = n /\ Profile(n, p, a).pin = p /\ Profile(n, p, a).admin = a
  BY DEF Profile, Profiles

LEMMA NewPin ==
  ASSUME NEW e \in Nat, NEW s \in {"old", "new"}
  PROVE  Pin(e, s) \in Pins /\ Pin(e, s).era = e
  BY DEF Pin, Pins

\* The file has the new list, and the cache is dropped.
Lands(new) == users' = new /\ cached' = Absent

\* The list that an edit writes, and where it goes.
LEMMA Written ==
  ASSUME AccountTypes, RollsAgree, NEW i, NEW p \in Profiles, Lands(With(i, p)) \/ WriteFails(With(i, p))
  PROVE  LET new == With(i, p) IN
         /\ DOMAIN new = Live \cup {i} /\ new[i] = p
         /\ \A j \in Live : j # i => new[j] = Users[j]
         /\ new \in [DOMAIN new -> Profiles] /\ DOMAIN users \subseteq Live
         /\ \/ users' = new /\ cached' = Absent /\ Rolls' = {new}
            \/ users' = users /\ cached' = new /\ \A f \in Rolls' : f = users \/ f = new
<1>1. Users \in [Live -> Profiles]
  BY UsersIsRoll DEF AccountTypes, Live
<1>2. DOMAIN users \subseteq Live
  BY UsersIsRoll DEF RollsAgree, Live
<1>3. With(i, p) = [j \in Live \cup {i} |-> IF j = i THEN p ELSE Users[j]]
  BY DEF With
<1>4. With(i, p) \in [Live \cup {i} -> Profiles]
  BY <1>1, <1>3
<1> HIDE DEF With
<1>5. CASE Lands(With(i, p))
  <2>1. users' = With(i, p) /\ cached' = Absent /\ Rolls' = {With(i, p)}
    BY <1>5 DEF Lands, Rolls
  <2> QED BY <1>2, <1>3, <1>4, <2>1
<1>6. CASE WriteFails(With(i, p))
  <2>1. users' = users /\ cached' = With(i, p) /\ \A f \in Rolls' : f = users \/ f = With(i, p)
    BY <1>6 DEF WriteFails, Rolls
  <2> QED BY <1>2, <1>3, <1>4, <2>1
<1> QED BY <1>5, <1>6

LEMMA AccountsInitInv == AccountsInit => AccountsInv
<1> SUFFICES ASSUME AccountsInit PROVE AccountsInv
  OBVIOUS
<1>1. /\ Rolls = {users} /\ Users = users /\ Live = DOMAIN users /\ cached = Absent
      /\ \A r \in Logins : call[r] = NoCall
  BY DEF AccountsInit, Rolls, Users, Live
<1>2. \/ users = NewBoard /\ DOMAIN users = {} /\ made = 0
      \/ /\ DOMAIN users = {1} /\ made = 1 /\ users[1] \in Profiles /\ users[1].admin
         /\ users[1].pin.era = 0 /\ users = [i \in {1} |-> users[1]]
  <2>1. CASE users = NewBoard
    <3>1. DOMAIN users = {}
      BY <2>1 DEF NewBoard
    <3>2. made = 0
      BY <3>1, FS_EmptySet DEF AccountsInit
    <3> QED BY <2>1, <3>1, <3>2
  <2>2. CASE users \in OldBoards
    <3>1. PICK n \in Names : users = [i \in {1} |-> Profile(n, Pin(0, "old"), TRUE)]
      BY <2>2 DEF OldBoards
    <3>2. DOMAIN users = {1} /\ users[1] = Profile(n, Pin(0, "old"), TRUE) /\ users = [i \in {1} |-> users[1]]
      BY <3>1
    <3>3. made = 1
      BY <3>2, FS_Singleton DEF AccountsInit
    <3>4. Pin(0, "old") \in Pins /\ Pin(0, "old").era = 0
      BY NewPin
    <3>5. /\ users[1] \in Profiles /\ users[1].pin = Pin(0, "old") /\ users[1].admin = TRUE
      BY <3>2, <3>4 DEF Profile, Profiles
    <3> QED BY <3>2, <3>3, <3>4, <3>5
  <2> QED BY <2>1, <2>2 DEF AccountsInit
<1>3. made <= Cardinality(Ids)
  BY <1>2, IdsAreNumbers
<1>4. AccountTypes
  <2>1. \A f \in Rolls : f \in [DOMAIN f -> Profiles] /\ DOMAIN f \subseteq 1..made
    <3>1. <<>> \in [{} -> Profiles] /\ DOMAIN <<>> = {}
      OBVIOUS
    <3>2. CASE users = NewBoard
      BY <1>1, <3>1, <3>2 DEF NewBoard
    <3>3. CASE users # NewBoard
      BY <1>1, <1>2, <3>3
    <3> QED BY <3>2, <3>3
  <2>2. tokens = {} /\ marker = FALSE /\ era = [i \in Ids |-> 0] /\ folder = [n \in Names |-> {}]
        /\ home = [i \in Ids |-> Absent] /\ owners = made
    BY DEF AccountsInit
  <2>3. made \in Nat
    BY <1>2
  <2>4. folder \in [Names -> SUBSET (1..made)]
    BY <2>2
  <2>5. home \in [Ids -> Names \cup {Absent}] /\ \A i \in Ids : home[i] = Absent
    BY <2>2
  <2> QED BY <1>3, <2>1, <2>2, <2>3, <2>4, <2>5 DEF AccountTypes
<1>5. CallTypes
  BY DEF AccountsInit, CallTypes, CallRecords, NoCall
<1>6. RollsAgree /\ LockHeld /\ DownIsQuiet /\ SetupOpen
  BY <1>1 DEF RollsAgree, LockHeld, DownIsQuiet, SetupOpen, NoCall, Holding
<1>7. Opened
  BY <1>2 DEF AccountsInit, Opened
<1>8. Governed
  BY <1>1, <1>2 DEF AccountsInit, Governed, NoCall
<1>9. AnswersKept
  BY <1>1 DEF AccountsInit, AnswersKept, NoCall
<1>10. NamesApart
  BY <1>1, <1>2 DEF NamesApart
<1>11. FoldersApart /\ FilesKept
  <2>1. \A i \in DOMAIN users : users[i].name \in Names
    BY <1>2 DEF Profiles
  <2>2. folder = [n \in Names |-> {}] /\ home = [i \in Ids |-> Absent]
    BY DEF AccountsInit
  <2>3. Live \subseteq Ids
    BY <1>1, <1>2, IdsAreNumbers
  <2> QED BY <1>1, <2>1, <2>2, <2>3 DEF FoldersApart, FilesKept
<1>12. PinsAgree
  <2>1. tokens = {} /\ era = [i \in Ids |-> 0]
    BY DEF AccountsInit
  <2> QED BY <1>1, <1>2, <2>1, IdsAreNumbers DEF PinsAgree, Late
<1> QED BY <1>4, <1>5, <1>6, <1>7, <1>8, <1>9, <1>10, <1>11, <1>12 DEF AccountsInv

------------------------------------------------------------------------------
\* What waits, step by step.
LEMMA CallTypesStep == ASSUME AccountsInv, AccountsNext PROVE CallTypes'
<1>a. /\ call \in [Logins -> CallRecords] /\ made \in Nat
      /\ \A r \in Logins :
          /\ call[r].kind = "create" => call[r].name \in Names
          /\ call[r].kind = "pin" \/ call[r].pc \in {"first", "folders", "verifying", "rehashing"}
                => call[r].id \in 1..made
          /\ call[r].kind = "login" => call[r].pin \in Pins \ {Absent}
  BY DEF AccountsInv, CallTypes, AccountTypes
<1>b. Live \subseteq 1..made /\ Live \subseteq Ids /\ \A i \in Live : Users[i] \in Profiles
  BY UsersIsRoll, IdsAreNumbers DEF AccountsInv, AccountTypes, Live
<1>c. made' \in Nat /\ made <= made'
  <2>1. made' = made \/ made' = made + 1
    BY DEF AccountsNext, AccountsBoot, Die, Expire, LoseUsers, Create, CreateLocked, CreateFirst,
       CreateEnds, AddFamily, AddUser, Login, LoginVerified, Rehashed, ChangePin, PinChanged,
       RemovePin, RemoveSelf, RemoveFamily, Fill, Rename, SetRole, Logout
  <2> QED BY <1>a, <2>1
<1>d. NoCall \in CallRecords /\ NoCall.kind = "none" /\ NoCall.pc = "new"
  BY DEF NoCall, CallRecords
<1>e. LET e == [NoCall EXCEPT !.pc = "done"] IN e \in CallRecords /\ e.kind = "none" /\ e.pc = "done"
  BY DEF NoCall, CallRecords
<1>1. ASSUME \A r \in Logins : \/ call'[r] = call[r] \/ call'[r] = NoCall
                               \/ call'[r] = [NoCall EXCEPT !.pc = "done"],
             call' = [r \in Logins |-> call'[r]]
      PROVE  CallTypes'
  <2> DEFINE e == [NoCall EXCEPT !.pc = "done"]
  <2>1. e \in CallRecords /\ e.kind = "none" /\ e.pc = "done"
    BY <1>e
  <2>2. \A r \in Logins : call'[r] = call[r] \/ call'[r] = NoCall \/ call'[r] = e
    BY <1>1
  <2> HIDE DEF e
  <2>3. call' \in [Logins -> CallRecords]
    BY <1>1, <1>a, <1>d, <2>1, <2>2
  <2>4. ASSUME NEW r \in Logins
        PROVE  /\ call'[r].kind = "create" => call'[r].name \in Names
               /\ call'[r].kind = "pin" \/ call'[r].pc \in {"first", "folders", "verifying", "rehashing"}
                    => call'[r].id \in 1..made'
               /\ call'[r].kind = "login" => call'[r].pin \in Pins \ {Absent}
    BY <1>a, <1>c, <1>d, <2>1, <2>2
  <2> QED BY <2>3, <2>4 DEF CallTypes
<1>2. ASSUME UNCHANGED call PROVE CallTypes'
  BY <1>2, <1>a, <1>1
<1>3. ASSUME NEW r \in Logins, Finish(r) PROVE CallTypes'
  BY <1>3, <1>a, <1>1 DEF Finish
<1>4. CASE Die
  BY <1>4, <1>1 DEF Die
<1>5. ASSUME NEW r \in Logins, NEW c \in CallRecords, call' = [call EXCEPT ![r] = c],
             c.kind = "create" => c.name \in Names,
             c.kind = "pin" \/ c.pc \in {"first", "folders", "verifying", "rehashing"} => c.id \in 1..made',
             c.kind = "login" => c.pin \in Pins \ {Absent}
      PROVE  CallTypes'
  BY <1>5, <1>a, <1>c DEF CallTypes
<1>6. ASSUME NEW r \in Logins, Create(r) PROVE CallTypes'
  <2>1. PICK n \in Names, by \in Live \cup {Absent} :
           Start(r, [NoCall EXCEPT !.kind = "create", !.pc = "hashing", !.name = n, !.by = by])
    BY <1>6 DEF Create
  <2> DEFINE c == [NoCall EXCEPT !.kind = "create", !.pc = "hashing", !.name = n, !.by = by]
  <2>2. c \in CallRecords /\ c.kind = "create" /\ c.name = n /\ c.pc = "hashing"
    BY <1>b, <1>d DEF CallRecords, NoCall
  <2>3. call' = [call EXCEPT ![r] = c]
    BY <2>1 DEF Start
  <2> HIDE DEF c
  <2> QED BY <1>5, <2>2, <2>3
<1>7. ASSUME NEW r \in Logins, Login(r) PROVE CallTypes'
  <2>1. PICK i \in Live :
           IF Users[i].pin = Absent THEN Finish(r)
           ELSE Start(r, [NoCall EXCEPT !.kind = "login", !.pc = "verifying", !.id = i, !.pin = Users[i].pin])
    BY <1>7 DEF Login
  <2> DEFINE c == [NoCall EXCEPT !.kind = "login", !.pc = "verifying", !.id = i, !.pin = Users[i].pin]
  <2>2. CASE Users[i].pin = Absent
    BY <1>3, <2>1, <2>2
  <2>3. CASE Users[i].pin # Absent
    <3>1. Users[i].pin \in Pins \ {Absent} /\ i \in 1..made' /\ i \in Ids
      BY <1>a, <1>b, <1>c, <2>3 DEF Profiles
    <3>2. c \in CallRecords /\ c.kind = "login" /\ c.id = i /\ c.pin = Users[i].pin
      BY <3>1 DEF CallRecords, NoCall
    <3>3. call' = [call EXCEPT ![r] = c]
      BY <2>1, <2>3 DEF Start
    <3> HIDE DEF c
    <3> QED BY <1>5, <3>1, <3>2, <3>3
  <2> QED BY <2>2, <2>3
<1>8. ASSUME NEW r \in Logins, ChangePin(r) PROVE CallTypes'
  <2>1. PICK i \in Live : Start(r, [NoCall EXCEPT !.kind = "pin", !.pc = "hashing", !.id = i])
    BY <1>8 DEF ChangePin
  <2> DEFINE c == [NoCall EXCEPT !.kind = "pin", !.pc = "hashing", !.id = i]
  <2>2. i \in 1..made' /\ i \in Ids
    BY <1>a, <1>b, <1>c
  <2>3. c \in CallRecords /\ c.kind = "pin" /\ c.id = i
    BY <2>2 DEF CallRecords, NoCall
  <2>4. call' = [call EXCEPT ![r] = c]
    BY <2>1 DEF Start
  <2> HIDE DEF c
  <2> QED BY <1>5, <2>2, <2>3, <2>4
<1>9. ASSUME NEW r \in Logins, NEW pc, Continue(r, pc),
             \/ pc = "wiping" /\ Waits(r, "create", "hashing")
             \/ pc = "rehashing" /\ Waits(r, "login", "verifying")
      PROVE  CallTypes'
  <2> DEFINE c == [call[r] EXCEPT !.pc = pc]
  <2>1. /\ c \in CallRecords /\ c.kind = call[r].kind /\ c.name = call[r].name
        /\ c.id = call[r].id /\ c.pin = call[r].pin /\ c.pc = pc
    BY <1>9, <1>a DEF CallRecords, Continue
  <2>2. call' = [call EXCEPT ![r] = c]
    BY <1>9 DEF Continue
  <2>3. /\ call[r].kind \in {"create", "login"}
        /\ pc = "rehashing" => call[r].id \in 1..made'
    BY <1>9, <1>a, <1>c DEF Waits
  <2> HIDE DEF c
  <2>4. c.kind = "pin" \/ c.pc \in {"first", "folders", "verifying", "rehashing"} => c.id \in 1..made'
    BY <1>9, <2>1, <2>3
  <2> QED BY <1>5, <1>a, <2>1, <2>2, <2>4
<1>10. ASSUME NEW r \in Logins, NEW n, NEW pin, NEW admin \in BOOLEAN,
              call[r].kind = "create", AddUser(r, n, pin, admin)
       PROVE  CallTypes'
  <2> DEFINE pc == IF admin THEN "first" ELSE "folders"
             c == [call[r] EXCEPT !.pc = pc, !.id = made + 1]
  <2>1. CASE Finish(r)
    BY <1>3, <2>1
  <2>2. CASE call' = [call EXCEPT ![r].pc = pc, ![r].id = made + 1]
    <3>1. made + 1 \in Ids /\ made + 1 \in 1..made'
      BY <1>10, <1>a, IdsAreNumbers DEF AddUser
    <3>2. pc \in {"first", "folders"}
      OBVIOUS
    <3> HIDE DEF pc
    <3>3. c \in CallRecords /\ c.kind = "create" /\ c.name = call[r].name /\ c.id = made + 1
      BY <1>10, <1>a, <3>1, <3>2 DEF CallRecords
    <3>4. call' = [call EXCEPT ![r] = c]
      BY <1>a, <2>2 DEF CallRecords
    <3> HIDE DEF c
    <3> QED BY <1>5, <1>10, <1>a, <3>1, <3>3, <3>4
  <2> QED BY <1>10, <2>1, <2>2 DEF AddUser
<1>11. ASSUME NEW r \in Logins, CreateLocked(r) \/ CreateFirst(r) PROVE CallTypes'
  BY <1>3, <1>9, <1>10, <1>11 DEF CreateLocked, CreateFirst, Waits
<1>12. ASSUME NEW r \in Logins, LoginVerified(r) PROVE CallTypes'
  BY <1>3, <1>9, <1>12 DEF LoginVerified
<1>13. ASSUME NEW r \in Logins, CreateEnds(r) \/ AddFamily(r) \/ Rehashed(r) \/ PinChanged(r)
       PROVE  CallTypes'
  BY <1>3, <1>13 DEF CreateEnds, AddFamily, Rehashed, PinChanged
<1> QED
  BY <1>2, <1>4, <1>6, <1>7, <1>8, <1>11, <1>12, <1>13
  DEF AccountsNext, AccountsBoot, Expire, LoseUsers, RemovePin, RemoveSelf, RemoveFamily, Fill, Rename,
      SetRole, Logout

------------------------------------------------------------------------------
\* The ways in which a step writes the list of profiles.

\* Nobody else has the name n, or files under it, unless n is shared.
OwnName(n, i) == \A j \in Live \ {i} : Users[j].name = n \/ j \in folder[n] => <<"shared", n>> \in blame'

Writes(i, p) == /\ p \in Profiles
                /\ Lands(With(i, p)) \/ WriteFails(With(i, p))
                /\ blame \subseteq blame'
                /\ UNCHANGED <<marker, folder, home, up>>

\* A request, or none, ends.
OneEnds == \A r \in Logins : call'[r] = call[r] \/ call'[r].pc = "done"

Edits(i, p) ==
    /\ i \in Live /\ Writes(i, p) /\ OneEnds /\ up
    /\ UNCHANGED <<made, owners, answered>>
    /\ p.admin \/ p.admin = Users[i].admin \/ \E j \in Live \ {i} : Users[j].admin
    /\ \/ p.name = Users[i].name
       \/ OwnName(p.name, i) /\ (Lands(With(i, p)) \/ <<"shared", Users[i].name>> \in blame')
    /\ \/ /\ UNCHANGED <<era, tokens>>
          /\ p.pin = Absent \/ p.pin = Users[i].pin \/ p.pin.era = era[i] \/ <<"torn", i>> \in blame'
       \/ /\ Lands(With(i, p)) /\ era' = [era EXCEPT ![i] = @ + 1] /\ p.pin.era = era[i] + 1
          /\ Revoke(i) \/ (tokens' \subseteq tokens /\ <<"unrevoked", i>> \in blame')

\* Nobody looks at an empty board any more, and who goes on goes on with the new profile.
CallsAfter(p) == \A q \in Logins :
    /\ call'[q].pc # "wiping"
    /\ \/ call'[q] = call[q] \/ call'[q].pc = "done"
       \/ call'[q].pc \in {"first", "folders"} /\ call'[q].id = made + 1 /\ users' = With(made + 1, p)

Adds(p) ==
    /\ made < Cardinality(Ids) /\ made' = made + 1 /\ Writes(made + 1, p) /\ up
    /\ p.admin \/ Admins # {}
    /\ OwnName(p.name, made + 1)
    /\ p.pin = Absent \/ p.pin.era = 0
    /\ UNCHANGED <<era, tokens>>
    /\ CallsAfter(p)
    /\ \/ answered' = answered
       \/ answered' = answered \cup {made + 1} /\ users' = With(made + 1, p)
    /\ \/ owners' = owners
       \/ owners' = owners + 1 /\ users' = With(made + 1, p) /\ (owners = 0 \/ Blamed("exposed"))

Removes(i) ==
    /\ i \in Live /\ Lands(Without(i)) /\ tokens' \subseteq tokens /\ OneEnds /\ up
    /\ folder' \in {folder, [folder EXCEPT ![Users[i].name] = {}]}
    /\ answered' = answered \ {i}
    /\ blame \subseteq blame' /\ UNCHANGED <<marker, made, owners, era, home, up>>
    /\ \/ Blamed("ousted")'
       \/ Users[i].admin => \E j \in Live \ {i} : Users[j].admin
    /\ (\E j \in Live : j # i) \/ marker \/ Blamed("exposed")'

Forgets == /\ cached' = Absent
           /\ UNCHANGED <<users, marker, tokens, folder, made, era, owners, answered, home, blame>>
           /\ \/ UNCHANGED <<call, up>>
              \/ \A r \in Logins : call'[r].pc \in {"new", "done"}

\* Nothing is written: requests start, go on to another hash or end, and tokens are given.
Rests == /\ UNCHANGED <<users, cached, marker, folder, up, made, era, owners, answered, home>>
         /\ blame \subseteq blame' /\ up
         /\ \A r \in Logins : \/ call'[r] = call[r]
                              \/ call'[r].pc \in {"new", "done", "hashing", "verifying", "rehashing"}
         /\ \A t \in tokens' : \/ t \in tokens
                              \/ /\ t.user \in 1..made
                                 /\ t.era = era[t.user] \/ <<"overtaken", t.user>> \in blame'

\* What is served is a list of profiles, and served while somebody waits.
LEMMA Served ==
  ASSUME AccountsInv
  PROVE  /\ Users \in [Live -> Profiles] /\ Live \subseteq 1..made /\ Live \subseteq Ids
         /\ made + 1 \notin Live /\ DOMAIN users \subseteq Live
         /\ \A i \in Live : /\ Users[i].name \in Names /\ Users[i].pin \in Pins \cup {Absent}
                            /\ Users[i].admin \in BOOLEAN
         /\ \A r \in Logins : call[r].pc \notin {"new", "done"} => up
<1>1. Users \in [Live -> Profiles] /\ Live \subseteq 1..made /\ DOMAIN users \subseteq Live
  BY UsersIsRoll DEF AccountsInv, AccountTypes, RollsAgree, Live
<1>2. made \in Nat /\ made <= Cardinality(Ids)
  BY DEF AccountsInv, AccountTypes
<1>3. \A r \in Logins : call[r].pc \notin {"new", "done"} => up
  BY DEF AccountsInv, DownIsQuiet
<1>4. \A i \in Live : /\ Users[i].name \in Names /\ Users[i].pin \in Pins \cup {Absent}
                      /\ Users[i].admin \in BOOLEAN
  BY <1>1 DEF Profiles
<1>5. made + 1 \notin 1..made /\ 1..made \subseteq 1..Cardinality(Ids)
  BY <1>2, IdsAreNumbers
<1> QED BY <1>1, <1>3, <1>4, <1>5, IdsAreNumbers

LEMMA EndsOne ==
  ASSUME AccountsInv, NEW r \in Logins, Finish(r)
  PROVE  OneEnds
<1>1. [NoCall EXCEPT !.pc = "done"].pc = "done"
  BY DEF NoCall
<1>2. call \in [Logins -> CallRecords]
  BY DEF AccountsInv, CallTypes
<1> QED BY <1>1, <1>2 DEF Finish, OneEnds

LEMMA EditSteps ==
  ASSUME AccountsInv,
         \/ \E r \in Logins : Rehashed(r) \/ PinChanged(r)
         \/ \E i \in Ids : RemovePin(i)
         \/ \E i \in Ids, n \in Names : Rename(i, n)
         \/ \E i \in Ids, admin \in BOOLEAN : SetRole(i, admin)
  PROVE  \/ \E i \in Live, p \in Profiles : Edits(i, p)
         \/ /\ UNCHANGED <<users, cached, marker, folder, up, creating, made, era, owners, answered, home,
                           blame>>
            /\ OneEnds /\ tokens' \subseteq tokens
<1>a. /\ Users \in [Live -> Profiles] /\ \A r \in Logins : call[r].pc \notin {"new", "done"} => up
      /\ \A i \in Live : /\ Users[i].name \in Names /\ Users[i].pin \in Pins \cup {Absent}
                         /\ Users[i].admin \in BOOLEAN
  BY Served
<1>b. era \in [Ids -> Nat] /\ Live \subseteq Ids
  BY Served DEF AccountsInv, AccountTypes
<1>c. UNCHANGED call => OneEnds
  BY DEF OneEnds
<1>1. ASSUME NEW r \in Logins, Rehashed(r)
      PROVE  \/ \E i \in Live, p \in Profiles : Edits(i, p)
             \/ /\ UNCHANGED <<users, cached, marker, folder, up, creating, made, era, owners, answered,
                               home, blame, tokens>>
                /\ OneEnds
  <2> DEFINE i == call[r].id
             q == Pin(call[r].pin.era, "new")
             p == [Users[i] EXCEPT !.pin = q]
  <2>1. OneEnds /\ up
    BY <1>1, <1>a, EndsOne DEF Rehashed, Waits
  <2>2. CASE Unchanged(r) /\ (Saved(With(i, p)) \/ WriteFails(With(i, p)))
    <3>1. i \in Live /\ Users[i].pin = call[r].pin /\ call[r].pin \in Pins \ {Absent}
      BY <1>1, <2>2 DEF Unchanged, Rehashed, Waits, AccountsInv, CallTypes
    <3>2. q \in Pins /\ q.era = Users[i].pin.era
      BY <3>1, NewPin DEF Pins
    <3>3. q.era = era[i] \/ <<"torn", i>> \in blame
      BY <3>1, <3>2, UsersIsRoll DEF AccountsInv, PinsAgree, Late, Live
    <3>4. Users[i] \in Profiles
      BY <1>a, <3>1
    <3> HIDE DEF q, i
    <3>5. p \in Profiles /\ p.name = Users[i].name /\ p.admin = Users[i].admin /\ p.pin = q
      BY <3>2, <3>4, ProfileWith
    <3> HIDE DEF p
    <3>6. Writes(i, p)
      BY <1>1, <2>2, <3>5 DEF Writes, Rehashed, Saved, Lands
    <3>7. UNCHANGED <<made, owners, answered, creating, era, tokens, blame>>
      BY <1>1 DEF Rehashed
    <3>8. Edits(i, p)
      BY <2>1, <3>1, <3>3, <3>5, <3>6, <3>7 DEF Edits
    <3> QED BY <3>1, <3>5, <3>8
  <2>3. CASE ~Unchanged(r) /\ UNCHANGED <<users, cached, mishaps>>
    BY <1>1, <2>1, <2>3 DEF Rehashed
  <2> QED BY <1>1, <2>2, <2>3 DEF Rehashed
<1>2. ASSUME NEW r \in Logins, PinChanged(r)
      PROVE  \/ \E i \in Live, p \in Profiles : Edits(i, p)
             \/ /\ UNCHANGED <<users, cached, marker, folder, up, creating, made, era, owners, answered,
                               home, blame>>
                /\ OneEnds /\ tokens' \subseteq tokens
  <2> DEFINE i == call[r].id
             q == Pin(era[i] + 1, "new")
             p == [Users[i] EXCEPT !.pin = q]
  <2>1. OneEnds /\ up /\ UNCHANGED <<marker, folder, up, creating, made, owners, answered, home>>
    BY <1>2, <1>a, EndsOne DEF PinChanged, Waits
  <2>2. ASSUME i \in Live PROVE  /\ p \in Profiles /\ p.name = Users[i].name
                                 /\ p.admin = Users[i].admin /\ p.pin = q /\ q.era = era[i] + 1
    <3>1. q \in Pins /\ q.era = era[i] + 1
      BY <1>b, <2>2, NewPin
    <3>2. Users[i] \in Profiles
      BY <1>a, <2>2
    <3> HIDE DEF q, i
    <3> QED BY <3>1, <3>2, ProfileWith
  <2>3. CASE /\ i \in Live /\ Lands(With(i, p)) /\ era' = [era EXCEPT ![i] = @ + 1]
             /\ \/ Revoke(i) /\ UNCHANGED <<mishaps, blame>>
                \/ RevokeFails(i) /\ blame' = blame \cup {<<"unrevoked", i>>}
    <3> HIDE DEF p
    <3>1. Writes(i, p)
      BY <2>1, <2>2, <2>3 DEF Writes
    <3>2. Revoke(i) \/ (tokens' \subseteq tokens /\ <<"unrevoked", i>> \in blame')
      BY <2>3 DEF RevokeFails
    <3>3. Edits(i, p)
      BY <2>1, <2>2, <2>3, <3>1, <3>2 DEF Edits
    <3> QED BY <2>2, <2>3, <3>3
  <2>4. CASE /\ i \in Live /\ WriteFails(With(i, p)) /\ blame' = blame \cup {<<"torn", i>>}
             /\ UNCHANGED <<era, tokens>>
    <3> HIDE DEF p
    <3>1. Writes(i, p)
      BY <2>1, <2>2, <2>4 DEF Writes
    <3>2. Edits(i, p)
      BY <2>1, <2>2, <2>4, <3>1 DEF Edits
    <3> QED BY <2>2, <2>4, <3>2
  <2>5. CASE /\ IF i \in Live THEN UNCHANGED tokens ELSE Revoke(i)
             /\ UNCHANGED <<users, cached, era, mishaps, blame>>
    BY <2>1, <2>5 DEF Revoke
  <2> QED BY <1>2, <2>3, <2>4, <2>5 DEF PinChanged, Lands
<1>3. ASSUME NEW i \in Ids, RemovePin(i) PROVE \E p \in Profiles : i \in Live /\ Edits(i, p)
  <2> DEFINE p == [Users[i] EXCEPT !.pin = Absent]
  <2>1. i \in Live /\ up /\ (Saved(With(i, p)) \/ WriteFails(With(i, p)))
        /\ UNCHANGED <<marker, tokens, folder, up, creating, call, made, era, owners, answered, home, blame>>
    BY <1>3 DEF RemovePin
  <2>2. p \in Profiles /\ p.name = Users[i].name /\ p.admin = Users[i].admin /\ p.pin = Absent
    BY <1>a, <2>1, ProfileWith
  <2> HIDE DEF p
  <2>3. Edits(i, p)
    BY <1>c, <2>1, <2>2 DEF Edits, Writes, Saved, Lands
  <2> QED BY <2>1, <2>2, <2>3
<1>4. ASSUME NEW i \in Ids, NEW n \in Names, Rename(i, n) PROVE \E p \in Profiles : i \in Live /\ Edits(i, p)
  <2> DEFINE p == [Users[i] EXCEPT !.name = n]
             left == IF LeftUnder(n, i) THEN {<<"shared", n>>} ELSE {}
  <2>1. /\ i \in Live /\ up /\ ~Taken(n, i)
        /\ \/ Saved(With(i, p)) /\ blame' = blame \cup left
           \/ WriteFails(With(i, p)) /\ blame' = blame \cup left \cup {<<"shared", Users[i].name>>}
        /\ UNCHANGED <<marker, tokens, folder, up, creating, call, made, era, owners, answered, home>>
    BY <1>4 DEF Rename
  <2>2. p \in Profiles /\ p.name = n /\ p.admin = Users[i].admin /\ p.pin = Users[i].pin
    BY <1>a, <2>1, ProfileWith
  <2>3. OwnName(n, i) /\ blame \subseteq blame'
    BY <2>1 DEF OwnName, Taken, LeftUnder
  <2> HIDE DEF p, left
  <2>4. Saved(With(i, p)) \/ <<"shared", Users[i].name>> \in blame'
    BY <2>1
  <2>5. Edits(i, p)
    BY <1>c, <2>1, <2>2, <2>3, <2>4 DEF Edits, Writes, Saved, Lands
  <2> QED BY <2>1, <2>2, <2>5
<1>5. ASSUME NEW i \in Ids, NEW admin \in BOOLEAN, SetRole(i, admin)
      PROVE  \E p \in Profiles : i \in Live /\ Edits(i, p)
  <2> DEFINE p == [Users[i] EXCEPT !.admin = admin]
  <2>1. /\ i \in Live /\ up /\ (admin \/ SeveralAdmins) /\ (Saved(With(i, p)) \/ WriteFails(With(i, p)))
        /\ UNCHANGED <<marker, tokens, folder, up, creating, call, made, era, owners, answered, home, blame>>
    BY <1>5 DEF SetRole
  <2>2. p \in Profiles /\ p.name = Users[i].name /\ p.admin = admin /\ p.pin = Users[i].pin
    BY <1>a, <2>1, ProfileWith
  <2> HIDE DEF p
  <2>3. p.admin \/ \E j \in Live \ {i} : Users[j].admin
    BY <2>1, <2>2, AnotherOne DEF SeveralAdmins, Admins
  <2>4. Edits(i, p)
    BY <1>c, <2>1, <2>2, <2>3 DEF Edits, Writes, Saved, Lands
  <2> QED BY <2>1, <2>2, <2>4
<1> QED BY <1>1, <1>2, <1>3, <1>4, <1>5

LEMMA AddSteps ==
  ASSUME AccountsInv, NEW r \in Logins,
         \/ CreateLocked(r) /\ made' # made
         \/ CreateFirst(r) \/ AddFamily(r)
  PROVE  \E p \in Profiles : Adds(p)
<1>a. /\ Users \in [Live -> Profiles] /\ made + 1 \notin Live /\ made \in Nat /\ Live \subseteq Ids
      /\ call[r].pc \notin {"new", "done"} => up
      /\ call \in [Logins -> CallRecords] /\ SetupOpen /\ LockHeld
  BY Served DEF AccountsInv, AccountTypes, CallTypes
<1>b. Absent \notin Live /\ Absent \in Pins \cup {Absent} /\ Pin(0, "new") \in Pins /\ Pin(0, "new").era = 0
  BY <1>a, NewPin, IdsAreNumbers
<1>c. Absent \notin Logins
  BY IdsAreNumbers
<1>1. ASSUME NEW n \in Names, NEW admin \in BOOLEAN, AddUser(r, n, Pin(0, "new"), admin),
             admin \/ Admins # {}, up, ~Taken(n, Absent),
             \A q \in Logins \ {r} : call[q].pc # "wiping",
             admin => owners = 0 \/ Blamed("exposed"),
             UNCHANGED <<marker, tokens, folder, era, home, answered, up>>
      PROVE  \E p \in Profiles : Adds(p)
  <2> DEFINE p == Profile(n, Pin(0, "new"), admin)
  <2>1. p \in Profiles /\ p.name = n /\ p.pin = Pin(0, "new") /\ p.admin = admin
    BY <1>b, NewProfile
  <2>2. /\ made < Cardinality(Ids) /\ made' = made + 1
        /\ \/ /\ Saved(With(made + 1, p)) /\ owners' = owners + (IF admin THEN 1 ELSE 0)
              /\ call' = [call EXCEPT ![r].pc = IF admin THEN "first" ELSE "folders", ![r].id = made + 1]
           \/ WriteFails(With(made + 1, p)) /\ Finish(r) /\ UNCHANGED owners
        /\ blame' = blame \cup (IF LeftUnder(n, made + 1) THEN {<<"shared", n>>} ELSE {})
    BY <1>1 DEF AddUser
  <2> HIDE DEF p
  <2>3. OwnName(n, made + 1) /\ blame \subseteq blame'
    BY <1>1, <1>b, <2>2 DEF OwnName, Taken, LeftUnder
  <2>4. Writes(made + 1, p)
    BY <1>1, <2>1, <2>2, <2>3 DEF Writes, Saved, Lands
  <2>5. CallsAfter(p)
    <3>1. CASE Finish(r)
      <4>1. /\ call'[r].pc = "done" /\ \A q \in Logins \ {r} : call'[q] = call[q]
        BY <1>a, <3>1 DEF Finish, NoCall
      <4> QED BY <1>1, <4>1 DEF CallsAfter
    <3>2. CASE /\ Saved(With(made + 1, p))
               /\ call' = [call EXCEPT ![r].pc = IF admin THEN "first" ELSE "folders", ![r].id = made + 1]
      <4>1. /\ call'[r].pc \in {"first", "folders"} /\ call'[r].id = made + 1
            /\ \A q \in Logins \ {r} : call'[q] = call[q]
        BY <1>a, <3>2 DEF CallRecords
      <4>2. users' = With(made + 1, p)
        BY <3>2 DEF Saved
      <4> QED BY <1>1, <4>1, <4>2 DEF CallsAfter
    <3> QED BY <2>2, <3>1, <3>2
  <2>6. \/ owners' = owners
        \/ owners' = owners + 1 /\ users' = With(made + 1, p) /\ (owners = 0 \/ Blamed("exposed"))
    <3>1. owners \in Nat
      BY DEF AccountsInv, AccountTypes
    <3>2. Saved(With(made + 1, p)) => users' = With(made + 1, p)
      BY DEF Saved
    <3> QED BY <1>1, <2>2, <3>1, <3>2
  <2>7. Adds(p)
    BY <1>1, <1>b, <2>1, <2>2, <2>3, <2>4, <2>5, <2>6 DEF Adds
  <2> QED BY <2>1, <2>7
<1>2. CASE CreateLocked(r) /\ made' # made
  <2>1. /\ AddUser(r, call[r].name, Pin(0, "new"), FALSE)
        /\ IsAdmin(call[r].by) /\ ~Taken(call[r].name, Absent)
    BY <1>2 DEF CreateLocked
  <2>2. call[r].name \in Names /\ up /\ Admins # {}
    BY <1>2, <1>a, <2>1 DEF CreateLocked, Waits, IsAdmin, Admins, AccountsInv, CallTypes
  <2>3. UNCHANGED <<marker, tokens, folder, era, home, answered, up>> /\ creating = Absent
    BY <1>2 DEF CreateLocked
  <2>4. \A q \in Logins : call[q].pc # "wiping"
    BY <1>a, <1>c, <2>3 DEF LockHeld, Holding
  <2> QED BY <1>1, <2>1, <2>2, <2>3, <2>4
<1>3. CASE CreateFirst(r)
  <2>1. AddUser(r, call[r].name, Pin(0, "new"), TRUE)
        /\ UNCHANGED <<marker, tokens, folder, era, home, answered, up>>
    BY <1>3 DEF CreateFirst
  <2>2. /\ call[r].name \in Names /\ up /\ users = NewBoard /\ cached = Absent
        /\ owners = 0 \/ Blamed("exposed")
    BY <1>3, <1>a DEF CreateFirst, Waits, AccountsInv, CallTypes, SetupOpen
  <2>3. ~Taken(call[r].name, Absent)
    BY <2>2 DEF Taken, Live, Users, NewBoard
  <2>4. \A q \in Logins \ {r} : call[q].pc # "wiping"
    BY <1>3, <1>a DEF CreateFirst, Waits, LockHeld, Holding
  <2> QED BY <1>1, <2>1, <2>2, <2>3, <2>4
<1>4. CASE AddFamily(r)
  <2>1. PICK n \in Names :
           /\ Admins # {} /\ up /\ made < Cardinality(Ids) /\ made' = made + 1
           /\ \/ Saved(With(made + 1, Profile(n, Absent, FALSE))) /\ answered' = answered \cup {made + 1}
              \/ WriteFails(With(made + 1, Profile(n, Absent, FALSE))) /\ UNCHANGED answered
           /\ blame' = blame \cup (IF Taken(n, Absent) \/ LeftUnder(n, Absent) THEN {<<"shared", n>>} ELSE {})
    BY <1>4 DEF AddFamily
  <2> DEFINE p == Profile(n, Absent, FALSE)
  <2>2. UNCHANGED <<marker, tokens, folder, era, home, owners, up>> /\ Finish(r)
    BY <1>4 DEF AddFamily
  <2>3. OwnName(n, made + 1) /\ blame \subseteq blame'
    BY <1>b, <2>1 DEF OwnName, Taken, LeftUnder
  <2>4. p \in Profiles /\ p.name = n /\ p.pin = Absent
    BY DEF Profile, Profiles
  <2>5. Saved(With(made + 1, p)) => users' = With(made + 1, p)
    BY DEF Saved
  <2>6. Saved(With(made + 1, p)) \/ WriteFails(With(made + 1, p))
    BY <2>1
  <2>7. \/ answered' = answered
        \/ answered' = answered \cup {made + 1} /\ users' = With(made + 1, p)
    BY <2>1, <2>5
  <2> HIDE DEF p
  <2>8. CallsAfter(p)
    <3>1. /\ call'[r].pc = "done" /\ \A q \in Logins \ {r} : call'[q] = call[q]
      BY <1>a, <2>2 DEF Finish, NoCall
    <3>2. \A q \in Logins : call[q].pc # "wiping"
      <4>1. PICK i \in Live : TRUE
        BY <2>1 DEF Admins
      <4> QED BY <1>a, <4>1 DEF SetupOpen, Live, Users, NewBoard
    <3> QED BY <3>1, <3>2 DEF CallsAfter
  <2>9. Adds(p)
    <3>1. Writes(made + 1, p)
      BY <2>2, <2>3, <2>4, <2>6 DEF Writes, Saved, Lands
    <3> QED BY <2>1, <2>2, <2>3, <2>4, <2>7, <2>8, <3>1 DEF Adds
  <2> QED BY <2>4, <2>9
<1> QED BY <1>2, <1>3, <1>4

LEMMA RemoveSteps ==
  ASSUME AccountsInv, NEW i \in Ids, RemoveSelf(i) \/ RemoveFamily(i)
  PROVE  \/ Removes(i)
         \/ /\ UNCHANGED <<users, cached, tokens, folder, answered, marker, up, creating, call, made, era,
                           owners, home>>
            /\ blame \subseteq blame'
<1>a. UNCHANGED call => OneEnds
  BY DEF OneEnds
<1>1. /\ i \in Live /\ up /\ RemoveProfile(i)
      /\ UNCHANGED <<marker, up, creating, call, made, era, owners, home>> /\ blame \subseteq blame'
  BY DEF RemoveSelf, RemoveFamily
<1>b. (Lands(Without(i)) /\ tokens' \subseteq tokens /\ answered' = answered \ {i}
       /\ folder' \in {folder, [folder EXCEPT ![Users[i].name] = {}]})
      \/ UNCHANGED <<users, cached, tokens, folder, answered>>
  BY <1>1 DEF RemoveProfile, Revoke, RevokeFails, Lands
<1>2. CASE RemoveSelf(i)
  <2>1. \E j \in Live : j # i
    BY <1>2, AnotherOne DEF RemoveSelf
  <2>2. Users[i].admin => \E j \in Live \ {i} : Users[j].admin
    BY <1>1, <1>2, AnotherOne DEF RemoveSelf, IsAdmin, SeveralAdmins, Admins
  <2> QED BY <1>1, <1>a, <1>b, <2>1, <2>2 DEF Removes
<1>3. CASE RemoveFamily(i)
  <2>1. Blamed("ousted")' \/ (Users[i].admin => \E j \in Live \ {i} : Users[j].admin)
    BY <1>1, <1>3 DEF RemoveFamily, IsAdmin, Blamed
  <2>2. (\E j \in Live : j # i) \/ marker \/ Blamed("exposed")'
    BY <1>1, <1>3 DEF RemoveFamily, Blamed
  <2> QED BY <1>1, <1>a, <1>b, <2>1, <2>2 DEF Removes
<1> QED BY <1>2, <1>3

\* Whatever is not one of these leaves the list as it is.
LEMMA RestSteps ==
  ASSUME AccountsInv, NEW r \in Logins,
         \/ Create(r) \/ Login(r) \/ LoginVerified(r) \/ ChangePin(r)
         \/ CreateLocked(r) /\ made' = made /\ creating' = creating
  PROVE  Rests
<1>a. /\ Users \in [Live -> Profiles] /\ Live \subseteq 1..made
      /\ call[r].pc \notin {"new", "done"} => up
      /\ call \in [Logins -> CallRecords] /\ made \in Nat /\ creating \in {creating}
  BY Served DEF AccountsInv, AccountTypes, CallTypes
<1>b. Absent \notin Logins
  BY IdsAreNumbers
<1>c. ASSUME Finish(r)
      PROVE  \A q \in Logins : call'[q] = call[q] \/ call'[q].pc = "done"
  BY <1>c, EndsOne DEF OneEnds
<1>d. ASSUME NEW c, Start(r, c), c.pc \in {"hashing", "verifying"}
      PROVE  up /\ \A q \in Logins : call'[q] = call[q] \/ call'[q].pc \in {"hashing", "verifying"}
  BY <1>a, <1>d DEF Start
<1>1. CASE Create(r)
  <2>1. PICK n \in Names, by \in Live \cup {Absent} :
           Start(r, [NoCall EXCEPT !.kind = "create", !.pc = "hashing", !.name = n, !.by = by])
    BY <1>1 DEF Create
  <2> DEFINE c == [NoCall EXCEPT !.kind = "create", !.pc = "hashing", !.name = n, !.by = by]
  <2>2. c.pc = "hashing"
    BY DEF NoCall
  <2> HIDE DEF c
  <2> QED BY <1>1, <1>d, <2>1, <2>2 DEF c, Create, Rests
<1>2. CASE ChangePin(r)
  <2>1. PICK i \in Live : Start(r, [NoCall EXCEPT !.kind = "pin", !.pc = "hashing", !.id = i])
    BY <1>2 DEF ChangePin
  <2> DEFINE c == [NoCall EXCEPT !.kind = "pin", !.pc = "hashing", !.id = i]
  <2>2. c.pc = "hashing"
    BY DEF NoCall
  <2> HIDE DEF c
  <2> QED BY <1>2, <1>d, <2>1, <2>2 DEF c, ChangePin, Rests
<1>3. CASE Login(r)
  <2>1. PICK i \in Live :
           IF Users[i].pin = Absent THEN up /\ Finish(r) /\ AddToken(i, era[i])
           ELSE /\ Start(r, [NoCall EXCEPT !.kind = "login", !.pc = "verifying", !.id = i, !.pin = Users[i].pin])
                /\ UNCHANGED tokens
    BY <1>3 DEF Login
  <2> DEFINE c == [NoCall EXCEPT !.kind = "login", !.pc = "verifying", !.id = i, !.pin = Users[i].pin]
  <2>2. c.pc = "verifying"
    BY DEF NoCall
  <2>3. UNCHANGED <<users, cached, marker, folder, up, creating, made, era, owners, answered, home, blame>>
    BY <1>3 DEF Login
  <2> HIDE DEF c
  <2>4. CASE Users[i].pin = Absent
    <3>1. \A t \in tokens' : t \in tokens \/ (t.user \in 1..made /\ t.era = era[t.user])
      <4>1. tokens' = tokens \cup {[user |-> i, era |-> era[i]]} /\ i \in 1..made
        BY <1>a, <2>1, <2>4 DEF AddToken
      <4> QED BY <4>1
    <3>2. up /\ \A q \in Logins : call'[q] = call[q] \/ call'[q].pc = "done"
      BY <1>c, <2>1, <2>4
    <3> QED BY <2>3, <3>1, <3>2 DEF Rests
  <2>5. CASE Users[i].pin # Absent
    BY <1>d, <2>1, <2>2, <2>3, <2>5 DEF c, Rests
  <2> QED BY <2>4, <2>5
<1>4. CASE LoginVerified(r)
  <2> DEFINE i == call[r].id
  <2>1. i \in 1..made /\ up
    BY <1>4, <1>a DEF AccountsInv, CallTypes, LoginVerified, Waits
  <2>2. /\ tokens' = tokens \cup {[user |-> i, era |-> call[r].pin.era]}
        /\ blame' = blame \cup (IF call[r].pin.era = era[i] THEN {} ELSE {<<"overtaken", i>>})
        /\ UNCHANGED <<users, cached, marker, folder, up, creating, made, era, owners, answered, home>>
    BY <1>4 DEF LoginVerified, AddToken
  <2> HIDE DEF i
  <2>3. \A t \in tokens' : \/ t \in tokens
                           \/ /\ t.user \in 1..made
                              /\ t.era = era[t.user] \/ <<"overtaken", t.user>> \in blame'
    BY <2>1, <2>2
  <2>4. \A q \in Logins : call'[q] = call[q] \/ call'[q].pc \in {"done", "rehashing"}
    <3>1. ASSUME Continue(r, "rehashing")
          PROVE  \A q \in Logins : call'[q] = call[q] \/ call'[q].pc \in {"done", "rehashing"}
      BY <1>a, <3>1 DEF Continue, CallRecords
    <3> QED BY <1>4, <1>c, <3>1 DEF LoginVerified
  <2> QED BY <2>1, <2>2, <2>3, <2>4 DEF Rests
<1>5. CASE CreateLocked(r) /\ made' = made /\ creating' = creating
  <2>1. up /\ creating = Absent /\ UNCHANGED <<marker, tokens, folder, up, era, answered, home>>
    BY <1>5, <1>a DEF CreateLocked, Waits
  <2>2. Finish(r) /\ UNCHANGED <<users, cached, owners, blame>>
    <3>1. creating' # r
      BY <1>5, <1>b, <2>1
    <3>2. ~AddUser(r, call[r].name, Pin(0, "new"), FALSE)
      <4> SUFFICES ASSUME AddUser(r, call[r].name, Pin(0, "new"), FALSE) PROVE FALSE
        OBVIOUS
      <4>1. made' = made + 1
        BY DEF AddUser
      <4> QED BY <1>5, <1>a, <4>1
    <3> QED BY <1>5, <3>1, <3>2 DEF CreateLocked
  <2> QED BY <1>5, <1>c, <2>1, <2>2 DEF Rests
<1> QED BY <1>1, <1>2, <1>3, <1>4, <1>5

\* Every step is one of these.
LEMMA AccountKinds ==
  ASSUME AccountsInv, AccountsNext
  PROVE  \/ \E i \in Live, p \in Profiles : Edits(i, p)
         \/ \E p \in Profiles : Adds(p)
         \/ \E i \in Ids : Removes(i) \/ Fill(i)
         \/ Forgets \/ LoseUsers \/ AccountsBoot \/ Rests
         \/ \E r \in Logins : CreateEnds(r) \/ (CreateLocked(r) /\ made' = made /\ creating' = r)
<1>1. CASE \E r \in Logins : Rehashed(r) \/ PinChanged(r)
  <2>1. \E r \in Logins : call[r].pc \notin {"new", "done"}
    BY <1>1 DEF Rehashed, PinChanged, Waits
  <2> QED BY <1>1, <2>1, EditSteps, Served DEF OneEnds, Rests
<1>2. CASE \/ \E i \in Ids : RemovePin(i)
           \/ \E i \in Ids, n \in Names : Rename(i, n)
           \/ \E i \in Ids, admin \in BOOLEAN : SetRole(i, admin)
  <2>1. up /\ UNCHANGED <<tokens, call>>
    BY <1>2 DEF RemovePin, Rename, SetRole
  <2> QED BY <1>2, <2>1, EditSteps DEF Rests
<1>3. ASSUME NEW r \in Logins, CreateFirst(r) \/ AddFamily(r)
      PROVE  \E p \in Profiles : Adds(p)
  BY <1>3, AddSteps
<1>4. ASSUME NEW r \in Logins, CreateLocked(r)
      PROVE  \/ \E p \in Profiles : Adds(p)
             \/ Rests \/ (made' = made /\ creating' = r)
  <2>1. made \in Nat
    BY DEF AccountsInv, AccountTypes
  <2>2. made' # made \/ creating' \in {creating, r}
    BY <1>4, <2>1 DEF CreateLocked, AddUser
  <2> QED BY <1>4, <2>2, AddSteps, RestSteps
<1>5. ASSUME NEW i \in Ids, RemoveSelf(i) \/ RemoveFamily(i) PROVE Removes(i) \/ Rests
  <2>1. up
    BY <1>5 DEF RemoveSelf, RemoveFamily
  <2> QED BY <1>5, <2>1, RemoveSteps DEF Rests
<1>6. ASSUME NEW r \in Logins, Create(r) \/ Login(r) \/ LoginVerified(r) \/ ChangePin(r) PROVE Rests
  BY <1>6, RestSteps
<1>7. CASE Expire
  BY <1>7 DEF Expire, Forgets
<1>8. CASE Die
  <2>1. \A r \in Logins : call'[r].pc \in {"new", "done"}
    BY <1>8 DEF Die, NoCall
  <2> QED BY <1>8, <2>1 DEF Die, Forgets
<1>9. ASSUME NEW t \in tokens, Logout(t) PROVE Rests
  BY <1>9 DEF Logout, Rests
<1> QED BY <1>1, <1>2, <1>3, <1>4, <1>5, <1>6, <1>7, <1>8, <1>9 DEF AccountsNext

------------------------------------------------------------------------------
\* Who holds the lock, and what a process that is down leaves.
LEMMA LockHeldStep == ASSUME AccountsInv, AccountsNext PROVE LockHeld'
<1>a. /\ \A r \in Logins : call[r].pc \in Holding => creating = r
      /\ call \in [Logins -> CallRecords]
  BY DEF AccountsInv, LockHeld, CallTypes
<1>b. Absent \notin Logins
  BY IdsAreNumbers
<1>1. ASSUME UNCHANGED <<call, creating>> PROVE LockHeld'
  BY <1>1, <1>a DEF LockHeld
<1>2. ASSUME NEW r \in Logins, \A q \in Logins \ {r} : call'[q] = call[q],
             call'[r].pc \in Holding => creating' = r,
             creating' = creating \/ creating = r \/ creating = Absent
      PROVE  LockHeld'
  BY <1>2, <1>a, <1>b DEF LockHeld
<1>3. ASSUME NEW r \in Logins, Finish(r)
      PROVE  call'[r].pc \notin Holding /\ \A q \in Logins \ {r} : call'[q] = call[q]
  BY <1>3, <1>a DEF Finish, NoCall, Holding
<1>4. ASSUME NEW r \in Logins, NEW pc, Continue(r, pc)
      PROVE  call'[r].pc = pc /\ \A q \in Logins \ {r} : call'[q] = call[q]
  BY <1>4, <1>a DEF Continue, CallRecords
<1>5. ASSUME NEW r \in Logins, Create(r) \/ Login(r) \/ ChangePin(r) \/ LoginVerified(r) PROVE LockHeld'
  <2>1. Rests
    BY <1>5, RestSteps
  <2>2. UNCHANGED creating
    BY <1>5 DEF Create, Login, ChangePin, LoginVerified
  <2> QED BY <2>1, <2>2, <1>a DEF Rests, LockHeld, Holding
<1>6. ASSUME NEW r \in Logins, Rehashed(r) \/ PinChanged(r) \/ AddFamily(r) PROVE LockHeld'
  <2>1. Finish(r) /\ UNCHANGED creating
    BY <1>6 DEF Rehashed, PinChanged, AddFamily
  <2> QED BY <2>1, <1>2, <1>3
<1>7. ASSUME NEW r \in Logins, CreateEnds(r) PROVE LockHeld'
  <2>1. Finish(r) /\ creating = r
    BY <1>7, <1>a DEF CreateEnds, Waits, Holding
  <2> QED BY <2>1, <1>2, <1>3
<1>8. ASSUME NEW r \in Logins, NEW n, NEW pin, NEW admin, AddUser(r, n, pin, admin),
             creating = r \/ creating = Absent,
             creating' = IF call'[r].pc = "done" THEN Absent ELSE r
      PROVE  LockHeld'
  <2>1. \A q \in Logins \ {r} : call'[q] = call[q]
    BY <1>8, <1>a DEF AddUser, Finish
  <2>2. "done" \notin Holding
    BY DEF Holding
  <2> QED BY <1>8, <1>2, <2>1, <2>2
<1>9. ASSUME NEW r \in Logins, CreateFirst(r) PROVE LockHeld'
  <2>1. creating = r
    BY <1>9, <1>a DEF CreateFirst, Waits, Holding
  <2> QED BY <1>8, <1>9, <2>1 DEF CreateFirst
<1>10. ASSUME NEW r \in Logins, CreateLocked(r) PROVE LockHeld'
  <2>1. CASE Finish(r) /\ UNCHANGED creating
    BY <2>1, <1>2, <1>3
  <2>2. CASE creating' = r /\ Continue(r, "wiping")
    BY <1>10, <1>2, <1>4, <2>2 DEF CreateLocked
  <2>3. CASE /\ AddUser(r, call[r].name, Pin(0, "new"), FALSE)
             /\ creating' = IF call'[r].pc = "done" THEN Absent ELSE r
    BY <1>8, <1>10, <2>3 DEF CreateLocked
  <2> QED BY <1>10, <2>1, <2>2, <2>3 DEF CreateLocked
<1>11. CASE Die
  BY <1>11 DEF Die, LockHeld, Holding, NoCall
<1> QED
  BY <1>1, <1>5, <1>6, <1>7, <1>9, <1>10, <1>11
  DEF AccountsNext, AccountsBoot, Expire, LoseUsers, RemovePin, RemoveSelf, RemoveFamily, Fill, Rename,
      SetRole, Logout

\* What is said of the requests and of the lock in what follows.
KeptBefore == CallTypes' /\ LockHeld'

\* The list after it was written.
LEMMA RollsAfter ==
  ASSUME AccountsInv, NEW i \in Ids, NEW p \in Profiles, Writes(i, p), NEW new, new = With(i, p)
  PROVE  /\ DOMAIN new = Live \cup {i} /\ new[i] = p /\ \A j \in Live : j # i => new[j] = Users[j]
         /\ new \in [DOMAIN new -> Profiles]
         /\ Users' = new /\ Live' = DOMAIN new
         /\ \A f \in Rolls' : f = users \/ f = new
         /\ cached' = Absent \/ cached' = new
         /\ \/ users' = new /\ Rolls' = {new}
            \/ users' = users /\ ~Lands(With(i, p))
<1>1. /\ DOMAIN new = Live \cup {i} /\ new[i] = p /\ \A j \in Live : j # i => new[j] = Users[j]
      /\ new \in [DOMAIN new -> Profiles]
      /\ \/ users' = new /\ cached' = Absent /\ Rolls' = {new}
         \/ users' = users /\ cached' = new /\ \A f \in Rolls' : f = users \/ f = new
  <2> HIDE DEF With, Lands, WriteFails
  <2> QED BY Written DEF Writes, AccountsInv
<1>2. new # Absent
  BY <1>1, Served, IdsAreNumbers
<1>3. Users' = new /\ Live' = DOMAIN new
  BY <1>1, <1>2 DEF Users, Live
<1>4. Lands(With(i, p)) => users' = new /\ cached' = Absent
  BY DEF Lands
<1> QED BY <1>1, <1>2, <1>3, <1>4

\* The list as it was.
LEMMA RollsBefore ==
  ASSUME AccountsInv
  PROVE  /\ Users \in Rolls /\ users \in Rolls /\ \A f \in Rolls : f = users \/ f = Users
         /\ made \in Nat /\ Live \subseteq 1..made /\ 1..made \subseteq Ids /\ Live \subseteq Ids
         /\ DOMAIN users \subseteq Live
         /\ \A f \in Rolls : f \in [DOMAIN f -> Profiles] /\ DOMAIN f \subseteq Live
<1>1. /\ Users \in Rolls /\ users \in Rolls /\ \A f \in Rolls : f = users \/ f = Users
  BY DEF Users, Rolls
<1>2. made \in Nat /\ Live \subseteq 1..made /\ DOMAIN users \subseteq Live
  BY Served DEF AccountsInv, AccountTypes
<1>3. 1..made \subseteq Ids
  BY <1>2, IdsAreNumbers DEF AccountsInv, AccountTypes
<1>4. \A f \in Rolls : f \in [DOMAIN f -> Profiles]
  BY DEF AccountsInv, AccountTypes
<1> QED BY <1>1, <1>2, <1>3, <1>4 DEF Live

\* What is said of the requests and of the lock has been shown above.
Requests == CallTypes /\ LockHeld

LEMMA EditKeeps ==
  ASSUME AccountsInv, Requests', NEW i \in Live, NEW p \in Profiles, Edits(i, p)
  PROVE  AccountsInv'
<1> DEFINE new == With(i, p)
<1>a. /\ DOMAIN new = Live /\ new[i] = p /\ \A j \in Live : j # i => new[j] = Users[j]
      /\ new \in [Live -> Profiles]
      /\ Users' = new /\ Live' = Live
      /\ \A f \in Rolls' : f = users \/ f = new
      /\ cached' = Absent \/ cached' = new
      /\ \/ users' = new /\ Rolls' = {new}
         \/ users' = users /\ ~Lands(new)
  <2>1. i \in Ids /\ Live \cup {i} = Live
    BY RollsBefore
  <2> HIDE DEF new
  <2> QED BY <2>1, RollsAfter DEF Edits, new
<1>b. /\ Users \in Rolls /\ users \in Rolls
      /\ made \in Nat /\ Live \subseteq 1..made /\ 1..made \subseteq Ids
      /\ DOMAIN users \subseteq Live /\ Users \in [Live -> Profiles]
  BY RollsBefore, Served
<1>c. /\ UNCHANGED <<marker, folder, home, up, made, owners, answered>> /\ blame \subseteq blame' /\ OneEnds /\ up
      /\ tokens' \subseteq tokens
  BY DEF Edits, Writes, Revoke
<1>d. /\ p.admin \/ p.admin = Users[i].admin \/ \E j \in Live \ {i} : Users[j].admin
      /\ \/ p.name = Users[i].name
         \/ OwnName(p.name, i) /\ (Lands(new) \/ <<"shared", Users[i].name>> \in blame')
      /\ \/ /\ UNCHANGED <<era, tokens>>
            /\ p.pin = Absent \/ p.pin = Users[i].pin \/ p.pin.era = era[i] \/ <<"torn", i>> \in blame'
         \/ /\ Lands(new) /\ era' = [era EXCEPT ![i] = @ + 1] /\ p.pin.era = era[i] + 1
            /\ Revoke(i) \/ (tokens' \subseteq tokens /\ <<"unrevoked", i>> \in blame')
  BY DEF Edits
<1> HIDE DEF new
<1>e. DOMAIN users \subseteq DOMAIN users' /\ DOMAIN users' \subseteq Live
  BY <1>a, <1>b
<1>1. AccountTypes'
  <2>1. \A f \in Rolls' : f \in [DOMAIN f -> Profiles] /\ DOMAIN f \subseteq 1..made
    BY <1>a, <1>b DEF AccountsInv, AccountTypes
  <2>2. era' \in [Ids -> Nat]
    BY <1>b, <1>d DEF AccountsInv, AccountTypes
  <2> QED BY <1>c, <2>1, <2>2 DEF AccountsInv, AccountTypes
<1>2. RollsAgree'
  BY <1>a, <1>b DEF RollsAgree
<1>3. DownIsQuiet'
  BY <1>c DEF DownIsQuiet
<1>4. SetupOpen'
  BY <1>b, <1>c DEF AccountsInv, SetupOpen, OneEnds, NewBoard, Users, Live
<1>5. Opened'
  BY <1>c, <1>e DEF AccountsInv, Opened, Blamed
<1>6. Governed'
  <2>1. \E j \in Live : Users[j].admin => \E k \in Live : new[k].admin
    BY <1>a, <1>d
  <2> QED BY <1>a, <1>b, <1>c, <1>d, <1>e DEF AccountsInv, Governed, Blamed, OneEnds
<1>7. AnswersKept'
  BY <1>a, <1>c, <1>e DEF AccountsInv, AnswersKept, Blamed, OneEnds
<1>f. /\ \A f \in Rolls : \A j, k \in DOMAIN f : f[j].name = f[k].name => j = k \/ <<"shared", f[j].name>> \in blame'
      /\ \A f \in Rolls : \A j \in DOMAIN users :
            users[j].name = f[j].name \/ <<"shared", users[j].name>> \in blame'
      /\ \A f \in Rolls : \A j, k \in DOMAIN f :
            k \in folder[f[j].name] => j = k \/ <<"shared", f[j].name>> \in blame'
  BY <1>c DEF AccountsInv, NamesApart, FoldersApart, Shared
<1>g. p.name = Users[i].name \/ \A j \in Live \ {i} :
         Users[j].name = p.name \/ j \in folder[p.name] => <<"shared", p.name>> \in blame'
  BY <1>d DEF OwnName
<1>8. NamesApart'
  <2>1. ASSUME NEW j \in Live, NEW k \in Live, new[j].name = new[k].name
        PROVE  j = k \/ <<"shared", new[j].name>> \in blame'
    <3>1. j # i /\ k # i => j = k \/ <<"shared", new[j].name>> \in blame'
      BY <1>a, <1>b, <1>f, <2>1
    <3>2. j = i \/ k = i => j = k \/ <<"shared", new[j].name>> \in blame'
      BY <1>a, <1>b, <1>f, <1>g, <2>1
    <3> QED BY <3>1, <3>2
  <2>2. \A j, k \in DOMAIN users : users[j].name = users[k].name => j = k \/ <<"shared", users[j].name>> \in blame'
    BY <1>b, <1>f
  <2>3. ASSUME ~Lands(new), NEW j \in DOMAIN users
        PROVE  users[j].name = new[j].name \/ <<"shared", users[j].name>> \in blame'
    BY <1>a, <1>b, <1>d, <1>f, <2>3
  <2>4. \A f \in Rolls' : \A j, k \in DOMAIN f : f[j].name = f[k].name => j = k \/ <<"shared", f[j].name>> \in blame'
    BY <1>a, <2>1, <2>2
  <2>5. \A f \in Rolls' : \A j \in DOMAIN users' :
           users'[j].name = f[j].name \/ <<"shared", users'[j].name>> \in blame'
    BY <1>a, <2>3
  <2> QED BY <2>4, <2>5 DEF NamesApart, Shared
<1>9. FoldersApart'
  <2>1. ASSUME NEW j \in Live, NEW k \in Live, k \in folder[new[j].name]
        PROVE  j = k \/ <<"shared", new[j].name>> \in blame'
    <3>1. j # i => j = k \/ <<"shared", new[j].name>> \in blame'
      BY <1>a, <1>b, <1>f, <2>1
    <3>2. j = i => j = k \/ <<"shared", new[j].name>> \in blame'
      BY <1>a, <1>b, <1>f, <1>g, <2>1
    <3> QED BY <3>1, <3>2
  <2>2. \A f \in Rolls' : \A j, k \in DOMAIN f :
           k \in folder[f[j].name] => j = k \/ <<"shared", f[j].name>> \in blame'
    BY <1>a, <1>b, <1>f, <2>1
  <2> QED BY <1>c, <2>2 DEF FoldersApart, Shared
<1>10. FilesKept'
  BY <1>a, <1>c DEF AccountsInv, FilesKept
<1>11. PinsAgree'
  <2>1. CASE /\ UNCHANGED <<era, tokens>>
             /\ p.pin = Absent \/ p.pin = Users[i].pin \/ p.pin.era = era[i] \/ <<"torn", i>> \in blame'
    <3>1. \A j \in Live : new[j].pin = Absent \/ new[j].pin.era = era[j] \/ <<"torn", j>> \in blame'
      BY <1>a, <1>b, <1>c, <2>1 DEF AccountsInv, PinsAgree, Late
    <3>2. \A j \in DOMAIN users : users[j].pin = Absent \/ users[j].pin.era = era[j] \/ <<"torn", j>> \in blame'
      BY <1>b, <1>c DEF AccountsInv, PinsAgree, Late
    <3> QED BY <1>a, <1>c, <2>1, <3>1, <3>2 DEF AccountsInv, PinsAgree, Late
  <2>2. CASE /\ Lands(new) /\ era' = [era EXCEPT ![i] = @ + 1] /\ p.pin.era = era[i] + 1
             /\ Revoke(i) \/ (tokens' \subseteq tokens /\ <<"unrevoked", i>> \in blame')
    <3>1. /\ era \in [Ids -> Nat] /\ era'[i] = era[i] + 1 /\ \A j \in Ids : j # i => era'[j] = era[j]
      BY <1>b, <2>2 DEF AccountsInv, AccountTypes
    <3>2. \A j \in Live : new[j].pin = Absent \/ new[j].pin.era = era'[j] \/ <<"torn", j>> \in blame'
      BY <1>a, <1>b, <1>c, <2>2, <3>1 DEF AccountsInv, PinsAgree, Late
    <3>3. \A t \in tokens' : t \in tokens /\ t.user \in Ids /\ (t.user # i \/ <<"unrevoked", i>> \in blame')
      BY <1>b, <2>2 DEF Revoke, SessionsOf, AccountsInv, AccountTypes
    <3>4. \A t \in tokens' : t.era = era'[t.user] \/ Late(t.user)'
      BY <1>c, <3>1, <3>3 DEF AccountsInv, PinsAgree, Late
    <3>5. \A j \in Ids : j > made => era'[j] = 0
      BY <1>b, <3>1 DEF AccountsInv, PinsAgree, Late
    <3> QED BY <1>a, <1>c, <2>2, <3>2, <3>4, <3>5 DEF PinsAgree, Late
  <2> QED BY <1>d, <2>1, <2>2
<1> QED BY <1>1, <1>2, <1>3, <1>4, <1>5, <1>6, <1>7, <1>8, <1>9, <1>10, <1>11 DEF AccountsInv, Requests

LEMMA AddKeeps ==
  ASSUME AccountsInv, Requests', NEW p \in Profiles, Adds(p)
  PROVE  AccountsInv'
<1> DEFINE m == made + 1
           new == With(m, p)
<1>b. /\ Users \in Rolls /\ users \in Rolls
      /\ made \in Nat /\ Live \subseteq 1..made /\ 1..made \subseteq Ids
      /\ DOMAIN users \subseteq Live /\ Users \in [Live -> Profiles]
  BY RollsBefore, Served
<1>m. m \in Ids /\ made < m /\ m \notin 1..made /\ 1..made' = 1..made \cup {m} /\ made' = m /\ m \notin Live
      /\ made' <= Cardinality(Ids)
  BY <1>b, IdsAreNumbers DEF Adds
<1>a. /\ DOMAIN new = Live \cup {m} /\ new[m] = p /\ \A j \in Live : new[j] = Users[j]
      /\ new \in [Live \cup {m} -> Profiles]
      /\ Users' = new /\ Live' = Live \cup {m}
      /\ \A f \in Rolls' : f = users \/ f = new
      /\ cached' = Absent \/ cached' = new
      /\ \/ users' = new /\ Rolls' = {new}
         \/ users' = users /\ ~Lands(new)
  <2> PICK k \in Ids : k = m
    BY <1>m
  <2>1. Writes(k, p)
    BY DEF Adds
  <2>2. new = With(k, p)
    OBVIOUS
  <2> HIDE DEF new, m
  <2>3. /\ DOMAIN new = Live \cup {k} /\ new[k] = p /\ \A j \in Live : j # k => new[j] = Users[j]
        /\ new \in [DOMAIN new -> Profiles]
    BY <2>1, <2>2, RollsAfter
  <2>4. Users' = new /\ Live' = DOMAIN new
    BY <2>1, <2>2, RollsAfter
  <2>5. /\ \A f \in Rolls' : f = users \/ f = new
        /\ cached' = Absent \/ cached' = new
    BY <2>1, <2>2, RollsAfter
  <2>6. \/ users' = new /\ Rolls' = {new}
        \/ users' = users /\ ~Lands(With(k, p))
    BY <2>1, <2>2, RollsAfter
  <2>7. Lands(With(k, p)) <=> Lands(new)
    BY <2>2 DEF Lands
  <2> QED BY <1>m, <2>3, <2>4, <2>5, <2>6, <2>7
<1>c. /\ UNCHANGED <<marker, folder, home, up, era, tokens>> /\ blame \subseteq blame' /\ up
      /\ p.admin \/ Admins # {}
      /\ p.pin = Absent \/ p.pin.era = 0
  BY DEF Adds, Writes
<1>d. \A q \in Logins :
         /\ call'[q].pc # "wiping"
         /\ \/ call'[q] = call[q] \/ call'[q].pc = "done"
            \/ call'[q].pc \in {"first", "folders"} /\ call'[q].id = m /\ users' = new
  BY DEF Adds, CallsAfter
<1>e. /\ \/ answered' = answered
         \/ answered' = answered \cup {m} /\ users' = new
      /\ \/ owners' = owners
         \/ owners' = owners + 1 /\ users' = new /\ (owners = 0 \/ Blamed("exposed"))
  BY DEF Adds
<1>g. \A j \in Live : Users[j].name = p.name \/ j \in folder[p.name] => <<"shared", p.name>> \in blame'
  BY <1>m DEF Adds, OwnName
<1> HIDE DEF new, m
<1>h. DOMAIN users \subseteq DOMAIN users' /\ (users' = new => m \in DOMAIN users')
  BY <1>a, <1>b
<1>f. /\ \A f \in Rolls : \A j, k \in DOMAIN f : f[j].name = f[k].name => j = k \/ <<"shared", f[j].name>> \in blame'
      /\ \A f \in Rolls : \A j \in DOMAIN users :
            users[j].name = f[j].name \/ <<"shared", users[j].name>> \in blame'
      /\ \A f \in Rolls : \A j, k \in DOMAIN f :
            k \in folder[f[j].name] => j = k \/ <<"shared", f[j].name>> \in blame'
  BY <1>c DEF AccountsInv, NamesApart, FoldersApart, Shared
<1>1. AccountTypes'
  <2>1. \A f \in Rolls' : f \in [DOMAIN f -> Profiles] /\ DOMAIN f \subseteq 1..made'
    BY <1>a, <1>b, <1>m DEF AccountsInv, AccountTypes
  <2>2. folder' \in [Names -> SUBSET (1..made')] /\ \A t \in tokens' : t.user \in 1..made'
    BY <1>c, <1>m DEF AccountsInv, AccountTypes
  <2>3. home' \in [Ids -> Names \cup {Absent}] /\ \A i \in Ids : i > made' => home'[i] = Absent
    BY <1>b, <1>c, <1>m, IdsAreNumbers DEF AccountsInv, AccountTypes
  <2>4. made' \in Nat /\ owners' \in Nat
    BY <1>b, <1>e, <1>m DEF AccountsInv, AccountTypes, m
  <2> QED BY <1>c, <1>m, <2>1, <2>2, <2>3, <2>4 DEF AccountsInv, AccountTypes
<1>2. RollsAgree'
  BY <1>a, <1>b DEF RollsAgree
<1>3. DownIsQuiet'
  BY <1>c DEF DownIsQuiet
<1>4. SetupOpen'
  BY <1>d DEF SetupOpen
<1>5. Opened'
  BY <1>c, <1>e, <1>h DEF AccountsInv, AccountTypes, Opened, Blamed
<1>6. Governed'
  <2>1. \E k \in Live \cup {m} : new[k].admin
    BY <1>a, <1>c DEF Admins
  <2>2. \A f \in Rolls' : f = new \/ f = users
    BY <1>a
  <2> QED BY <1>a, <1>b, <1>c, <1>d, <1>h, <2>1 DEF AccountsInv, Governed, Blamed
<1>7. AnswersKept'
  <2>1. \A q \in Logins : call[q].pc \in {"first", "folders"} => call[q].id # m
    BY <1>m DEF AccountsInv, CallTypes
  <2> QED BY <1>a, <1>c, <1>d, <1>e, <1>h, <2>1 DEF AccountsInv, AnswersKept, Blamed
<1>8. NamesApart'
  <2>1. ASSUME NEW j \in Live \cup {m}, NEW k \in Live \cup {m}, new[j].name = new[k].name
        PROVE  j = k \/ <<"shared", new[j].name>> \in blame'
    <3>1. j \in Live /\ k \in Live => j = k \/ <<"shared", new[j].name>> \in blame'
      BY <1>a, <1>b, <1>f, <2>1
    <3>2. j = m \/ k = m => j = k \/ <<"shared", new[j].name>> \in blame'
      BY <1>a, <1>g, <2>1
    <3> QED BY <3>1, <3>2, <2>1
  <2>2. \A j, k \in DOMAIN users : users[j].name = users[k].name => j = k \/ <<"shared", users[j].name>> \in blame'
    BY <1>b, <1>f
  <2>3. ASSUME NEW j \in DOMAIN users
        PROVE  users[j].name = new[j].name \/ <<"shared", users[j].name>> \in blame'
    BY <1>a, <1>b, <1>f, <2>3
  <2>4. \A f \in Rolls' : \A j, k \in DOMAIN f : f[j].name = f[k].name => j = k \/ <<"shared", f[j].name>> \in blame'
    BY <1>a, <2>1, <2>2
  <2>5. \A f \in Rolls' : \A j \in DOMAIN users' :
           users'[j].name = f[j].name \/ <<"shared", users'[j].name>> \in blame'
    BY <1>a, <2>3
  <2> QED BY <2>4, <2>5 DEF NamesApart, Shared
<1>9. FoldersApart'
  <2>1. ASSUME NEW j \in Live \cup {m}, NEW k \in Live \cup {m}, k \in folder[new[j].name]
        PROVE  j = k \/ <<"shared", new[j].name>> \in blame'
    <3>1. j \in Live /\ k \in Live => j = k \/ <<"shared", new[j].name>> \in blame'
      BY <1>a, <1>b, <1>f, <2>1
    <3>2. j = m /\ k \in Live => j = k \/ <<"shared", new[j].name>> \in blame'
      BY <1>a, <1>g, <2>1
    <3>3. k = m /\ j \in Live => FALSE
      BY <1>a, <1>b, <1>m, <2>1 DEF AccountsInv, AccountTypes, Profiles
    <3> QED BY <3>1, <3>2, <3>3, <2>1
  <2>2. \A f \in Rolls' : \A j, k \in DOMAIN f :
           k \in folder[f[j].name] => j = k \/ <<"shared", f[j].name>> \in blame'
    BY <1>a, <1>b, <1>f, <2>1
  <2> QED BY <1>c, <2>2 DEF FoldersApart, Shared
<1>10. FilesKept'
  <2>1. home[m] = Absent
    BY <1>b, <1>m DEF AccountsInv, AccountTypes
  <2> QED BY <1>a, <1>c, <2>1 DEF AccountsInv, FilesKept
<1>11. PinsAgree'
  <2>1. era[m] = 0 /\ \A i \in Ids : i > made' => era[i] = 0
    BY <1>b, <1>m, IdsAreNumbers DEF AccountsInv, PinsAgree, Late
  <2>2. \A j \in Live \cup {m} : new[j].pin = Absent \/ new[j].pin.era = era[j] \/ <<"torn", j>> \in blame'
    BY <1>a, <1>b, <1>c, <2>1 DEF AccountsInv, PinsAgree, Late
  <2>3. \A j \in DOMAIN users : users[j].pin = Absent \/ users[j].pin.era = era[j] \/ <<"torn", j>> \in blame'
    BY <1>b, <1>c DEF AccountsInv, PinsAgree, Late
  <2> QED BY <1>a, <1>c, <2>1, <2>2, <2>3 DEF AccountsInv, PinsAgree, Late
<1> QED BY <1>1, <1>2, <1>3, <1>4, <1>5, <1>6, <1>7, <1>8, <1>9, <1>10, <1>11 DEF AccountsInv, Requests

LEMMA RemoveKeeps ==
  ASSUME AccountsInv, Requests', NEW i \in Ids, Removes(i)
  PROVE  AccountsInv'
<1> DEFINE new == Without(i)
<1>b. /\ Users \in Rolls /\ users \in Rolls
      /\ made \in Nat /\ Live \subseteq 1..made /\ 1..made \subseteq Ids
      /\ DOMAIN users \subseteq Live /\ Users \in [Live -> Profiles] /\ Live = DOMAIN Users
  BY RollsBefore, Served DEF Live
<1>a. /\ DOMAIN new = Live \ {i} /\ \A j \in Live \ {i} : new[j] = Users[j]
      /\ new \in [Live \ {i} -> Profiles]
      /\ users' = new /\ cached' = Absent /\ Rolls' = {new} /\ Users' = new /\ Live' = Live \ {i}
  <2>1. new = [j \in Live \ {i} |-> Users[j]]
    BY DEF Without, Restrict
  <2>2. users' = new /\ cached' = Absent
    BY DEF Removes, Lands
  <2> HIDE DEF new
  <2> QED BY <1>b, <2>1, <2>2 DEF Rolls, Users, Live
<1>c. /\ i \in Live /\ tokens' \subseteq tokens /\ OneEnds /\ up
      /\ folder' \in {folder, [folder EXCEPT ![Users[i].name] = {}]}
      /\ answered' = answered \ {i}
      /\ blame \subseteq blame' /\ UNCHANGED <<marker, made, owners, era, home, up>>
      /\ Blamed("ousted")' \/ (Users[i].admin => \E j \in Live \ {i} : Users[j].admin)
      /\ (\E j \in Live : j # i) \/ marker \/ Blamed("exposed")'
  BY DEF Removes
<1> HIDE DEF new
<1>d. folder \in [Names -> SUBSET (1..made)] /\ Users[i].name \in Names
      /\ \A n \in Names : folder'[n] \subseteq folder[n]
  BY <1>b, <1>c DEF AccountsInv, AccountTypes, Profiles
<1>1. AccountTypes'
  <2>1. \A f \in Rolls' : f \in [DOMAIN f -> Profiles] /\ DOMAIN f \subseteq 1..made
    BY <1>a, <1>b
  <2>2. folder' \in [Names -> SUBSET (1..made)] /\ tokens' \subseteq tokens
    BY <1>c, <1>d
  <2> QED BY <1>c, <2>1, <2>2 DEF AccountsInv, AccountTypes
<1>2. RollsAgree'
  BY <1>a DEF RollsAgree
<1>3. DownIsQuiet'
  BY <1>c DEF DownIsQuiet
<1>4. SetupOpen'
  BY <1>b, <1>c DEF AccountsInv, SetupOpen, OneEnds, NewBoard, Users
<1>5. Opened'
  BY <1>a, <1>c DEF AccountsInv, Opened, Blamed
<1>6. Governed'
  <2>1. Blamed("ousted")' \/ Blamed("lost")' \/ \E j \in Live \ {i} : Users[j].admin
    BY <1>b, <1>c DEF AccountsInv, Governed, Blamed
  <2> QED BY <1>a, <2>1 DEF Governed
<1>7. AnswersKept'
  BY <1>a, <1>b, <1>c DEF AccountsInv, AnswersKept, Blamed, OneEnds
<1>8. NamesApart'
  <2>1. ASSUME NEW j \in Live \ {i}, NEW k \in Live \ {i}, new[j].name = new[k].name
        PROVE  j = k \/ <<"shared", new[j].name>> \in blame'
    <3>1. Users[j].name = Users[k].name => j = k \/ <<"shared", Users[j].name>> \in blame'
      BY <1>b, <1>c DEF AccountsInv, NamesApart, Shared
    <3> QED BY <1>a, <2>1, <3>1
  <2> QED BY <1>a, <2>1 DEF NamesApart, Shared
<1>9. FoldersApart'
  <2>1. ASSUME NEW j \in Live \ {i}, NEW k \in Live \ {i}, k \in folder'[new[j].name]
        PROVE  j = k \/ <<"shared", new[j].name>> \in blame'
    <3>1. k \in folder[Users[j].name] => j = k \/ <<"shared", Users[j].name>> \in blame'
      BY <1>b, <1>c DEF AccountsInv, FoldersApart, Shared
    <3>2. new[j] = Users[j] /\ Users[j].name \in Names
      BY <1>a, <1>b DEF Profiles
    <3> QED BY <1>d, <2>1, <3>1, <3>2
  <2> QED BY <1>a, <2>1 DEF FoldersApart, Shared
<1>10. FilesKept'
  <2>1. ASSUME NEW j \in Live \ {i}, home[j] # Absent, <<"shared", home[j]>> \notin blame'
        PROVE  j \in folder'[home[j]]
    <3>1. j \in folder[home[j]] /\ home[j] \in Names
      BY <1>b, <1>c, <2>1 DEF AccountsInv, FilesKept, AccountTypes
    <3>2. home[j] # Users[i].name
      BY <1>b, <1>c, <2>1, <3>1 DEF AccountsInv, FoldersApart, Shared
    <3> QED BY <1>c, <1>d, <3>1, <3>2
  <2> QED BY <1>a, <1>c, <2>1 DEF FilesKept
<1>11. PinsAgree'
  <2>1. tokens' \subseteq tokens
    BY <1>c
  <2>2. \A j \in Live \ {i} : new[j].pin = Absent \/ new[j].pin.era = era[j] \/ <<"torn", j>> \in blame'
    BY <1>a, <1>b, <1>c DEF AccountsInv, PinsAgree, Late
  <2> QED BY <1>a, <1>c, <2>1, <2>2 DEF AccountsInv, PinsAgree, Late
<1> QED BY <1>1, <1>2, <1>3, <1>4, <1>5, <1>6, <1>7, <1>8, <1>9, <1>10, <1>11 DEF AccountsInv, Requests

\* A cached list that expires, or goes with its process.
LEMMA ForgetKeeps ==
  ASSUME AccountsInv, Requests', Forgets
  PROVE  AccountsInv'
<1>a. /\ Rolls' = {users} /\ Users' = users /\ Live' = DOMAIN users
      /\ users \in Rolls /\ DOMAIN users \subseteq Live
      /\ UNCHANGED <<users, marker, tokens, folder, made, era, owners, answered, home, blame>>
      /\ cached' = Absent
  BY RollsBefore DEF Forgets, Rolls, Users, Live
<1>b. UNCHANGED <<call, up>> \/ \A r \in Logins : call'[r].pc \in {"new", "done"}
  BY DEF Forgets
<1>1. AccountTypes'
  BY <1>a DEF AccountsInv, AccountTypes
<1>2. RollsAgree'
  BY <1>a DEF RollsAgree
<1>3. DownIsQuiet'
  BY <1>a, <1>b DEF AccountsInv, DownIsQuiet
<1>4. SetupOpen' /\ Opened'
  BY <1>a, <1>b DEF AccountsInv, SetupOpen, Opened, Blamed
<1>5. Governed'
  BY <1>a, <1>b DEF AccountsInv, Governed, Blamed
<1>6. AnswersKept'
  BY <1>a, <1>b DEF AccountsInv, AnswersKept, Blamed
<1>7. NamesApart' /\ FoldersApart'
  <2>1. \A j, k \in DOMAIN users : users[j].name = users[k].name => j = k \/ Shared(users[j].name)
    BY <1>a DEF AccountsInv, NamesApart
  <2>2. \A j, k \in DOMAIN users : k \in folder[users[j].name] => j = k \/ Shared(users[j].name)
    BY <1>a DEF AccountsInv, FoldersApart
  <2> QED BY <1>a, <2>1, <2>2 DEF NamesApart, FoldersApart, Shared
<1>8. FilesKept'
  BY <1>a DEF AccountsInv, FilesKept
<1>9. PinsAgree'
  BY <1>a DEF AccountsInv, PinsAgree, Late
<1> QED BY <1>1, <1>2, <1>3, <1>4, <1>5, <1>6, <1>7, <1>8, <1>9 DEF AccountsInv, Requests

LEMMA LoseKeeps ==
  ASSUME AccountsInv, Requests', LoseUsers
  PROVE  AccountsInv'
<1>a. /\ Users \in Rolls /\ users \in Rolls /\ DOMAIN users \subseteq Live
      /\ Users \in [Live -> Profiles] /\ Live \subseteq 1..made /\ Live = DOMAIN Users
  BY RollsBefore, Served DEF Live
<1>b. /\ users # NewBoard /\ users' = NewBoard /\ DOMAIN NewBoard = {} /\ NewBoard \in [{} -> Profiles]
      /\ cached' = Absent \/ cached' = Users
      /\ UNCHANGED <<marker, tokens, folder, up, call, made, era, owners, answered, home>>
      /\ blame \subseteq blame' /\ Blamed("lost")' /\ (~marker => Blamed("exposed")')
  BY DEF LoseUsers, NewBoard, Blamed
<1>c. Live # {}
  <2>1. users \in [DOMAIN users -> Profiles]
    BY <1>a DEF AccountsInv, AccountTypes
  <2>2. DOMAIN users = {} => users = NewBoard
    BY <1>b, <2>1
  <2> QED BY <1>a, <1>b, <2>2
<1>d. /\ \A f \in Rolls' : f = NewBoard \/ f = Users
      /\ Live' \subseteq Live
  BY <1>a, <1>b DEF Rolls, Users, Live
<1>1. AccountTypes'
  <2>1. \A f \in Rolls' : f \in [DOMAIN f -> Profiles] /\ DOMAIN f \subseteq 1..made
    BY <1>a, <1>b, <1>d
  <2> QED BY <1>b, <2>1 DEF AccountsInv, AccountTypes
<1>2. RollsAgree'
  BY <1>a, <1>b, <1>c, <1>d DEF RollsAgree
<1>3. DownIsQuiet' /\ SetupOpen' /\ Opened' /\ Governed' /\ AnswersKept'
  BY <1>b DEF AccountsInv, DownIsQuiet, SetupOpen, Opened, Governed, AnswersKept, Blamed
<1>4. NamesApart' /\ FoldersApart'
  <2>1. \A j, k \in Live : Users[j].name = Users[k].name => j = k \/ Shared(Users[j].name)
    BY <1>a DEF AccountsInv, NamesApart
  <2>2. \A j, k \in Live : k \in folder[Users[j].name] => j = k \/ Shared(Users[j].name)
    BY <1>a DEF AccountsInv, FoldersApart
  <2> QED BY <1>a, <1>b, <1>d, <2>1, <2>2 DEF NamesApart, FoldersApart, Shared
<1>5. FilesKept'
  BY <1>b, <1>d DEF AccountsInv, FilesKept
<1>6. PinsAgree'
  BY <1>a, <1>b, <1>d DEF AccountsInv, PinsAgree, Late
<1> QED BY <1>1, <1>2, <1>3, <1>4, <1>5, <1>6 DEF AccountsInv, Requests

LEMMA RollsSame ==
  ASSUME UNCHANGED <<users, cached>>
  PROVE  Rolls' = Rolls /\ Users' = Users /\ Live' = Live
  BY DEF Rolls, Users, Live

LEMMA RestKeeps ==
  ASSUME AccountsInv, Requests', Rests
  PROVE  AccountsInv'
<1>a. /\ Rolls' = Rolls /\ Users' = Users /\ Live' = Live
      /\ UNCHANGED <<users, cached, marker, folder, up, made, era, owners, answered, home>>
      /\ blame \subseteq blame' /\ up
  BY RollsSame DEF Rests
<1>b. \A r \in Logins : call'[r] = call[r] \/ call'[r].pc \notin Holding
  BY DEF Rests, Holding
<1>c. \A t \in tokens' : \/ t \in tokens
                         \/ /\ t.user \in 1..made
                            /\ t.era = era[t.user] \/ <<"overtaken", t.user>> \in blame'
  BY DEF Rests
<1>1. AccountTypes'
  BY <1>a, <1>c DEF AccountsInv, AccountTypes
<1>2. RollsAgree' /\ DownIsQuiet' /\ Opened'
  BY <1>a DEF AccountsInv, RollsAgree, DownIsQuiet, Opened, Blamed
<1>3. SetupOpen'
  BY <1>a, <1>b DEF AccountsInv, SetupOpen, Holding, Blamed
<1>4. Governed'
  BY <1>a, <1>b DEF AccountsInv, Governed, Holding, Blamed
<1>5. AnswersKept'
  BY <1>a, <1>b DEF AccountsInv, AnswersKept, Holding, Blamed
<1>6. NamesApart' /\ FoldersApart'
  BY <1>a DEF AccountsInv, NamesApart, FoldersApart, Shared
<1>7. FilesKept'
  BY <1>a DEF AccountsInv, FilesKept
<1>8. PinsAgree'
  BY <1>a, <1>c DEF AccountsInv, PinsAgree, Late
<1> QED BY <1>1, <1>2, <1>3, <1>4, <1>5, <1>6, <1>7, <1>8 DEF AccountsInv, Requests

\* What a step keeps that leaves the list, the folders and the tokens alone.
LEMMA ListKeeps ==
  ASSUME AccountsInv, blame \subseteq blame', marker' \in BOOLEAN,
         UNCHANGED <<users, cached, folder, made, era, owners, home>>,
         \A t \in tokens' : \/ t \in tokens
                            \/ /\ t.user \in 1..made
                               /\ t.era = era[t.user] \/ <<"overtaken", t.user>> \in blame'
  PROVE  /\ AccountTypes' /\ RollsAgree' /\ NamesApart' /\ FoldersApart' /\ FilesKept' /\ PinsAgree'
         /\ Rolls' = Rolls /\ Live' = Live
<1>a. Rolls' = Rolls /\ Users' = Users /\ Live' = Live
  BY RollsSame
<1>1. AccountTypes'
  BY <1>a DEF AccountsInv, AccountTypes
<1>2. RollsAgree'
  BY <1>a DEF AccountsInv, RollsAgree
<1>3. NamesApart' /\ FoldersApart'
  BY <1>a DEF AccountsInv, NamesApart, FoldersApart, Shared
<1>4. FilesKept'
  BY <1>a DEF AccountsInv, FilesKept
<1>5. PinsAgree'
  BY <1>a DEF AccountsInv, PinsAgree, Late
<1> QED BY <1>a, <1>1, <1>2, <1>3, <1>4, <1>5

LEMMA BootKeeps ==
  ASSUME AccountsInv, Requests', AccountsBoot
  PROVE  AccountsInv'
<1>a. /\ ~up /\ up' /\ marker' = (marker \/ Users # NewBoard) /\ marker' \in BOOLEAN
      /\ UNCHANGED <<users, cached, tokens, folder, creating, call, made, era, owners, answered, home, blame>>
  BY DEF AccountsBoot, AccountsInv, AccountTypes
<1>b. /\ \A r \in Logins : call[r].pc \in {"new", "done"}
      /\ cached = Absent \/ Blamed("lost")
  BY <1>a DEF AccountsInv, DownIsQuiet
<1>1. /\ AccountTypes' /\ RollsAgree' /\ NamesApart' /\ FoldersApart' /\ FilesKept' /\ PinsAgree'
      /\ Rolls' = Rolls /\ Live' = Live
  BY <1>a, ListKeeps
<1>2. DownIsQuiet' /\ SetupOpen'
  BY <1>a, <1>b DEF DownIsQuiet, SetupOpen
<1>3. Opened'
  BY <1>a DEF AccountsInv, Opened, Blamed
<1>4. Governed'
  <2>1. users \in [DOMAIN users -> Profiles] /\ NewBoard \in [{} -> Profiles]
    BY RollsBefore DEF NewBoard
  <2>2. cached = Absent /\ Users # NewBoard => DOMAIN users # {}
    BY <2>1 DEF Users
  <2> QED BY <1>a, <1>b, <1>1, <2>2 DEF AccountsInv, Governed, Blamed
<1>5. AnswersKept'
  BY <1>a, <1>1 DEF AccountsInv, AnswersKept, Blamed
<1> QED BY <1>1, <1>2, <1>3, <1>4, <1>5 DEF AccountsInv, Requests

\* The first admin is on the way.
LEMMA WipeKeeps ==
  ASSUME AccountsInv, Requests', NEW r \in Logins, CreateLocked(r), made' = made, creating' = r
  PROVE  AccountsInv'
<1>a. made \in Nat /\ r # Absent /\ call \in [Logins -> CallRecords]
  BY IdsAreNumbers DEF AccountsInv, AccountTypes, CallTypes
<1>b. /\ Live = {} /\ ~marker /\ Continue(r, "wiping") /\ creating = Absent /\ up
      /\ UNCHANGED <<users, cached, owners, blame, marker, tokens, folder, up, era, answered, home>>
  <2>1. ~AddUser(r, call[r].name, Pin(0, "new"), FALSE)
    <3> SUFFICES ASSUME AddUser(r, call[r].name, Pin(0, "new"), FALSE) PROVE FALSE
      OBVIOUS
    <3>1. made' = made + 1
      BY DEF AddUser
    <3> QED BY <1>a, <3>1
  <2>2. up
    BY Served DEF CreateLocked, Waits
  <2> QED BY <1>a, <2>1, <2>2 DEF CreateLocked, SetUp
<1>c. /\ call'[r].pc = "wiping" /\ \A q \in Logins \ {r} : call'[q] = call[q]
  BY <1>a, <1>b DEF Continue, CallRecords
<1>d. users = NewBoard /\ cached = Absent /\ DOMAIN users = {}
  <2>1. users \in [DOMAIN users -> Profiles] /\ NewBoard \in [{} -> Profiles] /\ DOMAIN users \subseteq Live
    BY RollsBefore DEF NewBoard
  <2>2. cached = Absent
    BY <1>b DEF AccountsInv, RollsAgree, Live, Users
  <2> QED BY <1>b, <2>1, <2>2
<1>1. /\ AccountTypes' /\ RollsAgree' /\ NamesApart' /\ FoldersApart' /\ FilesKept' /\ PinsAgree'
      /\ Rolls' = Rolls /\ Live' = Live
  BY <1>b, ListKeeps DEF AccountsInv, AccountTypes
<1>2. DownIsQuiet'
  BY <1>b DEF DownIsQuiet
<1>3. SetupOpen'
  <2>1. owners = 0 \/ Blamed("exposed")
    BY <1>b, <1>d DEF AccountsInv, AccountTypes, Opened
  <2> QED BY <1>b, <1>c, <1>d, <2>1 DEF SetupOpen, Blamed
<1>4. Opened'
  BY <1>b DEF AccountsInv, Opened, Blamed
<1>5. Governed'
  BY <1>b, <1>c, <1>1 DEF AccountsInv, Governed, Blamed
<1>6. AnswersKept'
  BY <1>b, <1>c, <1>1 DEF AccountsInv, AnswersKept, Blamed
<1> QED BY <1>1, <1>2, <1>3, <1>4, <1>5, <1>6 DEF AccountsInv, Requests

\* The marker and the tokens.
LEMMA CreateEndsKeeps ==
  ASSUME AccountsInv, Requests', NEW r \in Logins, CreateEnds(r)
  PROVE  AccountsInv'
<1> DEFINE i == call[r].id
<1>a. /\ call[r].pc \in {"first", "folders"} /\ creating = r /\ up
      /\ call \in [Logins -> CallRecords] /\ i \in 1..made
  BY Served DEF CreateEnds, Waits, AccountsInv, LockHeld, Holding, CallTypes
<1>b. /\ \/ UNCHANGED marker
         \/ call[r].pc = "first" /\ marker' = TRUE
      /\ tokens' = tokens \cup {[user |-> i, era |-> 0]}
      /\ answered' = answered \cup (IF i \in Live THEN {i} ELSE {})
      /\ blame' = blame \cup (IF era[i] = 0 THEN {} ELSE {<<"overtaken", i>>})
      /\ UNCHANGED <<users, cached, folder, up, made, era, owners, home>>
  BY DEF CreateEnds, AddToken
<1>c. /\ call'[r].pc = "done" /\ \A q \in Logins \ {r} : call'[q] = call[q]
  BY <1>a DEF CreateEnds, Finish, NoCall
<1>d. \A q \in Logins : call'[q].pc # "wiping"
  BY <1>a, <1>c DEF AccountsInv, LockHeld, Holding
<1> HIDE DEF i
<1>1. /\ AccountTypes' /\ RollsAgree' /\ NamesApart' /\ FoldersApart' /\ FilesKept' /\ PinsAgree'
      /\ Rolls' = Rolls /\ Live' = Live
  <2>1. \A t \in tokens' : \/ t \in tokens
                           \/ /\ t.user \in 1..made
                              /\ t.era = era[t.user] \/ <<"overtaken", t.user>> \in blame'
    BY <1>a, <1>b
  <2>2. marker' \in BOOLEAN
    BY <1>b DEF AccountsInv, AccountTypes
  <2> QED BY <1>b, <2>1, <2>2, ListKeeps
<1>2. DownIsQuiet' /\ SetupOpen'
  BY <1>a, <1>b, <1>d DEF DownIsQuiet, SetupOpen
<1>3. Opened'
  BY <1>b DEF AccountsInv, Opened, Blamed
<1>4. Governed'
  BY <1>b, <1>c, <1>1 DEF AccountsInv, Governed, Blamed
<1>5. AnswersKept'
  BY <1>a, <1>b, <1>c, <1>1 DEF AccountsInv, AnswersKept, Blamed, i
<1> QED BY <1>1, <1>2, <1>3, <1>4, <1>5 DEF AccountsInv, Requests

LEMMA FillKeeps ==
  ASSUME AccountsInv, Requests', NEW i \in Ids, Fill(i)
  PROVE  AccountsInv'
<1> DEFINE n == Users[i].name
<1>a. /\ Users \in Rolls /\ users \in Rolls /\ \A f \in Rolls : f = users \/ f = Users
      /\ made \in Nat /\ Live \subseteq 1..made
      /\ DOMAIN users \subseteq Live /\ Users \in [Live -> Profiles] /\ Live = DOMAIN Users
  BY RollsBefore, Served DEF Live
<1>b. /\ up /\ i \in Live /\ n \in Names
      /\ folder' = [folder EXCEPT ![n] = @ \cup {i}]
      /\ home' = [home EXCEPT ![i] = n]
      /\ UNCHANGED <<users, cached, marker, tokens, up, call, made, era, owners, answered, blame>>
  BY Served DEF Fill
<1>c. Rolls' = Rolls /\ Users' = Users /\ Live' = Live
  BY <1>b, RollsSame
<1>d. folder \in [Names -> SUBSET (1..made)] /\ home \in [Ids -> Names \cup {Absent}]
      /\ \A j \in Ids : j > made => home[j] = Absent
  BY DEF AccountsInv, AccountTypes
<1> HIDE DEF n
<1>1. AccountTypes'
  <2>1. folder' \in [Names -> SUBSET (1..made)] /\ home' \in [Ids -> Names \cup {Absent}]
    BY <1>a, <1>b, <1>d
  <2>2. \A j \in Ids : j > made => home'[j] = Absent
    <3>1. ~(i > made)
      BY <1>a, <1>b
    <3> QED BY <1>b, <1>d, <3>1
  <2> QED BY <1>b, <1>c, <2>1, <2>2 DEF AccountsInv, AccountTypes
<1>2. RollsAgree' /\ DownIsQuiet' /\ SetupOpen' /\ Opened'
  BY <1>b, <1>c DEF AccountsInv, RollsAgree, DownIsQuiet, SetupOpen, Opened, Blamed
<1>3. Governed' /\ AnswersKept'
  BY <1>b, <1>c DEF AccountsInv, Governed, AnswersKept, Blamed
<1>4. NamesApart'
  BY <1>b, <1>c DEF AccountsInv, NamesApart, Shared
<1>5. FoldersApart'
  <2>1. ASSUME NEW f \in Rolls, NEW j \in DOMAIN f, NEW k \in DOMAIN f, k \in folder'[f[j].name]
        PROVE  j = k \/ <<"shared", f[j].name>> \in blame
    <3>1. f[j].name \in Names
      BY DEF AccountsInv, AccountTypes, Profiles
    <3>2. k \in folder[f[j].name] => j = k \/ <<"shared", f[j].name>> \in blame
      BY DEF AccountsInv, FoldersApart, Shared
    <3>3. ASSUME f[j].name = n, k = i, j # i PROVE <<"shared", n>> \in blame
      <4>1. CASE f = Users
        BY <1>a, <1>b, <3>3, <4>1 DEF AccountsInv, NamesApart, Shared, n
      <4>2. CASE f = users
        <5>1. j \in DOMAIN users /\ j \in Live /\ users[j].name = n
          BY <1>a, <3>3, <4>2
        <5>2. users[j].name = Users[j].name \/ <<"shared", users[j].name>> \in blame
          BY <1>a, <5>1 DEF AccountsInv, NamesApart, Shared
        <5>3. Users[j].name = n => <<"shared", n>> \in blame
          BY <1>a, <1>b, <3>3, <5>1 DEF AccountsInv, NamesApart, Shared, n
        <5> QED BY <5>1, <5>2, <5>3
      <4> QED BY <1>a, <4>1, <4>2
    <3> QED BY <1>b, <1>d, <2>1, <3>1, <3>2, <3>3
  <2> QED BY <1>b, <1>c, <2>1 DEF FoldersApart, Shared
<1>6. FilesKept'
  <2>1. ASSUME NEW j \in Live, home'[j] # Absent, <<"shared", home'[j]>> \notin blame
        PROVE  j \in folder'[home'[j]]
    <3>1. CASE j = i
      BY <1>a, <1>b, <1>d, <3>1, RollsBefore
    <3>2. CASE j # i
      <4>1. home'[j] = home[j] /\ home[j] \in Names
        BY <1>b, <1>d, <2>1, <3>2, RollsBefore
      <4>2. j \in folder[home[j]]
        BY <2>1, <4>1 DEF AccountsInv, FilesKept
      <4> QED BY <1>b, <1>d, <4>1, <4>2
    <3> QED BY <3>1, <3>2
  <2> QED BY <1>b, <1>c, <2>1 DEF FilesKept
<1>7. PinsAgree'
  BY <1>b, <1>c DEF AccountsInv, PinsAgree, Late
<1> QED BY <1>1, <1>2, <1>3, <1>4, <1>5, <1>6, <1>7 DEF AccountsInv, Requests

LEMMA AccountsStep ==
  ASSUME AccountsInv, [AccountsNext]_vars_accounts
  PROVE  AccountsInv'
<1>1. CASE AccountsNext
  <2>1. Requests'
    BY <1>1, CallTypesStep, LockHeldStep DEF Requests
  <2> QED BY <1>1, <2>1, AccountKinds, EditKeeps, AddKeeps, RemoveKeeps, FillKeeps, ForgetKeeps, LoseKeeps,
             BootKeeps, RestKeeps, CreateEndsKeeps, WipeKeeps
<1>2. CASE UNCHANGED vars_accounts
  <2>1. Rolls' = Rolls /\ Users' = Users /\ Live' = Live
    BY <1>2, RollsSame DEF vars_accounts
  <2>2. AccountTypes' /\ CallTypes' /\ RollsAgree' /\ LockHeld' /\ DownIsQuiet' /\ SetupOpen' /\ Opened'
    BY <1>2, <2>1 DEF vars_accounts, AccountsInv, AccountTypes, CallTypes, RollsAgree, LockHeld, DownIsQuiet,
       SetupOpen, Opened, Blamed
  <2>3. Governed' /\ AnswersKept' /\ FilesKept' /\ PinsAgree'
    BY <1>2, <2>1 DEF vars_accounts, AccountsInv, Governed, AnswersKept, FilesKept, PinsAgree, Late, Blamed
  <2>4. NamesApart' /\ FoldersApart'
    BY <1>2, <2>1 DEF vars_accounts, AccountsInv, NamesApart, FoldersApart, Shared
  <2> QED BY <2>2, <2>3, <2>4 DEF AccountsInv
<1> QED BY <1>1, <1>2

LEMMA AccountsInvImplies == AccountsInv => OwnersHold /\ SessionsHold
<1> SUFFICES ASSUME AccountsInv PROVE OwnersHold /\ SessionsHold
  OBVIOUS
<1>a. /\ Users \in Rolls /\ users \in Rolls /\ DOMAIN users \subseteq Live /\ Live = DOMAIN Users
      /\ Live \subseteq Ids
  BY RollsBefore DEF Live
<1>1. OneOwner
  BY DEF AccountsInv, Opened, OneOwner, AccountTypes, Blamed
<1>2. AdminRemains
  BY <1>a DEF AccountsInv, Governed, AdminRemains, Admins, Blamed
<1>3. AnsweredIsSaved
  BY DEF AccountsInv, AnswersKept, AnsweredIsSaved, Blamed
<1>4. PinStands
  BY <1>a DEF AccountsInv, PinsAgree, Late, PinStands
<1>5. SessionsEndWithPin
  BY DEF AccountsInv, PinsAgree, Late, SessionsEndWithPin
<1> QED BY <1>1, <1>2, <1>3, <1>4, <1>5 DEF OwnersHold, SessionsHold, AccountsInv

------------------------------------------------------------------------------
\* Positions in films. What makes PositionsHold inductive: a report that is to be written is
\* newer than the row and, while no two overlapped, the only one to be; no two members have one
\* name; and a report bears its sender's name until that is given up.

PositionTypes ==
    /\ viewerName \in [Viewers -> ViewerNames \cup {Unnamed}]
    /\ live \subseteq Titles
    /\ position \in [ViewerNames -> [Titles -> PositionRows]]
    /\ stage \in [Reports -> {"unsent", "asked", "read", "decided", "lost"}]
    /\ report \in [Reports -> Sayings \cup {NoReport}]
    /\ readVersion \in [Reports -> Nat]
    /\ \A r \in Reports : stage[r] # "unsent" => report[r] \in Sayings

WriterIsNewest ==
    \A r \in InStage("read") : Key(r) \notin overlapped =>
        /\ IsNewer(r)
        /\ \A q \in InStage("read") : Key(q) = Key(r) => q = r

NewestStand == \A n \in ViewerNames, i \in Titles : <<n, i>> \notin overlapped => NewestStands(n, i)

RowsAreSaid ==
    \A n \in ViewerNames, i \in Titles : position[n][i].at # "nowhere" =>
        \E r \in Decided(n, i) : report[r].at = position[n][i].at

ViewersApart == \A m1, m2 \in Viewers : viewerName[m1] = viewerName[m2] /\ viewerName[m1] # Unnamed => m1 = m2

SignedByOwner ==
    \A r \in Reports : stage[r] # "unsent" =>
        viewerName[report[r].who] = report[r].name \/ report[r].name \in handed

PositionsInv ==
    PositionTypes /\ WriterIsNewest /\ NewestStand /\ RowsAreSaid /\ ViewersApart /\ SignedByOwner

\* Nothing is reported at the start.
LEMMA PositionsInitInv == PositionsInit => PositionsInv
<1> SUFFICES ASSUME PositionsInit PROVE PositionsInv
  OBVIOUS
<1>1. NeverPlayed \in PositionRows
  BY DEF NeverPlayed, PositionRows
<1>2. PositionTypes
  BY <1>1, PositionsAssumption DEF PositionsInit, PositionTypes
<1>3. \A s \in {"asked", "read", "decided", "lost"} : InStage(s) = {}
  BY DEF PositionsInit, InStage
<1>4. WriterIsNewest /\ SignedByOwner
  BY <1>3 DEF PositionsInit, WriterIsNewest, SignedByOwner
<1>5. NewestStand /\ RowsAreSaid
  BY <1>3 DEF PositionsInit, NewestStand, NewestStands, RowsAreSaid, Decided, NeverPlayed
<1>6. ViewersApart
  BY DEF PositionsInit, ViewersApart
<1> QED BY <1>2, <1>4, <1>5, <1>6 DEF PositionsInv

\* A report names a row, which has a time and a version.
LEMMA RowIsThere ==
  ASSUME PositionTypes, NEW r \in Reports, stage[r] # "unsent"
  PROVE  /\ report[r] \in Sayings /\ report[r].name \in ViewerNames /\ report[r].title \in Titles
         /\ report[r].who \in Viewers /\ report[r].ts \in Nat /\ report[r].ts > 0
         /\ RowOf(r) \in PositionRows /\ RowOf(r).ts \in Nat /\ RowOf(r).version \in Nat
<1>1. report[r] \in Sayings
  BY DEF PositionTypes
<1>2. report[r].name \in ViewerNames /\ report[r].title \in Titles /\ report[r].who \in Viewers
  BY <1>1 DEF Sayings
<1>3. report[r].ts \in 1..MaxClientTime
  BY <1>1 DEF Sayings
<1>4. RowOf(r) \in PositionRows
  BY <1>2 DEF PositionTypes, RowOf
<1> QED BY <1>1, <1>2, <1>3, <1>4, PositionsAssumption DEF PositionRows

\* A new report is nobody's business yet.
LEMMA ReportKeeps ==
  ASSUME PositionsInv, NEW r \in Reports, NEW m \in Viewers, NEW i \in Titles, NEW at \in Spots,
         NEW ts \in 1..MaxClientTime, ReportPosition(r, m, i, at, ts)
  PROVE  PositionsInv'
<1> DEFINE s == [who |-> m, name |-> viewerName[m], title |-> i, at |-> at, ts |-> ts]
<1>1. viewerName[m] \in ViewerNames
  BY DEF ReportPosition, PositionsInv, PositionTypes
<1>2. s \in Sayings
  BY <1>1 DEF Sayings
<1>3. stage' = [stage EXCEPT ![r] = "asked"] /\ report' = [report EXCEPT ![r] = s]
  BY DEF ReportPosition
<1>4. PositionTypes'
  BY <1>2, <1>3 DEF ReportPosition, PositionsInv, PositionTypes
<1>5. \A q \in Reports : q # r => report'[q] = report[q] /\ stage'[q] = stage[q]
  BY <1>3 DEF PositionsInv, PositionTypes
<1>6. stage[r] = "unsent" /\ stage'[r] = "asked" /\ report'[r] = s
  BY <1>3 DEF PositionsInv, PositionTypes, ReportPosition
<1>7. \A q \in InStage("read")' : q # r /\ q \in InStage("read") /\ Key(q)' = Key(q) /\ RowOf(q)' = RowOf(q)
  BY <1>5, <1>6 DEF InStage, Key, RowOf, ReportPosition
<1>8. WriterIsNewest'
  BY <1>5, <1>7 DEF WriterIsNewest, PositionsInv, IsNewer, ReportPosition
<1>9. \A n \in ViewerNames, j \in Titles : Decided(n, j)' = Decided(n, j) /\ r \notin Decided(n, j)
  BY <1>5, <1>6 DEF Decided, InStage, Key
<1>10. NewestStand'
  <2> SUFFICES ASSUME NEW n \in ViewerNames, NEW j \in Titles, <<n, j>> \notin overlapped
               PROVE  NewestStands(n, j)'
    BY DEF NewestStand, ReportPosition
  <2>1. NewestStands(n, j) /\ position' = position
    BY DEF PositionsInv, NewestStand, ReportPosition
  <2>2. \A q \in Decided(n, j) : report'[q] = report[q]
    BY <1>5, <1>9 DEF Decided, InStage
  <2> QED BY <2>1, <2>2, <1>9 DEF NewestStands
<1>11. RowsAreSaid'
  <2>2. \A n \in ViewerNames, j \in Titles : \A q \in Decided(n, j) : report'[q] = report[q]
    BY <1>5, <1>9 DEF Decided, InStage
  <2> QED BY <2>2, <1>9 DEF RowsAreSaid, PositionsInv, ReportPosition
<1>12. ViewersApart'
  BY DEF ViewersApart, PositionsInv, ReportPosition
<1>13. SignedByOwner'
  BY <1>5, <1>6 DEF SignedByOwner, PositionsInv, ReportPosition
<1> QED BY <1>4, <1>8, <1>10, <1>11, <1>12, <1>13 DEF PositionsInv

\* A report that has read the row: newer than what is there, or decided at once.
LEMMA LookKeeps ==
  ASSUME PositionsInv, NEW r \in Reports, LookAtRow(r)
  PROVE  PositionsInv'
<1>0. stage[r] = "asked" /\ report' = report /\ position' = position /\ handed' = handed
      /\ viewerName' = viewerName
  BY DEF LookAtRow
<1>1. \A q \in Reports : Key(q)' = Key(q) /\ RowOf(q)' = RowOf(q)
  BY <1>0 DEF Key, RowOf
<1>2. PositionTypes /\ RowOf(r).version \in Nat /\ RowOf(r).ts \in Nat /\ report[r].ts \in Nat
      /\ report[r].ts > 0
  BY <1>0, RowIsThere DEF PositionsInv
<1>3. PositionTypes'
  BY <1>2 DEF LookAtRow, PositionTypes
<1>4. ViewersApart' /\ SignedByOwner'
  BY <1>0, <1>2 DEF ViewersApart, SignedByOwner, PositionsInv, LookAtRow, PositionTypes
<1>5. CASE IsNewer(r)
  <2>1. stage' = [stage EXCEPT ![r] = "read"]
        /\ overlapped' = overlapped \cup IF \E q \in InStage("read") : Key(q) = Key(r) THEN {Key(r)} ELSE {}
    BY <1>5 DEF LookAtRow
  <2>2. InStage("read")' = InStage("read") \cup {r} /\ InStage("decided")' = InStage("decided")
    BY <2>1, <1>0, <1>2 DEF InStage, PositionTypes
  <2>3. \A n \in ViewerNames, j \in Titles : Decided(n, j)' = Decided(n, j)
    BY <2>2, <1>1 DEF Decided, InStage
  <2>4. NewestStand' /\ RowsAreSaid'
    BY <2>1, <2>3, <1>0 DEF NewestStand, NewestStands, RowsAreSaid, PositionsInv
  <2>5. WriterIsNewest'
    <3> SUFFICES ASSUME NEW p \in InStage("read")', Key(p) \notin overlapped'
                 PROVE  IsNewer(p)' /\ \A q \in InStage("read")' : Key(q) = Key(p) => q = p
      BY <1>1 DEF WriterIsNewest, InStage
    <3>1. p \in Reports /\ Key(p) \notin overlapped
      BY <2>1 DEF InStage
    <3>2. IsNewer(p)'
      BY <3>1, <2>2, <1>0, <1>5 DEF IsNewer, RowOf, WriterIsNewest, PositionsInv
    <3>3. ASSUME NEW q \in InStage("read")', Key(q) = Key(p), q # p
          PROVE  FALSE
      <4>1. CASE q = r
        BY <4>1, <3>3, <2>1, <2>2
      <4>2. CASE p = r
        BY <4>2, <3>3, <2>1, <2>2
      <4>3. CASE q # r /\ p # r
        BY <4>3, <3>1, <3>3, <2>2 DEF WriterIsNewest, PositionsInv
      <4> QED BY <4>1, <4>2, <4>3
    <3> QED BY <3>2, <3>3
  <2> QED BY <1>3, <1>4, <2>4, <2>5 DEF PositionsInv
<1>6. CASE ~IsNewer(r)
  <2>1. stage' = [stage EXCEPT ![r] = "decided"] /\ overlapped' = overlapped
    BY <1>6 DEF LookAtRow
  <2>2. InStage("read")' = InStage("read") /\ InStage("decided")' = InStage("decided") \cup {r}
    BY <2>1, <1>0, <1>2 DEF InStage, PositionTypes
  <2>3. WriterIsNewest'
    BY <2>1, <2>2, <1>0, <1>1 DEF WriterIsNewest, PositionsInv, IsNewer, InStage
  <2>4. \A n \in ViewerNames, j \in Titles :
           Decided(n, j)' = Decided(n, j) \cup IF Key(r) = <<n, j>> THEN {r} ELSE {}
    BY <2>2, <1>1 DEF Decided, InStage
  <2>5. RowsAreSaid'
    BY <2>4, <1>0 DEF RowsAreSaid, PositionsInv
  <2>6. NewestStand'
    <3> SUFFICES ASSUME NEW n \in ViewerNames, NEW j \in Titles, <<n, j>> \notin overlapped
                 PROVE  NewestStands(n, j)'
      BY <2>1 DEF NewestStand
    <3>0. NewestStands(n, j)
      BY DEF PositionsInv, NewestStand
    <3>1. CASE Key(r) # <<n, j>>
      BY <3>0, <3>1, <2>4, <1>0 DEF NewestStands
    <3>2. CASE Key(r) = <<n, j>>
      <4>1. report[r].ts <= position[n][j].ts /\ position[n][j].ts > 0
        BY <3>2, <1>2, <1>6 DEF IsNewer, RowOf, Key
      <4>2. position[n][j] # NeverPlayed
        BY <4>1 DEF NeverPlayed
      <4>3. PICK p \in Decided(n, j) :
               /\ position[n][j].ts = report[p].ts /\ position[n][j].at = ResumeAt(report[p].at)
               /\ \A q \in Decided(n, j) : report[q].ts <= report[p].ts
        BY <3>0, <4>2 DEF NewestStands
      <4>4. Decided(n, j)' = Decided(n, j) \cup {r}
        BY <2>4, <3>2
      <4> QED BY <4>1, <4>3, <4>4, <1>0 DEF NewestStands
    <3> QED BY <3>1, <3>2
  <2> QED BY <1>3, <1>4, <2>3, <2>5, <2>6 DEF PositionsInv
<1> QED BY <1>5, <1>6

\* The row becomes that of the report: without an overlap, that is the newest.
LEMMA ReplaceKeeps ==
  ASSUME PositionsInv, NEW r \in Reports, ReplaceRow(r)
  PROVE  PositionsInv'
<1> DEFINE n0 == report[r].name  i0 == report[r].title
<1>0. /\ stage[r] = "read" /\ report' = report /\ handed' = handed /\ viewerName' = viewerName
      /\ overlapped' = overlapped /\ stage' = [stage EXCEPT ![r] = "decided"]
      /\ position' = [position EXCEPT ![n0][i0] = NewRow(r)]
  BY DEF ReplaceRow
<1>1. PositionTypes
  BY DEF PositionsInv
<1>2. report[r] \in Sayings /\ n0 \in ViewerNames /\ i0 \in Titles /\ report[r].ts \in Nat
  BY <1>0, <1>1, RowIsThere
<1>3. NewRow(r) \in PositionRows /\ NewRow(r).ts = report[r].ts /\ NewRow(r).at = ResumeAt(report[r].at)
  BY <1>1, <1>2 DEF NewRow, PositionRows, ResumeAt, PositionTypes
<1>4. PositionTypes'
  <2>1. position' \in [ViewerNames -> [Titles -> PositionRows]]
    BY <1>0, <1>1, <1>2, <1>3 DEF PositionTypes
  <2> QED BY <2>1, <1>0, <1>1 DEF ReplaceRow, PositionTypes
<1>5. ViewersApart' /\ SignedByOwner'
  BY <1>0, <1>1 DEF ViewersApart, SignedByOwner, PositionsInv, PositionTypes
<1>6. InStage("read")' = InStage("read") \ {r} /\ InStage("decided")' = InStage("decided") \cup {r}
  BY <1>0, <1>1 DEF InStage, PositionTypes
<1>7. \A n \in ViewerNames, j \in Titles :
         position'[n][j] = IF Key(r) = <<n, j>> THEN NewRow(r) ELSE position[n][j]
  BY <1>0, <1>1, <1>2 DEF PositionTypes, Key
<1>8. \A n \in ViewerNames, j \in Titles :
         Decided(n, j)' = Decided(n, j) \cup IF Key(r) = <<n, j>> THEN {r} ELSE {}
  BY <1>6, <1>0 DEF Decided, InStage, Key
<1>9. WriterIsNewest'
  <2> SUFFICES ASSUME NEW p \in InStage("read"), p # r, Key(p) \notin overlapped
               PROVE  IsNewer(p)' /\ \A q \in InStage("read") : Key(q) = Key(p) => q = p
    BY <1>0, <1>6 DEF WriterIsNewest, Key, InStage
  <2>1. IsNewer(p) /\ \A q \in InStage("read") : Key(q) = Key(p) => q = p
    BY DEF WriterIsNewest, PositionsInv
  <2>2. Key(r) # Key(p)
    BY <2>1, <1>0 DEF InStage
  <2>3. p \in Reports /\ stage[p] # "unsent"
    BY DEF InStage
  <2>4. report[p].name \in ViewerNames /\ report[p].title \in Titles
    BY <2>3, <1>1, RowIsThere
  <2>5. RowOf(p)' = RowOf(p)
    BY <2>2, <2>4, <1>0, <1>7 DEF RowOf, Key
  <2> QED BY <2>1, <2>5, <1>0 DEF IsNewer
<1>10. RowsAreSaid'
  <2> SUFFICES ASSUME NEW n \in ViewerNames, NEW j \in Titles, position'[n][j].at # "nowhere"
               PROVE  \E q \in Decided(n, j)' : report[q].at = position'[n][j].at
    BY <1>0 DEF RowsAreSaid
  <2>1. CASE Key(r) = <<n, j>>
    BY <2>1, <1>3, <1>7, <1>8 DEF ResumeAt
  <2>2. CASE Key(r) # <<n, j>>
    BY <2>2, <1>7, <1>8 DEF RowsAreSaid, PositionsInv
  <2> QED BY <2>1, <2>2
<1>11. NewestStand'
  <2> SUFFICES ASSUME NEW n \in ViewerNames, NEW j \in Titles, <<n, j>> \notin overlapped
               PROVE  NewestStands(n, j)'
    BY <1>0 DEF NewestStand
  <2>0. NewestStands(n, j)
    BY DEF PositionsInv, NewestStand
  <2>1. CASE Key(r) # <<n, j>>
    BY <2>0, <2>1, <1>0, <1>7, <1>8 DEF NewestStands
  <2>2. CASE Key(r) = <<n, j>>
    <3>1. report[r].ts > position[n][j].ts
      BY <2>2, <1>0 DEF WriterIsNewest, PositionsInv, IsNewer, RowOf, Key, InStage
    <3>2. \A q \in Decided(n, j) : report[q].ts <= position[n][j].ts
      BY <2>0 DEF NewestStands
    <3>3. \A q \in Decided(n, j) : report[q].ts \in Nat
      BY <1>1, RowIsThere DEF Decided, InStage
    <3>4. position[n][j].ts \in Nat
      BY <1>1 DEF PositionTypes, PositionRows
    <3>5. Decided(n, j)' = Decided(n, j) \cup {r}
      BY <2>2, <1>8
    <3>6. \A q \in Decided(n, j)' : report[q].ts <= report[r].ts
      BY <3>1, <3>2, <3>3, <3>4, <3>5, <1>2
    <3>7. position'[n][j] = NewRow(r)
      BY <2>2, <1>7
    <3> QED BY <3>5, <3>6, <3>7, <1>0, <1>3 DEF NewestStands
  <2> QED BY <2>1, <2>2
<1> QED BY <1>4, <1>5, <1>9, <1>10, <1>11 DEF PositionsInv

\* A report that is lost has written nothing.
LEMMA ReportLostKeeps ==
  ASSUME PositionsInv, NEW r \in Reports, LoseReport(r)
  PROVE  PositionsInv'
<1>0. /\ stage[r] \in {"asked", "read"} /\ report' = report /\ handed' = handed /\ viewerName' = viewerName
      /\ overlapped' = overlapped /\ stage' = [stage EXCEPT ![r] = "lost"] /\ position' = position
  BY DEF LoseReport
<1>1. PositionTypes
  BY DEF PositionsInv
<1>2. PositionTypes'
  BY <1>0, <1>1 DEF LoseReport, PositionTypes
<1>3. ViewersApart' /\ SignedByOwner'
  BY <1>0, <1>1 DEF ViewersApart, SignedByOwner, PositionsInv, PositionTypes
<1>4. InStage("read")' = InStage("read") \ {r} /\ InStage("decided")' = InStage("decided")
  BY <1>0, <1>1 DEF InStage, PositionTypes
<1>5. WriterIsNewest'
  BY <1>0, <1>4 DEF WriterIsNewest, PositionsInv, IsNewer, RowOf, Key
<1>6. NewestStand' /\ RowsAreSaid'
  BY <1>0, <1>4 DEF NewestStand, NewestStands, RowsAreSaid, PositionsInv, Decided, Key
<1> QED BY <1>2, <1>3, <1>5, <1>6 DEF PositionsInv

\* Titles and names come and go.
LEMMA HouseKeeps ==
  ASSUME PositionsInv,
         \/ \E i \in Titles : HideTitle(i)
         \/ \E m \in Viewers : LeaveHouse(m) \/ \E n \in ViewerNames : RenameViewer(m, n)
  PROVE  PositionsInv'
<1>0. report' = report /\ stage' = stage /\ position' = position /\ readVersion' = readVersion
      /\ overlapped' = overlapped
  BY DEF HideTitle, LeaveHouse, RenameViewer
<1>1. WriterIsNewest' /\ NewestStand' /\ RowsAreSaid'
  BY <1>0 DEF WriterIsNewest, NewestStand, NewestStands, RowsAreSaid, PositionsInv, IsNewer, RowOf, Key,
              InStage, Decided
<1>2. PositionTypes'
  BY <1>0 DEF HideTitle, LeaveHouse, RenameViewer, PositionTypes, PositionsInv
<1>3. ViewersApart' /\ SignedByOwner'
  <2>1. CASE \E i \in Titles : HideTitle(i)
    BY <2>1, <1>0 DEF HideTitle, ViewersApart, SignedByOwner, PositionsInv
  <2>2. ASSUME NEW m \in Viewers, NEW n \in ViewerNames \cup {Unnamed},
               viewerName' = [viewerName EXCEPT ![m] = n], GiveUp(m), n = Unnamed \/ NameFree(n)
        PROVE  ViewersApart' /\ SignedByOwner'
    <3>1. \A k \in Viewers : viewerName'[k] = IF k = m THEN n ELSE viewerName[k]
      BY <2>2 DEF PositionsInv, PositionTypes
    <3>2. ViewersApart'
      BY <2>2, <3>1 DEF ViewersApart, PositionsInv, NameFree
    <3>3. ASSUME NEW r \in Reports, stage[r] # "unsent"
          PROVE  viewerName'[report[r].who] = report[r].name \/ report[r].name \in handed'
      <4>1. report[r].who \in Viewers /\ report[r].name \in ViewerNames
        BY <3>3, RowIsThere DEF PositionsInv
      <4>2. viewerName[report[r].who] = report[r].name \/ report[r].name \in handed
        BY <3>3 DEF SignedByOwner, PositionsInv
      <4> QED BY <4>1, <4>2, <3>1, <2>2, PositionsAssumption DEF GiveUp
    <3> QED BY <3>2, <3>3, <1>0 DEF SignedByOwner
  <2>3. CASE \E m \in Viewers : LeaveHouse(m) \/ \E n \in ViewerNames : RenameViewer(m, n)
    BY <2>2, <2>3 DEF LeaveHouse, RenameViewer
  <2> QED BY <2>1, <2>3
<1> QED BY <1>1, <1>2, <1>3 DEF PositionsInv

LEMMA PositionsStep == PositionsInv /\ [PositionsNext]_vars_positions => PositionsInv'
<1> SUFFICES ASSUME PositionsInv, [PositionsNext]_vars_positions PROVE PositionsInv'
  OBVIOUS
<1>1. CASE UNCHANGED vars_positions
  BY <1>1 DEF vars_positions, PositionsInv, PositionTypes, WriterIsNewest, NewestStand, NewestStands,
              RowsAreSaid, ViewersApart, SignedByOwner, IsNewer, RowOf, Key, InStage, Decided
<1>2. CASE PositionsNext
  BY <1>2, ReportKeeps, LookKeeps, ReplaceKeeps, ReportLostKeeps, HouseKeeps DEF PositionsNext
<1> QED BY <1>1, <1>2

\* What a member is offered was said under his name, and nobody else has had that.
LEMMA PositionsInvImplies == PositionsInv => PositionsHold
<1> SUFFICES ASSUME PositionsInv PROVE PositionsHold
  OBVIOUS
<1>1. ASSUME NEW m \in Viewers, viewerName[m] \notin handed \cup {Unnamed}, NEW i \in Offered(m)
      PROVE  \E r \in Decided(viewerName[m], i) :
                report[r].who = m /\ report[r].at = position[viewerName[m]][i].at
  <2>1. viewerName[m] \in ViewerNames /\ i \in Titles /\ position[viewerName[m]][i].at # "nowhere"
    BY <1>1 DEF Offered, PositionsInv, PositionTypes
  <2>2. PICK r \in Decided(viewerName[m], i) : report[r].at = position[viewerName[m]][i].at
    BY <2>1 DEF RowsAreSaid, PositionsInv
  <2>3. r \in Reports /\ stage[r] # "unsent" /\ report[r].name = viewerName[m]
    BY DEF Decided, InStage, Key
  <2>4. report[r].who \in Viewers
    BY <2>3, RowIsThere DEF PositionsInv
  <2>5. viewerName[report[r].who] = viewerName[m]
    BY <2>3, <1>1 DEF SignedByOwner, PositionsInv
  <2>6. report[r].who = m
    BY <2>4, <2>5, <1>1 DEF ViewersApart, PositionsInv
  <2> QED BY <2>2, <2>6
<1> QED BY <1>1 DEF PositionsHold, NewestStand, PositionsInv

------------------------------------------------------------------------------
\* The backup drive. What makes BackupStands inductive: the snapshot being written is there,
\* is not whole and, while the clock only went forward, is the newest of its directory; and its
\* folder is as new as the sync believes.

BackupTypes ==
    /\ protected \subseteq Folders
    /\ source \in [Folders -> Nat]
    /\ snapshots \in [Folders -> SUBSET [at : Nat, of : Folders, version : Nat, whole : BOOLEAN]]
    /\ DOMAIN current = Folders
    /\ covered \in [Folders -> Nat]
    /\ library \in [Photos -> Nat] /\ mirror \in [Photos -> Nat]
    /\ drive \in [active : BOOLEAN, mounted : BOOLEAN, leaving : BOOLEAN]
    /\ second \in Nat
    /\ overrun \in [{"clock", "edited", "astray"} -> SUBSET Folders]

SyncTypes ==
    /\ sync = [kind |-> sync.kind, stage |-> sync.stage, todo |-> sync.todo, now |-> sync.now,
               at |-> sync.at, base |-> sync.base, list |-> sync.list]
    /\ sync.kind \in {"none", "docs", "media", "restore"} /\ sync.stage \in {"idle", "copying"}
    /\ sync.at \in Nat /\ sync.base \in Nat
    /\ sync.stage = "copying" => sync.kind = "docs" /\ sync.now \in sync.todo
    /\ sync.kind = "docs" => sync.todo \subseteq sync.list /\ sync.list \subseteq Folders
    /\ sync.kind # "docs" => sync.todo \subseteq Photos

ListHeld ==
    sync.kind = "docs" => \A f \in Folders : (f \in sync.list <=> f \in wanted) \/ Excused(f, "edited")

SnapshotsPast ==
    \A f \in Folders : ~Excused(f, "clock") => \A s \in snapshots[SlugOf[f]] : s.at <= second

InCopying ==
    sync.stage = "copying" =>
        LET d == SlugOf[sync.now] IN
        /\ source[sync.now] = 0 \/ source[sync.now] >= sync.base
        /\ ~Elsewhere => \E s \in snapshots[d] : s.at = sync.at
        /\ ~Elsewhere => \A s \in snapshots[d] : s.at = sync.at => ~s.whole /\ s.version = 0
        /\ \A f \in Sharing(sync.now) : ~Excused(f, "clock") => \A s \in snapshots[d] : s.at <= sync.at

BackupInv ==
    /\ BackupTypes /\ SyncTypes /\ ListHeld /\ SnapshotsPast /\ InCopying
    /\ CurrentWhole /\ SyncedIsThere /\ FoldersAsAsked

\* No excuse for a copy is taken away.
ExcusesStay == overrun.clock \subseteq overrun'.clock /\ overrun.astray \subseteq overrun'.astray

LEMMA BackupInitInv == BackupInit => BackupInv
<1> SUFFICES ASSUME BackupInit PROVE BackupInv
  OBVIOUS
<1>1. BackupTypes
  BY DEF BackupInit, BackupTypes
<1>2. SyncTypes /\ InCopying
  BY DEF BackupInit, SyncTypes, InCopying, NoSync
<1>3. ListHeld /\ SnapshotsPast
  BY LocalBackupAssumption DEF BackupInit, ListHeld, SnapshotsPast, NoSync
<1>4. CurrentWhole /\ SyncedIsThere /\ FoldersAsAsked
  BY LocalBackupAssumption DEF BackupInit, CurrentWhole, SyncedIsThere, FoldersAsAsked
<1> QED BY <1>1, <1>2, <1>3, <1>4 DEF BackupInv

\* What was promised of the copies holds on while they stay and excuses only come.
LEMMA CopiesSame ==
  ASSUME CurrentWhole, SyncedIsThere, UNCHANGED <<snapshots, current, covered>>, ExcusesStay
  PROVE  CurrentWhole' /\ SyncedIsThere'
BY DEF CurrentWhole, SyncedIsThere, Excused, ExcusesStay

LEMMA PastSame ==
  ASSUME BackupTypes, SnapshotsPast, UNCHANGED snapshots, ExcusesStay,
         second' \in Nat, second' >= second \/ overrun'.clock = Folders
  PROVE  SnapshotsPast'
<1> SUFFICES ASSUME NEW f \in Folders, ~Excused(f, "clock")', NEW s \in snapshots[SlugOf[f]]
             PROVE  s.at <= second'
  BY DEF SnapshotsPast
<1>1. s.at <= second /\ second \in Nat /\ s.at \in Nat /\ SlugOf[f] \in Folders
  BY LocalBackupAssumption DEF SnapshotsPast, Excused, BackupTypes, ExcusesStay
<1>2. overrun'.clock # Folders
  BY DEF Excused
<1> QED BY <1>1, <1>2

LEMMA CopyingSame ==
  ASSUME InCopying, UNCHANGED <<sync, drive, source, snapshots>>, ExcusesStay
  PROVE  InCopying'
BY DEF InCopying, Excused, Elsewhere, ExcusesStay

LEMMA EditedExcuses ==
  ASSUME BackupTypes, NEW f \in Folders, Edited(f)
  PROVE  /\ ExcusesStay /\ overrun' \in [{"clock", "edited", "astray"} -> SUBSET Folders]
         /\ overrun'.edited = IF sync.kind = "docs" THEN overrun.edited \cup {f} ELSE overrun.edited \ {f}
BY DEF BackupTypes, Edited, ExcusesStay

\* A step that only the conjuncts named here can notice.
LEMMA AdminKeepsBackup ==
  ASSUME BackupInv,
         \/ \E on \in BOOLEAN : SetMedia(on)
         \/ \E f \in Folders : Protect(f) \/ Unprotect(f)
         \/ AskRestore
  PROVE  BackupInv'
<1>a. BackupTypes /\ SyncTypes
  BY DEF BackupInv
<1>0. UNCHANGED <<drive, source, snapshots, current, library, mirror, second, sync, covered>>
  BY DEF SetMedia, Protect, Unprotect, AskRestore
<1>1. \/ UNCHANGED <<protected, wanted, overrun>>
      \/ \E f \in Folders : /\ \/ protected' = protected \cup {f} /\ wanted' = wanted \cup {f}
                               \/ protected' = protected \ {f} /\ wanted' = wanted \ {f}
                            /\ Edited(f)
  BY DEF SetMedia, Protect, Unprotect, AskRestore
<1>2. /\ ExcusesStay /\ overrun' \in [{"clock", "edited", "astray"} -> SUBSET Folders]
      /\ protected' \subseteq Folders /\ ListHeld' /\ FoldersAsAsked'
  <2>1. CASE UNCHANGED <<protected, wanted, overrun>>
    BY <1>a, <1>0, <2>1 DEF BackupInv, BackupTypes, ExcusesStay, ListHeld, FoldersAsAsked, Excused
  <2>2. ASSUME NEW f \in Folders, Edited(f),
               \/ protected' = protected \cup {f} /\ wanted' = wanted \cup {f}
               \/ protected' = protected \ {f} /\ wanted' = wanted \ {f}
        PROVE  /\ ExcusesStay /\ overrun' \in [{"clock", "edited", "astray"} -> SUBSET Folders]
               /\ protected' \subseteq Folders /\ ListHeld' /\ FoldersAsAsked'
    <3>1. /\ ExcusesStay /\ overrun' \in [{"clock", "edited", "astray"} -> SUBSET Folders]
          /\ overrun'.edited = IF sync.kind = "docs" THEN overrun.edited \cup {f} ELSE overrun.edited \ {f}
      BY <1>a, <2>2, EditedExcuses
    <3>2. protected' \subseteq Folders
      BY <1>a, <2>2 DEF BackupTypes
    <3>3. ListHeld'
      BY <1>0, <2>2, <3>1 DEF BackupInv, ListHeld, Excused
    <3>4. FoldersAsAsked'
      BY <2>2, <3>1 DEF BackupInv, FoldersAsAsked, Excused
    <3> QED BY <3>1, <3>2, <3>3, <3>4
  <2> QED BY <1>1, <2>1, <2>2
<1>3. CurrentWhole' /\ SyncedIsThere' /\ InCopying' /\ SnapshotsPast'
  BY <1>a, <1>0, <1>2, CopiesSame, CopyingSame, PastSame DEF BackupInv, BackupTypes
<1>4. BackupTypes' /\ SyncTypes'
  BY <1>a, <1>0, <1>2 DEF BackupTypes, SyncTypes
<1> QED BY <1>2, <1>3, <1>4 DEF BackupInv

\* The unmount, and what happens outside: the folders, the photos, the clock.
LEMMA OutsideKeepsBackup ==
  ASSUME BackupInv,
         \/ UnmountAsked \/ Unmounted \/ Second
         \/ \E f \in Folders : EditFolder(f)
         \/ \E p \in Photos : EditPhoto(p)
  PROVE  BackupInv'
<1>0. UNCHANGED <<protected, snapshots, current, mirror, sync, wanted, covered>>
  BY DEF UnmountAsked, Unmounted, Second, EditFolder, EditPhoto
<1>1. BackupTypes /\ SyncTypes
  BY DEF BackupInv
<1>2. /\ ExcusesStay /\ overrun' \in [{"clock", "edited", "astray"} -> SUBSET Folders]
      /\ overrun'.edited = overrun.edited
  <2>1. CASE overrun' = overrun
    BY <1>1, <2>1 DEF BackupTypes, ExcusesStay
  <2>2. CASE overrun' = [overrun EXCEPT !.clock = Folders]
    BY <1>1, <2>2 DEF BackupTypes, ExcusesStay
  <2> QED BY <2>1, <2>2 DEF UnmountAsked, Unmounted, Second, EditFolder, EditPhoto
<1>3. CurrentWhole' /\ SyncedIsThere'
  BY <1>0, <1>2, CopiesSame DEF BackupInv
<1>4. ListHeld' /\ FoldersAsAsked'
  BY <1>0, <1>2 DEF BackupInv, ListHeld, FoldersAsAsked, Excused
<1>5. SyncTypes'
  BY <1>0, <1>1 DEF SyncTypes
<1>6. CASE UnmountAsked \/ Unmounted
  <2>1. UNCHANGED <<source, library, second>>
        /\ drive' \in [active : BOOLEAN, mounted : BOOLEAN, leaving : BOOLEAN]
        /\ (sync.stage = "copying" => drive'.mounted = drive.mounted)
    <3>0. UNCHANGED <<source, library, second>> /\ drive \in [active : BOOLEAN, mounted : BOOLEAN, leaving : BOOLEAN]
      BY <1>1, <1>6 DEF UnmountAsked, Unmounted, BackupTypes
    <3>1. (\E going \in BOOLEAN : drive' = [drive EXCEPT !.leaving = going])
          \/ (drive' = [active |-> FALSE, mounted |-> FALSE, leaving |-> FALSE] /\ sync.stage # "copying")
      BY <1>6 DEF UnmountAsked, Unmounted
    <3>2. ASSUME NEW going \in BOOLEAN, drive' = [drive EXCEPT !.leaving = going]
          PROVE  drive' \in [active : BOOLEAN, mounted : BOOLEAN, leaving : BOOLEAN] /\ drive'.mounted = drive.mounted
      BY <3>0, <3>2
    <3>3. CASE \E going \in BOOLEAN : drive' = [drive EXCEPT !.leaving = going]
      BY <3>0, <3>2, <3>3
    <3>4. CASE drive' = [active |-> FALSE, mounted |-> FALSE, leaving |-> FALSE] /\ sync.stage # "copying"
      BY <3>0, <3>4
    <3> QED BY <3>1, <3>3, <3>4
  <2>2. BackupTypes'
    BY <1>0, <1>1, <1>2, <2>1 DEF BackupTypes
  <2>3. InCopying'
    BY <1>0, <1>2, <2>1 DEF BackupInv, InCopying, Excused, Elsewhere, ExcusesStay
  <2>4. SnapshotsPast'
    BY <1>0, <1>1, <1>2, <2>1, PastSame DEF BackupInv, BackupTypes
  <2> QED BY <1>3, <1>4, <1>5, <2>2, <2>3, <2>4 DEF BackupInv
<1>7. CASE Second
  <2>1. UNCHANGED <<source, library, drive>> /\ second' \in Nat /\ (second' >= second \/ overrun'.clock = Folders)
    BY <1>1, <1>7 DEF Second, BackupTypes
  <2>2. BackupTypes'
    BY <1>0, <1>1, <1>2, <2>1 DEF BackupTypes
  <2>3. InCopying'
    BY <1>0, <1>2, <2>1, CopyingSame DEF BackupInv
  <2>4. SnapshotsPast'
    BY <1>0, <1>1, <1>2, <2>1, PastSame DEF BackupInv
  <2> QED BY <1>3, <1>4, <1>5, <2>2, <2>3, <2>4 DEF BackupInv
<1>8. CASE \E f \in Folders : EditFolder(f)
  <2> PICK f \in Folders : EditFolder(f)
    BY <1>8
  <2>1. /\ UNCHANGED <<library, drive, second, overrun>> /\ source[f] \in Nat /\ source[f] # 0
        /\ source' = [source EXCEPT ![f] = 0] \/ source' = [source EXCEPT ![f] = source[f] + 1]
    <3>1. MaxEdits \in Nat /\ source[f] \in 1..(MaxEdits - 1)
      BY LocalBackupAssumption DEF EditFolder
    <3>2. PICK v \in {0, source[f] + 1} : source' = [source EXCEPT ![f] = v]
      BY DEF EditFolder
    <3>3. UNCHANGED <<library, drive, second, overrun>>
      BY DEF EditFolder
    <3>4. source[f] \in Nat /\ source[f] # 0
      BY <3>1
    <3> QED BY <3>2, <3>3, <3>4
  <2>2. BackupTypes'
    BY <1>0, <1>1, <2>1 DEF BackupTypes
  <2>4. SnapshotsPast'
    BY <1>0, <1>1, <1>2, <2>1, PastSame DEF BackupInv, BackupTypes
  <2>5. InCopying'
    <3> SUFFICES ASSUME sync.stage = "copying"
                 PROVE  source'[sync.now] = 0 \/ source'[sync.now] >= sync.base
      BY <1>0, <2>1 DEF BackupInv, InCopying, Excused, Elsewhere
    <3>1. sync.now \in Folders /\ sync.base \in Nat /\ (source[sync.now] = 0 \/ source[sync.now] >= sync.base)
      BY <1>1 DEF SyncTypes, BackupInv, InCopying
    <3> QED BY <1>1, <2>1, <3>1 DEF BackupTypes
  <2> QED BY <1>3, <1>4, <1>5, <2>2, <2>4, <2>5 DEF BackupInv
<1>9. CASE \E p \in Photos : EditPhoto(p)
  <2>1. UNCHANGED <<source, drive, second>> /\ library' \in [Photos -> Nat]
    BY <1>1, <1>9 DEF EditPhoto, BackupTypes
  <2>2. BackupTypes'
    BY <1>0, <1>1, <1>2, <2>1 DEF BackupTypes
  <2>3. InCopying' /\ SnapshotsPast'
    BY <1>0, <1>1, <1>2, <2>1, PastSame, CopyingSame DEF BackupInv, BackupTypes
  <2> QED BY <1>3, <1>4, <1>5, <2>2, <2>3 DEF BackupInv
<1> QED BY <1>6, <1>7, <1>8, <1>9

\* Runs over photos, the beginning and the end of a run over folders: no snapshot is touched.
LEMMA RunsKeepBackup ==
  ASSUME BackupInv,
         \/ StartDocs \/ EndDocs \/ StartMedia \/ EndMedia \/ StartRestore
         \/ \E p \in Photos : MirrorPhoto(p) \/ RestorePhoto(p)
  PROVE  BackupInv'
<1>0. UNCHANGED <<drive, source, snapshots, current, second, wanted, covered, overrun>>
  BY DEF StartDocs, EndDocs, StartMedia, EndMedia, StartRestore, MirrorPhoto, RestorePhoto
<1>1. BackupTypes /\ SyncTypes /\ ExcusesStay
  BY <1>0 DEF BackupInv, ExcusesStay
<1>2. CurrentWhole' /\ SyncedIsThere'
  BY <1>0, <1>1, CopiesSame DEF BackupInv
<1>3. SnapshotsPast'
  BY <1>0, <1>1, PastSame DEF BackupInv, BackupTypes
<1>4. CASE StartDocs
  <2>1. sync' = [NoSync EXCEPT !.kind = "docs", !.todo = protected, !.list = protected]
        /\ protected' = protected /\ library' = library /\ mirror' = mirror
    BY <1>4 DEF StartDocs
  <2>2. SyncTypes' /\ sync'.stage = "idle" /\ sync'.kind = "docs" /\ sync'.list = protected
    <3>1. sync' = [kind |-> "docs", stage |-> "idle", todo |-> protected, now |-> Nothing,
                   at |-> 0, base |-> 0, list |-> protected]
      BY <2>1 DEF NoSync
    <3>2. protected \subseteq Folders
      BY <1>1 DEF BackupTypes
    <3> QED BY <3>1, <3>2 DEF SyncTypes
  <2>3. ListHeld' /\ FoldersAsAsked'
    BY <1>0, <2>1, <2>2 DEF ListHeld, FoldersAsAsked, BackupInv, Excused
  <2>4. InCopying' /\ BackupTypes'
    BY <1>0, <1>1, <2>1, <2>2 DEF BackupInv, InCopying, BackupTypes
  <2> QED BY <1>2, <1>3, <2>2, <2>3, <2>4 DEF BackupInv
<1>5. CASE EndDocs
  <2>1. sync' = NoSync /\ protected' = sync.list /\ library' = library /\ mirror' = mirror
        /\ sync.kind = "docs"
    BY <1>5 DEF EndDocs
  <2>2. SyncTypes' /\ sync'.stage = "idle" /\ sync'.kind = "none"
    BY <2>1 DEF SyncTypes, NoSync
  <2>3. ListHeld' /\ FoldersAsAsked'
    BY <1>0, <2>1, <2>2 DEF ListHeld, FoldersAsAsked, BackupInv, Excused
  <2>4. sync.list \subseteq Folders
    BY <1>1, <2>1 DEF SyncTypes, BackupTypes
  <2>5. InCopying' /\ BackupTypes'
    BY <1>0, <1>1, <2>1, <2>2, <2>4 DEF BackupInv, InCopying, BackupTypes
  <2> QED BY <1>2, <1>3, <2>2, <2>3, <2>5 DEF BackupInv
<1>6. CASE StartMedia \/ EndMedia \/ StartRestore \/ \E p \in Photos : MirrorPhoto(p) \/ RestorePhoto(p)
  <2>1. /\ protected' = protected
        /\ sync.kind # "docs" \/ sync' = sync
        /\ sync' = sync \/ (sync'.kind # "docs" /\ sync'.stage = "idle" /\ SyncTypes')
    <3>1. CASE StartMedia
      <4>1. sync' = [NoSync EXCEPT !.kind = "media", !.todo = {p \in Photos : library[p] # 0}]
            /\ protected' = protected /\ sync.kind = "none"
        BY <3>1 DEF StartMedia, Locked, IsSyncing
      <4>2. SyncTypes' /\ sync'.kind = "media" /\ sync'.stage = "idle"
        BY <4>1 DEF SyncTypes, NoSync
      <4> QED BY <4>1, <4>2
    <3>2. CASE EndMedia
      <4>1. sync' = NoSync /\ protected' = protected /\ sync.kind # "docs"
        BY <3>2 DEF EndMedia
      <4>2. SyncTypes' /\ sync'.kind = "none" /\ sync'.stage = "idle"
        BY <4>1 DEF SyncTypes, NoSync
      <4> QED BY <4>1, <4>2
    <3>3. CASE StartRestore
      <4>1. CASE sync' = sync
        <5>1. protected' = protected
          BY <3>3 DEF StartRestore
        <5> QED BY <4>1, <5>1
      <4>2. CASE sync' # sync
        <5>1. sync' = [NoSync EXCEPT !.kind = "restore", !.todo = {p \in Photos : mirror[p] # 0}]
              /\ protected' = protected /\ sync.kind = "none"
          BY <3>3, <4>2 DEF StartRestore, Locked, IsSyncing
        <5>2. SyncTypes' /\ sync'.kind = "restore" /\ sync'.stage = "idle"
          BY <5>1 DEF SyncTypes, NoSync
        <5> QED BY <5>1, <5>2
      <4> QED BY <4>1, <4>2
    <3>4. ASSUME NEW p \in Photos, MirrorPhoto(p) \/ RestorePhoto(p)
          PROVE  /\ protected' = protected /\ sync.kind # "docs"
                 /\ sync'.kind # "docs" /\ sync'.stage = "idle" /\ SyncTypes'
      <4>1. sync' = [sync EXCEPT !.todo = sync.todo \ {p}] /\ protected' = protected
            /\ sync.kind \in {"media", "restore"}
        BY <3>4 DEF MirrorPhoto, RestorePhoto
      <4>2. sync' = [kind |-> sync.kind, stage |-> sync.stage, todo |-> sync.todo \ {p}, now |-> sync.now,
                     at |-> sync.at, base |-> sync.base, list |-> sync.list]
        BY <4>1, <1>1 DEF SyncTypes
      <4>3. sync.stage = "idle"
        BY <4>1, <1>1 DEF SyncTypes
      <4> QED BY <4>1, <4>2, <4>3, <1>1 DEF SyncTypes
    <3> QED BY <3>1, <3>2, <3>3, <3>4, <1>6
  <2>2. SyncTypes' /\ InCopying'
    BY <2>1, <1>0, <1>1, CopyingSame DEF BackupInv, SyncTypes, InCopying
  <2>3. ListHeld' /\ FoldersAsAsked'
    BY <2>1, <1>0 DEF BackupInv, ListHeld, FoldersAsAsked, Excused
  <2>5. library' \in [Photos -> Nat] /\ mirror' \in [Photos -> Nat]
    BY <1>1, <1>6 DEF StartMedia, EndMedia, StartRestore, MirrorPhoto, RestorePhoto, BackupTypes
  <2>6. BackupTypes'
    BY <2>1, <2>5, <1>0, <1>1 DEF BackupTypes
  <2> QED BY <1>2, <1>3, <2>2, <2>3, <2>6 DEF BackupInv
<1> QED BY <1>4, <1>5, <1>6

SnapshotSet == [at : Nat, of : Folders, version : Nat, whole : BOOLEAN]

\* A run over folders goes on with its list.
LEMMA DoneKeepsSync ==
  ASSUME SyncTypes, sync.kind = "docs", NEW f \in sync.todo, sync' = DoneWith(f)
  PROVE  /\ SyncTypes' /\ sync'.kind = "docs" /\ sync'.stage = "idle"
         /\ sync'.list = sync.list
<1>1. sync' = [kind |-> "docs", stage |-> "idle", todo |-> sync.todo \ {f}, now |-> sync.now,
               at |-> sync.at, base |-> sync.base, list |-> sync.list]
  BY DEF DoneWith, SyncTypes
<1> QED BY <1>1 DEF SyncTypes

\* A folder's copy begins: only a snapshot of this very second is given up for it.
LEMMA BeginKeepsBackup ==
  ASSUME BackupInv, NEW f \in Folders, BeginFolder(f)
  PROVE  BackupInv'
<1> DEFINE d == SlugOf[f]
<1>0. /\ UNCHANGED <<protected, drive, source, current, library, mirror, second, wanted, covered>>
      /\ sync.kind = "docs" /\ sync.stage = "idle" /\ f \in sync.todo
  BY DEF BeginFolder
<1>1. BackupTypes /\ SyncTypes /\ d \in Folders /\ \A g \in Folders : SlugOf[g] \in Folders
  BY LocalBackupAssumption DEF BackupInv
<1>2. CASE source[f] = 0
  <2>1. UNCHANGED <<snapshots, overrun>> /\ sync' = DoneWith(f)
    BY <1>2 DEF BeginFolder
  <2>2. SyncTypes' /\ sync'.kind = "docs" /\ sync'.stage = "idle" /\ sync'.list = sync.list
    BY <2>1, <1>0, <1>1, DoneKeepsSync
  <2>3. BackupTypes' /\ InCopying' /\ ExcusesStay
    BY <2>1, <2>2, <1>0, <1>1 DEF BackupTypes, InCopying, ExcusesStay
  <2>4. CurrentWhole' /\ SyncedIsThere'
    BY <2>1, <2>3, <1>0, CopiesSame DEF BackupInv
  <2>5. SnapshotsPast' /\ ListHeld' /\ FoldersAsAsked'
    BY <2>1, <2>2, <1>0 DEF BackupInv, SnapshotsPast, ListHeld, FoldersAsAsked, Excused
  <2> QED BY <2>2, <2>3, <2>4, <2>5 DEF BackupInv
<1>3. CASE source[f] # 0
  <2> DEFINE rest == {s \in snapshots[d] : s.at # second}
             half == Snapshot(second, f, 0, FALSE)
             new == IF Elsewhere THEN snapshots[d] ELSE rest \cup {half}
             twice == IF ~Elsewhere /\ \E s \in snapshots[d] : s.at = second THEN Sharing(f) ELSE {}
  <2>0. twice \subseteq Folders /\ f \in Sharing(f)
    BY DEF Sharing
  <2>1. /\ sync' = [sync EXCEPT !.stage = "copying", !.now = f, !.at = second, !.base = source[f]]
        /\ snapshots' = [snapshots EXCEPT ![d] = new]
        /\ overrun' = [overrun EXCEPT !.clock = overrun.clock \cup twice]
    <3>1. CASE Elsewhere
      <4>1. UNCHANGED <<snapshots, overrun>> /\ twice = {} /\ new = snapshots[d]
        BY <1>3, <3>1 DEF BeginFolder
      <4> QED BY <1>1, <1>3, <3>1, <4>1 DEF BeginFolder, BackupTypes
    <3>2. CASE ~Elsewhere
      BY <1>3, <3>2 DEF BeginFolder
    <3> QED BY <3>1, <3>2
  <2>2. sync' = [kind |-> "docs", stage |-> "copying", todo |-> sync.todo, now |-> f,
                 at |-> second, base |-> source[f], list |-> sync.list]
    BY <2>1, <1>0, <1>1 DEF SyncTypes
  <2>3. SyncTypes'
    BY <2>2, <1>0, <1>1 DEF SyncTypes, BackupTypes
  <2>4. half \in SnapshotSet /\ half.at = second /\ ~half.whole /\ half.version = 0
        /\ rest \subseteq SnapshotSet /\ snapshots[d] \subseteq SnapshotSet
    BY <1>1 DEF Snapshot, BackupTypes, SnapshotSet
  <2> HIDE DEF half, twice
  <2>5. snapshots' \in [Folders -> SUBSET SnapshotSet]
        /\ \A g \in Folders : snapshots'[g] = IF g = d THEN new ELSE snapshots[g]
    BY <2>1, <2>4, <1>1 DEF BackupTypes, SnapshotSet
  <2>6. /\ overrun' \in [{"clock", "edited", "astray"} -> SUBSET Folders]
        /\ overrun'.clock = overrun.clock \cup twice /\ overrun'.edited = overrun.edited
        /\ overrun'.astray = overrun.astray
    BY <2>0, <2>1, <1>1 DEF BackupTypes
  <2>7. BackupTypes'
    BY <2>5, <2>6, <1>0, <1>1 DEF BackupTypes, SnapshotSet
  <2>8. ASSUME NEW g \in Folders, ~Excused(g, "clock")', SlugOf[g] = d
        PROVE  (~Elsewhere => rest = snapshots[d]) /\ \A s \in snapshots[d] : s.at <= second
    <3>1. g \in Sharing(f) /\ ~Excused(g, "clock") /\ g \notin twice
      BY <2>6, <2>8 DEF Sharing, Excused
    <3> QED BY <2>8, <3>1 DEF twice, BackupInv, SnapshotsPast
  <2>9. second \in Nat /\ \A s \in new : s \in snapshots[d] \/ s = half
    BY <1>1 DEF BackupTypes
  <2>10. SnapshotsPast'
    <3> SUFFICES ASSUME NEW g \in Folders, ~Excused(g, "clock")', NEW s \in snapshots'[SlugOf[g]]
                 PROVE  s.at <= second
      BY <1>0 DEF SnapshotsPast
    <3>1. CASE SlugOf[g] = d
      BY <3>1, <1>1, <2>4, <2>5, <2>8, <2>9
    <3>2. CASE SlugOf[g] # d
      BY <3>2, <1>1, <2>5, <2>6 DEF BackupInv, SnapshotsPast, Excused
    <3> QED BY <3>1, <3>2
  <2>11. InCopying'
    <3>1. sync'.now = f /\ sync'.at = second /\ sync'.base = source[f] /\ source[f] \in Nat
      BY <2>2, <1>1 DEF BackupTypes
    <3>2. ~Elsewhere => \A s \in new : s.at = second => ~s.whole /\ s.version = 0
      BY <2>4
    <3>3. \A g \in Sharing(f) : ~Excused(g, "clock")' => \A s \in new : s.at <= second
      BY <2>4, <2>8, <2>9 DEF Sharing
    <3>4. snapshots'[d] = new /\ source'[f] = source[f] /\ Elsewhere' = Elsewhere /\ Sharing(f)' = Sharing(f)
      BY <2>5, <1>0, <1>1 DEF Elsewhere, Sharing
    <3>5. ~Elsewhere => \E s \in new : s.at = second
      BY <2>4
    <3> HIDE DEF new
    <3>6. source'[f] >= sync'.base
      BY <3>1, <3>4
    <3> QED BY <3>1, <3>2, <3>3, <3>4, <3>5, <3>6 DEF InCopying
  <2>12. ASSUME NEW g \in Folders, ~Excused(g, "clock")' PROVE snapshots[SlugOf[g]] \subseteq snapshots'[SlugOf[g]]
    BY <1>1, <2>5, <2>8, <2>12
  <2>13. CurrentWhole'
    BY <1>0, <2>6, <2>12 DEF BackupInv, CurrentWhole, Excused
  <2>14. SyncedIsThere'
    BY <1>0, <2>6, <2>12 DEF BackupInv, SyncedIsThere, Excused
  <2>15. ListHeld' /\ FoldersAsAsked'
    BY <2>2, <2>6, <1>0 DEF BackupInv, ListHeld, FoldersAsAsked, Excused
  <2> QED BY <2>3, <2>7, <2>10, <2>11, <2>13, <2>14, <2>15 DEF BackupInv
<1> QED BY <1>2, <1>3

\* The directory with a whole copy: it is the newest, and what was promised before is still there.
LEMMA CopiedSnapshots ==
  ASSUME BackupInv, NEW f \in Folders, Copying(f), source[f] # 0, ~Elsewhere
  PROVE  LET whole == Snapshot(sync.at, f, source[f], TRUE)
             d == SlugOf[f] IN
         /\ whole \in SnapshotSet /\ Copied(f) \subseteq SnapshotSet
         /\ whole.at = sync.at /\ whole.whole /\ whole.of = f /\ whole.version = source[f]
         /\ source[f] >= sync.base /\ sync.base \in Nat
         /\ \A s \in snapshots[d] : s \in Copied(f) \/ (~s.whole /\ s.version = 0)
         /\ whole \in Copied(f)
         /\ \A g \in Sharing(f) : ~Excused(g, "clock") =>
               whole \in Kept(Copied(f)) /\ \A s \in Copied(f) : s.at <= second
<1> DEFINE whole == Snapshot(sync.at, f, source[f], TRUE)
           d == SlugOf[f]
           all == Copied(f)
<1>0. sync.kind = "docs" /\ sync.stage = "copying" /\ sync.now = f
  BY DEF Copying
<1>1. /\ BackupTypes /\ d \in Folders /\ sync.at \in Nat /\ sync.base \in Nat /\ source[f] \in Nat
      /\ second \in Nat
  BY LocalBackupAssumption DEF BackupInv, SyncTypes, BackupTypes
<1>2. whole \in SnapshotSet /\ whole.at = sync.at /\ whole.whole /\ whole.version = source[f] /\ whole.of = f
  BY <1>1 DEF Snapshot, SnapshotSet
<1>3. snapshots[d] \subseteq SnapshotSet
  BY <1>1 DEF BackupTypes, SnapshotSet
<1>4. all = {s \in snapshots[d] : s.at # sync.at} \cup {whole}
  BY DEF Copied
<1>5. source[f] >= sync.base
  BY <1>0 DEF BackupInv, InCopying
<1>6. \A s \in snapshots[d] : s.at = sync.at => ~s.whole /\ s.version = 0
  BY <1>0 DEF BackupInv, InCopying
<1> HIDE DEF whole, all
<1>7. ASSUME NEW g \in Sharing(f), ~Excused(g, "clock")
      PROVE  whole \in Kept(all) /\ \A s \in all : s.at <= second
  <2>1. \A s \in snapshots[d] : s.at <= sync.at /\ s.at <= second /\ s.at \in Nat
    <3>1. \A s \in snapshots[d] : s.at <= sync.at
      BY <1>0, <1>7 DEF BackupInv, InCopying
    <3>2. g \in Folders /\ SlugOf[g] = d
      BY DEF Sharing
    <3>3. \A s \in snapshots[d] : s.at <= second
      BY <1>7, <3>2 DEF BackupInv, SnapshotsPast
    <3> QED BY <1>3, <3>1, <3>3 DEF SnapshotSet
  <2>2. \A s \in all : s.at \in Nat /\ s.at <= sync.at
    <3> SUFFICES ASSUME NEW t \in all PROVE t.at \in Nat /\ t.at <= sync.at
      OBVIOUS
    <3>1. CASE t = whole
      <4>1. t.at = sync.at
        BY <1>2, <3>1
      <4> QED BY <4>1, <1>1
    <3>2. CASE t \in snapshots[d]
      BY <3>2, <2>1
    <3> QED BY <3>1, <3>2, <1>4
  <2>3. {t \in all : t.at > whole.at} = {}
    <3> SUFFICES ASSUME NEW t \in all, t.at > whole.at PROVE FALSE
      OBVIOUS
    <3>1. t.at \in Nat /\ t.at <= sync.at
      BY <2>2
    <3>2. t.at > sync.at
      BY <1>2
    <3> QED BY <3>1, <3>2, <1>1
  <2>4. Cardinality({t \in all : t.at > whole.at}) = 0
    BY <2>3, FS_EmptySet
  <2>5. whole \in Kept(all)
    <3>1. whole \in all
      BY <1>4
    <3> QED BY <2>4, <3>1, LocalBackupAssumption DEF Kept
  <2>6. PICK s \in snapshots[d] : s.at = sync.at
    BY <1>0 DEF BackupInv, InCopying
  <2>7. sync.at <= second
    BY <2>1, <2>6
  <2>8. \A s2 \in all : s2.at <= second
    BY <2>2, <2>7, <1>1
  <2> QED BY <2>5, <2>8
<1>8. \A s \in snapshots[d] : s \in all \/ (~s.whole /\ s.version = 0)
  BY <1>4, <1>6
<1>9. all \subseteq SnapshotSet /\ whole \in all
  BY <1>2, <1>3, <1>4
<1> QED BY <1>1, <1>2, <1>5, <1>7, <1>8, <1>9 DEF whole, all

\* A copy that is whole: the newest of its directory, so that the pruning keeps it.
LEMMA EndKeepsBackup ==
  ASSUME BackupInv, NEW f \in Folders, EndFolder(f)
  PROVE  BackupInv'
<1> DEFINE d == SlugOf[f]
<1>0. /\ UNCHANGED <<protected, drive, source, library, mirror, second, wanted>>
      /\ sync.kind = "docs" /\ sync.stage = "copying" /\ sync.now = f /\ source[f] # 0
      /\ sync' = DoneWith(f) /\ covered' = [covered EXCEPT ![f] = sync.base] /\ Copying(f)
  BY DEF EndFolder, Copying
<1>1. /\ BackupTypes /\ SyncTypes /\ f \in sync.todo /\ sync.at \in Nat /\ sync.base \in Nat /\ d \in Folders
      /\ \A g \in Folders : SlugOf[g] \in Folders
  BY <1>0, LocalBackupAssumption DEF BackupInv, SyncTypes
<1>2. SyncTypes' /\ sync'.kind = "docs" /\ sync'.stage = "idle" /\ sync'.list = sync.list
  BY <1>0, <1>1, DoneKeepsSync
<1>3. covered' \in [Folders -> Nat]
      /\ \A g \in Folders : covered'[g] = IF g = f THEN sync.base ELSE covered[g]
  BY <1>0, <1>1 DEF BackupTypes
<1>4. InCopying'
  BY <1>2 DEF InCopying
<1>5. CASE Elsewhere
  <2>1. UNCHANGED <<snapshots, current>> /\ overrun' = [overrun EXCEPT !.astray = overrun.astray \cup {f}]
    BY <1>5 DEF EndFolder
  <2>2. /\ overrun' \in [{"clock", "edited", "astray"} -> SUBSET Folders] /\ overrun'.clock = overrun.clock
        /\ overrun'.edited = overrun.edited /\ overrun'.astray = overrun.astray \cup {f}
    BY <1>1, <2>1 DEF BackupTypes
  <2>3. BackupTypes'
    BY <2>1, <2>2, <1>0, <1>1, <1>3 DEF BackupTypes
  <2>4. CurrentWhole' /\ SnapshotsPast' /\ ListHeld' /\ FoldersAsAsked'
    BY <2>1, <2>2, <1>0, <1>2
    DEF BackupInv, CurrentWhole, SnapshotsPast, ListHeld, FoldersAsAsked, Excused
  <2>5. SyncedIsThere'
    BY <2>1, <2>2, <1>3 DEF BackupInv, SyncedIsThere, Excused
  <2> QED BY <1>2, <1>4, <2>3, <2>4, <2>5 DEF BackupInv
<1>6. CASE ~Elsewhere
  <2> DEFINE whole == Snapshot(sync.at, f, source[f], TRUE)
             all == Copied(f)
  <2>1. snapshots' = [snapshots EXCEPT ![d] = Kept(all)] /\ current' = [current EXCEPT ![d] = sync.at]
        /\ overrun' = [overrun EXCEPT !.astray = (overrun.astray \cup Sharing(f)) \ {f}]
    BY <1>6 DEF EndFolder
  <2>2. /\ all \subseteq SnapshotSet /\ whole.at = sync.at /\ whole.whole /\ whole.version = source[f]
        /\ whole.of = f /\ source[f] >= sync.base
        /\ \A g \in Sharing(f) : ~Excused(g, "clock") => whole \in Kept(all) /\ \A s \in all : s.at <= second
    BY <1>0, <1>6, CopiedSnapshots
  <2>3. Kept(all) \subseteq all
    BY DEF Kept
  <2> HIDE DEF all, whole
  <2>4. snapshots' \in [Folders -> SUBSET SnapshotSet] /\ DOMAIN current' = Folders
        /\ \A g \in Folders : /\ snapshots'[g] = IF g = d THEN Kept(all) ELSE snapshots[g]
                              /\ current'[g] = IF g = d THEN sync.at ELSE current[g]
    BY <2>1, <2>2, <2>3, <1>1 DEF BackupTypes, SnapshotSet
  <2>5. /\ overrun' \in [{"clock", "edited", "astray"} -> SUBSET Folders] /\ overrun'.clock = overrun.clock
        /\ overrun'.edited = overrun.edited /\ overrun'.astray = (overrun.astray \cup Sharing(f)) \ {f}
    BY <1>1, <2>1 DEF BackupTypes, Sharing
  <2>6. BackupTypes'
    BY <2>4, <2>5, <1>0, <1>1, <1>3 DEF BackupTypes, SnapshotSet
  <2>7. SnapshotsPast'
    <3> SUFFICES ASSUME NEW g \in Folders, ~Excused(g, "clock"), NEW s \in snapshots'[SlugOf[g]]
                 PROVE  s.at <= second
      BY <1>0, <2>5 DEF SnapshotsPast, Excused
    <3>1. CASE SlugOf[g] = d
      BY <3>1, <1>1, <2>2, <2>3, <2>4 DEF Sharing
    <3>2. CASE SlugOf[g] # d
      BY <3>2, <1>1, <2>4 DEF BackupInv, SnapshotsPast
    <3> QED BY <3>1, <3>2
  <2>8. CurrentWhole'
    <3> SUFFICES ASSUME NEW g \in Folders, current'[SlugOf[g]] # Nothing, ~Excused(g, "clock")
                 PROVE  \E s \in snapshots'[SlugOf[g]] : s.at = current'[SlugOf[g]] /\ s.whole
      BY <2>5 DEF CurrentWhole, Excused
    <3>1. CASE SlugOf[g] = d
      <4>1. whole \in snapshots'[SlugOf[g]] /\ current'[SlugOf[g]] = sync.at
        BY <3>1, <1>1, <2>2, <2>4 DEF Sharing
      <4> QED BY <4>1, <2>2
    <3>2. CASE SlugOf[g] # d
      BY <3>2, <1>1, <2>4 DEF CurrentWhole, BackupInv
    <3> QED BY <3>1, <3>2
  <2>9. SyncedIsThere'
    <3> SUFFICES ASSUME NEW g \in Folders, covered'[g] # 0, ~Excused(g, "clock"), g \notin overrun'.astray
                 PROVE  \E s \in snapshots'[SlugOf[g]] :
                           s.at = current'[SlugOf[g]] /\ s.of = g /\ s.version >= covered'[g]
      BY <2>5 DEF SyncedIsThere, Excused
    <3>1. CASE g = f
      <4>1. whole \in snapshots'[d] /\ current'[d] = sync.at /\ covered'[g] = sync.base
        BY <3>1, <1>1, <1>3, <2>2, <2>4 DEF Sharing
      <4> QED BY <3>1, <4>1, <2>2
    <3>2. CASE g # f
      <4>1. g \notin Sharing(f) /\ ~Excused(g, "astray")
        BY <3>2, <2>5 DEF Excused
      <4>2. SlugOf[g] # d /\ covered'[g] = covered[g]
        BY <3>2, <4>1, <1>3 DEF Sharing
      <4> QED BY <4>1, <4>2, <1>1, <2>4 DEF SyncedIsThere, BackupInv
    <3> QED BY <3>1, <3>2
  <2>10. ListHeld' /\ FoldersAsAsked'
    BY <1>0, <1>2, <2>5 DEF BackupInv, ListHeld, FoldersAsAsked, Excused
  <2> QED BY <1>2, <1>4, <2>6, <2>7, <2>8, <2>9, <2>10 DEF BackupInv
<1> QED BY <1>5, <1>6

\* A copy that failed takes its own snapshot away, which nobody had been promised.
LEMMA FailKeepsBackup ==
  ASSUME BackupInv, NEW f \in Folders, FolderFails(f)
  PROVE  BackupInv'
<1>0. /\ UNCHANGED <<protected, drive, source, current, library, mirror, second, wanted, covered, overrun>>
      /\ sync.kind = "docs" /\ sync.stage = "copying" /\ sync.now = f /\ sync' = DoneWith(f)
      /\ snapshots' = [snapshots EXCEPT ![SlugOf[f]] = IF Elsewhere THEN @ ELSE {s \in @ : s.at # sync.at}]
  BY DEF FolderFails, Copying
<1>1. BackupTypes /\ SyncTypes /\ f \in sync.todo /\ \A g \in Folders : SlugOf[g] \in Folders
  BY <1>0, LocalBackupAssumption DEF BackupInv, SyncTypes
<1>2. SyncTypes' /\ sync'.kind = "docs" /\ sync'.stage = "idle" /\ sync'.list = sync.list
  BY <1>0, <1>1, DoneKeepsSync
<1>3. ListHeld' /\ FoldersAsAsked' /\ InCopying'
  BY <1>0, <1>2 DEF BackupInv, ListHeld, FoldersAsAsked, Excused, InCopying
<1>4. /\ snapshots' \in [Folders -> SUBSET [at : Nat, of : Folders, version : Nat, whole : BOOLEAN]]
      /\ \A g \in Folders : snapshots'[g] \subseteq snapshots[g]
      /\ \A g \in Folders : \A s \in snapshots[g] :
            s \notin snapshots'[g] => g = SlugOf[f] /\ ~Elsewhere /\ s.at = sync.at
  BY <1>0, <1>1 DEF BackupTypes
<1>5. BackupTypes' /\ SnapshotsPast'
  BY <1>0, <1>1, <1>4 DEF BackupTypes, SnapshotsPast, BackupInv, Excused
<1>6. \A g \in Folders : \A s \in snapshots[g] : s \notin snapshots'[g] => ~s.whole /\ s.version = 0
  BY <1>0, <1>4 DEF BackupInv, InCopying
<1>7. CurrentWhole'
  BY <1>0, <1>1, <1>6 DEF CurrentWhole, BackupInv, Excused
<1>8. SyncedIsThere'
  <2> SUFFICES ASSUME NEW g \in Folders, covered[g] # 0, ~Excused(g, "clock"), ~Excused(g, "astray")
               PROVE  \E s \in snapshots'[SlugOf[g]] :
                         s.at = current[SlugOf[g]] /\ s.of = g /\ s.version >= covered[g]
    BY <1>0 DEF SyncedIsThere, Excused
  <2>1. PICK s \in snapshots[SlugOf[g]] : s.at = current[SlugOf[g]] /\ s.of = g /\ s.version >= covered[g]
    BY DEF SyncedIsThere, BackupInv
  <2>2. covered[g] \in Nat /\ s.version # 0
    BY <2>1, <1>1 DEF BackupTypes
  <2> QED BY <2>1, <2>2, <1>1, <1>6
<1> QED BY <1>2, <1>3, <1>5, <1>7, <1>8 DEF BackupInv

\* A whole copy that the link does not name, or no link at all.
LEMMA UnlinkedKeepsCopies ==
  ASSUME BackupInv, NEW f \in Folders, Unlinked(f), UNCHANGED <<source, second, covered>>
  PROVE  /\ snapshots' \in [Folders -> SUBSET SnapshotSet] /\ DOMAIN current' = Folders
         /\ overrun' \in [{"clock", "edited", "astray"} -> SUBSET Folders] /\ overrun'.edited = overrun.edited
         /\ CurrentWhole' /\ SyncedIsThere' /\ SnapshotsPast'
<1> DEFINE d == SlugOf[f]
           all == Copied(f)
<1>1. BackupTypes /\ d \in Folders /\ \A g \in Folders : SlugOf[g] \in Folders
  BY LocalBackupAssumption DEF BackupInv
<1>2. CASE Elsewhere
  <2>1. UNCHANGED <<snapshots, current, overrun>>
    BY <1>2 DEF Unlinked
  <2> QED BY <2>1, <1>1 DEF BackupInv, BackupTypes, SnapshotSet, CurrentWhole, SyncedIsThere, SnapshotsPast, Excused
<1>3. CASE ~Elsewhere
  <2>1. /\ snapshots' = [snapshots EXCEPT ![d] = all]
        /\ \/ UNCHANGED <<current, overrun>>
           \/ /\ current' = [current EXCEPT ![d] = Nothing]
              /\ overrun' = [overrun EXCEPT !.astray = overrun.astray \cup Sharing(f)]
    BY <1>3 DEF Unlinked
  <2>2. /\ all \subseteq SnapshotSet
        /\ \A s \in snapshots[d] : s \in all \/ (~s.whole /\ s.version = 0)
        /\ \A g \in Sharing(f) : ~Excused(g, "clock") => \A s \in all : s.at <= second
    BY <1>3, CopiedSnapshots DEF Unlinked
  <2> HIDE DEF all
  <2>3. snapshots' \in [Folders -> SUBSET SnapshotSet]
        /\ \A g \in Folders : snapshots'[g] = IF g = d THEN all ELSE snapshots[g]
    BY <1>1, <2>1, <2>2 DEF BackupTypes, SnapshotSet
  <2>4. /\ DOMAIN current' = Folders
        /\ \A g \in Folders : current'[g] = current[g] \/ (g = d /\ current'[g] = Nothing)
    BY <1>1, <2>1 DEF BackupTypes
  <2>5. /\ overrun' \in [{"clock", "edited", "astray"} -> SUBSET Folders] /\ overrun'.edited = overrun.edited
        /\ overrun'.clock = overrun.clock
        /\ overrun.astray \subseteq overrun'.astray
        /\ current' = current \/ Sharing(f) \subseteq overrun'.astray
    BY <1>1, <2>1 DEF BackupTypes, Sharing
  <2>6. SnapshotsPast'
    BY <1>1, <2>2, <2>3, <2>5 DEF BackupInv, SnapshotsPast, Excused, Sharing
  <2>7. CurrentWhole'
    <3> SUFFICES ASSUME NEW g \in Folders, current'[SlugOf[g]] # Nothing, ~Excused(g, "clock")
                 PROVE  \E s \in snapshots'[SlugOf[g]] : s.at = current'[SlugOf[g]] /\ s.whole
      BY <2>5 DEF CurrentWhole, Excused
    <3>1. current'[SlugOf[g]] = current[SlugOf[g]]
      BY <1>1, <2>4
    <3>2. PICK s \in snapshots[SlugOf[g]] : s.at = current[SlugOf[g]] /\ s.whole
      BY <3>1 DEF BackupInv, CurrentWhole
    <3> QED BY <1>1, <2>2, <2>3, <3>1, <3>2
  <2>8. SyncedIsThere'
    <3> SUFFICES ASSUME NEW g \in Folders, covered[g] # 0, ~Excused(g, "clock"), g \notin overrun'.astray
                 PROVE  \E s \in snapshots'[SlugOf[g]] :
                           s.at = current'[SlugOf[g]] /\ s.of = g /\ s.version >= covered[g]
      BY <2>5 DEF SyncedIsThere, Excused
    <3>1. PICK s \in snapshots[SlugOf[g]] : s.at = current[SlugOf[g]] /\ s.of = g /\ s.version >= covered[g]
      BY <2>5 DEF BackupInv, SyncedIsThere, Excused
    <3>2. current'[SlugOf[g]] = current[SlugOf[g]]
      BY <1>1, <2>4, <2>5 DEF Sharing
    <3>3. s.version # 0
      BY <1>1, <3>1 DEF BackupTypes
    <3> QED BY <1>1, <2>2, <2>3, <3>1, <3>2, <3>3
  <2> QED BY <2>3, <2>4, <2>5, <2>6, <2>7, <2>8
<1> QED BY <1>2, <1>3

\* A run that ends in the middle leaves what was half copied, or a whole copy without its link.
LEMMA CutKeepsBackup ==
  ASSUME BackupInv, BackupCrash \/ \E f \in Folders : LinkFails(f)
  PROVE  BackupInv'
<1>0. /\ UNCHANGED <<protected, source, library, mirror, second, wanted, covered>>
      /\ sync' = NoSync
  BY DEF BackupCrash, LinkFails
<1>1. BackupTypes
  BY DEF BackupInv
<1>2. SyncTypes' /\ sync'.kind = "none" /\ sync'.stage = "idle"
  BY <1>0 DEF SyncTypes, NoSync
<1>3. drive' \in [active : BOOLEAN, mounted : BOOLEAN, leaving : BOOLEAN]
  <2>1. CASE BackupCrash
    <3>1. drive \in [active : BOOLEAN, mounted : BOOLEAN, leaving : BOOLEAN]
      BY <1>1 DEF BackupTypes
    <3>2. \/ \E mounted \in BOOLEAN : drive' = [active |-> TRUE, mounted |-> mounted, leaving |-> FALSE]
          \/ drive' = [active |-> FALSE, mounted |-> FALSE, leaving |-> FALSE]
          \/ drive' = [drive EXCEPT !.leaving = FALSE]
      BY <2>1 DEF BackupCrash, Remounted
    <3>3. CASE \E mounted \in BOOLEAN : drive' = [active |-> TRUE, mounted |-> mounted, leaving |-> FALSE]
      BY <3>3
    <3>4. CASE drive' = [active |-> FALSE, mounted |-> FALSE, leaving |-> FALSE]
      BY <3>4
    <3>5. CASE drive' = [drive EXCEPT !.leaving = FALSE]
      BY <3>1, <3>5
    <3> QED BY <3>2, <3>3, <3>4, <3>5
  <2> QED BY <1>1, <2>1 DEF LinkFails, BackupTypes
<1>4. /\ snapshots' \in [Folders -> SUBSET SnapshotSet] /\ DOMAIN current' = Folders
      /\ overrun' \in [{"clock", "edited", "astray"} -> SUBSET Folders] /\ overrun'.edited = overrun.edited
      /\ CurrentWhole' /\ SyncedIsThere' /\ SnapshotsPast'
  <2>1. CASE UNCHANGED <<snapshots, current, overrun>>
    BY <2>1, <1>0, <1>1
    DEF BackupInv, BackupTypes, SnapshotSet, CurrentWhole, SyncedIsThere, SnapshotsPast, Excused
  <2>2. CASE \E f \in Folders : Unlinked(f)
    BY <2>2, <1>0, UnlinkedKeepsCopies
  <2> QED BY <2>1, <2>2 DEF BackupCrash, LinkFails
<1>5. BackupTypes'
  BY <1>0, <1>1, <1>3, <1>4 DEF BackupTypes, SnapshotSet
<1>6. ListHeld' /\ FoldersAsAsked' /\ InCopying'
  BY <1>0, <1>2, <1>4 DEF BackupInv, ListHeld, FoldersAsAsked, Excused, InCopying
<1> QED BY <1>2, <1>4, <1>5, <1>6 DEF BackupInv

LEMMA BackupStep == BackupInv /\ [BackupNext]_vars_backup => BackupInv'
<1> SUFFICES ASSUME BackupInv, [BackupNext]_vars_backup PROVE BackupInv'
  OBVIOUS
<1>1. CASE UNCHANGED vars_backup
  <2>1. UNCHANGED <<protected, drive, source, snapshots, current, library, mirror, second, sync, wanted,
                    covered, overrun>>
    BY <1>1 DEF vars_backup
  <2>2. BackupTypes' /\ SyncTypes' /\ ListHeld'
    BY <2>1 DEF BackupInv, BackupTypes, SyncTypes, ListHeld, Excused
  <2>3. SnapshotsPast' /\ InCopying' /\ CurrentWhole' /\ SyncedIsThere' /\ FoldersAsAsked'
    BY <2>1 DEF BackupInv, SnapshotsPast, InCopying, CurrentWhole, SyncedIsThere, FoldersAsAsked, Excused,
                Elsewhere, Sharing
  <2> QED BY <2>2, <2>3 DEF BackupInv
<1>2. CASE BackupNext
  BY <1>2, AdminKeepsBackup, OutsideKeepsBackup, RunsKeepBackup, BeginKeepsBackup, EndKeepsBackup,
     FailKeepsBackup, CutKeepsBackup
  DEF BackupNext
<1> QED BY <1>1, <1>2

------------------------------------------------------------------------------
\* The text of documents. What makes TextCaughtUp inductive: a document whose row is wrong is
\* one that the watcher will see as changed, now or at the end of its pass, or has an indexing
\* of its own under way; and a restart, which drops both, falls back on a state that sees it,
\* the watcher's own or the older one that the state file has.

RowAgrees(d) == IF docs[d] = 0 THEN rowText[d] = NoRow
                ELSE rowText[d] = docs[d] \/ (rowText[d] = 0 /\ trouble = "ocr")

DocTypes ==
    /\ docs \in [Docs -> Nat] /\ newest \in [Docs -> Nat] /\ seen \in [Docs -> Nat]
    /\ DOMAIN rowText = Docs /\ DOMAIN task = Docs
    /\ \A d \in Docs : docs[d] <= newest[d] /\ seen[d] <= newest[d]
    /\ kept = Lost \/ (kept \in [Docs -> Nat] /\ \A d \in Docs : kept[d] <= newest[d])

SweepTypes ==
    /\ DOMAIN sweep = Sweeps
    /\ \A a \in Sweeps :
          /\ sweep[a] = [stage |-> sweep[a].stage, prev |-> sweep[a].prev, cur |-> sweep[a].cur,
                         todo |-> sweep[a].todo, text |-> sweep[a].text]
          /\ sweep[a].stage \in {"idle", "prune", "index"}
          /\ sweep[a].cur \in [Docs -> Nat]
          /\ \A d \in Docs : sweep[a].cur[d] <= newest[d]

WatcherWill(d) ==
    \/ sweep["watch"].stage = "idle" /\ seen[d] # docs[d]
    \/ /\ sweep["watch"].stage # "idle"
       /\ sweep["watch"].cur[d] # docs[d] \/ d \in sweep["watch"].todo
    \/ /\ sweep["watch"].stage = "prune"
       /\ d \in Removed(sweep["watch"].prev, sweep["watch"].cur)

TaskWill(d) == trouble = "trash" /\ task[d].stage # "none"

\* A state file tells of what it has to be read again.
FileTells(d) == kept = Lost \/ RowAgrees(d) \/ docs[d] = 0 \/ kept[d] # docs[d]

SomebodyWill == \A d \in Docs \ strays : RowAgrees(d) \/ WatcherWill(d) \/ TaskWill(d)

RestartWill ==
    trouble # "trash" => \A d \in Docs \ strays : RowAgrees(d) \/ docs[d] = 0 \/ seen[d] # docs[d]

FileWill == trouble \notin {"trash", "reindex", "ocr"} => \A d \in Docs \ strays : FileTells(d)

ReindexAlone == trouble \notin {"reindex", "ocr"} => sweep["reindex"].stage = "idle"

DocInv == DocTypes /\ SweepTypes /\ SomebodyWill /\ RestartWill /\ FileWill /\ ReindexAlone

LEMMA NoSweepTyped ==
  /\ NoSweep = [stage |-> "idle", prev |-> NoSweep.prev, cur |-> NoSweep.cur,
                todo |-> NoSweep.todo, text |-> NoSweep.text]
  /\ NoSweep.stage = "idle" /\ NoSweep.cur = Nowhere
BY DEF NoSweep, Nowhere

LEMMA DocInitInv == DocumentsInit => DocInv
<1> SUFFICES ASSUME DocumentsInit PROVE DocInv
  OBVIOUS
<1> USE DEF DocumentsInit, Nowhere
<1>1. DocTypes
  BY DEF DocTypes
<1>2. SweepTypes
  BY NoSweepTyped DEF SweepTypes
<1>3. \A d \in Docs : RowAgrees(d)
  BY DEF RowAgrees
<1>4. ReindexAlone
  BY DEF ReindexAlone, NoSweep, Sweeps
<1> QED BY <1>1, <1>2, <1>3, <1>4 DEF DocInv, SomebodyWill, RestartWill, FileWill, FileTells

\* What a step may do to the library and what is known of it, for documents it does not touch.
Aside(d) ==
    /\ docs'[d] = docs[d] /\ (d \notin strays' => d \notin strays)
    /\ rowText'[d] = rowText[d] /\ seen'[d] = seen[d]
    /\ task[d].stage # "none" => task'[d].stage # "none"

LEMMA AsideKeeps ==
  ASSUME DocInv, trouble' = trouble, NEW d \in Docs, d \notin strays', Aside(d),
         sweep'["watch"] = sweep["watch"], kept' = kept \/ kept' = Lost \/ trouble \in {"reindex", "ocr"}
  PROVE  /\ RowAgrees(d)' \/ WatcherWill(d)' \/ TaskWill(d)'
         /\ trouble # "trash" => RowAgrees(d)' \/ docs'[d] = 0 \/ seen'[d] # docs'[d]
         /\ trouble \notin {"trash", "reindex", "ocr"} => FileTells(d)'
<1>1. RowAgrees(d) \/ WatcherWill(d) \/ TaskWill(d)
  BY DEF DocInv, SomebodyWill, Aside
<1>2. trouble # "trash" => RowAgrees(d) \/ docs[d] = 0 \/ seen[d] # docs[d]
  BY DEF DocInv, RestartWill, Aside
<1>3. RowAgrees(d)' = RowAgrees(d)
  BY DEF RowAgrees, Aside
<1>4. WatcherWill(d)' = WatcherWill(d)
  BY DEF WatcherWill, Removed, Aside
<1>5. TaskWill(d) => TaskWill(d)'
  BY DEF TaskWill, Aside
<1>6. trouble \notin {"trash", "reindex", "ocr"} => FileTells(d)'
  BY <1>3 DEF DocInv, FileWill, FileTells, Aside
<1> QED BY <1>1, <1>2, <1>3, <1>4, <1>5, <1>6 DEF Aside

\* What a write of a row, good or failed, leaves when the row is not a stray.
LEMMA IndexesWell ==
  ASSUME DocTypes, trouble' = trouble, UNCHANGED docs, NEW d \in Docs, NEW text, Indexes(d, text),
         d \notin strays'
  PROVE  RowAgrees(d)'
<1>1. rowText' = [rowText EXCEPT ![d] = text] /\ strays' = Strays(d, text)
  BY DEF Indexes, IndexFails
<1>2. docs[d] # 0 /\ (text = docs[d] \/ (text = 0 /\ trouble = "ocr"))
  BY <1>1 DEF Strays
<1> QED BY <1>1, <1>2 DEF RowAgrees, DocTypes

LEMMA IndexesOne ==
  ASSUME DocTypes, NEW d \in Docs, NEW text, Indexes(d, text)
  PROVE  /\ DOMAIN rowText' = Docs
         /\ \A e \in Docs \ {d} : rowText'[e] = rowText[e] /\ (e \notin strays' => e \notin strays)
<1>1. CASE rowText' = [rowText EXCEPT ![d] = text] /\ strays' = Strays(d, text)
  BY <1>1 DEF DocTypes, Strays
<1>2. CASE IndexFails(d, text)
  <2>1. PICK t : rowText' = [rowText EXCEPT ![d] = t]
    BY <1>2 DEF IndexFails
  <2>2. strays' = strays \cup {d}
    BY <1>2 DEF IndexFails
  <2> QED BY <2>1, <2>2 DEF DocTypes
<1> QED BY <1>1, <1>2 DEF Indexes

\* The steps that touch one document.
LEMMA FilesKeep ==
  ASSUME DocInv, trouble' = trouble, NEW d \in Docs,
         TaskReads(d) \/ TaskWrites(d) \/ Put(d) \/ Delete(d) \/ RestoreDoc(d) \/ RenameAway(d)
  PROVE  DocInv'
<1> USE DEF DocInv
<1>s. UNCHANGED <<sweep, seen, kept>>
  BY DEF TaskReads, TaskWrites, Put, Delete, RestoreDoc, RenameAway
<1>t. DocTypes'
  <2>1. CASE TaskReads(d)
    BY <2>1 DEF TaskReads, DocTypes
  <2>4. CASE TaskWrites(d)
    BY <2>4, IndexesOne DEF TaskWrites, DocTypes
  <2>2. CASE Put(d)
    BY <2>2 DEF Put, StartTask, DocTypes
  <2>3. CASE Delete(d) \/ RestoreDoc(d) \/ RenameAway(d)
    BY <2>3 DEF Delete, RestoreDoc, RenameAway, IndexFails, StartTask, DocTypes
  <2> QED BY <2>1, <2>2, <2>3, <2>4
<1>n. \A e \in Docs : newest[e] <= newest'[e] /\ newest[e] \in Nat /\ newest'[e] \in Nat
  BY <1>t DEF DocTypes, TaskReads, TaskWrites, Put, Delete, RestoreDoc, RenameAway
<1>w. SweepTypes'
  <2>1. \A a \in Sweeps, e \in Docs : sweep[a].cur[e] \in Nat /\ sweep[a].cur[e] <= newest[e]
    BY DEF SweepTypes
  <2>2. \A a \in Sweeps, e \in Docs : sweep'[a].cur[e] <= newest'[e]
    BY <1>s, <1>n, <2>1
  <2> QED BY <1>s, <2>2 DEF SweepTypes
<1>o. \A e \in Docs \ {d} : Aside(e)
  <2>1. CASE TaskReads(d) \/ Put(d) \/ Delete(d) \/ RestoreDoc(d)
    BY <2>1 DEF Aside, DocTypes, TaskReads, Put, Delete, RestoreDoc, StartTask
  <2>2. CASE TaskWrites(d)
    BY <2>2, IndexesOne DEF Aside, DocTypes, TaskWrites
  <2>3. CASE RenameAway(d)
    BY <2>3 DEF Aside, DocTypes, RenameAway, IndexFails
  <2> QED BY <2>1, <2>2, <2>3
<1>a. ReindexAlone'
  BY <1>s DEF ReindexAlone
<1>c. ASSUME d \notin strays'
      PROVE  /\ RowAgrees(d)' \/ WatcherWill(d)' \/ TaskWill(d)'
             /\ trouble # "trash" => RowAgrees(d)' \/ docs'[d] = 0 \/ seen'[d] # docs'[d]
             /\ trouble \notin {"trash", "reindex", "ocr"} => FileTells(d)'
  <2>1. CASE TaskReads(d)
    <3>1. Aside(d)
      BY <2>1 DEF TaskReads, Aside, DocTypes
    <3> QED BY <3>1, <1>c, <1>s, AsideKeeps
  <2>2. CASE TaskWrites(d)
    <3>1. RowAgrees(d)'
      BY <2>2, <1>c, IndexesWell DEF TaskWrites
    <3> QED BY <3>1 DEF FileTells
  <2>3. CASE Put(d)
    <3>1. docs'[d] = newest[d] + 1
      BY <2>3 DEF Put, DocTypes
    <3>2. seen'[d] # docs'[d]
      BY <1>s, <3>1 DEF DocTypes
    <3>3. sweep'["watch"].cur[d] # docs'[d]
      BY <1>s, <3>1 DEF SweepTypes, Sweeps, DocTypes
    <3>4. kept' = Lost \/ kept'[d] # docs'[d]
      BY <1>s, <3>1 DEF DocTypes
    <3> QED BY <3>2, <3>3, <3>4 DEF WatcherWill, FileTells
  <2>4. CASE Delete(d)
    <3>1. docs'[d] = 0 /\ WillKnow(d)
      BY <2>4, <1>c DEF Delete, DocTypes
    <3> QED BY <1>s, <3>1 DEF WillKnow, WatcherWill, FileTells
  <2>5. CASE RestoreDoc(d)
    <3>1. trouble = "trash" /\ task'[d].stage = "read"
      BY <2>5 DEF RestoreDoc, StartTask, DocTypes
    <3> QED BY <3>1 DEF TaskWill
  <2>6. CASE RenameAway(d)
    BY <2>6, <1>c DEF RenameAway, IndexFails, RowAgrees, FileTells, DocTypes
  <2> QED BY <2>1, <2>2, <2>3, <2>4, <2>5, <2>6
<1>5. \A e \in Docs : e \notin strays' =>
             /\ RowAgrees(e)' \/ WatcherWill(e)' \/ TaskWill(e)'
             /\ trouble # "trash" => RowAgrees(e)' \/ docs'[e] = 0 \/ seen'[e] # docs'[e]
             /\ trouble \notin {"trash", "reindex", "ocr"} => FileTells(e)'
  BY <1>o, <1>c, <1>s, AsideKeeps
<1>6. SomebodyWill' /\ RestartWill' /\ FileWill'
  BY <1>5 DEF SomebodyWill, RestartWill, FileWill
<1> QED BY <1>t, <1>w, <1>a, <1>6

\* The steps of a pass.
LEMMA StartSweepKeeps ==
  ASSUME DocInv, trouble' = trouble, NEW a \in Sweeps, StartSweep(a)
  PROVE  DocInv'
<1> USE DEF DocInv
<1>s. UNCHANGED <<docs, newest, seen, kept, task, strays>>
  BY DEF StartSweep
<1>t. DocTypes'
  BY <1>s DEF StartSweep, DocTypes
<1>1. PICK p, h : sweep' = [sweep EXCEPT ![a] = [stage |-> "prune", prev |-> p, cur |-> docs,
                                                todo |-> h, text |-> << >>]]
  BY DEF StartSweep, Scanned
<1>w. SweepTypes'
  BY <1>1, <1>s DEF SweepTypes, DocTypes
<1>2. ASSUME a = "watch", NEW d \in Docs \ strays
      PROVE  /\ RowAgrees(d)' \/ WatcherWill(d)' \/ TaskWill(d)'
             /\ trouble # "trash" => RowAgrees(d)' \/ docs'[d] = 0 \/ seen'[d] # docs'[d]
             /\ trouble \notin {"trash", "reindex", "ocr"} => FileTells(d)'
  <2>1. sweep'["watch"] = [stage |-> "prune", prev |-> seen, cur |-> docs,
                           todo |-> Changed(seen, docs) \cup {}, text |-> << >>]
    BY <1>2 DEF StartSweep, Scanned, SweepTypes
  <2>2. RowAgrees(d)' = RowAgrees(d) /\ TaskWill(d)' = TaskWill(d)
    BY <1>2, <1>s DEF StartSweep, RowAgrees, TaskWill
  <2>3. sweep["watch"].stage = "idle"
    BY <1>2 DEF StartSweep
  <2>4. WatcherWill(d) => seen[d] # docs[d]
    BY <2>3 DEF WatcherWill
  <2>5. seen[d] # docs[d] => WatcherWill(d)'
    BY <2>1, <1>s DEF WatcherWill, Changed, Removed
  <2>6. RowAgrees(d) \/ WatcherWill(d) \/ TaskWill(d)
    BY DEF SomebodyWill
  <2>7. trouble # "trash" => RowAgrees(d) \/ docs[d] = 0 \/ seen[d] # docs[d]
    BY DEF RestartWill
  <2>8. trouble \notin {"trash", "reindex", "ocr"} => FileTells(d)
    BY DEF FileWill
  <2> QED BY <2>2, <2>4, <2>5, <2>6, <2>7, <2>8, <1>s DEF FileTells
<1>3. ASSUME a = "reindex", NEW d \in Docs \ strays
      PROVE  /\ RowAgrees(d)' \/ WatcherWill(d)' \/ TaskWill(d)'
             /\ trouble # "trash" => RowAgrees(d)' \/ docs'[d] = 0 \/ seen'[d] # docs'[d]
             /\ trouble \notin {"trash", "reindex", "ocr"} => FileTells(d)'
  <2>1. sweep'["watch"] = sweep["watch"]
    BY <1>1, <1>3 DEF SweepTypes, Sweeps
  <2>2. rowText'[d] = IF docs[d] = 0 THEN NoRow ELSE rowText[d]
    BY <1>3 DEF StartSweep
  <2>3. CASE docs[d] = 0
    BY <2>2, <2>3, <1>s DEF RowAgrees, FileTells
  <2>4. CASE docs[d] # 0
    <3>1. Aside(d)
      BY <2>2, <2>4, <1>s DEF Aside
    <3> QED BY <3>1, <2>1, <1>s, AsideKeeps
  <2> QED BY <2>3, <2>4
<1>4. SomebodyWill' /\ RestartWill' /\ FileWill'
  BY <1>2, <1>3, <1>s DEF SomebodyWill, RestartWill, FileWill, Sweeps
<1>5. ReindexAlone'
  BY <1>1, <1>s DEF ReindexAlone, StartSweep, SweepTypes, Sweeps
<1> QED BY <1>t, <1>w, <1>4, <1>5

LEMMA PruneKeeps ==
  ASSUME DocInv, trouble' = trouble, NEW a \in Sweeps, Prune(a)
  PROVE  DocInv'
<1> USE DEF DocInv
<1> DEFINE gone == Removed(sweep[a].prev, sweep[a].cur)
<1>s. UNCHANGED <<docs, newest, seen, kept, task>>
  BY DEF Prune
<1>t. DocTypes'
  <2>1. DOMAIN rowText' = Docs
    BY DEF Prune
  <2> QED BY <1>s, <2>1 DEF DocTypes
<1>left. PICK left \in SUBSET gone :
             /\ rowText' = [d \in Docs |-> IF d \in gone \ left THEN NoRow ELSE rowText[d]]
             /\ strays' = (strays \ gone) \cup left \cup {d \in gone : docs[d] # 0}
  BY DEF Prune
<1>1. /\ DOMAIN sweep' = Sweeps
      /\ sweep'[a] = [stage |-> "index", prev |-> Nowhere,
                      cur |-> sweep[a].cur, todo |-> sweep[a].todo, text |-> sweep[a].text]
      /\ \A b \in Sweeps \ {a} : sweep'[b] = sweep[b]
  <2> HIDE DEF DocInv
  <2> DEFINE r == sweep[a]
  <2>1. /\ DOMAIN sweep = Sweeps
        /\ r = [stage |-> r.stage, prev |-> r.prev, cur |-> r.cur, todo |-> r.todo, text |-> r.text]
    BY DEF SweepTypes, DocInv
  <2>2. sweep' = [sweep EXCEPT ![a].stage = "index", ![a].prev = Nowhere]
    BY DEF Prune
  <2> QED BY <2>1, <2>2
<1>w. SweepTypes'
  BY <1>1, <1>s DEF SweepTypes
<1>2. ASSUME NEW d \in Docs, d \notin strays'
      PROVE  /\ RowAgrees(d)' \/ WatcherWill(d)' \/ TaskWill(d)'
             /\ trouble # "trash" => RowAgrees(d)' \/ docs'[d] = 0 \/ seen'[d] # docs'[d]
             /\ trouble \notin {"trash", "reindex", "ocr"} => FileTells(d)'
  <2>1. /\ rowText'[d] = IF d \in gone THEN NoRow ELSE rowText[d]
        /\ strays' = (strays \ gone) \cup left \cup {e \in gone : docs[e] # 0}
    BY <1>2, <1>left
  <2>2. CASE d \in gone
    BY <2>1, <2>2, <1>2, <1>s DEF RowAgrees, FileTells
  <2>3. CASE d \notin gone
    <3>1. d \notin strays /\ rowText'[d] = rowText[d]
      BY <2>1, <2>3, <1>2
    <3>2. RowAgrees(d)' = RowAgrees(d) /\ TaskWill(d)' = TaskWill(d)
      BY <3>1, <1>s DEF RowAgrees, TaskWill
    <3>3. WatcherWill(d) => WatcherWill(d)'
      <4>1. CASE a = "watch"
        BY <4>1, <1>1, <1>s, <2>3 DEF WatcherWill, SweepTypes, Prune
      <4>2. CASE a # "watch"
        <5>1. sweep'["watch"] = sweep["watch"]
          BY <4>2, <1>1 DEF SweepTypes, Sweeps
        <5> QED BY <5>1, <1>s DEF WatcherWill
      <4> QED BY <4>1, <4>2
    <3>4. RowAgrees(d) \/ WatcherWill(d) \/ TaskWill(d)
      BY <3>1 DEF SomebodyWill
    <3>5. trouble # "trash" => RowAgrees(d) \/ docs[d] = 0 \/ seen[d] # docs[d]
      BY <3>1 DEF RestartWill
    <3>6. trouble \notin {"trash", "reindex", "ocr"} => FileTells(d)
      BY <3>1 DEF FileWill
    <3> QED BY <3>2, <3>3, <3>4, <3>5, <3>6, <1>s DEF FileTells
  <2> QED BY <2>2, <2>3
<1>4. SomebodyWill' /\ RestartWill' /\ FileWill'
  BY <1>2 DEF SomebodyWill, RestartWill, FileWill
<1>5. ReindexAlone'
  BY <1>1, <1>s DEF ReindexAlone, Prune, SweepTypes, Sweeps
<1> QED BY <1>t, <1>w, <1>4, <1>5

LEMMA SweepReadsKeeps ==
  ASSUME DocInv, trouble' = trouble, NEW a \in Sweeps, NEW d \in Docs, SweepReads(a, d)
  PROVE  DocInv'
<1> USE DEF DocInv
<1>s. UNCHANGED <<docs, newest, rowText, seen, kept, task, strays>>
  BY DEF SweepReads
<1>1. /\ DOMAIN sweep' = Sweeps
      /\ sweep'[a] = [stage |-> sweep[a].stage, prev |-> sweep[a].prev,
                      cur |-> sweep[a].cur, todo |-> sweep[a].todo, text |-> sweep'[a].text]
      /\ \A b \in Sweeps \ {a} : sweep'[b] = sweep[b]
  <2> HIDE DEF DocInv
  <2> DEFINE r == sweep[a]
  <2>1. /\ DOMAIN sweep = Sweeps
        /\ r = [stage |-> r.stage, prev |-> r.prev, cur |-> r.cur, todo |-> r.todo, text |-> r.text]
    BY DEF SweepTypes, DocInv
  <2>2. sweep' = [sweep EXCEPT ![a].text = sweep'[a].text]
    BY DEF SweepReads
  <2> QED BY <2>1, <2>2
<1>2. \A b \in Sweeps : /\ sweep'[b].stage = sweep[b].stage /\ sweep'[b].prev = sweep[b].prev
                        /\ sweep'[b].cur = sweep[b].cur /\ sweep'[b].todo = sweep[b].todo
  BY <1>1 DEF SweepTypes
<1>3. SweepTypes'
  BY <1>1, <1>s DEF SweepTypes
<1>4. DocTypes' /\ RestartWill' /\ FileWill'
  BY <1>s DEF DocTypes, RestartWill, FileWill, FileTells, RowAgrees
<1>5. ReindexAlone'
  BY <1>s, <1>2 DEF ReindexAlone, Sweeps
<1>6. \A e \in Docs : WatcherWill(e)' = WatcherWill(e)
  BY <1>s, <1>2 DEF WatcherWill, Removed, Sweeps
<1>7. \A e \in Docs : RowAgrees(e)' = RowAgrees(e) /\ TaskWill(e)' = TaskWill(e)
  BY <1>s DEF RowAgrees, TaskWill
<1>8. SomebodyWill'
  BY <1>s, <1>6, <1>7 DEF SomebodyWill
<1> QED BY <1>3, <1>4, <1>5, <1>8

LEMMA SweepWritesKeeps ==
  ASSUME DocInv, trouble' = trouble, NEW a \in Sweeps, NEW d \in Docs, SweepWrites(a, d)
  PROVE  DocInv'
<1> USE DEF DocInv
<1>s. UNCHANGED <<docs, newest, seen, kept, task>>
  BY DEF SweepWrites
<1>t. DocTypes'
  BY <1>s, IndexesOne DEF SweepWrites, DocTypes
<1>1. /\ DOMAIN sweep' = Sweeps
      /\ sweep'[a] = [stage |-> sweep[a].stage, prev |-> sweep[a].prev,
                      cur |-> sweep[a].cur, todo |-> sweep[a].todo \ {d}, text |-> sweep'[a].text]
      /\ \A b \in Sweeps \ {a} : sweep'[b] = sweep[b]
  <2> HIDE DEF DocInv
  <2> DEFINE r == sweep[a]
  <2>1. /\ DOMAIN sweep = Sweeps
        /\ r = [stage |-> r.stage, prev |-> r.prev, cur |-> r.cur, todo |-> r.todo, text |-> r.text]
    BY DEF SweepTypes, DocInv
  <2>2. sweep' = [sweep EXCEPT ![a].todo = @ \ {d},
                              ![a].text = sweep'[a].text]
    BY DEF SweepWrites
  <2> QED BY <2>1, <2>2
<1>2. \A b \in Sweeps : /\ sweep'[b].stage = sweep[b].stage /\ sweep'[b].prev = sweep[b].prev
                        /\ sweep'[b].cur = sweep[b].cur /\ sweep[b].todo \subseteq sweep'[b].todo \cup {d}
  BY <1>1 DEF SweepTypes
<1>w. SweepTypes'
  BY <1>1, <1>s DEF SweepTypes
<1>5. ReindexAlone'
  BY <1>s, <1>2 DEF ReindexAlone, Sweeps
<1>6. ASSUME NEW e \in Docs, e \notin strays'
      PROVE  /\ RowAgrees(e)' \/ WatcherWill(e)' \/ TaskWill(e)'
             /\ trouble # "trash" => RowAgrees(e)' \/ docs'[e] = 0 \/ seen'[e] # docs'[e]
             /\ trouble \notin {"trash", "reindex", "ocr"} => FileTells(e)'
  <2>1. CASE e = d
    <3>1. RowAgrees(d)'
      BY <1>6, <1>s, <2>1, IndexesWell DEF SweepWrites
    <3> QED BY <3>1, <2>1 DEF FileTells
  <2>2. CASE e # d
    <3>1. e \notin strays /\ rowText'[e] = rowText[e]
      BY <1>6, <2>2, IndexesOne DEF SweepWrites
    <3>2. RowAgrees(e)' = RowAgrees(e) /\ TaskWill(e)' = TaskWill(e)
      BY <3>1, <1>s DEF RowAgrees, TaskWill
    <3>3. WatcherWill(e) => WatcherWill(e)'
      BY <1>s, <1>2, <2>2 DEF WatcherWill, Removed, Sweeps
    <3>4. RowAgrees(e) \/ WatcherWill(e) \/ TaskWill(e)
      BY <3>1 DEF SomebodyWill
    <3>5. trouble # "trash" => RowAgrees(e) \/ docs[e] = 0 \/ seen[e] # docs[e]
      BY <3>1 DEF RestartWill
    <3>6. trouble \notin {"trash", "reindex", "ocr"} => FileTells(e)
      BY <3>1 DEF FileWill
    <3> QED BY <3>2, <3>3, <3>4, <3>5, <3>6, <1>s DEF FileTells
  <2> QED BY <2>1, <2>2
<1>7. SomebodyWill' /\ RestartWill' /\ FileWill'
  BY <1>6 DEF SomebodyWill, RestartWill, FileWill
<1> QED BY <1>t, <1>w, <1>5, <1>7

LEMMA EndSweepKeeps ==
  ASSUME DocInv, trouble' = trouble, NEW a \in Sweeps,
         EndSweep(a) \/ (a = "reindex" /\ CancelReindex)
  PROVE  DocInv'
<1> USE DEF DocInv
<1>s. /\ UNCHANGED <<docs, newest, rowText, task, strays>>
      /\ sweep' = [sweep EXCEPT ![a] = NoSweep]
  BY DEF EndSweep, CancelReindex
<1>t. DocTypes'
  BY <1>s DEF EndSweep, CancelReindex, DocTypes, SweepTypes
<1>w. SweepTypes'
  <2>1. Nowhere \in [Docs -> Nat] /\ \A d \in Docs : Nowhere[d] <= newest[d]
    BY DEF Nowhere, DocTypes
  <2> QED BY <1>s, <2>1, NoSweepTyped DEF SweepTypes
<1>7. \A e \in Docs : RowAgrees(e)' = RowAgrees(e) /\ TaskWill(e)' = TaskWill(e)
  BY <1>s DEF RowAgrees, TaskWill
<1>1. CASE a = "watch"
  <2>1. /\ sweep["watch"].stage = "index" /\ sweep["watch"].todo = {}
        /\ seen' = sweep["watch"].cur /\ kept' \in {seen', kept, Lost}
    BY <1>1 DEF EndSweep
  <2>2. sweep'["watch"].stage = "idle" /\ sweep'["reindex"] = sweep["reindex"]
    BY <1>1, <1>s, NoSweepTyped DEF SweepTypes, Sweeps
  <2>3. \A d \in Docs : WatcherWill(d) => seen'[d] # docs'[d]
    BY <2>1, <1>s DEF WatcherWill
  <2>4. SomebodyWill'
    BY <2>2, <2>3, <1>7, <1>s DEF SomebodyWill, WatcherWill
  <2>5. RestartWill'
    BY <2>3, <1>7, <1>s DEF SomebodyWill, RestartWill, TaskWill
  <2>6. ReindexAlone'
    BY <2>2 DEF ReindexAlone
  <2>7. FileWill'
    <3>1. CASE kept' = seen'
      BY <3>1, <2>5 DEF FileWill, FileTells, RestartWill
    <3>2. CASE kept' \in {kept, Lost}
      BY <3>2, <1>7, <1>s DEF FileWill, FileTells
    <3> QED BY <2>1, <3>1, <3>2
  <2> QED BY <1>t, <1>w, <2>4, <2>5, <2>6, <2>7
<1>2. CASE a = "reindex"
  <2>1. sweep["reindex"].stage = "index" /\ seen' = seen
    BY <1>2 DEF EndSweep, CancelReindex
  <2>2. sweep'["watch"] = sweep["watch"]
    BY <1>2, <1>s DEF SweepTypes, Sweeps
  <2>3. \A d \in Docs : Aside(d)
    BY <2>1, <1>s DEF Aside
  <2>6. trouble \in {"reindex", "ocr"}
    BY <2>1 DEF ReindexAlone
  <2>4. SomebodyWill' /\ RestartWill' /\ FileWill'
    BY <2>2, <2>3, <2>6, AsideKeeps, <1>s DEF SomebodyWill, RestartWill, FileWill
  <2>5. ReindexAlone'
    BY <2>1 DEF ReindexAlone
  <2> QED BY <1>t, <1>w, <2>4, <2>5
<1> QED BY <1>1, <1>2 DEF Sweeps

LEMMA RestartKeeps ==
  ASSUME DocInv, trouble' = trouble, DocumentsRestart
  PROVE  DocInv'
<1> USE DEF DocInv
<1>s. /\ UNCHANGED <<docs, newest, strays>>
      /\ sweep' = [a \in Sweeps |-> NoSweep]
      /\ trouble \in {"stop", "crash", "disk"}
  BY DEF DocumentsRestart
<1>2. (kept' = Lost /\ seen' = Nowhere) \/ (kept' = seen' /\ (seen' = seen \/ (seen' = kept /\ kept # Lost)))
  <2>1. PICK k \in {seen, kept, Lost} : kept' = k /\ seen' = IF k = Lost THEN Nowhere ELSE k
    BY DEF DocumentsRestart
  <2> QED BY <2>1
<1>t. DocTypes'
  BY <1>s, <1>2 DEF DocTypes, DocumentsRestart, Nowhere
<1>w. SweepTypes'
  <2>1. Nowhere \in [Docs -> Nat] /\ \A d \in Docs : Nowhere[d] <= newest[d]
    BY DEF Nowhere, DocTypes
  <2> QED BY <1>s, <2>1, NoSweepTyped DEF SweepTypes
<1>3. \A d \in Docs \ strays : RowAgrees(d)' \/ (docs'[d] # 0 /\ seen'[d] # docs'[d])
  <2> SUFFICES ASSUME NEW d \in Docs \ strays
               PROVE  RowAgrees(d)' \/ (docs'[d] # 0 /\ seen'[d] # docs'[d])
    OBVIOUS
  <2>1. rowText'[d] = IF docs[d] = 0 THEN NoRow ELSE rowText[d]
    BY DEF DocumentsRestart
  <2>2. CASE docs[d] = 0
    BY <2>1, <2>2, <1>s DEF RowAgrees
  <2>3. CASE docs[d] # 0 /\ seen' = Nowhere
    BY <2>3, <1>s DEF Nowhere
  <2>4. CASE docs[d] # 0 /\ seen' = seen
    <3>1. RowAgrees(d) \/ seen[d] # docs[d]
      BY <1>s, <2>4 DEF RestartWill
    <3>2. RowAgrees(d)' = RowAgrees(d)
      BY <2>1, <2>4, <1>s DEF RowAgrees
    <3> QED BY <3>1, <3>2, <2>4, <1>s
  <2>5. CASE docs[d] # 0 /\ seen' = kept /\ kept # Lost
    <3>1. RowAgrees(d) \/ kept[d] # docs[d]
      BY <1>s, <2>5 DEF FileWill, FileTells
    <3>2. RowAgrees(d)' = RowAgrees(d)
      BY <2>1, <2>5, <1>s DEF RowAgrees
    <3> QED BY <3>1, <3>2, <2>5, <1>s
  <2> QED BY <1>2, <2>2, <2>3, <2>4, <2>5
<1>4. \A a \in Sweeps : sweep'[a].stage = "idle"
  BY <1>s, NoSweepTyped
<1>5. SomebodyWill' /\ RestartWill'
  BY <1>3, <1>4, <1>s DEF SomebodyWill, RestartWill, WatcherWill, Sweeps
<1>6. ReindexAlone'
  BY <1>4 DEF ReindexAlone, Sweeps
<1>7. FileWill'
  BY <1>2, <1>3, <1>s DEF FileWill, FileTells
<1> QED BY <1>t, <1>w, <1>5, <1>6, <1>7

LEMMA DocStep ==
  ASSUME DocInv, trouble' = trouble, [DocumentsNext]_vars_documents
  PROVE  DocInv'
<1>1. CASE DocumentsNext
  BY <1>1, FilesKeep, StartSweepKeeps, PruneKeeps, SweepReadsKeeps, SweepWritesKeeps,
     EndSweepKeeps, RestartKeeps DEF DocumentsNext, Sweeps
<1>2. CASE UNCHANGED vars_documents
  BY <1>2 DEF DocInv, DocTypes, SweepTypes, SomebodyWill, RestartWill, FileWill, FileTells, ReindexAlone, RowAgrees,
     WatcherWill, TaskWill, vars_documents
<1> QED BY <1>1, <1>2

LEMMA DocInvImplies == DocInv => TextCaughtUp
<1> SUFFICES ASSUME DocInv, sweep["watch"].stage = "idle", seen = docs, NEW d \in Docs \ strays,
                    task[d].stage = "none"
             PROVE  RowAgrees(d)
  BY DEF TextCaughtUp, RowAgrees
<1> QED BY DEF DocInv, SomebodyWill, WatcherWill, TaskWill

------------------------------------------------------------------------------
\* Duplicates. What a list says of the library was true of one moment of it: the copies of a
\* set are alike, there are two, and no file is in two of them. A clean-up takes them one by
\* one and leaves the first of every set, the one no other comes before.

AsBytes == [c \in DOMAIN LookOf |-> c]
AsLooks == [c \in DOMAIN LookOf |-> Phash(c)]

AreGroups(list, key) ==
    /\ \A s \in list : /\ Several(s)
                       /\ \A c \in s : c.path \in Places /\ c.content \in DOMAIN LookOf
                       /\ \A c, d \in s : key[c.content] = key[d.content]
    /\ \A s, t \in list : \A c \in s, d \in t : c.path = d.path => s = t /\ c = d

CleanUp ==
    /\ AreGroups(press.sets, AsBytes)
    /\ \A c \in press.todo : \E s \in press.sets : c \in Extras(s)
    /\ \A p \in press.done : \E s \in press.sets : \E c \in Extras(s) : c.path = p
    /\ \A c \in press.todo : c.path \notin press.done

DuplicatesInv ==
    /\ scan = [stage |-> scan.stage, quiet |-> scan.quiet, exact |-> scan.exact, similar |-> scan.similar]
    /\ press = [kind |-> press.kind, sets |-> press.sets, todo |-> press.todo, done |-> press.done,
                at |-> press.at]
    /\ held \in [Places -> {Gone} \cup DOMAIN LookOf]
    /\ AreGroups(exact, AsBytes) /\ AreGroups(similar, AsLooks)
    /\ AreGroups(scan.exact, AsBytes) /\ AreGroups(scan.similar, AsLooks)
    /\ press.kind = "clean" => CleanUp

LEMMA KeysOfContents == \A x \in DOMAIN LookOf : AsBytes[x] = x /\ AsLooks[x] = Phash(x) /\ x # Gone
BY DuplicatesAssumption DEF AsBytes, AsLooks

LEMMA GroupsInPart ==
  ASSUME NEW list, NEW key, AreGroups(list, key), NEW few \in SUBSET list
  PROVE  AreGroups(few, key)
BY DEF AreGroups

LEMMA NoGroups == ASSUME NEW key PROVE AreGroups({}, key)
BY DEF AreGroups

\* A set that loses one copy and is still one.
LEMMA GroupsWithout ==
  ASSUME NEW list, NEW key, AreGroups(list, key), NEW p
  PROVE  AreGroups({s \in {WithoutCopy(t, p) : t \in list} : Several(s)}, key)
<1> DEFINE rest == {s \in {WithoutCopy(t, p) : t \in list} : Several(s)}
<1>1. \A s \in rest : \E t \in list : s = WithoutCopy(t, p)
  OBVIOUS
<1>2. \A t \in list : WithoutCopy(t, p) \subseteq t
  BY DEF WithoutCopy
<1>3. ASSUME NEW s \in rest
      PROVE  /\ Several(s)
             /\ \A c \in s : c.path \in Places /\ c.content \in DOMAIN LookOf
             /\ \A c, d \in s : key[c.content] = key[d.content]
  BY <1>1, <1>2 DEF AreGroups
<1>4. ASSUME NEW s \in rest, NEW t \in rest, NEW c \in s, NEW d \in t, c.path = d.path
      PROVE  s = t /\ c = d
  BY <1>1, <1>2, <1>4 DEF AreGroups
<1> QED BY <1>3, <1>4 DEF AreGroups

\* What a scan finds.
LEMMA ScanGroups ==
  ASSUME held \in [Places -> {Gone} \cup DOMAIN LookOf], NEW key, DOMAIN key = DOMAIN LookOf
  PROVE  AreGroups(GroupsBy(key), key)
<1> DEFINE Alike(k) == {Copy(p) : p \in {q \in Places : held[q] # Gone /\ key[held[q]] = k}}
<1>1. \A s \in GroupsBy(key) : Several(s) /\ \E k : s = Alike(k)
  BY DEF GroupsBy
<1>2. \A k : \A c \in Alike(k) : /\ c.path \in Places /\ held[c.path] \in DOMAIN LookOf
                                 /\ c.content = held[c.path] /\ key[held[c.path]] = k
                                 /\ c = Copy(c.path)
  BY DEF Copy
<1> HIDE DEF Alike
<1> QED BY <1>1, <1>2 DEF AreGroups

\* Of copies that are alike, one comes before the others.
LEMMA FirstCopy ==
  ASSUME NEW s, s # {}, \A c \in s : c.path \in Places /\ c.content \in DOMAIN LookOf,
         \A c, d \in s : c.content = d.content
  PROVE  \E m \in s : m \notin Extras(s)
<1>1. \A c \in s : c.path \in Nat /\ c.content \in Nat
  BY DuplicatesAssumption
<1> DEFINE paths == {c.path : c \in s}
<1>2. paths \subseteq Nat /\ paths # {}
  BY <1>1
<1> DEFINE R == OpToRel(<, Nat)
<1>r. IsWellFoundedOn(R, Nat)
  BY NatLessThanWellFounded
<1>n. PICK n \in paths : \A k \in paths : ~(<<k, n>> \in R)
  <2> HIDE DEF R, paths
  <2> QED BY <1>2, <1>r, WFMin
<1>3. \A k \in paths : ~(k < n)
  BY <1>2, <1>n DEF OpToRel
<1> HIDE DEF R
<1>4. PICK m \in s : m.path = n
  OBVIOUS
<1>5. \A d \in s : ~Before(d, m)
  BY <1>1, <1>3, <1>4 DEF Before
<1> QED BY <1>5 DEF Extras

LEMMA DuplicatesInitInv == DuplicatesInit => DuplicatesInv
<1> SUFFICES ASSUME DuplicatesInit PROVE DuplicatesInv
  OBVIOUS
<1>1. held \in [Places -> {Gone} \cup DOMAIN LookOf]
  BY DuplicatesAssumption DEF DuplicatesInit, Places
<1> QED BY <1>1, NoGroups DEF DuplicatesInit, DuplicatesInv, NoScan, NoPress

\* One copy of the clean-up.
LEMMA CleanNextKeeps ==
  ASSUME DuplicatesInv, CleanNext
  PROVE  CleanUp' /\ press' = [kind |-> press'.kind, sets |-> press'.sets, todo |-> press'.todo,
                                 done |-> press'.done, at |-> press'.at]
<1>1. PICK c \in press.todo : press' = [press EXCEPT !.todo = @ \ {c}, !.done = @ \cup {c.path}]
  BY DEF CleanNext
<1>2. CleanUp /\ press.kind = "clean"
  BY DEF DuplicatesInv, CleanNext
<1>3. press' = [kind |-> press.kind, sets |-> press.sets, todo |-> press.todo \ {c},
                done |-> press.done \cup {c.path}, at |-> press.at]
  BY <1>1 DEF DuplicatesInv
<1>4. \A d \in press.todo \ {c} : d.path # c.path
  BY <1>2 DEF CleanUp, Extras, AreGroups
<1>5. CleanUp'
  BY <1>2, <1>3, <1>4 DEF CleanUp
<1> QED BY <1>3, <1>5

LEMMA DuplicatesStep == DuplicatesInv /\ [DuplicatesNext]_vars_duplicates => DuplicatesInv'
<1> SUFFICES ASSUME DuplicatesInv, [DuplicatesNext]_vars_duplicates PROVE DuplicatesInv'
  OBVIOUS
<1> USE DEF DuplicatesInv
<1>1. CASE UNCHANGED vars_duplicates
  <2>1. CleanUp' = CleanUp
    BY <1>1 DEF vars_duplicates, CleanUp
  <2> QED BY <1>1, <2>1 DEF vars_duplicates
<1>2. ASSUME NEW p \in Places, NEW by, Bin(p, by)
      PROVE  held' \in [Places -> {Gone} \cup DOMAIN LookOf]
  BY <1>2 DEF Bin
<1>3. ASSUME press' = press PROVE press'.kind = "clean" => CleanUp'
  BY <1>3 DEF CleanUp
<1>4. CASE StartScan
  <2>1. scan' = [stage |-> "exact", quiet |-> quiet, exact |-> {}, similar |-> {}]
    BY <1>4 DEF StartScan, NoScan
  <2> QED BY <1>3, <1>4, <2>1, NoGroups DEF StartScan
<1>5. CASE HashAll
  <2>1. PICK few \in SUBSET GroupsBy(AsBytes) :
           scan' = [stage |-> "similar", quiet |-> scan.quiet, exact |-> few, similar |-> scan.similar]
    BY <1>5 DEF HashAll, AsBytes
  <2>2. AreGroups(few, AsBytes)
    BY ScanGroups, GroupsInPart DEF AsBytes
  <2>3. AreGroups(scan'.exact, AsBytes) /\ AreGroups(scan'.similar, AsLooks)
    BY <2>1, <2>2
  <2> QED BY <1>3, <1>5, <2>1, <2>3 DEF HashAll
<1>6. CASE CompareAll
  <2>1. PICK few \in SUBSET GroupsBy(AsLooks) :
           scan' = [stage |-> "save", quiet |-> scan.quiet, exact |-> scan.exact, similar |-> few]
    BY <1>6 DEF CompareAll, AsLooks
  <2>2. AreGroups(few, AsLooks)
    BY ScanGroups, GroupsInPart DEF AsLooks
  <2>3. AreGroups(scan'.exact, AsBytes) /\ AreGroups(scan'.similar, AsLooks)
    BY <2>1, <2>2
  <2> QED BY <1>3, <1>6, <2>1, <2>3 DEF CompareAll
<1>7. CASE SaveScan
  BY <1>3, <1>7, NoGroups DEF SaveScan, NoScan
<1>8. CASE PruneExact
  <2>1. PICK c \in press.todo : exact' = {s \in {WithoutCopy(t, c.path) : t \in exact} : Several(s)}
    BY <1>8 DEF PruneExact
  <2>2. AreGroups(exact', AsBytes)
    BY <2>1, GroupsWithout
  <2> QED BY <1>8, <2>2 DEF PruneExact, NoPress
<1>9. CASE CleanAll
  <2>1. press' = [kind |-> "clean", sets |-> exact, todo |-> UNION {Extras(s) : s \in exact},
                  done |-> {}, at |-> 0]
    BY <1>9 DEF CleanAll, NoPress
  <2>2. CleanUp'
    BY <2>1 DEF CleanUp
  <2> QED BY <1>9, <2>1, <2>2 DEF CleanAll
<1>10. CASE CleanNext
  <2>1. CleanUp' /\ press' = [kind |-> press'.kind, sets |-> press'.sets, todo |-> press'.todo,
                              done |-> press'.done, at |-> press'.at]
    BY <1>10, CleanNextKeeps
  <2>2. held' \in [Places -> {Gone} \cup DOMAIN LookOf]
    <3>1. PICK c \in press.todo : \/ held' = held
                                  \/ Bin(c.path, "exact")
      BY <1>10 DEF CleanNext
    <3>2. c.path \in Places
      BY <1>10 DEF CleanNext, CleanUp, Extras, AreGroups
    <3> QED BY <1>2, <3>1, <3>2
  <2> QED BY <1>10, <2>1, <2>2 DEF CleanNext
<1>11. CASE CleanEnds
  BY <1>11, NoGroups DEF CleanEnds, NoPress
<1>12. CASE PruneSimilar
  <2>1. similar' \in SUBSET similar
    BY <1>12 DEF PruneSimilar
  <2>2. AreGroups(similar', AsLooks)
    BY <2>1, GroupsInPart
  <2> QED BY <1>12, <2>2 DEF PruneSimilar, NoPress
<1>13. CASE DuplicatesCrash
  BY <1>13, NoGroups DEF DuplicatesCrash, NoPress, NoScan
<1>14. ASSUME NEW s \in exact, KeepAll(s) PROVE DuplicatesInv'
  <2>1. exact' \in SUBSET exact
    BY <1>14 DEF KeepAll
  <2>2. AreGroups(exact', AsBytes)
    BY <2>1, GroupsInPart
  <2> QED BY <1>3, <1>14, <2>2 DEF KeepAll
<1>15. ASSUME NEW s \in exact, NEW c \in s, DeleteCopy(c) PROVE DuplicatesInv'
  <2>1. c.path \in Places
    BY DEF AreGroups
  <2> QED BY <1>2, <1>15, <2>1 DEF DeleteCopy, NoPress
<1>16. ASSUME NEW s \in similar, KeepBoth(s) PROVE DuplicatesInv'
  <2>1. similar' \in SUBSET similar
    BY <1>16 DEF KeepBoth
  <2>2. AreGroups(similar', AsLooks)
    BY <2>1, GroupsInPart
  <2> QED BY <1>3, <1>16, <2>2 DEF KeepBoth
<1>17. ASSUME NEW s \in similar, NEW large \in BOOLEAN, DeleteSimilar(s, large) PROVE DuplicatesInv'
  <2>1. PICK c \in Picked(s, large) : held' = held \/ Bin(c.path, "similar")
    BY <1>17 DEF DeleteSimilar
  <2>2. c.path \in Places
    BY DEF Picked, AreGroups
  <2>3. held' \in [Places -> {Gone} \cup DOMAIN LookOf]
    BY <1>2, <2>1, <2>2
  <2> QED BY <1>17, <2>3 DEF DeleteSimilar, NoPress
<1>18. ASSUME NEW p \in Places, NEW content \in {Gone} \cup DOMAIN LookOf, TouchFile(p, content)
       PROVE  DuplicatesInv'
  BY <1>3, <1>18 DEF TouchFile
<1> HIDE DEF DuplicatesInv
<1> QED BY <1>1, <1>4, <1>5, <1>6, <1>7, <1>8, <1>9, <1>10, <1>11, <1>12, <1>13, <1>14, <1>15,
           <1>16, <1>17, <1>18 DEF DuplicatesNext

\* What a step moves to the trash has another of its kind that stays.
KeepsOne ==
    \A b \in binned' \ binned :
        \/ \E q \in Places :
              /\ held'[q] # Gone
              /\ IF b.by = "similar" THEN Phash(held'[q]) = Phash(b.content)
                 ELSE held'[q] = b.content
        \/ \E s \in Lists : OutOfDate(s) /\ \E c \in s : c.path = b.path

LEMMA StaysBehind ==
  ASSUME DuplicatesInv, NEW p \in Places, NEW by, Bin(p, by),
         NEW q \in Places, q # p, held[q] # Gone,
         IF by = "similar" THEN Phash(held[q]) = Phash(held[p]) ELSE held[q] = held[p]
  PROVE  KeepsOne
<1>1. held'[q] = held[q]
  BY DEF Bin, DuplicatesInv
<1>2. \A b \in binned' \ binned : b.by = by /\ b.content = held[p]
  BY DEF Bin
<1> QED BY <1>1, <1>2 DEF KeepsOne

LEMMA TheListWasOld ==
  ASSUME NEW p, NEW by, Bin(p, by), NEW s \in Lists, OutOfDate(s), NEW c \in s, c.path = p
  PROVE  KeepsOne
<1>1. \A b \in binned' \ binned : b.path = p
  BY DEF Bin
<1> QED BY <1>1 DEF KeepsOne

LEMMA KeepsOneStep ==
  ASSUME DuplicatesInv, [DuplicatesNext]_vars_duplicates
  PROVE  [KeepsOne]_vars_duplicates
<1>1. ASSUME binned' = binned PROVE KeepsOne
  BY <1>1 DEF KeepsOne
<1>2. ASSUME NEW s \in exact, NEW c \in s, DeleteCopy(c) PROVE KeepsOne
  <2>1. Bin(c.path, "exact") /\ press.done = {}
    BY <1>2 DEF DeleteCopy, Free, NoPress
  <2>2. CASE OutOfDate(s)
    BY <2>1, <2>2, TheListWasOld DEF Lists
  <2>3. CASE ~OutOfDate(s)
    <3>1. \A e \in s : held[e.path] = e.content
      BY <2>1, <2>3 DEF OutOfDate
    <3>2. PICK d \in s : d # c
      BY DEF DuplicatesInv, AreGroups, Several
    <3>3. /\ c.path \in Places /\ d.path \in Places /\ d.path # c.path
          /\ d.content \in DOMAIN LookOf /\ d.content = c.content
      BY <3>2, KeysOfContents DEF DuplicatesInv, AreGroups
    <3> QED BY <2>1, <3>1, <3>3, StaysBehind, KeysOfContents
  <2> QED BY <2>2, <2>3
<1>3. ASSUME NEW s \in similar, NEW large \in BOOLEAN, DeleteSimilar(s, large) PROVE KeepsOne
  <2>1. PICK c \in Picked(s, large) : binned' = binned \/ Bin(c.path, "similar")
    BY <1>3 DEF DeleteSimilar
  <2>2. press.done = {} /\ c \in s
    BY <1>3 DEF DeleteSimilar, Free, NoPress, Picked
  <2>3. CASE binned' = binned
    BY <1>1, <2>3
  <2>4. CASE Bin(c.path, "similar") /\ OutOfDate(s)
    BY <2>2, <2>4, TheListWasOld DEF Lists
  <2>5. CASE Bin(c.path, "similar") /\ ~OutOfDate(s)
    <3>1. \A e \in s : held[e.path] = e.content
      BY <2>2, <2>5 DEF OutOfDate
    <3>2. PICK d \in s : d # c
      BY DEF DuplicatesInv, AreGroups, Several
    <3>3. /\ c.path \in Places /\ d.path \in Places /\ d.path # c.path
          /\ d.content \in DOMAIN LookOf /\ Phash(d.content) = Phash(c.content)
      BY <2>2, <3>2, KeysOfContents DEF DuplicatesInv, AreGroups
    <3> QED BY <2>2, <2>5, <3>1, <3>3, StaysBehind, KeysOfContents
  <2> QED BY <2>1, <2>3, <2>4, <2>5
<1>4. ASSUME CleanNext PROVE KeepsOne
  <2>1. PICK c \in press.todo : binned' = binned \/ Bin(c.path, "exact")
    BY <1>4 DEF CleanNext
  <2>2. CleanUp
    BY <1>4 DEF DuplicatesInv, CleanNext
  <2>3. PICK s \in press.sets : c \in Extras(s)
    BY <2>2 DEF CleanUp
  <2>4. c \in s /\ c.path \notin press.done
    BY <2>2, <2>3 DEF Extras, CleanUp
  <2>5. CASE binned' = binned
    BY <1>1, <2>5
  <2>6. CASE Bin(c.path, "exact") /\ OutOfDate(s)
    BY <2>4, <2>6, TheListWasOld DEF Lists
  <2>7. CASE Bin(c.path, "exact") /\ ~OutOfDate(s)
    <3>0. /\ \A e \in s : e.path \in Places /\ e.content \in DOMAIN LookOf
          /\ \A d, e \in s : d.content = e.content
      BY <2>2, KeysOfContents DEF CleanUp, AreGroups
    <3>1. PICK m \in s : m \notin Extras(s)
      BY <2>4, <3>0, FirstCopy
    <3>2. m.path \notin press.done
      BY <2>2, <3>1 DEF CleanUp, AreGroups, Extras
    <3>3. held[m.path] = m.content /\ held[c.path] = c.content
      BY <2>4, <2>7, <3>1, <3>2 DEF OutOfDate
    <3>4. /\ c.path \in Places /\ m.path \in Places /\ m.path # c.path
          /\ m.content \in DOMAIN LookOf /\ m.content = c.content
      BY <2>2, <2>3, <2>4, <3>0, <3>1 DEF CleanUp, AreGroups
    <3> QED BY <2>7, <3>3, <3>4, StaysBehind, KeysOfContents
  <2> QED BY <2>1, <2>5, <2>6, <2>7
<1>5. CASE UNCHANGED vars_duplicates
  BY <1>5
<1>6. CASE StartScan \/ HashAll \/ CompareAll \/ SaveScan \/ PruneExact \/ CleanAll \/ CleanEnds
           \/ PruneSimilar \/ DuplicatesCrash
  BY <1>1, <1>6 DEF StartScan, HashAll, CompareAll, SaveScan, PruneExact, CleanAll, CleanEnds,
                    PruneSimilar, DuplicatesCrash
<1>7. ASSUME NEW s, KeepAll(s) \/ KeepBoth(s) PROVE KeepsOne
  BY <1>1, <1>7 DEF KeepAll, KeepBoth
<1>8. ASSUME NEW p, NEW content, TouchFile(p, content) PROVE KeepsOne
  BY <1>1, <1>8 DEF TouchFile
<1> QED BY <1>2, <1>3, <1>4, <1>5, <1>6, <1>7, <1>8 DEF DuplicatesNext

------------------------------------------------------------------------------
\* A step of the household is one of the part, or none of it.
LEMMA HouseholdStep ==
  ASSUME [Next]_vars
  PROVE  /\ trouble' = trouble
         /\ [AccountsNext]_vars_accounts
         /\ [BackupNext]_vars_backup
         /\ [DocumentsNext]_vars_documents
         /\ [DuplicatesNext]_vars_duplicates
         /\ [ChatsNext]_vars_chats
         /\ [UploadsNext]_vars_uploads
         /\ [RecentNext]_vars_recent
         /\ [PositionsNext]_vars_positions
BY DEF Next, vars, NextAccounts, NextBackup, NextDocuments, NextDuplicates, NextChats, NextUploads,
       NextRecent, NextPositions

\* The board keeps its owners through any order of creation, removal, role changes, uploads,
\* failed writes, lost lists and crashes, for any number of profiles, requests and mishaps:
\* auth_routes.py:340-449, family_routes.py:69-205, store.py:131-297.
THEOREM OwnersAreKept == Spec => []OwnersHold
<1>1. Init => AccountsInv
  BY AccountsInitInv DEF Init
<1>2. AccountsInv /\ [Next]_vars => AccountsInv'
  BY HouseholdStep, AccountsStep
<1>3. AccountsInv => OwnersHold
  BY AccountsInvImplies
<1> QED BY <1>1, <1>2, <1>3, PTL DEF Spec

\* A PIN that was changed counts from its answer on, over any number of logins, re-hashes and
\* changes at once: auth_routes.py:157-177, 486-603.
THEOREM ChangedPinCounts == Spec => []SessionsHold
<1>1. Init => AccountsInv
  BY AccountsInitInv DEF Init
<1>2. AccountsInv /\ [Next]_vars => AccountsInv'
  BY HouseholdStep, AccountsStep
<1>3. AccountsInv => SessionsHold
  BY AccountsInvImplies
<1> QED BY <1>1, <1>2, <1>3, PTL DEF Spec

\* The list of profiles and what is kept beside it have their types, in the file and in the
\* cache (store.py:205-299).
THEOREM AccountsTyped == Spec => [](AccountTypes /\ CallTypes)
<1>1. Init => AccountsInv
  BY AccountsInitInv DEF Init
<1>2. AccountsInv /\ [Next]_vars => AccountsInv'
  BY HouseholdStep, AccountsStep
<1>3. AccountsInv => AccountTypes /\ CallTypes
  BY DEF AccountsInv
<1> QED BY <1>1, <1>2, <1>3, PTL DEF Spec

\* A chat with an admin's rights has them from an admin and has not been unlinked since:
\* auth_handlers.py and bot_core.py, with the changes of the family in family_routes.py.
THEOREM BotAdmins == Spec => []AdminsOfBot
<1>1. Init => ChatsInv
  BY ChatsInitInv DEF Init
<1>2. ChatsInv /\ [Next]_vars => ChatsInv'
  BY HouseholdStep, ChatsStep
<1>3. ChatsInv => AdminsOfBot
  BY ChatsInvImplies
<1> QED BY <1>1, <1>2, <1>3, PTL DEF Spec

\* A file that a chat is asked about is still at its place, so that /keep keeps what was
\* sent and /skip removes nothing else: upload_handlers.py and bot_core.py:483-640.
THEOREM QuestionsAreAboutFiles == Spec => []AskedIsThere
<1>1. Init => UploadsInv
  BY UploadsInitInv DEF Init
<1>2. UploadsInv /\ [Next]_vars => UploadsInv'
  BY HouseholdStep, UploadsStep
<1>3. UploadsInv => AskedIsThere
  BY DEF UploadsInv
<1> QED BY <1>1, <1>2, <1>3, PTL DEF Spec

\* The file that a press on a /recent button removes was that chat's own, and the one the button
\* was shown for as long as the list was not changed since: upload_handlers.py:340-560.
THEOREM OwnFilesRemoved == Spec => []RecentDeletes
<1>1. Init => RecentInv
  BY RecentInitInv DEF Init
<1>2. RecentInv /\ [Next]_vars => RecentInv'
  BY HouseholdStep, RecentStep
<1>3. RecentInv => RecentDeletes
  BY DEF RecentInv
<1> QED BY <1>1, <1>2, <1>3, PTL DEF Spec

\* Where a member got to in a film is the newest that was reported of it, for any number of
\* members, films and reports: media_index.py:926-1000.
THEOREM PositionsStand == Spec => []PositionsHold
<1>1. Init => PositionsInv
  BY PositionsInitInv DEF Init
<1>2. PositionsInv /\ [Next]_vars => PositionsInv'
  BY HouseholdStep, PositionsStep
<1>3. PositionsInv => PositionsHold
  BY PositionsInvImplies
<1> QED BY <1>1, <1>2, <1>3, PTL DEF Spec

\* What the admin was told is backed up is on the drive, for any number of folders, versions,
\* seconds and runs: local_backup.py:213-316, local_backup_routes.py:177-240.
THEOREM BackedUp == Spec => []BackupStands
<1>1. Init => BackupInv
  BY BackupInitInv DEF Init
<1>2. BackupInv /\ [Next]_vars => BackupInv'
  BY HouseholdStep, BackupStep
<1>3. BackupInv => BackupStands
  BY DEF BackupInv, BackupStands
<1> QED BY <1>1, <1>2, <1>3, PTL DEF Spec

\* Between passes the text of every document is caught up, for any number of documents and
\* versions and any order of uploads, removals, re-scans and restarts: index_watcher.py:109-228,
\* document_index.py:286-477.
THEOREM TextIsCaughtUp == Spec => []TextCaughtUp
<1>1. Init => DocInv
  BY DocInitInv DEF Init
<1>2. DocInv /\ [Next]_vars => DocInv'
  BY HouseholdStep, DocStep
<1>3. DocInv => TextCaughtUp
  BY DocInvImplies
<1> QED BY <1>1, <1>2, <1>3, PTL DEF Spec

\* What the review of duplicates moves to the trash is in the library a second time, for any
\* number of files and copies and any order of scans, presses, changes and crashes:
\* telegram/search_handlers.py:672-1139, duplicate_scanner.py.
THEOREM OneIsKept == Spec => ReviewKeepsOne
<1>1. Init => DuplicatesInv
  BY DuplicatesInitInv DEF Init
<1>2. DuplicatesInv /\ [Next]_vars => DuplicatesInv'
  BY HouseholdStep, DuplicatesStep
<1>3. DuplicatesInv /\ [Next]_vars => [KeepsOne]_vars_duplicates
  BY HouseholdStep, KeepsOneStep
<1> QED BY <1>1, <1>2, <1>3, PTL DEF Spec, ReviewKeepsOne, KeepsOne
=============================================================================
