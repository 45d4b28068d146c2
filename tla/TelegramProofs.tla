----------------------------- MODULE TelegramProofs -----------------------------
(***************************************************************************)
(* Proofs about TelegramChats, TelegramUploads and TelegramRecent, for     *)
(* every set of chats, names and files and any number of changes of the    *)
(* family.                                                                 *)
(***************************************************************************)
EXTENDS TelegramChats, TelegramUploads, TelegramRecent, TLAPS, FiniteSetTheorems, WellFoundedInduction

------------------------------------------------------------------------------
\* Who may use the bot. What makes AdminsOfBot inductive is that a chat bound to any name,
\* an admin's or not, is linked: the name may become an admin's.

BoundIsLinked == \A c \in Chats : bound[c] # Unbound => c \in linked \cup halfdone

ChatsTypeOK ==
    /\ family \in [MemberNames -> [id : Int, admin : BOOLEAN]]
    /\ bound \in [Chats -> MemberNames \cup {Unbound}]
    /\ asking \in [Chats -> MemberNames \cup {Unbound}]
    /\ familyChanges \in Nat

ChatsInv == ChatsTypeOK /\ AdminsByGrant /\ BoundIsLinked

\* Nobody is bound, and nobody asks, at the start.
LEMMA ChatsInitInv == ChatsInit => ChatsInv
  BY TelegramChatsAssumption
  DEF ChatsInit, ChatsInv, ChatsTypeOK, AdminsByGrant, BoundIsLinked, IsAdminChat, Known, Absentee

\* A chat resolves to what it is bound to, or to a member that is no admin.
LEMMA ResolvedIsBoundOrMember ==
  ASSUME ChatsTypeOK, NEW c \in Chats, NEW hint \in MemberNames \cup {Unbound}
  PROVE  /\ Resolved(c, hint) \in MemberNames \cup {Unbound}
         /\ bound[c] # Unbound => Resolved(c, hint) = bound[c]
         /\ bound[c] = Unbound /\ Resolved(c, hint) # Unbound => ~family[Resolved(c, hint)].admin
  BY DEF Resolved, ChatsTypeOK, Known

\* An approval, in the chat or in the app, makes nobody an admin whom no admin named.
LEMMA ApprovalInv ==
  ASSUME ChatsInv, NEW by \in Chats, NEW c \in Chats, NEW n \in MemberNames \cup {Unbound},
         Approve(by, c) \/ ApproveInApp(c, n)
  PROVE  ChatsInv'
<1> DEFINE hint == asking[c]
<1>1. hint \in MemberNames \cup {Unbound}
  BY DEF ChatsInv, ChatsTypeOK
<1>2. CASE Approve(by, c)
  <2> PICK steps \in CutShort(3) :
          /\ linked' = Upto(steps, 1, linked \cup {c}, linked)
          /\ bound' = Upto(steps, 2, Bind(c, Resolved(c, asking[c])), bound)
          /\ asking' = Upto(steps, 3, [asking EXCEPT ![c] = Unbound], asking)
    BY <1>2 DEF Approve
  <2>0. steps \in Int
    BY DEF CutShort
  <2>1. ChatsTypeOK'
    BY <1>1, <1>2, ResolvedIsBoundOrMember DEF Approve, Upto, Bind, ChatsInv, ChatsTypeOK
  <2>2. AdminsByGrant'
    BY <1>1, <1>2, ResolvedIsBoundOrMember
    DEF Approve, Upto, Bind, ChatsInv, ChatsTypeOK, AdminsByGrant, IsAdminChat, Known
  <2>3. BoundIsLinked'
    BY <2>0, <1>1, <1>2, ResolvedIsBoundOrMember
    DEF Approve, Upto, Bind, ChatsInv, ChatsTypeOK, BoundIsLinked
  <2> QED BY <2>1, <2>2, <2>3 DEF ChatsInv
<1>3. CASE ApproveInApp(c, n)
  <2> DEFINE name == IF n # Unbound THEN n ELSE Resolved(c, asking[c])
  <2> PICK steps \in CutShort(3) :
          /\ linked' = Upto(steps, 1, linked \cup {c}, linked)
          /\ bound' = Upto(steps, 2, Bind(c, name), bound)
          /\ asking' = Upto(steps, 3, [asking EXCEPT ![c] = Unbound], asking)
          /\ granted' = IF steps >= 2 /\ n # Unbound THEN granted \cup {c} ELSE granted
          /\ reused' = IF steps >= 2 /\ n # Unbound THEN reused \ {c} ELSE reused
    BY <1>3 DEF ApproveInApp
  <2>0. steps \in Int /\ name \in MemberNames \cup {Unbound}
    BY <1>1, ResolvedIsBoundOrMember DEF CutShort, ChatsInv
  <2>1. ChatsTypeOK'
    BY <2>0, <1>3 DEF ApproveInApp, Upto, Bind, ChatsInv, ChatsTypeOK
  <2>2. AdminsByGrant'
    BY <2>0, <1>1, <1>3, ResolvedIsBoundOrMember
    DEF ApproveInApp, Upto, Bind, ChatsInv, ChatsTypeOK, AdminsByGrant, IsAdminChat, Known
  <2>3. BoundIsLinked'
    BY <2>0, <1>3 DEF ApproveInApp, Upto, Bind, ChatsInv, ChatsTypeOK, BoundIsLinked
  <2> QED BY <2>1, <2>2, <2>3 DEF ChatsInv
<1> QED BY <1>2, <1>3

\* Asking, refusing, binding anew and unlinking.
LEMMA ChatInv ==
  ASSUME ChatsInv, NEW c \in Chats, NEW n \in MemberNames,
         AskIn(c, n) \/ Deny(c) \/ Rebind(c, n) \/ Unlink(c)
  PROVE  ChatsInv'
<1>1. CASE AskIn(c, n)
  BY <1>1 DEF AskIn, ChatsInv, ChatsTypeOK, AdminsByGrant, BoundIsLinked, IsAdminChat, Known
<1>2. CASE Deny(c)
  BY <1>2 DEF Deny, ChatsInv, ChatsTypeOK, AdminsByGrant, BoundIsLinked, IsAdminChat, Known
<1>3. CASE Rebind(c, n)
  <2>1. ChatsTypeOK' /\ BoundIsLinked'
    BY <1>3 DEF Rebind, ChatsInv, ChatsTypeOK, BoundIsLinked
  <2>2. AdminsByGrant'
    BY <1>3
    DEF Rebind, MayRebind, ChatsInv, ChatsTypeOK, AdminsByGrant, IsAdminChat, Known
  <2> QED BY <2>1, <2>2 DEF ChatsInv
<1>4. CASE Unlink(c)
  <2> PICK steps \in CutShort(2) :
          /\ linked' = Upto(steps, 1, linked \ {c}, linked)
          /\ bound' = Upto(steps, 2, Unbind(c), bound)
          /\ halfdone' = Upto(steps, 2, halfdone \ {c}, Upto(steps, 1, halfdone \cup {c}, halfdone))
          /\ granted' = Upto(steps, 2, granted \ {c}, granted)
    BY <1>4 DEF Unlink
  <2>0. steps \in Int
    BY DEF CutShort
  <2>1. ChatsTypeOK'
    BY <1>4 DEF Unlink, Upto, Unbind, ChatsInv, ChatsTypeOK
  <2>2. AdminsByGrant'
    BY <1>4
    DEF Unlink, Upto, Unbind, ChatsInv, ChatsTypeOK, AdminsByGrant, IsAdminChat, Known
  <2>3. BoundIsLinked'
    BY <2>0, <1>4 DEF Unlink, Upto, Unbind, ChatsInv, ChatsTypeOK, BoundIsLinked
  <2> QED BY <2>1, <2>2, <2>3 DEF ChatsInv
<1> QED BY <1>1, <1>2, <1>3, <1>4

\* What happens to the family.
LEMMA FamilyInv ==
  ASSUME ChatsInv, NEW n \in MemberNames, NEW new \in MemberNames,
         AddMember(n) \/ RemoveMember(n) \/ RenameMember(n, new) \/ MakeAdmin(n)
  PROVE  ChatsInv'
<1>0. Absentee \in [id : Int, admin : BOOLEAN]
  BY DEF Absentee
<1>1. BoundIsLinked'
  BY DEF AddMember, RemoveMember, RenameMember, MakeAdmin, ChatsInv, BoundIsLinked
<1>2. CASE AddMember(n)
  <2>1. [id |-> 2 + familyChanges, admin |-> FALSE] \in [id : Int, admin : BOOLEAN]
    BY DEF ChatsInv, ChatsTypeOK
  <2>2. ChatsTypeOK'
    BY <1>2, <2>1, TelegramChatsAssumption DEF AddMember, ChatsInv, ChatsTypeOK
  <2>3. AdminsByGrant'
    BY <1>2 DEF AddMember, ChatsInv, ChatsTypeOK, AdminsByGrant, IsAdminChat, Known, ChatsOf
  <2> QED BY <1>1, <2>2, <2>3 DEF ChatsInv
<1>3. CASE RemoveMember(n)
  <2>1. ChatsTypeOK'
    BY <1>0, <1>3 DEF RemoveMember, Change, ChatsInv, ChatsTypeOK
  <2>2. AdminsByGrant'
    BY <1>3
    DEF RemoveMember, Change, ChatsInv, ChatsTypeOK, AdminsByGrant, IsAdminChat, Known, Absentee
  <2> QED BY <1>1, <2>1, <2>2 DEF ChatsInv
<1>4. CASE RenameMember(n, new)
  <2> DEFINE Member == [id : Int, admin : BOOLEAN]
  <2>0. Absentee \in Member /\ family[n] \in Member /\ family \in [MemberNames -> Member]
    BY <1>0 DEF ChatsInv, ChatsTypeOK
  <2>3. family' = [[family EXCEPT ![n] = Absentee] EXCEPT ![new] = family[n]]
    BY <1>4 DEF RenameMember
  <2>4. family' \in [MemberNames -> Member]
    <3> HIDE DEF Member
    <3> QED BY <2>0, <2>3
  <2>1. ChatsTypeOK'
    BY <2>4, <1>4 DEF RenameMember, Change, ChatsInv, ChatsTypeOK
  <2>2. AdminsByGrant'
    BY <1>4
    DEF RenameMember, Change, ChatsInv, ChatsTypeOK, AdminsByGrant, IsAdminChat, Known, Absentee, ChatsOf
  <2> QED BY <1>1, <2>1, <2>2 DEF ChatsInv
<1>5. CASE MakeAdmin(n)
  <2>0. [family[n] EXCEPT !.admin = TRUE] \in [id : Int, admin : BOOLEAN]
    BY DEF ChatsInv, ChatsTypeOK
  <2>3. family' = [family EXCEPT ![n] = [family[n] EXCEPT !.admin = TRUE]]
    BY <1>5 DEF MakeAdmin
  <2>4. familyChanges' \in Nat
    BY <1>5 DEF MakeAdmin, Change, ChatsInv, ChatsTypeOK
  <2>1. ChatsTypeOK'
    BY <2>0, <2>3, <2>4, <1>5 DEF MakeAdmin, ChatsInv, ChatsTypeOK
  <2>2. AdminsByGrant'
    BY <1>5
    DEF MakeAdmin, Change, ChatsInv, ChatsTypeOK, AdminsByGrant, IsAdminChat, Known, ChatsOf
  <2> QED BY <1>1, <2>1, <2>2 DEF ChatsInv
<1> QED BY <1>2, <1>3, <1>4, <1>5

\* Every step of the chats keeps the invariant.
LEMMA ChatsStep == ChatsInv /\ [ChatsNext]_vars_chats => ChatsInv'
<1> SUFFICES ASSUME ChatsInv, [ChatsNext]_vars_chats
             PROVE  ChatsInv'
  OBVIOUS
<1>1. CASE UNCHANGED vars_chats
  BY <1>1 DEF vars_chats, ChatsInv, ChatsTypeOK, AdminsByGrant, BoundIsLinked, IsAdminChat, Known
<1>2. ASSUME NEW c \in Chats, Deny(c) \/ Unlink(c)
      PROVE  ChatsInv'
  BY <1>2, ChatInv, TelegramChatsAssumption
<1>3. ASSUME NEW c \in Chats, NEW by \in Chats, Approve(by, c)
      PROVE  ChatsInv'
  BY <1>3, ApprovalInv
<1>4. ASSUME NEW c \in Chats, NEW n \in MemberNames, AskIn(c, n) \/ Rebind(c, n)
      PROVE  ChatsInv'
  BY <1>4, ChatInv
<1>5. ASSUME NEW c \in Chats, NEW n \in MemberNames \cup {Unbound}, ApproveInApp(c, n)
      PROVE  ChatsInv'
  BY <1>5, ApprovalInv
<1>6. ASSUME NEW n \in MemberNames, AddMember(n) \/ RemoveMember(n) \/ MakeAdmin(n)
      PROVE  ChatsInv'
  BY <1>6, FamilyInv
<1>7. ASSUME NEW n \in MemberNames, NEW new \in MemberNames, RenameMember(n, new)
      PROVE  ChatsInv'
  BY <1>7, FamilyInv
<1> QED BY <1>1, <1>2, <1>3, <1>4, <1>5, <1>6, <1>7 DEF ChatsNext

\* The invariant says who is an admin.
LEMMA ChatsInvImplies == ChatsInv => AdminsOfBot
  BY DEF ChatsInv, AdminsOfBot, AdminsByGrant, AdminsAreLinked, BoundIsLinked, IsAdminChat, Known

------------------------------------------------------------------------------
\* Files sent to the bot. A place that somebody is still asked about has nobody else waiting
\* for it, and the place of a download into an inbox is empty until the download is there.

AskedAlone ==
    \A c, d \in Senders :
        c # d /\ answering[c] # NoFile /\ ~answering[c].lost => ~AskedAbout(d, answering[c].at)

FetchingToFree ==
    fetching # NoFile =>
        /\ fetching.at.folder = fetching.folder
        /\ fetching.folder = "inbox" => temp[fetching.at] = NoFile

\* What the chats are asked about once the place of the download under way is used.
Others == IF fetching.folder = "direct" THEN Disturb(fetching.at) ELSE answering

Uploads == [chat : Senders, folder : UploadFolders, file : Sendable, at : Slots]

UploadsTypeOK ==
    /\ asked \in [Senders -> Sendable \cup {NoFile}]
    /\ answering \in [Senders -> Questions \cup {NoFile}]
    /\ temp \in [Slots -> Contents \cup {NoFile}]
    /\ fetching \in Uploads \cup {NoFile}

UploadsInv == UploadsTypeOK /\ AskedIsThere /\ AskedAlone /\ FetchingToFree

\* No chat has sent anything at the start.
LEMMA UploadsInitInv == UploadsInit => UploadsInv
  BY TelegramUploadsAssumption
  DEF UploadsInit, UploadsInv, UploadsTypeOK, AskedIsThere, AskedAlone, FetchingToFree

\* A set of numbers has a least one.
LEMMA LeastOf ==
  ASSUME NEW S \in SUBSET Nat, S # {}
  PROVE  \E n \in S : \A k \in S : n <= k
<1> DEFINE R == {p \in Nat \X Nat : p[1] < p[2]}
<1>1. IsWellFoundedOn(R, Nat)
  BY NatLessThanWellFounded DEF OpToRel
<1>2. PICK n \in S : \A k \in S : <<k, n>> \notin R
  <2> HIDE DEF R
  <2> QED BY <1>1, WFMin
<1>3. ASSUME NEW k \in S PROVE n <= k
  <2>1. <<k, n>> \in Nat \X Nat /\ <<k, n>>[1] = k /\ <<k, n>>[2] = n
    OBVIOUS
  <2> QED BY <1>2, <2>1
<1> QED BY <1>3

\* There is a place in every folder: a free one in an inbox, if any is free.
LEMMA SlotForFits ==
  ASSUME UploadsTypeOK, NEW folder \in UploadFolders, NEW n \in FileNames,
         \E s \in Slots : s.folder = "inbox" /\ s.name = n /\ temp[s] = NoFile
  PROVE  /\ SlotFor(folder, n) \in Slots /\ SlotFor(folder, n).folder = folder
         /\ folder = "inbox" => temp[SlotFor(folder, n)] = NoFile
<1> DEFINE Fits(s) == /\ s.folder = folder /\ s.name = n
                      /\ folder = "inbox" =>
                            /\ temp[s] = NoFile
                            /\ \A k \in 1..(s.copy - 1) : temp[[s EXCEPT !.copy = k]] # NoFile
<1>1. CASE folder = "direct"
  <2>1. [folder |-> "direct", name |-> n, copy |-> 1] \in Slots
    BY DEF Slots
  <2>2. \E s \in Slots : Fits(s)
    BY <1>1, <2>1
  <2> QED BY <1>1, <2>2 DEF SlotFor
<1>2. CASE folder = "inbox"
  <2> DEFINE place(k) == [folder |-> "inbox", name |-> n, copy |-> k]
             free == {k \in 1..MaxCopies : temp[place(k)] = NoFile}
  <2>1. PICK s \in Slots : s.folder = "inbox" /\ s.name = n /\ temp[s] = NoFile
    OBVIOUS
  <2>2. \E k \in 1..MaxCopies : s = place(k)
    BY <2>1 DEF Slots
  <2>3. free # {} /\ free \in SUBSET Nat
    BY <2>1, <2>2
  <2>4. PICK k \in free : \A j \in free : k <= j
    BY <2>3, LeastOf
  <2>5. place(k) \in Slots
    BY <2>4 DEF Slots
  <2>6. \A j \in 1..(k - 1) : temp[place(j)] # NoFile
    BY <2>4, TelegramUploadsAssumption
  <2>7. \A j \in 1..(k - 1) : [place(k) EXCEPT !.copy = j] = place(j)
    OBVIOUS
  <2>8. Fits(place(k))
    BY <1>2, <2>4, <2>6, <2>7
  <2> QED BY <1>2, <2>5, <2>8 DEF SlotFor
<1> QED BY <1>1, <1>2 DEF UploadFolders

\* What a chat says, chooses and answers.
LEMMA SenderInv ==
  ASSUME UploadsInv, NEW c \in Senders,
         \/ CancelUpload(c) \/ Keep(c) \/ Skip(c)
         \/ \E folder \in UploadFolders : Choose(c, folder)
         \/ \E u \in Sendable, expired \in {{}, Senders \ {c}} : SendFile(c, u, expired)
  PROVE  UploadsInv'
<1>1. CASE CancelUpload(c)
  BY <1>1 DEF CancelUpload, UploadsInv, UploadsTypeOK, AskedIsThere, AskedAlone, AskedAbout, FetchingToFree
<1>2. CASE \E u \in Sendable, expired \in {{}, Senders \ {c}} : SendFile(c, u, expired)
  BY <1>2 DEF SendFile, UploadsInv, UploadsTypeOK, AskedIsThere, AskedAlone, AskedAbout, FetchingToFree
<1>3. ASSUME NEW folder \in UploadFolders, Choose(c, folder)
      PROVE  UploadsInv'
  <2>1. asked[c] \in Sendable /\ asked[c].name \in FileNames
    BY <1>3 DEF Choose, UploadsInv, UploadsTypeOK, FileNames
  <2>2. /\ SlotFor(folder, asked[c].name) \in Slots
        /\ SlotFor(folder, asked[c].name).folder = folder
        /\ folder = "inbox" => temp[SlotFor(folder, asked[c].name)] = NoFile
    BY <1>3, <2>1, SlotForFits DEF Choose, UploadsInv
  <2>3. UploadsTypeOK' /\ FetchingToFree'
    BY <1>3, <2>1, <2>2 DEF Choose, UploadsInv, UploadsTypeOK, Uploads, FetchingToFree
  <2> QED BY <1>3, <2>3 DEF Choose, UploadsInv, AskedIsThere, AskedAlone, AskedAbout
<1>4. CASE Keep(c) \/ Skip(c)
  <2>1. /\ fetching = NoFile /\ answering[c] # NoFile
        /\ temp' = [temp EXCEPT ![answering[c].at] = NoFile]
        /\ answering' = [answering EXCEPT ![c] = NoFile]
        /\ UNCHANGED <<asked, fetching>>
    BY <1>4 DEF Keep, Skip
  <2>2. UploadsTypeOK' /\ FetchingToFree' /\ AskedAlone'
    BY <2>1 DEF UploadsInv, UploadsTypeOK, FetchingToFree, AskedAlone, AskedAbout
  <2>3. AskedIsThere'
    BY <2>1 DEF UploadsInv, UploadsTypeOK, AskedIsThere, AskedAlone, AskedAbout, Questions
  <2> QED BY <2>2, <2>3 DEF UploadsInv
<1> QED BY <1>1, <1>2, <1>3, <1>4

\* Whoever waits for a place that is disturbed knows.
LEMMA DisturbIsKnown ==
  ASSUME UploadsTypeOK, NEW s \in Slots
  PROVE  /\ Disturb(s) \in [Senders -> Questions \cup {NoFile}]
         /\ \A c \in Senders :
               /\ answering[c] = NoFile => Disturb(s)[c] = NoFile
               /\ answering[c] # NoFile =>
                     /\ Disturb(s)[c] # NoFile
                     /\ Disturb(s)[c].at = answering[c].at /\ Disturb(s)[c].hash = answering[c].hash
                     /\ ~Disturb(s)[c].lost => ~answering[c].lost /\ answering[c].at # s
<1>1. ASSUME NEW c \in Senders, answering[c] # NoFile
      PROVE  /\ answering[c] \in Questions
             /\ [answering[c] EXCEPT !.lost = TRUE] \in Questions
             /\ [answering[c] EXCEPT !.lost = TRUE].lost = TRUE
             /\ [answering[c] EXCEPT !.lost = TRUE].at = answering[c].at
             /\ [answering[c] EXCEPT !.lost = TRUE].hash = answering[c].hash
  BY <1>1 DEF UploadsTypeOK, Questions
<1>2. NoFile \notin Questions
  BY TelegramUploadsAssumption
<1> QED BY <1>1, <1>2 DEF UploadsTypeOK, Disturb, AskedAbout

\* After a download into a place, or a removal there, no other chat is asked about that place
\* and told that nothing happened.
LEMMA OthersAreKnown ==
  ASSUME UploadsInv, fetching # NoFile
  PROVE  /\ Others \in [Senders -> Questions \cup {NoFile}]
         /\ \A d \in Senders :
               /\ answering[d] = NoFile => Others[d] = NoFile
               /\ answering[d] # NoFile =>
                     /\ Others[d] # NoFile
                     /\ Others[d].at = answering[d].at /\ Others[d].hash = answering[d].hash
                     /\ ~Others[d].lost => ~answering[d].lost /\ answering[d].at # fetching.at
<1>1. fetching.at \in Slots /\ fetching.folder \in UploadFolders
  BY DEF UploadsInv, UploadsTypeOK, Uploads
<1>2. CASE fetching.folder = "direct"
  BY <1>1, <1>2, DisturbIsKnown DEF Others, UploadsInv
<1>3. CASE fetching.folder = "inbox"
  <2>1. Others = answering
    BY <1>3 DEF Others
  <2>2. temp[fetching.at] = NoFile
    BY <1>3 DEF UploadsInv, FetchingToFree
  <2>3. ASSUME NEW d \in Senders, answering[d] # NoFile, ~answering[d].lost
        PROVE  answering[d].at # fetching.at
    <3>1. answering[d].hash \in Contents
      BY <2>3 DEF UploadsInv, UploadsTypeOK, Questions
    <3>2. temp[answering[d].at] = answering[d].hash
      BY <2>3 DEF UploadsInv, AskedIsThere
    <3> QED BY <2>2, <3>1, <3>2, TelegramUploadsAssumption
  <2> QED BY <2>1, <2>3 DEF UploadsInv, UploadsTypeOK
<1> QED BY <1>1, <1>2, <1>3 DEF UploadFolders

\* A download that ends.
LEMMA FetchedInv ==
  ASSUME UploadsInv, Fetched
  PROVE  UploadsInv'
<1> DEFINE c == fetching.chat
           s == fetching.at
           content == fetching.file.content
           named == \E d \in Senders \ {c} : AskedAbout(d, s)
           question == [hash |-> content, at |-> s, folder |-> fetching.folder, lost |-> named]
<1>1. /\ fetching # NoFile /\ c \in Senders /\ s \in Slots /\ fetching.folder \in UploadFolders
      /\ fetching.file \in Sendable
  BY DEF Fetched, UploadsInv, UploadsTypeOK, Uploads
<1>2. content \in Contents /\ content # NoFile
  BY <1>1, TelegramUploadsAssumption DEF Contents
<1>3. fetching.at.folder = fetching.folder
  BY <1>1 DEF UploadsInv, FetchingToFree
<1>4. /\ Others \in [Senders -> Questions \cup {NoFile}]
      /\ \A d \in Senders :
            /\ answering[d] = NoFile => Others[d] = NoFile
            /\ answering[d] # NoFile =>
                  /\ Others[d] # NoFile
                  /\ Others[d].at = answering[d].at /\ Others[d].hash = answering[d].hash
                  /\ ~Others[d].lost => ~answering[d].lost /\ answering[d].at # s
  BY <1>1, OthersAreKnown
<1>5. fetching' = NoFile
  BY DEF Fetched
<1>6. CASE Existing(fetching.folder, content) # {}
  <2>1. /\ temp' = [temp EXCEPT ![s] = content]
        /\ answering' = [Others EXCEPT ![c] = question]
        /\ asked' = asked
    BY <1>3, <1>6 DEF Fetched, Others
  <2>2. question \in Questions
    BY <1>1, <1>2 DEF Questions
  <2>3. UploadsTypeOK' /\ FetchingToFree'
    BY <1>1, <1>2, <1>4, <1>5, <2>1, <2>2 DEF UploadsInv, UploadsTypeOK, FetchingToFree
  <2>4. \A d \in Senders : answering'[d] = IF d = c THEN question ELSE Others[d]
    BY <1>4, <2>1
  <2>5. ASSUME NEW d \in Senders, answering'[d] # NoFile, ~answering'[d].lost
        PROVE  temp'[answering'[d].at] = answering'[d].hash
    <3>1. CASE d = c
      BY <1>1, <2>1, <2>4, <3>1 DEF UploadsInv, UploadsTypeOK
    <3>2. CASE d # c
      BY <1>1, <1>4, <2>1, <2>4, <2>5, <3>2
         DEF UploadsInv, UploadsTypeOK, AskedIsThere, Questions
    <3> QED BY <3>1, <3>2
  <2>6. ASSUME NEW d \in Senders, NEW e \in Senders, d # e,
               answering'[d] # NoFile, ~answering'[d].lost
        PROVE  ~(answering'[e] # NoFile /\ answering'[e].at = answering'[d].at)
    <3> DEFINE new == answering'
    <3>1. /\ new[d] = IF d = c THEN question ELSE Others[d]
          /\ new[e] = IF e = c THEN question ELSE Others[e]
          /\ new[d] # NoFile /\ ~new[d].lost
      BY <2>4, <2>6
    <3>2. question.at = s /\ question.lost = named
      OBVIOUS
    <3> HIDE DEF new, question
    <3>3. CASE d = c
      <4>1. ~AskedAbout(e, s)
        BY <2>6, <3>1, <3>2, <3>3
      <4> QED BY <1>4, <2>6, <3>1, <3>2, <3>3, <4>1 DEF AskedAbout, new
    <3>4. CASE d # c /\ e = c
      BY <1>4, <3>1, <3>2, <3>4 DEF new
    <3>5. CASE d # c /\ e # c
      <4>1. answering[d] # NoFile /\ ~answering[d].lost /\ new[d].at = answering[d].at
        BY <1>4, <3>1, <3>5
      <4>2. ~AskedAbout(e, answering[d].at)
        BY <2>6, <4>1 DEF UploadsInv, AskedAlone
      <4> QED BY <1>4, <3>1, <3>5, <4>1, <4>2 DEF AskedAbout, new
    <3> QED BY <3>3, <3>4, <3>5
  <2> QED BY <2>3, <2>5, <2>6 DEF UploadsInv, AskedIsThere, AskedAlone, AskedAbout
<1>7. CASE Existing(fetching.folder, content) = {}
  <2>1. /\ temp' = [temp EXCEPT ![s] = NoFile]
        /\ answering' = Others
        /\ asked' = [asked EXCEPT ![c] = NoFile]
    BY <1>3, <1>7 DEF Fetched, Others
  <2>2. UploadsTypeOK' /\ FetchingToFree'
    BY <1>1, <1>4, <1>5, <2>1 DEF UploadsInv, UploadsTypeOK, FetchingToFree
  <2> QED BY <1>1, <1>4, <2>1, <2>2
          DEF UploadsInv, UploadsTypeOK, AskedIsThere, AskedAlone, AskedAbout, Questions
<1> QED BY <1>6, <1>7

\* A download that fails, the watcher's filing, and what is forgotten at a restart.
LEMMA FailedInv ==
  ASSUME UploadsInv, FetchFails
  PROVE  UploadsInv'
<1>1. fetching # NoFile /\ fetching' = NoFile /\ asked' = asked
  BY DEF FetchFails
<1>2. temp' = [temp EXCEPT ![fetching.at] = NoFile] /\ answering' = Others
  BY DEF FetchFails, LeftBehind, Others
<1>3. UploadsTypeOK' /\ FetchingToFree'
  BY <1>1, <1>2, OthersAreKnown DEF UploadsInv, UploadsTypeOK, FetchingToFree
<1> QED BY <1>1, <1>2, <1>3, OthersAreKnown
        DEF UploadsInv, UploadsTypeOK, AskedIsThere, AskedAlone, AskedAbout, Questions

LEMMA SortedInv ==
  ASSUME UploadsInv, NEW s \in Slots, SortWaiting(s)
  PROVE  UploadsInv'
<1>1. /\ temp' = [temp EXCEPT ![s] = NoFile] /\ answering' = Disturb(s)
      /\ UNCHANGED <<asked, fetching>>
  BY DEF SortWaiting
<1>2. UploadsTypeOK' /\ FetchingToFree'
  BY <1>1, DisturbIsKnown DEF UploadsInv, UploadsTypeOK, FetchingToFree, Uploads
<1> QED BY <1>1, <1>2, DisturbIsKnown
        DEF UploadsInv, UploadsTypeOK, AskedIsThere, AskedAlone, AskedAbout, Questions

LEMMA ForgottenInv ==
  ASSUME UploadsInv, RestartBot \/ UploadsCrash \/ UNCHANGED vars_uploads
  PROVE  UploadsInv'
<1>1. CASE RestartBot
  BY <1>1 DEF RestartBot, UploadsInv, UploadsTypeOK, AskedIsThere, AskedAlone, AskedAbout, FetchingToFree
<1>2. CASE UploadsCrash
  BY <1>2 DEF UploadsCrash, UploadsInv, UploadsTypeOK, AskedIsThere, AskedAlone, AskedAbout, FetchingToFree
<1>3. CASE UNCHANGED vars_uploads
  BY <1>3 DEF vars_uploads, UploadsInv, UploadsTypeOK, AskedIsThere, AskedAlone, AskedAbout, FetchingToFree
<1> QED BY <1>1, <1>2, <1>3

\* Every step keeps the invariant.
LEMMA UploadsStep == UploadsInv /\ [UploadsNext]_vars_uploads => UploadsInv'
<1> SUFFICES ASSUME UploadsInv, [UploadsNext]_vars_uploads
             PROVE  UploadsInv'
  OBVIOUS
<1> QED BY SenderInv, FetchedInv, FailedInv, SortedInv, ForgottenInv DEF UploadsNext

------------------------------------------------------------------------------
\* The list of files sent last. What makes RecentDeletes inductive: a firm button's file is
\* in the list, at the button's place among its chat's; and what is at the path of an entry is
\* its chat's, nobody's, or has been counted as taken over.

RecentTypes ==
    /\ recent \subseteq RecentEntries /\ IsFiniteSet(recent)
    /\ onDisk \in [RecentPaths -> RecentChats \cup {House, Vacant}]
    /\ buttons \subseteq Buttons
    /\ sent \in Nat

NumbersApart ==
    /\ \A e \in recent : e.nr <= sent
    /\ \A d, e \in recent : d.nr = e.nr => d = e

FirmIsThere == \A b \in buttons : b.firm => b.entry \in recent /\ Place(b.entry) = b.place

PathIsTheirs == \A e \in recent : e.path \in takenOver \/ onDisk[e.path] \in {e.chat, Vacant}

RecentInv == RecentTypes /\ NumbersApart /\ FirmIsThere /\ PathIsTheirs /\ RecentDeletes

\* The list is empty at the start.
LEMMA RecentInitInv == RecentInit => RecentInv
  BY FS_EmptySet
  DEF RecentInit, RecentInv, RecentTypes, NumbersApart, FirmIsThere, PathIsTheirs, RecentDeletes

\* Two files of a chat are never at one place.
LEMMA PlacesApart ==
  ASSUME RecentTypes, NumbersApart, NEW d \in recent, NEW e \in recent, d.chat = e.chat, d # e
  PROVE  Place(d) # Place(e)
<1>1. ASSUME NEW x \in recent, NEW y \in recent, x.chat = y.chat, x.nr < y.nr
      PROVE  Place(x) # Place(y)
  <2>1. Older(x, recent) \subseteq Older(y, recent) /\ x \in Older(y, recent) /\ x \notin Older(x, recent)
    BY <1>1 DEF Older, RecentTypes, RecentEntries
  <2>2. IsFiniteSet(Older(y, recent))
    BY FS_Subset DEF Older, RecentTypes
  <2> QED BY <2>1, <2>2, FS_Subset DEF Place
<1>2. d.nr \in Nat /\ e.nr \in Nat /\ d.nr # e.nr
  BY DEF RecentTypes, RecentEntries, NumbersApart
<1>3. d.nr < e.nr \/ e.nr < d.nr
  BY <1>2
<1> QED BY <1>1, <1>3

\* What a button stands for survives the loss of other chats' files, and new ones.
LEMMA LoosenKeeps ==
  ASSUME RecentTypes, FirmIsThere, NEW left, NEW new, left \subseteq recent,
         \A e \in new : \A d \in recent : ~ (e.nr < d.nr),
         recent' = (recent \ left) \cup new, buttons' = Loosen(left)
  PROVE  FirmIsThere' /\ buttons' \subseteq Buttons
<1>1. ASSUME NEW b \in buttons'
      PROVE  b \in Buttons /\ (b.firm => b \in buttons /\ \A e \in left : e.chat # b.entry.chat)
  <2>1. PICK a \in buttons : b = IF \E e \in left : e.chat = a.entry.chat THEN [a EXCEPT !.firm = FALSE] ELSE a
    BY DEF Loosen
  <2>2. a \in Buttons
    BY DEF RecentTypes
  <2>3. CASE \E e \in left : e.chat = a.entry.chat
    <3>1. b = [a EXCEPT !.firm = FALSE]
      BY <2>1, <2>3
    <3>2. b \in Buttons /\ b.firm = FALSE
      BY <3>1, <2>2 DEF Buttons
    <3> QED BY <3>2
  <2>4. CASE ~\E e \in left : e.chat = a.entry.chat
    BY <2>1, <2>2, <2>4
  <2> QED BY <2>3, <2>4
<1>2. ASSUME NEW b \in buttons', b.firm
      PROVE  b.entry \in recent' /\ Place(b.entry)' = b.place
  <2>1. b \in buttons /\ \A e \in left : e.chat # b.entry.chat
    BY <1>1, <1>2
  <2>2. b.entry \in recent /\ Place(b.entry) = b.place
    BY <2>1, <1>2 DEF FirmIsThere
  <2>3. b.entry \in recent'
    BY <2>1, <2>2
  <2>4. Older(b.entry, recent') = Older(b.entry, recent)
    BY <2>1, <2>2 DEF Older
  <2> QED BY <2>2, <2>3, <2>4 DEF Place
<1> QED BY <1>1, <1>2 DEF FirmIsThere

LEMMA SendKeeps ==
  ASSUME RecentInv, NEW c \in RecentChats, NEW p \in RecentPaths, SendRecent(c, p)
  PROVE  RecentInv'
<1> DEFINE new == [chat |-> c, path |-> p, nr |-> sent + 1]
           more == recent \cup {new}
           left == Overlong(more)
<1>0. /\ sent' = sent + 1 /\ onDisk' = [onDisk EXCEPT ![p] = c] /\ recent' = more \ left
      /\ buttons' = Loosen(left) /\ takenOver' = takenOver \cup Strangers(p, c) /\ removals' = removals
  BY DEF SendRecent
<1>1. RecentTypes /\ NumbersApart /\ FirmIsThere /\ PathIsTheirs
  BY DEF RecentInv
<1>2. new \in RecentEntries /\ left \subseteq more
  BY <1>1 DEF RecentEntries, RecentTypes, Overlong, Oldest
<1>3. \A d \in recent : d.nr \in Nat /\ d.nr <= sent /\ sent \in Nat
  BY <1>1 DEF RecentTypes, NumbersApart, RecentEntries
<1>4. IsFiniteSet(more)
  BY <1>1, FS_AddElement DEF RecentTypes
<1>5. recent' \subseteq RecentEntries /\ IsFiniteSet(recent')
  <2>1. recent' \subseteq more
    BY <1>0
  <2>2. more \subseteq RecentEntries
    BY <1>1, <1>2 DEF RecentTypes
  <2> QED BY <2>1, <2>2, <1>4, FS_Subset
<1>6. new \notin left
  <2>1. SUFFICES ASSUME new \in left PROVE FALSE
    OBVIOUS
  <2>2. Cardinality(more) > MaxRecent /\ \A d \in more : new.nr <= d.nr
    BY <2>1 DEF Overlong, Oldest
  <2>3. recent = {}
    BY <2>2, <1>3
  <2>4. Cardinality(more) = 1
    BY <2>3, FS_Singleton
  <2> QED BY <2>2, <2>4, RecentAssumption
<1>7. recent' = (recent \ left) \cup {new}
  BY <1>0, <1>6
<1>8. left \subseteq recent
  BY <1>2, <1>6
<1>9. \A e \in {new} : \A d \in recent : ~ (e.nr < d.nr)
  BY <1>3
<1> HIDE DEF left
<1>10. FirmIsThere' /\ buttons' \subseteq Buttons
  BY <1>0, <1>1, <1>7, <1>8, <1>9, LoosenKeeps
<1>11. RecentTypes'
  BY <1>0, <1>1, <1>3, <1>5, <1>10 DEF RecentTypes
<1>12. NumbersApart'
  BY <1>0, <1>1, <1>3, <1>7 DEF NumbersApart, RecentTypes
<1>13. PathIsTheirs'
  <2> SUFFICES ASSUME NEW e \in recent' PROVE e.path \in takenOver' \/ onDisk'[e.path] \in {e.chat, Vacant}
    BY DEF PathIsTheirs
  <2>1. CASE e = new
    BY <2>1, <1>0, <1>1 DEF RecentTypes
  <2>2. CASE e \in recent
    <3>1. e.path \in takenOver \/ onDisk[e.path] \in {e.chat, Vacant}
      BY <2>2, <1>1 DEF PathIsTheirs
    <3>2. CASE e.path = p /\ e.chat # c
      BY <2>2, <3>2, <1>0 DEF Strangers
    <3>3. CASE e.path = p /\ e.chat = c
      BY <3>3, <1>0, <1>1 DEF RecentTypes
    <3>4. CASE e.path # p
      BY <3>1, <3>4, <2>2, <1>0, <1>1 DEF RecentTypes, RecentEntries
    <3> QED BY <3>2, <3>3, <3>4
  <2> QED BY <2>1, <2>2, <1>7
<1>14. RecentDeletes'
  BY <1>0 DEF RecentDeletes, RecentInv
<1> QED BY <1>10, <1>11, <1>12, <1>13, <1>14 DEF RecentInv

\* Files that come and go without the bot, and a list that is shown.
LEMMA ElsehowKeeps ==
  ASSUME RecentInv, NEW p \in RecentPaths, StoreElsehow(p) \/ TakeElsehow(p)
  PROVE  RecentInv'
<1>0. recent' = recent /\ buttons' = buttons /\ removals' = removals /\ sent' = sent
  BY DEF StoreElsehow, TakeElsehow
<1>1. RecentTypes' /\ NumbersApart' /\ FirmIsThere'
  BY <1>0 DEF RecentInv, RecentTypes, NumbersApart, FirmIsThere, Place, StoreElsehow, TakeElsehow
<1>2. takenOver \subseteq takenOver'
  BY DEF StoreElsehow, TakeElsehow
<1>3. RecentDeletes'
  BY <1>0, <1>2 DEF RecentDeletes, RecentInv
<1>4. ASSUME NEW e \in recent
      PROVE  e.path \in takenOver' \/ onDisk'[e.path] \in {e.chat, Vacant}
  <2>1. (e.path \in takenOver \/ onDisk[e.path] \in {e.chat, Vacant}) /\ e.path \in RecentPaths
        /\ e.chat \in RecentChats
    BY DEF RecentInv, PathIsTheirs, RecentTypes, RecentEntries
  <2>2. CASE StoreElsehow(p)
    BY <2>1, <2>2, RecentAssumption DEF StoreElsehow, Strangers, RecentInv, RecentTypes
  <2>3. CASE TakeElsehow(p)
    BY <2>1, <2>3 DEF TakeElsehow, RecentInv, RecentTypes
  <2> QED BY <2>2, <2>3
<1> QED BY <1>0, <1>1, <1>3, <1>4 DEF RecentInv, PathIsTheirs

LEMMA ShowKeeps ==
  ASSUME RecentInv, NEW c \in RecentChats, ShowRecent(c)
  PROVE  RecentInv'
<1>0. recent' = recent /\ onDisk' = onDisk /\ removals' = removals /\ sent' = sent /\ takenOver' = takenOver
      /\ buttons' = buttons \cup {[place |-> Place(e), entry |-> e, firm |-> TRUE] :
                                     e \in {d \in recent : d.chat = c}}
  BY DEF ShowRecent
<1>1. \A e \in recent : Place(e) \in Nat /\ e \in RecentEntries
  <2> SUFFICES ASSUME NEW e \in recent PROVE Place(e) \in Nat
    BY DEF RecentInv, RecentTypes
  <2>1. IsFiniteSet(Older(e, recent))
    BY FS_Subset DEF RecentInv, RecentTypes, Older
  <2> QED BY <2>1, FS_CardinalityType DEF Place
<1>2. ASSUME NEW b \in buttons'
      PROVE  b \in Buttons /\ (b.firm => b.entry \in recent /\ Place(b.entry) = b.place)
  <2>1. CASE b \in buttons
    BY <2>1 DEF RecentInv, RecentTypes, FirmIsThere
  <2>2. CASE b \notin buttons
    <3>1. PICK e \in recent : b = [place |-> Place(e), entry |-> e, firm |-> TRUE]
      BY <2>2, <1>0
    <3> QED BY <3>1, <1>1 DEF Buttons
  <2> QED BY <2>1, <2>2
<1>3. RecentTypes' /\ FirmIsThere'
  BY <1>0, <1>2 DEF RecentInv, RecentTypes, FirmIsThere, Place
<1>4. NumbersApart' /\ PathIsTheirs' /\ RecentDeletes'
  BY <1>0 DEF RecentInv, NumbersApart, PathIsTheirs, RecentDeletes
<1> QED BY <1>3, <1>4 DEF RecentInv

\* A press removes the file whose name it bears, if its button is firm, and its chat's file.
LEMMA PressKeeps ==
  ASSUME RecentInv, NEW b \in buttons, PressDelete(b)
  PROVE  RecentInv'
<1>1. PICK e \in Found(b) :
        /\ onDisk' = [onDisk EXCEPT ![e.path] = Vacant]
        /\ removals' = IF onDisk[e.path] = Vacant THEN removals
                       ELSE removals \cup {[button |-> b, path |-> e.path, sender |-> onDisk[e.path]]}
        /\ LET left == {d \in recent : d.path = e.path}
           IN \/ recent' = recent \ left /\ buttons' = Loosen(left)
              \/ recent' = recent /\ buttons' = buttons
        /\ sent' = sent /\ takenOver' = takenOver
  BY DEF PressDelete
<1>2. e \in recent /\ e.chat = b.entry.chat /\ Place(e) = b.place
  BY DEF Found
<1>3. RecentTypes /\ NumbersApart /\ FirmIsThere /\ PathIsTheirs /\ e \in RecentEntries
  BY <1>2 DEF RecentInv, RecentTypes
<1>4. FirmIsThere' /\ buttons' \subseteq Buttons
  <2>1. CASE recent' = recent /\ buttons' = buttons
    BY <2>1, <1>3 DEF FirmIsThere, Place, RecentTypes
  <2>2. CASE LET left == {d \in recent : d.path = e.path}
             IN  recent' = recent \ left /\ buttons' = Loosen(left)
    <3> DEFINE left == {d \in recent : d.path = e.path}
    <3>1. recent' = (recent \ left) \cup {} /\ buttons' = Loosen(left) /\ left \subseteq recent
      BY <2>2
    <3> DEFINE none == {}
    <3>2. recent' = (recent \ left) \cup none /\ \A x \in none : \A d \in recent : ~ (x.nr < d.nr)
      BY <3>1
    <3> HIDE DEF left, none
    <3>3. RecentTypes /\ FirmIsThere /\ buttons' = Loosen(left) /\ left \subseteq recent
      BY <1>3, <3>1
    <3> QED BY <3>2, <3>3, LoosenKeeps
  <2> QED BY <2>1, <2>2, <1>1
<1>5. recent' \subseteq recent
  BY <1>1
<1>6. RecentTypes'
  <2>1. IsFiniteSet(recent')
    BY <1>3, <1>5, FS_Subset DEF RecentTypes
  <2> QED BY <2>1, <1>1, <1>3, <1>4, <1>5 DEF RecentTypes
<1>7. NumbersApart'
  BY <1>1, <1>3, <1>5 DEF NumbersApart
<1>8. PathIsTheirs'
  BY <1>1, <1>3, <1>5 DEF PathIsTheirs, RecentTypes, RecentEntries
<1>9. RecentDeletes'
  <2>1. RecentDeletes
    BY DEF RecentInv
  <2>2. ASSUME b.firm PROVE e.path = b.entry.path
    <3>1. b.entry \in recent /\ Place(b.entry) = b.place
      BY <2>2, <1>3 DEF FirmIsThere
    <3> QED BY <3>1, <1>2, <1>3, PlacesApart
  <2>3. onDisk[e.path] # Vacant /\ e.path \notin takenOver => onDisk[e.path] = b.entry.chat
    BY <1>2, <1>3 DEF PathIsTheirs
  <2>4. CASE onDisk[e.path] = Vacant
    BY <2>1, <2>4, <1>1 DEF RecentDeletes
  <2>5. CASE onDisk[e.path] # Vacant
    <3> DEFINE gone == [button |-> b, path |-> e.path, sender |-> onDisk[e.path]]
    <3>1. removals' = removals \cup {gone} /\ takenOver' = takenOver
      BY <2>5, <1>1
    <3>2. (gone.button.firm => gone.path = gone.button.entry.path)
          /\ (gone.path \notin takenOver => gone.sender = gone.button.entry.chat)
      BY <2>2, <2>3, <2>5
    <3> HIDE DEF gone
    <3> QED BY <2>1, <3>1, <3>2 DEF RecentDeletes
  <2> QED BY <2>4, <2>5
<1> QED BY <1>3, <1>4, <1>6, <1>7, <1>8, <1>9 DEF RecentInv

LEMMA RecentStep == RecentInv /\ [RecentNext]_vars_recent => RecentInv'
<1> SUFFICES ASSUME RecentInv, [RecentNext]_vars_recent PROVE RecentInv'
  OBVIOUS
<1>1. CASE UNCHANGED vars_recent
  BY <1>1 DEF vars_recent, RecentInv, RecentTypes, NumbersApart, FirmIsThere, PathIsTheirs, RecentDeletes,
              Place
<1>2. CASE RecentNext
  BY <1>2, SendKeeps, ElsehowKeeps, ShowKeeps, PressKeeps DEF RecentNext
<1> QED BY <1>1, <1>2
=============================================================================
