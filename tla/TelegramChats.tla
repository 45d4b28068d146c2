---------------------------- MODULE TelegramChats ----------------------------
(***************************************************************************)
(* Who may use the Telegram bot, and as whom: telegram/auth_handlers.py,   *)
(* the helpers of telegram/bot_core.py and the routes of                   *)
(* telegram_routes.py on linked and pending accounts.                      *)
(*                                                                         *)
(* A linked chat is allowed in. It may be bound to the NAME of a member,   *)
(* whose personal folder it then uses; a chat bound to the name of an      *)
(* admin is an admin chat and lets others in. Names are given and taken    *)
(* back by module Accounts, which knows nothing of the binding. Nothing    *)
(* suspends between the writes of a handler; a crash can.                  *)
(***************************************************************************)
EXTENDS Focus, Integers, FiniteSets, Functions

CONSTANTS
    Chats,
    MemberNames,    \* the names a profile may have, which are also what people call themselves
    FirstAdmin,     \* the name of the admin the server was set up by
    MaxFamilyChanges, \* bound
    Unbound

ASSUME TelegramChatsAssumption ==
    /\ FirstAdmin \in MemberNames /\ Unbound \notin MemberNames
    /\ MaxFamilyChanges \in Nat

VARIABLES
    family,     \* name -> [id, admin], or Absentee
    linked,     \* telegram_linked_ids
    bound,      \* telegram_chat_folder_owners
    asking,     \* telegram_pending_approvals: chat -> the name it asks under
    granted,    \* history: chats made admin by an admin's own act
    reused,     \* history: chats whose name went to another person
    halfdone,   \* history: a revocation was cut short by a crash
    familyChanges

vars_chats == <<family, linked, bound, asking, granted, reused, halfdone, familyChanges>>

Absentee == [id |-> 0, admin |-> FALSE]
Known(n) == n # Unbound /\ family[n] # Absentee

ChatsInit ==
    /\ family = [n \in MemberNames |-> IF n = FirstAdmin THEN [id |-> 1, admin |-> TRUE] ELSE Absentee]
    /\ linked = {}
    /\ bound = [c \in Chats |-> Unbound]
    /\ asking = [c \in Chats |-> Unbound]
    /\ granted = {} /\ reused = {} /\ halfdone = {}
    /\ familyChanges = 0

------------------------------------------------------------------------------
\* Wrong versions of definitions below; the runs' mutants put them in place.

AdminToo(c, hint) == IF bound[c] # Unbound THEN bound[c]
                     ELSE IF Known(hint) THEN hint ELSE Unbound

------------------------------------------------------------------------------
\* The helpers.

IsAdminChat(c) == Known(bound[c]) /\ family[bound[c]].admin     \* not: and linked

\* _resolve_personal_owner: what is bound already, or a member, never an admin, of that name.
Resolved(c, hint) == IF bound[c] # Unbound THEN bound[c]
                     ELSE IF Known(hint) /\ ~family[hint].admin THEN hint ELSE Unbound

Bind(c, n) == IF n = Unbound THEN bound ELSE [bound EXCEPT ![c] = n]

\* The first of the writes of a handler, up to where it was cut short.
Upto(steps, n, new, old) == IF n <= steps THEN new ELSE old
CutShort(steps) == IF trouble = "crash" THEN 0..steps ELSE {steps}

------------------------------------------------------------------------------
\* The bot.

\* /auth from a stranger
AskIn(c, hint) ==
    /\ c \notin linked /\ asking[c] = Unbound
    /\ asking' = [asking EXCEPT ![c] = hint]
    /\ UNCHANGED <<family, linked, bound, granted, reused, halfdone, familyChanges>>

\* /auth <name> from a linked chat: for admins
MayRebind(c) == IsAdminChat(c)
Rebind(c, n) ==
    /\ c \in linked /\ MayRebind(c) /\ Known(n)
    /\ bound' = [bound EXCEPT ![c] = n]
    /\ granted' = IF IsAdminChat(c) THEN granted \cup {c} ELSE granted
    /\ reused' = reused \ {c}
    /\ UNCHANGED <<family, linked, asking, halfdone, familyChanges>>

\* The button and /approve, which need not name a chat that asked; `hint` is its display
\* name, "User" (here Unbound) when it did not ask.
Approve(by, c) ==
    /\ IsAdminChat(by)
    /\ \E steps \in CutShort(3) :
          /\ linked' = Upto(steps, 1, linked \cup {c}, linked)
          /\ bound' = Upto(steps, 2, Bind(c, Resolved(c, asking[c])), bound)
          /\ asking' = Upto(steps, 3, [asking EXCEPT ![c] = Unbound], asking)
    /\ reused' = IF bound'[c] # bound[c] THEN reused \ {c} ELSE reused
    /\ UNCHANGED <<family, granted, halfdone, familyChanges>>

Deny(c) ==
    /\ asking[c] # Unbound
    /\ asking' = [asking EXCEPT ![c] = Unbound]
    /\ UNCHANGED <<family, linked, bound, granted, reused, halfdone, familyChanges>>

\* /unlink of the chat itself, and that of an admin in the app
Unbind(c) == [bound EXCEPT ![c] = Unbound]
Unlink(c) ==
    /\ c \in linked
    /\ \E steps \in CutShort(2) :
          /\ linked' = Upto(steps, 1, linked \ {c}, linked)
          /\ bound' = Upto(steps, 2, Unbind(c), bound)
          /\ halfdone' = Upto(steps, 2, halfdone \ {c}, Upto(steps, 1, halfdone \cup {c}, halfdone))
          /\ granted' = Upto(steps, 2, granted \ {c}, granted)
    /\ UNCHANGED <<family, asking, reused, familyChanges>>

------------------------------------------------------------------------------
\* The app of an admin.

ApproveInApp(c, owner) ==
    /\ owner # Unbound => Known(owner)
    /\ LET n == IF owner # Unbound THEN owner ELSE Resolved(c, asking[c])
       IN  \E steps \in CutShort(3) :
              /\ linked' = Upto(steps, 1, linked \cup {c}, linked)
              /\ bound' = Upto(steps, 2, Bind(c, n), bound)
              /\ asking' = Upto(steps, 3, [asking EXCEPT ![c] = Unbound], asking)
              /\ granted' = IF steps >= 2 /\ owner # Unbound THEN granted \cup {c} ELSE granted
              /\ reused' = IF steps >= 2 /\ owner # Unbound THEN reused \ {c} ELSE reused
    /\ UNCHANGED <<family, halfdone, familyChanges>>

\* The family, as module Accounts changes it.

ChatsOf(n) == {c \in Chats : bound[c] = n}
Change == trouble = "family" /\ familyChanges < MaxFamilyChanges /\ familyChanges' = familyChanges + 1

AddMember(n) ==
    /\ familyChanges < MaxFamilyChanges /\ familyChanges' = familyChanges + 1
    /\ family[n] = Absentee
    /\ family' = [family EXCEPT ![n] = [id |-> 2 + familyChanges, admin |-> FALSE]]
    /\ reused' = reused \cup ChatsOf(n)
    /\ UNCHANGED <<linked, bound, asking, granted, halfdone>>

RemoveMember(n) ==
    /\ Change /\ Known(n)
    /\ \E other \in MemberNames \ {n} : family[other].admin
    /\ family' = [family EXCEPT ![n] = Absentee]
    /\ UNCHANGED <<linked, bound, asking, granted, reused, halfdone>>

RenameMember(n, new) ==
    /\ Change /\ Known(n) /\ family[new] = Absentee
    /\ family' = [family EXCEPT ![n] = Absentee, ![new] = family[n]]
    /\ reused' = reused \cup ChatsOf(new)
    /\ UNCHANGED <<linked, bound, asking, granted, halfdone>>

MakeAdmin(n) ==
    /\ Change /\ Known(n) /\ ~family[n].admin
    /\ family' = [family EXCEPT ![n].admin = TRUE]
    /\ granted' = granted \cup ChatsOf(n)
    /\ UNCHANGED <<linked, bound, asking, reused, halfdone>>

ChatsNext ==
    \/ \E c \in Chats :
          \/ Deny(c) \/ Unlink(c)
          \/ \E by \in Chats : Approve(by, c)
          \/ \E n \in MemberNames : AskIn(c, n) \/ Rebind(c, n)
          \/ \E n \in MemberNames \cup {Unbound} : ApproveInApp(c, n)
    \/ \E n \in MemberNames :
          \/ AddMember(n) \/ RemoveMember(n) \/ MakeAdmin(n)
          \/ \E new \in MemberNames : RenameMember(n, new)

------------------------------------------------------------------------------
\* Properties.

\* A chat is an admin's only if an admin said so: in the app naming whose chat it is, from
\* an admin chat, or by making the member it is bound to an admin. Never because of what a
\* stranger calls itself, however often it asks, is approved, and is unlinked
\* (bot_core.py:225-266). Left out: a chat whose member was removed or renamed, and whose name
\* another one got (family_routes.py:145-167 leaves the binding).
AdminsByGrant == \A c \in Chats : IsAdminChat(c) => c \in granted \cup reused

\* Whoever may approve others is let in itself: revoking a chat revokes what it was bound to
\* (auth_handlers.py:119-150). Left out: a revocation that a crash cut short; /approve does
\* not ask whether the chat is linked (auth_handlers.py:233).
AdminsAreLinked == \A c \in Chats : IsAdminChat(c) => c \in linked \cup halfdone

\* A chat with an admin's rights has them from an admin and has not been unlinked since
\* (bot_core.py:183-266, auth_handlers.py:52-256, telegram_routes.py:830-932).
AdminsOfBot == AdminsByGrant /\ AdminsAreLinked
=============================================================================
