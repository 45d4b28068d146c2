----------------------------- MODULE HouseholdMC -----------------------------
\* The troubles each part is exposed to, and values for the constants of Household.
EXTENDS Household

MCParts ==
    [accounts |-> {"sessions", "folders"},
     backup |-> {"crash", "rsync", "unmount", "clock", "edit", "list", "photos"},
     documents |-> {"none", "rename", "ocr", "trash", "reindex", "stop", "crash", "disk"},
     duplicates |-> {"none", "touch", "crash"},
     chats |-> {"family", "crash"},
     uploads |-> {"sorter", "crash"},
     recent |-> {"house", "crash"},
     positions |-> {"lost", "family", "library"}]

\* Two folders of one directory.
MCSlugOf == [f \in Folders |-> CHOOSE g \in Folders : TRUE]

\* Two copies of one file and another that looks the same.
MCLibrary == <<1, 1, 2>>
MCLooks == <<1, 1>>

\* Two files of one name.
MCSendable == {[name |-> "x", content |-> 1], [name |-> "x", content |-> 2]}

MCFirstViewer == [who |-> "first", name |-> "ann"]
=============================================================================
