----------------------------- MODULE BackgroundMC -----------------------------
\* The troubles each part is exposed to, and values for the constants of Background.
EXTENDS Background

MCParts ==
    [semantic |-> {"crash", "rename", "embed", "fail", "edit", "remove", "search", "busy"},
     wifi |-> {"nmcli", "disk"},
     localapi |-> {"fail", "crash"}]

\* Two files of one shard, and behind them one of another, which slices of two never reach.
MCShardOf == [s1 |-> "shared", s2 |-> "shared", s3 |-> "ann"]
MCBlobId == [s1 |-> 1, s2 |-> 2, s3 |-> 3]

\* Two networks whose profiles have one name.
MCSafeName == [s \in Networks |-> "home"]
=============================================================================
