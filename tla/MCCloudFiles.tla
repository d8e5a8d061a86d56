---------------------------- MODULE MCCloudFiles ----------------------------
(* Instances of CloudFiles for TLC: two files of the same name in two       *)
(* folders, a content of two shards and one of one shard.                   *)
EXTENDS CloudFiles, TLC

MCPaths    == {"x/a", "y/a"}
MCBase     == [p \in MCPaths |-> "a"]
MCContents == {"c1", "c2"}
MCParts    == "c1" :> 2 @@ "c2" :> 1
MCLocal    == "x/a" :> "c1" @@ "y/a" :> "c2"

\* One file of one shard, for the run about the trash.
OnePath    == {"x/a"}
OneBase    == [p \in OnePath |-> "a"]
OneContent == {"c2"}
OnePart    == [c \in OneContent |-> 1]
OneLocal   == [p \in OnePath |-> "c2"]
=============================================================================
