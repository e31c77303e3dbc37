-------------------------- MODULE MCShardDownload --------------------------
(***************************************************************************)
(* Instances of ShardDownload for TLC.                                     *)
(***************************************************************************)
EXTENDS ShardDownload

\* No local copy, a truncated one, or the file itself.
MCCopies == {NoFile, SubSeq(Shard, 1, Size - 1), Shard}

Listed == {Size, NoSize}

=============================================================================
