---------------------------- MODULE MCShardStream ---------------------------
EXTENDS ShardStream

\* Nothing looks like a marker; the data of one symbol of each block do.
MCTwinSets == {{}, {<<"data", 0, 2, 1>>, <<"data", 1, 3, 2>>}}
MCMisread == {<<0, 1>>, <<1, 5>>}
=============================================================================
