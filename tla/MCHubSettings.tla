--------------------------- MODULE MCHubSettings ---------------------------
(* Instances of HubSettings for TLC.                                       *)
EXTENDS HubSettings

\* A setting, a line that is in the default file too, and an emptied file.
SomeCustoms == {<<>>, <<Line("max_connections", <<"300">>)>>,
                <<Line("ssl", <<"on">>)>>}
\* Two settings, for somebody who never empties the file.
TwoSettings == {<<Line("max_connections", <<"300">>)>>,
                <<Line("max_connections", <<"400">>)>>}
=============================================================================
