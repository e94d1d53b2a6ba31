-------------------------- MODULE MCCollectdDaemon --------------------------
(* Instances of CollectdDaemon for TLC. *)
EXTENDS CollectdDaemon

\* A storage on each side of one that ignores the datagrams.
ThreeStorages == <<"sqlite", "dummy", "sqlite">>

\* A datagram without policies, with good ones only, and with one that lacks "f".
SomeDatagrams == {<<>>, <<TRUE, TRUE>>, <<TRUE, FALSE>>, Malformed}
GoodDatagrams == {<<TRUE>>}
TwoStorages == <<"sqlite", "sqlite">>
=============================================================================
