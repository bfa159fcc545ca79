------------------------------ MODULE MCProxyIO ------------------------------
(* ProxyIO for the endpoint pairs the client and the server use. *)
EXTENDS ProxyIO

\* The client's proxyTCP, the server's proxyTCP and its proxyStreams.
PlainPairs == {<<"tcp", "quic">>, <<"quic", "tcp">>, <<"quic", "quic">>}
\* proxyEncryptedTCP of the client and of the server.
EncryptedPairs == {<<"tcp", "e2e">>, <<"e2e", "tcp">>}
AllPairs == PlainPairs \cup EncryptedPairs
=============================================================================
