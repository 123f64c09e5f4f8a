---------------------------- MODULE MCRpcServer ----------------------------
(* Instances of RpcServer for TLC. *)
EXTENDS RpcServer, TLC

CONSTANTS a, b, c

ThreeClients == {a, b, c}

\* {"\"}"} : a bracket behind an escaped quote.
Tricky == <<"open", "quote", "backslash", "quote", "close", "quote", "close">>
\* {}[ and so on: something follows the request, and if it is not cut off there
\* the whole is too long.
Endless == [i \in 1..(MaxRequestSize + 1) |->
    CASE i \in {1, 3} -> "open" [] i = 2 -> "close" [] OTHER -> "other"]

\* c connects and says nothing.
MCText == (a :> Tricky) @@ (b :> Endless) @@ (c :> <<>>)
=============================================================================
