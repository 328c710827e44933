-------------------------- MODULE MCConnectResponse --------------------------
(* TLC instances of ConnectResponse: no mark, one, two, and parts of one, before *)
(* no text, part of it and the whole.                                           *)
EXTENDS ConnectResponse

MCContents == {m \o t : m \in {<<>>, <<"EF", "BB">>, Mark, Mark \o Mark},
                        t \in {<<>>, <<"open">>, Json}}
=============================================================================
