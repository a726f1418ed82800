----------------------------- MODULE MCFastCGI ------------------------------
(* The sizes of the code, and requests that differ in what the code tells  *)
(* apart.                                                                  *)
EXTENDS FastCGI

R(kind, kept, split, filed, body, content_length) ==
    [kind |-> kind, keep |-> kept, split |-> split, filed |-> filed,
     body |-> body, content_length |-> content_length]

Part(len, pad) == [len |-> len, pad |-> pad]

SomeRequests ==
    {R("request", TRUE, FALSE, FALSE, <<Part(3, 5), Part(2, 0)>>, 5),
     R("request", TRUE, FALSE, TRUE, <<>>, 3),
     R("request", FALSE, FALSE, FALSE, <<Part(1, 0)>>, 1),
     R("request", TRUE, TRUE, FALSE, <<>>, 0),
     R("values", FALSE, FALSE, FALSE, <<>>, 0),
     R("other", FALSE, FALSE, FALSE, <<>>, 0)}

SomeLengths == [STDOUT |-> {1, 8176, 65543}, STDERR |-> {1, 8183}]
SomeReads   == {2, 4}

(* These are sent by a web server that knows how long their bodies are.    *)
ASSUME ServerAssumption == KnowsLength

=============================================================================
