----------------------------- MODULE MCSockets ------------------------------
(* Instances of Sockets: two pools and a few addresses of each domain.     *)
EXTENDS Sockets

CONSTANTS web, api

TwoPools == {web, api}

(* Two paths, one with '=' in it, what the sign leaves of it, which nobody *)
(* configures, and a port with two spellings: of all interfaces, and of    *)
(* one of them.                                                            *)
Paths      == {"/a", "/b=c", "/b"}
Ports      == {"9000", "127.0.0.1:9000"}
Places     == Paths \cup {"port"}
Leads      == [a \in Address |-> IF a \in Ports THEN "port" ELSE a]
AnyConfig  == [Pool -> Address \ {"/b"}]
CutAtSign  == [a \in Address |-> IF a = "/b=c" THEN "/b" ELSE None]
=============================================================================
