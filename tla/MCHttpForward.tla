--------------------------- MODULE MCHttpForward ---------------------------
(* Two hosts and two ports make a foreign host and a foreign port; with two *)
(* redirects a scheme can change twice and the limit is reached.            *)
EXTENDS HttpForward

MCHosts == {"h", "g"}
MCPorts == {80, 81}
MCMethods == {"GET", "HEAD", "POST"}
MCMaxRedirects == 2
=============================================================================
