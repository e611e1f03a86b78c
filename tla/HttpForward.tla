---------------------------- MODULE HttpForward ----------------------------
(***************************************************************************)
(* forwardHTTP (proxy.go:162-346): one request forwarded to the target,    *)
(* redirects followed by hand.                                             *)
(*                                                                         *)
(* A URL is its scheme, host name and port; paths, queries and headers are *)
(* left out.  The upstream is external: it answers what it likes, or not.  *)
(***************************************************************************)
EXTENDS Integers, Sequences

CONSTANTS Hosts, Ports,
          Methods,          \* the methods of the requests, "GET" among them
          MaxRedirects      \* proxy.go:157

ASSUME MaxRedirectsAssumption == MaxRedirects \in Nat
ASSUME MethodsAssumption == "GET" \in Methods

Schemes == {"http", "https", "other"}
URLs == [scheme : Schemes, host : Hosts, port : Ports]

Permanent == {301, 302, 303}        \* the method is rewritten
Preserving == {307, 308}            \* method and body are kept
Redirects == Permanent \cup Preserving
Statuses == {200, 302, 307}         \* one of each kind

\* A Location header is what it resolves to against the request's URL; "goes" is
\* FALSE when there is none or url.Parse refuses it.
Responses(u) == {[status |-> s, goes |-> TRUE, next |-> n] : s \in Statuses, n \in URLs}
                   \cup {[status |-> s, goes |-> FALSE, next |-> u] : s \in Statuses}

VARIABLES
    pc,             \* "start", "do", "examine", "finish", "done"
    target,         \* targetURL
    url,            \* reqURL
    method, body,   \* currentMethod and whether bodyBytes is non-empty
    count,          \* redirectCount
    resp,           \* lastResp: status and Location of the last response
    open,           \* the hops whose response body is not closed
    contacted,      \* history: the requests sent upstream
    result          \* what forwardHTTP returned

vars == <<pc, target, url, method, body, count, resp, open, contacted, result>>

NoResp == [status |-> 0, goes |-> FALSE, next |-> target]

Return(r) == /\ pc' = "done"
             /\ result' = r

-----------------------------------------------------------------------------
Init ==
    /\ pc = "start"
    /\ target \in URLs
    /\ url = target
    /\ method \in Methods
    /\ body \in BOOLEAN
    /\ count = 0
    /\ resp = NoResp
    /\ open = {}
    /\ contacted = <<>>
    /\ result = "none"

\* The target is no http(s) URL, or the path, the body or the method is bad.
Refuse ==
    /\ pc = "start"
    /\ Return("error")
    /\ UNCHANGED <<target, url, method, body, count, resp, open, contacted>>

Start ==
    /\ pc = "start"
    /\ target.scheme \in {"http", "https"}
    /\ pc' = "do"
    /\ UNCHANGED <<target, url, method, body, count, resp, open, contacted, result>>

Request == [url |-> url, method |-> method, body |-> body]

\* client.Do: the previous body is closed first.
DoOK ==
    /\ pc = "do"
    /\ url.scheme # "other"
    /\ contacted' = Append(contacted, Request)
    /\ resp' \in Responses(url)
    /\ open' = (open \ {count - 1}) \cup {count}
    /\ pc' = "examine"
    /\ UNCHANGED <<target, url, method, body, count, result>>

\* Connection refused, timeout (proxy.go:514), unsupported scheme.
DoError ==
    /\ pc = "do"
    /\ contacted' \in {contacted, Append(contacted, Request)}
    /\ url.scheme = "other" => contacted' = contacted
    /\ open' = open \ {count - 1}
    /\ resp' = NoResp
    /\ Return("error")
    /\ UNCHANGED <<target, url, method, body, count>>

\* A response to hand over, or a redirect that says nowhere to go.
Break ==
    /\ pc = "examine"
    /\ resp.status \in Redirects => ~resp.goes
    /\ pc' = "finish"
    /\ UNCHANGED <<target, url, method, body, count, resp, open, contacted, result>>

Followable == /\ pc = "examine"
              /\ resp.status \in Redirects
              /\ resp.goes

\* Mutant: the second check is missing.
AllowedAnyScheme(next) == next.host = target.host

Allowed(next) == /\ next.host = target.host
                 /\ ~(target.scheme = "https" /\ next.scheme = "http")

\* Mutant: returns without closing the body.
BlockOpen ==
    /\ Followable
    /\ ~Allowed(resp.next)
    /\ Return("blocked")
    /\ UNCHANGED <<target, url, method, body, count, resp, open, contacted>>

Block ==
    /\ Followable
    /\ ~Allowed(resp.next)
    /\ open' = open \ {count}
    /\ Return("blocked")
    /\ UNCHANGED <<target, url, method, body, count, resp, contacted>>

\* Mutant: the limit is tested before the counter moves.
FollowOneMore ==
    /\ Followable
    /\ Allowed(resp.next)
    /\ url' = resp.next
    /\ IF resp.status \in Permanent
       THEN method' = "GET" /\ body' = FALSE
       ELSE UNCHANGED <<method, body>>
    /\ count' = count + 1
    /\ pc' = IF count <= MaxRedirects THEN "do" ELSE "finish"
    /\ UNCHANGED <<target, resp, open, contacted, result>>

\* Mutant: bodyBytes survives the change of method.
FollowWithBody ==
    /\ Followable
    /\ Allowed(resp.next)
    /\ url' = resp.next
    /\ method' = IF resp.status \in Permanent THEN "GET" ELSE method
    /\ count' = count + 1
    /\ pc' = IF count < MaxRedirects THEN "do" ELSE "finish"
    /\ UNCHANGED <<target, body, resp, open, contacted, result>>

\* One more round of the loop, or its end.
Follow ==
    /\ Followable
    /\ Allowed(resp.next)
    /\ url' = resp.next
    /\ IF resp.status \in Permanent
       THEN method' = "GET" /\ body' = FALSE
       ELSE UNCHANGED <<method, body>>
    /\ count' = count + 1
    /\ pc' = IF count < MaxRedirects THEN "do" ELSE "finish"
    /\ UNCHANGED <<target, resp, open, contacted, result>>

\* Mutant: the status is not looked at again.
FinishUnchecked ==
    /\ pc = "finish"
    /\ Return("ok") \/ Return("error")
    /\ open' = {}
    /\ UNCHANGED <<target, url, method, body, count, resp, contacted>>

\* After the loop: a response that is still a redirect is not handed over.
Finish ==
    /\ pc = "finish"
    /\ IF resp.status \in Redirects
       THEN Return("limit")
       ELSE Return("ok") \/ Return("error")
    /\ open' = {}
    /\ UNCHANGED <<target, url, method, body, count, resp, contacted>>

Next == Refuse \/ Start \/ DoOK \/ DoError \/ Break \/ Block \/ Follow \/ Finish

Spec == Init /\ [][Next]_vars

-----------------------------------------------------------------------------
TypeOK ==
    /\ pc \in {"start", "do", "examine", "finish", "done"}
    /\ target \in URLs
    /\ url \in URLs
    /\ method \in Methods
    /\ body \in BOOLEAN
    /\ count \in 0 .. MaxRedirects + 1
    /\ resp \in [status : Statuses \cup {0}, goes : BOOLEAN, next : URLs]
    /\ open \in SUBSET (0 .. MaxRedirects)
    /\ contacted \in Seq([url : URLs, method : Methods, body : BOOLEAN])
    /\ result \in {"none", "ok", "error", "blocked", "limit"}

\* However the upstream redirects, nothing but the target's host is contacted,
\* and never over http when the target is https (proxy.go:267-279).
OnlyTheTarget ==
    \A i \in DOMAIN contacted :
        /\ contacted[i].url.host = target.host
        /\ target.scheme = "https" => contacted[i].url.scheme = "https"

\* A body is sent again only while the method that came with it is kept: a
\* request that carries it has the method of the one before, which carried it
\* too (proxy.go:283-288).
BodyWithItsMethod ==
    \A i, j \in DOMAIN contacted :
        i < j /\ contacted[j].body =>
            contacted[i].body /\ contacted[i].method = contacted[j].method

\* At most one response body is open at a time and none is left open by any of
\* the returns (proxy.go:232, 269, 276, 296, 302, 308).
NoBodyLeak ==
    /\ \A h, k \in open : h = k
    /\ pc = "done" => open = {}

\* The upstream is asked at most MaxRedirects + 1 times, and what is handed
\* over is a final answer.
Bounded ==
    /\ Len(contacted) <= MaxRedirects + 1
    /\ result = "ok" => resp.status \notin Redirects /\ contacted # <<>>

=============================================================================
