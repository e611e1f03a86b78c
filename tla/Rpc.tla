-------------------------------- MODULE Rpc --------------------------------
(***************************************************************************)
(* What a fetch through the tunnel promises to the page that issued it.    *)
(*                                                                         *)
(* A call is issued once, is settled once (p2p-sw.js, p2pFetch: resolve or *)
(* reject), and is answered only with what the upstream replied to that    *)
(* very call, once.  The upstream may serve a call whose caller has        *)
(* already given up.                                                       *)
(***************************************************************************)
CONSTANTS Requests,     \* the calls
          Replies,      \* what an upstream may reply
          Nothing       \* no reply

VARIABLES call,         \* call[r]: what the issuer of r sees
          reply,        \* reply[r]: what the upstream has replied to r
          result        \* result[r]: what the issuer of r was given

vars == <<call, reply, result>>

Init == /\ call = [r \in Requests |-> "idle"]
        /\ reply = [r \in Requests |-> Nothing]
        /\ result = [r \in Requests |-> Nothing]

Issue(r) == /\ call[r] = "idle"
            /\ call' = [call EXCEPT ![r] = "pending"]
            /\ UNCHANGED <<reply, result>>

Serve(r) == /\ call[r] # "idle"
            /\ reply[r] = Nothing
            /\ \E v \in Replies : reply' = [reply EXCEPT ![r] = v]
            /\ UNCHANGED <<call, result>>

Answer(r) == /\ call[r] = "pending"
             /\ reply[r] # Nothing
             /\ call' = [call EXCEPT ![r] = "answered"]
             /\ result' = [result EXCEPT ![r] = reply[r]]
             /\ UNCHANGED reply

Fail(r) == /\ call[r] = "pending"
           /\ call' = [call EXCEPT ![r] = "failed"]
           /\ UNCHANGED <<reply, result>>

Next == \E r \in Requests : Issue(r) \/ Serve(r) \/ Answer(r) \/ Fail(r)

Spec == Init /\ [][Next]_vars

\* A call that was issued is settled.
Settles == \A r \in Requests : call[r] = "pending" ~> call[r] \in {"answered", "failed"}
=============================================================================
