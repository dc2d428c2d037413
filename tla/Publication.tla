----------------------------- MODULE Publication ------------------------------
(***************************************************************************)
(* What PUT /uploads/{id} and PUT /runs/{id}/metrics/{request} promise:    *)
(* however often a request is sent, what readers find of it in a table of  *)
(* the database appears there once and never changes, and success is not   *)
(* answered before it is in every table that it belongs in.                *)
(***************************************************************************)
EXTENDS Integers

CONSTANTS
    Requests,  \* upload and metric request IDs
    Parts      \* pairs of a request and a table that it has rows for

VARIABLES
    view,   \* per part: what readers see of it, or 0
    answer  \* per request: what the client was told

TypeOK ==
    /\ view \in [Parts -> Nat]
    /\ answer \in [Requests -> {"none", "ok", "refused"}]

Init ==
    /\ view = [p \in Parts |-> 0]
    /\ answer = [u \in Requests |-> "none"]

Publish(p) ==
    /\ view[p] = 0 /\ view'[p] # 0
    /\ view' = [view EXCEPT ![p] = view'[p]]
    /\ UNCHANGED answer

Accept(u) ==
    /\ answer[u] = "none"
    /\ \A p \in Parts : p[1] = u => view[p] # 0
    /\ answer' = [answer EXCEPT ![u] = "ok"]
    /\ UNCHANGED view

(* A request may be refused that earlier attempts have published, in part  *)
(* or whole, or that one still running will.                               *)
Refuse(u) ==
    /\ answer[u] = "none"
    /\ answer' = [answer EXCEPT ![u] = "refused"]
    /\ UNCHANGED view

Next == (\E p \in Parts : Publish(p)) \/ \E u \in Requests : Accept(u) \/ Refuse(u)

Spec == Init /\ [][Next]_<<view, answer>>
=============================================================================
