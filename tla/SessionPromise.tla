--------------------------- MODULE SessionPromise ---------------------------
(***************************************************************************)
(* What the auth module promises about sessions, whatever the order of the *)
(* statements of its calls: refresh tokens form chains, one per login; a   *)
(* chain grows only from a token a client holds; a client gets a successor *)
(* only when its predecessor is retired; what is retired stays retired;    *)
(* and tokens are retired only through a token that some client holds, all *)
(* those of a user at once only by presenting a retired one of that user.  *)
(*                                                                         *)
(* RefreshTokens implements it (SessionSpec).                              *)
(***************************************************************************)

CONSTANTS
  NULL,    \* no token, no parent
  Tokens,  \* the tokens that may be issued
  Users    \* the owners of the sessions

VARIABLES
  session,  \* per token: its owner, its predecessor and whether it lives; NULL before it exists
  held      \* the tokens clients hold

vars == <<session, held>>

Live(k) == session[k] # NULL /\ session[k].live

Retired(k) == session[k] # NULL /\ ~ session[k].live

-----------------------------------------------------------------------------

Create(k, u, p) ==
  /\ session[k] = NULL
  /\ session' = [session EXCEPT ![k] = [owner |-> u, parent |-> p, live |-> TRUE]]
  /\ UNCHANGED held

(* A login opens a chain.                                                  *)
Open(k, u) == Create(k, u, NULL)

(* A refresh continues the chain of a token that a client holds.           *)
Succeed(k, p) ==
  /\ p \in held
  /\ session[p] # NULL
  /\ Create(k, session[p].owner, p)

(* A client gets a token once its predecessor is retired.                  *)
Deliver(k) ==
  /\ session[k] # NULL
  /\ session[k].parent # NULL => Retired(session[k].parent)
  /\ held' = held \cup {k}
  /\ UNCHANGED session

(* A rotation or a logout ends one token, one that a client holds.         *)
Retire(k) ==
  /\ k \in held
  /\ Live(k)
  /\ session' = [session EXCEPT ![k].live = FALSE]
  /\ UNCHANGED held

(* Presenting the retired token k ends all that its owner has.             *)
EndFamily(k) ==
  /\ k \in held
  /\ Retired(k)
  /\ session' = [other \in Tokens |->
       IF Live(other) /\ session[other].owner = session[k].owner
         THEN [session[other] EXCEPT !.live = FALSE] ELSE session[other]]
  /\ UNCHANGED held

Init ==
  /\ session = [k \in Tokens |-> NULL]
  /\ held = {}

Next ==
  \E k \in Tokens :
    \/ \E u \in Users : Open(k, u)
    \/ \E p \in Tokens : Succeed(k, p)
    \/ Deliver(k)
    \/ Retire(k)
    \/ EndFamily(k)

Spec == Init /\ [][Next]_vars
=============================================================================
