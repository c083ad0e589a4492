------------------------- MODULE IdempotentCreation -------------------------
(***************************************************************************)
(* What POST /users promises of an Idempotency-Key, without transactions,  *)
(* statements, locks, retries or two tables: a key that is bound resolves  *)
(* to one user, it is bound in the step that creates the user, and it      *)
(* comes loose only when its window has ended or its user is deleted.      *)
(***************************************************************************)
EXTENDS Naturals

CONSTANTS Creates, Keys, NoKey, Payloads, UserIds, NoUser, TTL

VARIABLES
  live,       \* the users that exist
  used,       \* the users that ever existed
  binding,    \* rows [key, fp, user, exp]: what a key resolves to, and until when
  clock,
  request,    \* the key and the payload of each request
  resolved    \* the user a request has resolved to

vars == <<live, used, binding, clock, request, resolved>>

Init ==
  /\ live = {} /\ used = {} /\ binding = {}
  /\ clock = 0
  /\ request \in [Creates -> [key : Keys \union {NoKey}, fp : Payloads]]
  /\ resolved = [r \in Creates |-> NoUser]

\* A new user, and the key bound to it, provided no window is open for the key.
\* The caller may never learn of it.
CreateUser(r) ==
  \E u \in UserIds \ used :
    /\ live' = live \union {u}
    /\ used' = used \union {u}
    /\ \/ request[r].key = NoKey /\ UNCHANGED binding
       \/ /\ request[r].key # NoKey
          /\ \A b \in binding : b.key = request[r].key => b.exp <= clock
          /\ \E start \in 0 .. clock :
               binding' = {b \in binding : b.key # request[r].key}
                 \union {[key |-> request[r].key, fp |-> request[r].fp,
                          user |-> u, exp |-> start + TTL]}
    /\ resolved' \in {resolved, [resolved EXCEPT ![r] = u]}
    /\ UNCHANGED <<clock, request>>

\* A repeated request resolves to the user its key is bound to, if the payload
\* is the one it was bound with.
Resolve(r) ==
  /\ \E b \in binding :
       /\ b.key = request[r].key /\ b.fp = request[r].fp
       /\ resolved' = [resolved EXCEPT ![r] = b.user]
  /\ UNCHANGED <<live, used, binding, clock, request>>

\* A request fails and answers with no user.
GiveUp(r) ==
  /\ resolved' = [resolved EXCEPT ![r] = NoUser]
  /\ UNCHANGED <<live, used, binding, clock, request>>

DeleteUser ==
  /\ \E u \in live :
       /\ live' = live \ {u}
       /\ binding' = {b \in binding : b.user # u}
  /\ UNCHANGED <<used, clock, request, resolved>>

Expire ==
  /\ \E gone \in SUBSET {b \in binding : b.exp <= clock} : binding' = binding \ gone
  /\ UNCHANGED <<live, used, clock, request, resolved>>

Tick == clock' = clock + 1 /\ UNCHANGED <<live, used, binding, request, resolved>>

Next ==
  \/ \E r \in Creates : CreateUser(r) \/ Resolve(r) \/ GiveUp(r)
  \/ DeleteUser \/ Expire \/ Tick

Spec == Init /\ [][Next]_vars
=============================================================================
