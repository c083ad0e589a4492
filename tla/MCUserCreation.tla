--------------------------- MODULE MCUserCreation ---------------------------
(***************************************************************************)
(* Small instances of UserCreation for TLC.                                *)
(***************************************************************************)
EXTENDS UserCreation, TLC

CONSTANTS b1, b2, e1, e2

\* Two bodies with different emails.
MCEmailOf == b1 :> e1 @@ b2 :> e2

\* If-Match: * accepts every version, W/"..." alone none, "1" and "2" their own.
AllPreconditions == {{}, {1}, {2}, {1, 2, 3}}
FirstVersion     == {{1}}
AnyVersion       == {{1, 2, 3}}

\* A request sent again: the same body under the same key.
SentAgain ==
  \A c, d \in Creates : IsKeyed(c) /\ request[c] = request[d]

RetrySpec == Init /\ SentAgain /\ [][Next]_vars

\* Requests of one kind, and user ids, are interchangeable.
Symmetric == Permutations(Creates) \union Permutations(UserIds)
=============================================================================
