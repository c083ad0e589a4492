---------------------------- MODULE MCRequestPath ----------------------------
(***************************************************************************)
(* Two requests.  Either both work on the database under one deployment,   *)
(* or one of them is any request there is, under every deployment.         *)
(***************************************************************************)
EXTENDS RequestPath, TLC

CONSTANTS r1, r2, proxy, client, other, nobody, garbled

MCRequests == {r1, r2}
MCCallers == MCRequests \X DatabaseSteps
MCProxies == {proxy}
MCOutsiders == {client, other}
MCPoolSizes == {1, 2}
MCMaxHops == 2

Plain(op) ==
    [op |-> op, peer |-> client, chain |-> <<>>, bearer |-> "right", large |-> FALSE,
     json |-> TRUE, input |-> "valid", condition |-> IF op \in Conditional THEN "given" ELSE "absent"]

WithKey == [Plain("create") EXCEPT !.condition = "given"]

\* Every operation, and every way one of its parts can be unlike the usual.
Variants(q) ==
    {q}
    \cup {[q EXCEPT !.bearer = b] : b \in {"absent", "wrong"}}
    \cup {[q EXCEPT !.condition = c] : c \in {"absent", "given"}}
    \cup (IF q.op \in Conditional \cup {"get"} THEN {[q EXCEPT !.condition = "malformed"]} ELSE {})
    \cup (IF q.op # "wrongMethod" THEN {[q EXCEPT !.large = TRUE]} ELSE {})
    \cup (IF q.op \in UserOperations THEN {[q EXCEPT !.input = "invalid"]} ELSE {})
    \cup (IF q.op \in WithBody THEN {[q EXCEPT !.json = FALSE]} ELSE {})

\* Where a request can come from: unknown, unreadable, direct, and through
\* a proxy with chains that can and cannot be read.
Origins ==
    {[peer |-> p, chain |-> <<>>] : p \in {nobody, garbled, client, proxy}}
    \cup {[peer |-> client, chain |-> <<other>>]}
    \cup {[peer |-> proxy, chain |-> c] :
              c \in {<<client>>, <<other, client>>, <<client, proxy>>, <<proxy, proxy>>,
                     <<garbled, client>>, <<other, client, proxy>>}}

AllRequests ==
    UNION {Variants(Plain(op)) : op \in Operations}
    \cup {[Plain("get") EXCEPT !.peer = o.peer, !.chain = o.chain] : o \in Origins}

Full == [tenant |-> TRUE, scopes |-> {"users:read", "users:write"}]

Configured(limiter, resolver, principal) ==
    [limiter |-> limiter, resolver |-> resolver, principal |-> principal]

Configurations ==
    {Configured(l, TRUE, Full) : l \in {"none", "fixed_window", "gcra"}}
    \cup {Configured("gcra", TRUE, [Full EXCEPT !.scopes = {"users:read"}]),
          Configured("none", TRUE, [Full EXCEPT !.tenant = FALSE]),
          Configured("none", FALSE, Full)}

MCScenarios ==
    {[requests |-> (r1 :> WithKey @@ r2 :> q), deployment |-> Configured(l, TRUE, Full)] :
         q \in {WithKey, Plain("create"), Plain("update")}, l \in {"none", "gcra"}}
    \cup {[requests |-> (r1 :> a @@ r2 :> Plain("live")), deployment |-> d] :
              a \in AllRequests, d \in Configurations}
===============================================================================
