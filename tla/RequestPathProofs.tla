-------------------------- MODULE RequestPathProofs --------------------------
(***************************************************************************)
(* What holds of every request on its way, for any requests, any           *)
(* deployment and any size of the pool.                                    *)
(***************************************************************************)
EXTENDS RequestPath, SequenceTheorems, FiniteSetTheorems, TLAPS

(***************************************************************************)
(* The first refusal                                                       *)
(***************************************************************************)
\* The statuses with which something before the operation refuses a user operation.
EarlyRefusals(op) == {400, 401, 403, 413, 500} \cup (IF op \in Conditional THEN {428} ELSE {})

LEMMA FirstRefusals ==
  ASSUME NEW q \in Request, NEW principal, q.op \in UserOperations
  PROVE  /\ FirstRefusal(q, principal) \in EarlyRefusals(q.op) \cup {Accepted}
         /\ FirstRefusal(q, principal) = Accepted =>
              /\ principal # NoPrincipal /\ principal.tenant
              /\ RequiredScope(q.op) \in principal.scopes
              /\ ~q.large /\ q.input = "valid" /\ (q.op \in WithBody => q.json)
  <1> DEFINE S == EarlyRefusals(q.op)
             Tag == EntityTagRefusals(q)
             Who == TenantRefusals(q, principal)
             Pre == PreconditionRefusals(q)
             Late == Who \o Pre
             All == RoutingRefusals(q) \o BodyRefusals(q) \o UnknownPathRefusals(q)
                      \o ValidationRefusals(q) \o Tag \o Late
  <1>1. q.op \notin {"wrongMethod", "unknown", "patchCursor"} /\ q.large \in BOOLEAN
    BY DEF UserOperations, Request
  <1>2. RoutingRefusals(q) = <<>> /\ UnknownPathRefusals(q) = <<>>
    BY <1>1 DEF RoutingRefusals, UnknownPathRefusals, Refusal
  <1>3. BodyRefusals(q) \in Seq(S) /\ (BodyRefusals(q) = <<>> => ~q.large)
    <2>1. 413 \in S
      BY DEF EarlyRefusals
    <2> HIDE DEF S
    <2> QED BY <1>1, <2>1 DEF BodyRefusals, Refusal
  <1>4. /\ ValidationRefusals(q) \in Seq(S)
        /\ ValidationRefusals(q) = <<>> =>
             q.input = "valid" /\ (q.op \in WithBody => q.json)
    <2> DEFINE a == Refusal(q.op = "patchCursor" \/ q.input = "invalid", 400)
               b == Refusal(q.op \in WithBody /\ ~q.json, 500)
    <2>1. 400 \in S /\ 500 \in S
      BY DEF EarlyRefusals
    <2>2. q.input # "invalid" => q.input = "valid"
      BY DEF Request
    <2> HIDE DEF S
    <2>3. a \in Seq(S) /\ (a = <<>> => q.input = "valid")
      BY <2>1, <2>2 DEF Refusal
    <2>4. b \in Seq(S) /\ (b = <<>> => (q.op \in WithBody => q.json))
      BY <2>1 DEF Refusal
    <2>5. ValidationRefusals(q) = a \o b
      BY DEF ValidationRefusals
    <2> HIDE DEF a, b
    <2> QED BY <2>3, <2>4, <2>5, ConcatProperties, ConcatEqualIffEmpty
  <1>5. Tag \in Seq(S)
    <2>1. 400 \in S
      BY DEF EarlyRefusals
    <2> HIDE DEF S
    <2> QED BY <2>1 DEF EntityTagRefusals, Refusal
  <1>6. Who \in Seq(S) /\ (Who = <<>> => /\ principal # NoPrincipal /\ principal.tenant
                                         /\ RequiredScope(q.op) \in principal.scopes)
    <2> DEFINE a == Refusal(principal = NoPrincipal, 401)
               b == Refusal(~principal.tenant, 403)
               c == Refusal(RequiredScope(q.op) \notin principal.scopes, 403)
    <2>0. 401 \in S /\ 403 \in S
      BY DEF EarlyRefusals
    <2> HIDE DEF S
    <2>1. a \in Seq(S) /\ (a = <<>> => principal # NoPrincipal)
      BY <2>0 DEF Refusal
    <2>2. b \in Seq(S) /\ (b = <<>> => principal.tenant)
      BY <2>0 DEF Refusal
    <2>3. c \in Seq(S) /\ (c = <<>> => RequiredScope(q.op) \in principal.scopes)
      BY <2>0 DEF Refusal
    <2>4. Who = a \o b \o c
      BY DEF TenantRefusals
    <2> HIDE DEF a, b, c, Who
    <2> DEFINE ab == a \o b
    <2>5. ab \in Seq(S) /\ (ab = <<>> => a = <<>> /\ b = <<>>)
      BY <2>1, <2>2, ConcatProperties, ConcatEqualIffEmpty
    <2>6. Who = ab \o c
      BY <2>4
    <2> HIDE DEF ab
    <2>7. Who \in Seq(S) /\ (Who = <<>> => ab = <<>> /\ c = <<>>)
      BY <2>3, <2>5, <2>6, ConcatProperties, ConcatEqualIffEmpty
    <2> QED BY <2>1, <2>2, <2>3, <2>5, <2>7
  <1>7. Pre \in Seq(S)
    <2>1. CASE q.op \in Conditional
      <3>1. 428 \in S
        BY <2>1 DEF EarlyRefusals
      <3> HIDE DEF S
      <3> QED BY <3>1 DEF PreconditionRefusals, Refusal
    <2>2. CASE q.op \notin Conditional
      BY <2>2 DEF PreconditionRefusals, Refusal
    <2> QED BY <2>1, <2>2
  <1>8. FirstRefusal(q, principal) = IF All = <<>> THEN Accepted ELSE Head(All)
    BY DEF FirstRefusal
  <1>9. Accepted \notin S
    BY DEF EarlyRefusals, Accepted
  <1> HIDE DEF S, Tag, Who, Pre
  <1>10. <<>> \in Seq(S)
    OBVIOUS
  <1> DEFINE R1 == <<>> \o BodyRefusals(q)
             R2 == R1 \o <<>>
             R3 == R2 \o ValidationRefusals(q)
             R4 == R3 \o Tag
  <1>11. Late \in Seq(S) /\ (Late = <<>> => Who = <<>>)
    BY <1>6, <1>7, ConcatProperties, ConcatEqualIffEmpty
  <1>12. R1 \in Seq(S) /\ (R1 = <<>> => BodyRefusals(q) = <<>>)
    BY <1>3, <1>10, ConcatProperties, ConcatEqualIffEmpty
  <1> HIDE DEF Late, R1
  <1>13. R2 \in Seq(S) /\ (R2 = <<>> => R1 = <<>>)
    BY <1>10, <1>12, ConcatProperties, ConcatEqualIffEmpty
  <1> HIDE DEF R2
  <1>14. R3 \in Seq(S) /\ (R3 = <<>> => R2 = <<>> /\ ValidationRefusals(q) = <<>>)
    BY <1>4, <1>13, ConcatProperties, ConcatEqualIffEmpty
  <1> HIDE DEF R3
  <1>15. R4 \in Seq(S) /\ (R4 = <<>> => R3 = <<>>)
    BY <1>5, <1>14, ConcatProperties, ConcatEqualIffEmpty
  <1> HIDE DEF R4
  <1>16. R4 \o Late \in Seq(S) /\ (R4 \o Late = <<>> => R4 = <<>> /\ Late = <<>>)
    BY <1>11, <1>15, ConcatProperties, ConcatEqualIffEmpty
  <1>17. All = R4 \o Late
    BY <1>2 DEF R1, R2, R3, R4
  <1> HIDE DEF All
  <1>18. All # <<>> => Head(All) \in S
    BY <1>16, <1>17, HeadTailProperties
  <1> QED
    BY <1>3, <1>4, <1>6, <1>8, <1>9, <1>11, <1>12, <1>13, <1>14, <1>15, <1>16, <1>17, <1>18 DEF S

(***************************************************************************)
(* The client                                                              *)
(***************************************************************************)
\* A set of positions has a last one.
LEMMA LastPosition ==
  ASSUME NEW n \in Nat, NEW T \in SUBSET (1 .. n), T # {}
  PROVE  Max(T) \in T /\ \A i \in T : i <= Max(T)
  <1> DEFINE S == 1 .. n
             Beyond(i) == (i + 1) .. n
             D == {Beyond(i) : i \in T}
             R == StrictSubsetOrdering(S)
  <1>0. IsFiniteSet(S)
    BY FS_Interval
  <1>1. IsWellFoundedOn(R, SUBSET S)
    <2> HIDE DEF S
    <2>1. IsWellFoundedOn(StrictSubsetOrdering(S), FiniteSubsetsOf(S))
      BY FS_StrictSubsetOrderingWellFounded
    <2>2. FiniteSubsetsOf(S) = SUBSET S
      BY <1>0, FS_FiniteSubsetsOfFinite
    <2> QED BY <2>1, <2>2
  <1>2. D \subseteq SUBSET S /\ D # {}
    <2>1. \A i \in T : Beyond(i) \subseteq S
      OBVIOUS
    <2> HIDE DEF S, Beyond
    <2> QED BY <2>1
  <1> HIDE DEF D, R, S
  <1>3. \E d \in D : \A e \in D : <<e, d>> \notin R
    BY <1>1, <1>2, WFMin
  <1>4. PICK m \in T : \A i \in T : <<Beyond(i), Beyond(m)>> \notin R
    BY <1>3 DEF D
  <1>5. ASSUME NEW i \in T, i > m PROVE FALSE
    <2>1. Beyond(i) \subseteq Beyond(m) /\ i \in Beyond(m) /\ i \notin Beyond(i)
      BY <1>5
    <2>2. Beyond(i) \in SUBSET S /\ Beyond(m) \in SUBSET S
      BY DEF S
    <2> QED BY <1>4, <2>1, <2>2 DEF R, StrictSubsetOrdering
  <1>6. \A i \in T : m >= i
    BY <1>5
  <1> QED BY <1>6 DEF Max

\* A hop that is put in front of a chain that names a client changes nothing.
LEMMA ForgedHop ==
  ASSUME NEW peer, NEW A, NEW chain \in Seq(A), NEW forged \in A,
         ClientAddress(peer, chain) # peer, ~(Range(chain) \subseteq Proxies)
  PROVE  ClientAddress(peer, <<forged>> \o chain) \in {ClientAddress(peer, chain), peer}
  <1> DEFINE long == <<forged>> \o chain
             Outside(c) == {i \in DOMAIN c : c[i] \notin Proxies}
  <1>1. /\ long \in Seq(A) /\ Len(long) = Len(chain) + 1 /\ Len(chain) \in Nat
        /\ DOMAIN chain = 1 .. Len(chain) /\ DOMAIN long = 1 .. Len(chain) + 1
        /\ \A i \in 1 .. Len(chain) : long[i + 1] = chain[i]
    OBVIOUS
  <1>2. Outside(chain) # {} /\ Outside(chain) \in SUBSET (1 .. Len(chain))
    BY <1>1 DEF Range
  <1> DEFINE m == Max(Outside(chain))
  <1>3. m \in Outside(chain) /\ \A i \in Outside(chain) : i <= m
    BY <1>1, <1>2, LastPosition
  <1>4. ClientAddress(peer, chain) = chain[m]
    BY <1>2 DEF ClientAddress
  <1> HIDE DEF long, m
  <1>5. m + 1 \in Outside(long) /\ \A i \in Outside(long) : i <= m + 1
    <2>1. m + 1 \in Outside(long)
      BY <1>1, <1>3
    <2>2. ASSUME NEW i \in Outside(long), i > m + 1 PROVE FALSE
      <3>1. i - 1 \in 1 .. Len(chain) /\ i = (i - 1) + 1
        BY <1>1, <1>3, <2>2
      <3>2. chain[i - 1] \notin Proxies
        BY <1>1, <2>2, <3>1
      <3> QED BY <1>1, <1>3, <2>2, <3>1, <3>2
    <2> QED BY <1>1, <1>3, <2>1, <2>2
  <1>6. Outside(long) # {} /\ Outside(long) \in SUBSET (1 .. Len(long))
    BY <1>1, <1>5
  <1>7. Max(Outside(long)) = m + 1
    <2> DEFINE O == Outside(long)
    <2>0. Len(long) \in Nat /\ O # {} /\ O \in SUBSET (1 .. Len(long))
      BY <1>1, <1>6
    <2>1. m + 1 \in O /\ \A i \in O : i <= m + 1
      BY <1>5
    <2> HIDE DEF O
    <2>2. Max(O) \in O /\ \A i \in O : i <= Max(O)
      BY <2>0, LastPosition
    <2>3. \A i \in O : i \in Nat
      BY <2>0
    <2> QED BY <2>1, <2>2, <2>3 DEF O
  <1>8. ClientAddress(peer, long) \in {long[m + 1], peer}
    BY <1>6, <1>7 DEF ClientAddress
  <1> QED BY <1>1, <1>3, <1>4, <1>8 DEF long

(***************************************************************************)
(* The answers                                                             *)
(***************************************************************************)
\* The part of ContractKept that is about one answer.
Declared(op, a) ==
    LET plain == Answer(a.status, a.cache, a.headers \ {"RateLimit"})
    IN  \/ plain \in Route(op).successes
        \/ /\ a.status \in Route(op).refusals \cup {413, 500}
           /\ a.cache = "no-store"
           /\ a.status = 429 => RateLimitExceededResponseHeaders \subseteq a.headers

IsAnswer(a) == \E s, c, h : a = Answer(s, c, h)

WithQuota(a) == [a EXCEPT !.headers = @ \cup {"RateLimit"}]

LEMMA QuotaDeclared ==
  ASSUME NEW op, NEW a, IsAnswer(a), Declared(op, a)
  PROVE  Declared(op, WithQuota(a)) /\ WithQuota(a).status = a.status
  <1> PICK s, c, h : a = Answer(s, c, h)
    BY DEF IsAnswer
  <1>1. a.status = s /\ a.cache = c /\ a.headers = h
    BY DEF Answer
  <1>2. /\ WithQuota(a).status = s /\ WithQuota(a).cache = c
        /\ WithQuota(a).headers = h \cup {"RateLimit"}
    BY DEF Answer, WithQuota
  <1>3. (h \cup {"RateLimit"}) \ {"RateLimit"} = h \ {"RateLimit"}
    OBVIOUS
  <1> HIDE DEF WithQuota
  <1> QED BY <1>1, <1>2, <1>3 DEF Declared

LEMMA ErrorDeclared ==
  ASSUME NEW op, NEW s \in Route(op).refusals \cup {413, 500}, NEW h, s # 429
  PROVE  Declared(op, ErrorAnswer(s, h)) /\ IsAnswer(ErrorAnswer(s, h))
  <1> DEFINE a == ErrorAnswer(s, h)
  <1>1. a = Answer(s, "no-store", h) /\ a.status = s /\ a.cache = "no-store"
    BY DEF ErrorAnswer, Answer
  <1> HIDE DEF a
  <1>2. Declared(op, a) /\ IsAnswer(a)
    BY <1>1 DEF Declared, IsAnswer
  <1> QED BY <1>2 DEF a

LEMMA RoutesRefuse ==
  ASSUME NEW op \in UserOperations
  PROVE  /\ EarlyRefusals(op) \cup {429, 503, 504} \subseteq Route(op).refusals \cup {413, 500}
         /\ op \in {"get", "update", "delete"} => 404 \in Route(op).refusals
         /\ op \in {"update", "delete"} => 412 \in Route(op).refusals
         /\ op \in {"create", "update"} => 409 \in Route(op).refusals
         /\ op = "create" => 422 \in Route(op).refusals
  <1> DEFINE R == Route(op).refusals
  <1>1. CASE op = "create"
    <2>1. R = {400, 401, 403, 409, 413, 422, 429} \cup DatabaseFailureResponses
      <3>1. Route(op) = CreateUserRoute
        BY <1>1 DEF Route
      <3>2. CreateUserRoute.refusals = {400, 401, 403, 409, 413, 422, 429} \cup DatabaseFailureResponses
        BY DEF CreateUserRoute
      <3> QED BY <3>1, <3>2
    <2> HIDE DEF R
    <2>2. EarlyRefusals(op) = {400, 401, 403, 413, 500}
      BY <1>1 DEF EarlyRefusals, Conditional
    <2> QED BY <1>1, <2>1, <2>2 DEF R, DatabaseFailureResponses
  <1>2. CASE op = "list"
    <2>1. R = {400, 401, 403, 429} \cup DatabaseFailureResponses
      <3>1. Route(op) = ListUsersRoute
        BY <1>2 DEF Route
      <3>2. ListUsersRoute.refusals = {400, 401, 403, 429} \cup DatabaseFailureResponses
        BY DEF ListUsersRoute
      <3> QED BY <3>1, <3>2
    <2> HIDE DEF R
    <2>2. EarlyRefusals(op) = {400, 401, 403, 413, 500}
      BY <1>2 DEF EarlyRefusals, Conditional
    <2> QED BY <1>2, <2>1, <2>2 DEF R, DatabaseFailureResponses
  <1>3. CASE op = "cursor"
    <2>1. R = {400, 401, 403, 429} \cup DatabaseFailureResponses
      <3>1. Route(op) = ListUsersCursorRoute
        BY <1>3 DEF Route
      <3>2. ListUsersCursorRoute.refusals = {400, 401, 403, 429} \cup DatabaseFailureResponses
        BY DEF ListUsersCursorRoute
      <3> QED BY <3>1, <3>2
    <2> HIDE DEF R
    <2>2. EarlyRefusals(op) = {400, 401, 403, 413, 500}
      BY <1>3 DEF EarlyRefusals, Conditional
    <2> QED BY <1>3, <2>1, <2>2 DEF R, DatabaseFailureResponses
  <1>4. CASE op = "update"
    <2>1. R = {400, 401, 403, 404, 409, 412, 413, 428, 429} \cup DatabaseFailureResponses
      <3>1. Route(op) = UpdateUserRoute
        BY <1>4 DEF Route
      <3>2. UpdateUserRoute.refusals = {400, 401, 403, 404, 409, 412, 413, 428, 429} \cup DatabaseFailureResponses
        BY DEF UpdateUserRoute
      <3> QED BY <3>1, <3>2
    <2> HIDE DEF R
    <2>2. EarlyRefusals(op) = {400, 401, 403, 413, 428, 500}
      BY <1>4 DEF EarlyRefusals, Conditional
    <2> QED BY <1>4, <2>1, <2>2 DEF R, DatabaseFailureResponses
  <1>5. CASE op = "delete"
    <2>1. R = {400, 401, 403, 404, 412, 428, 429} \cup DatabaseFailureResponses
      <3>1. Route(op) = DeleteUserRoute
        BY <1>5 DEF Route
      <3>2. DeleteUserRoute.refusals = {400, 401, 403, 404, 412, 428, 429} \cup DatabaseFailureResponses
        BY DEF DeleteUserRoute
      <3> QED BY <3>1, <3>2
    <2> HIDE DEF R
    <2>2. EarlyRefusals(op) = {400, 401, 403, 413, 428, 500}
      BY <1>5 DEF EarlyRefusals, Conditional
    <2> QED BY <1>5, <2>1, <2>2 DEF R, DatabaseFailureResponses
  <1>6. CASE op = "get"
    <2>1. R = {400, 401, 403, 404, 429} \cup DatabaseFailureResponses
      <3>1. Route(op) = GetUserRoute
        BY <1>6 DEF Route
      <3>2. GetUserRoute.refusals = {400, 401, 403, 404, 429} \cup DatabaseFailureResponses
        BY DEF GetUserRoute
      <3> QED BY <3>1, <3>2
    <2> HIDE DEF R
    <2>2. EarlyRefusals(op) = {400, 401, 403, 413, 500}
      BY <1>6 DEF EarlyRefusals, Conditional
    <2> QED BY <1>6, <2>1, <2>2 DEF R, DatabaseFailureResponses
  <1> QED BY <1>1, <1>2, <1>3, <1>4, <1>5, <1>6 DEF UserOperations

LEMMA RefusalDeclared ==
  ASSUME NEW op \in UserOperations, NEW s \in EarlyRefusals(op)
  PROVE  Declared(op, RefusalAnswer(s)) /\ IsAnswer(RefusalAnswer(s))
  <1>1. s \in Route(op).refusals \cup {413, 500} /\ s # 429
    BY RoutesRefuse DEF EarlyRefusals
  <1> QED BY <1>1, ErrorDeclared DEF RefusalAnswer

LEMMA DeniedDeclared ==
  ASSUME NEW op \in UserOperations
  PROVE  Declared(op, DeniedAnswer) /\ IsAnswer(DeniedAnswer)
  <1> DEFINE a == DeniedAnswer
  <1>1. 429 \in Route(op).refusals
    BY RoutesRefuse
  <1>2. a = Answer(429, "no-store", {"RateLimit", "Retry-After"})
    BY DEF DeniedAnswer, ErrorAnswer
  <1>3. /\ a.status = 429 /\ a.cache = "no-store"
        /\ a.headers = RateLimitExceededResponseHeaders
    BY <1>2 DEF Answer, RateLimitExceededResponseHeaders
  <1> HIDE DEF a
  <1>4. Declared(op, a) /\ IsAnswer(a)
    BY <1>1, <1>2, <1>3 DEF Declared, IsAnswer
  <1> QED BY <1>4 DEF a

LEMMA FailureDeclared ==
  ASSUME NEW op \in UserOperations, NEW failure \in Failures
  PROVE  /\ Declared(op, ErrorAnswer(FailureStatus(failure), {}))
         /\ IsAnswer(ErrorAnswer(FailureStatus(failure), {}))
  <1>1. FailureStatus(failure) \in {500, 503, 504}
    BY DEF Failures, FailureStatus
  <1>2. FailureStatus(failure) \in Route(op).refusals \cup {413, 500} /\ FailureStatus(failure) # 429
    BY <1>1, RoutesRefuse
  <1> QED BY <1>2, ErrorDeclared

\* What an operation finds, it answers as the contract declares.
LEMMA ResultDeclared ==
  ASSUME NEW q \in Request, q.op \in UserOperations, NEW result \in Results(q)
  PROVE  Declared(q.op, ResultAnswer(q, result)) /\ IsAnswer(ResultAnswer(q, result))
  <1> DEFINE a == ResultAnswer(q, result)
  <1>1. ASSUME NEW s \in Route(q.op).refusals \cup {413, 500}, NEW h, s # 429, a = ErrorAnswer(s, h)
        PROVE  Declared(q.op, a) /\ IsAnswer(a)
    BY <1>1, ErrorDeclared
  <1>2. ASSUME NEW s, NEW c, NEW h, a = Answer(s, c, h), "RateLimit" \notin h,
               a \in Route(q.op).successes
        PROVE  Declared(q.op, a) /\ IsAnswer(a)
    <2>1. h \ {"RateLimit"} = h /\ a.status = s /\ a.cache = c /\ a.headers = h
      BY <1>2 DEF Answer
    <2> HIDE DEF a
    <2> QED BY <1>2, <2>1 DEF Declared, IsAnswer
  <1>3. CASE q.op = "create"
    <2>1. result \in {"created", "conflict", "replayed", "reused", "inconsistent"}
      BY <1>3 DEF Results
    <2>2. CASE result \in {"created", "replayed"}
      <3>1. a = Answer(201, "private, no-store", {"Location", "ETag"})
        BY <1>3, <2>2 DEF ResultAnswer, CreateAnswer
      <3>2. a \in Route(q.op).successes
        BY <1>3, <3>1 DEF Route, CreateUserRoute
      <3> QED BY <1>2, <3>1, <3>2
    <2>3. CASE result \in {"conflict", "reused", "inconsistent"}
      <3>1. a = ErrorAnswer(ResultStatus(result), {})
        BY <1>3, <2>3 DEF ResultAnswer
      <3>2. ResultStatus(result) \in {409, 422, 500}
        BY <2>3 DEF ResultStatus
      <3> QED BY <1>1, <1>3, <3>1, <3>2, RoutesRefuse
    <2> QED BY <2>1, <2>2, <2>3
  <1>4. CASE q.op = "list"
    <2>1. a = Answer(200, "private, no-store", {})
      BY <1>4 DEF Results, ResultAnswer, ListAnswer
    <2>2. a \in Route(q.op).successes
      BY <1>4, <2>1 DEF Route, ListUsersRoute
    <2> QED BY <1>2, <2>1, <2>2
  <1>5. CASE q.op = "cursor"
    <2>1. PICK h \in {{}, {"Link"}} : a = Answer(200, "private, no-store", h)
      BY <1>5 DEF Results, ResultAnswer, CursorAnswer
    <2>2. a \in Route(q.op).successes
      BY <1>5, <2>1 DEF Route, ListUsersCursorRoute
    <2> QED BY <1>2, <2>1, <2>2
  <1>6. CASE q.op = "update"
    <2>1. result \in {"changed", "missing", "stale", "conflict"}
      BY <1>6 DEF Results
    <2>2. CASE result = "changed"
      <3>1. a = Answer(200, "private, no-store", {"ETag"})
        BY <1>6, <2>2 DEF ResultAnswer, UpdateAnswer
      <3>2. a \in Route(q.op).successes
        BY <1>6, <3>1 DEF Route, UpdateUserRoute
      <3> QED BY <1>2, <3>1, <3>2
    <2>3. CASE result \in {"missing", "stale", "conflict"}
      <3>1. a = ErrorAnswer(ResultStatus(result), {})
        BY <1>6, <2>3 DEF ResultAnswer
      <3>2. ResultStatus(result) \in {404, 409, 412}
        BY <2>3 DEF ResultStatus
      <3> QED BY <1>1, <1>6, <3>1, <3>2, RoutesRefuse
    <2> QED BY <2>1, <2>2, <2>3
  <1>7. CASE q.op = "delete"
    <2>1. result \in {"deleted", "missing", "stale"}
      BY <1>7 DEF Results
    <2>2. CASE result = "deleted"
      <3>1. a = Answer(204, "private, no-store", {})
        BY <1>7, <2>2 DEF ResultAnswer, DeleteAnswer
      <3>2. a \in Route(q.op).successes
        BY <1>7, <3>1 DEF Route, DeleteUserRoute
      <3> QED BY <1>2, <3>1, <3>2
    <2>3. CASE result \in {"missing", "stale"}
      <3>1. a = ErrorAnswer(ResultStatus(result), {})
        BY <1>7, <2>3 DEF ResultAnswer
      <3>2. ResultStatus(result) \in {404, 412}
        BY <2>3 DEF ResultStatus
      <3> QED BY <1>1, <1>7, <3>1, <3>2, RoutesRefuse
    <2> QED BY <2>1, <2>2, <2>3
  <1>8. CASE q.op = "get"
    <2>1. result \in {"found", "missing", "unchanged"}
      BY <1>8 DEF Results
    <2>2. CASE result \in {"found", "unchanged"} /\ q.condition = "malformed"
      <3>1. a = ErrorAnswer(400, {"ETag", "Vary"})
        BY <1>8, <2>2 DEF ResultAnswer, GetAnswer
      <3>2. 400 \in Route(q.op).refusals \cup {413, 500}
        BY <1>8, RoutesRefuse DEF EarlyRefusals
      <3> QED BY <1>1, <3>1, <3>2
    <2>3. CASE result \in {"found", "unchanged"} /\ q.condition # "malformed"
      <3>1. PICK s \in {200, 304} : a = Answer(s, "private, no-cache", {"ETag", "Vary"})
        <4>1. a = GetAnswer(q, result)
          BY <1>8, <2>3 DEF ResultAnswer
        <4>2. GetAnswer(q, result) = Answer(IF result = "unchanged" THEN 304 ELSE 200,
                                            "private, no-cache", {"ETag", "Vary"})
          BY <2>3 DEF GetAnswer
        <4> QED BY <4>1, <4>2
      <3>2. a \in Route(q.op).successes
        <4>1. Route(q.op).successes = {Answer(t, "private, no-cache", {"ETag", "Vary"}) : t \in {200, 304}}
          BY <1>8 DEF Route, GetUserRoute
        <4>2. Answer(s, "private, no-cache", {"ETag", "Vary"})
                \in {Answer(t, "private, no-cache", {"ETag", "Vary"}) : t \in {200, 304}}
          OBVIOUS
        <4> HIDE DEF a
        <4> QED BY <3>1, <4>1, <4>2
      <3> QED BY <1>2, <3>1, <3>2
    <2>4. CASE result = "missing"
      <3>1. a = ErrorAnswer(404, {})
        BY <1>8, <2>4 DEF ResultAnswer, ResultStatus
      <3> QED BY <1>1, <1>8, <3>1, RoutesRefuse
    <2> QED BY <2>1, <2>2, <2>3, <2>4
  <1> QED BY <1>3, <1>4, <1>5, <1>6, <1>7, <1>8 DEF UserOperations
-----------------------------------------------------------------------------
(***************************************************************************)
(* The pool                                                                *)
(***************************************************************************)
\* Who waits for a connection, has one opened or holds one.
Served == {a.caller : a \in Acquisitions}

\* Nobody does so twice.
Distinct ==
  /\ \A a, b \in opening : a.caller = b.caller => a = b
  /\ \A a, b \in held : a.caller = b.caller => a = b
  /\ \A i, j \in DOMAIN pending : pending[i].caller = pending[j].caller => i = j
  /\ \A a \in opening, b \in held : a.caller # b.caller
  /\ \A i \in DOMAIN pending, a \in opening \cup held : pending[i].caller # a.caller

\* An acquisition that queued was not taken for one that opens a connection.
Guessed ==
  /\ \A i \in DOMAIN pending : ~pending[i].creating
  /\ \A l \in held : l.creating => l.source = "new"

Counted ==
  /\ IsFiniteSet(opening) /\ IsFiniteSet(held) /\ IsFiniteSet(Served)
  /\ totalCount <= size
  /\ Cardinality(Served) = Cardinality(opening) + Cardinality(held) + Len(pending)

PoolInv == PoolTypeOK /\ Distinct /\ Guessed /\ Counted

LEMMA ServedParts ==
  ASSUME NEW c
  PROVE  /\ c \in Served <=> \/ \E a \in opening \cup held : a.caller = c
                             \/ \E i \in DOMAIN pending : pending[i].caller = c
         /\ WithPool(c) <=> c \in Served
  BY DEF Served, Acquisitions, WithPool, Range

LEMMA Removed ==
  ASSUME NEW A, NEW s \in Seq(A), NEW i \in 1 .. Len(s)
  PROVE  /\ RemoveAt(s, i) \in Seq(A) /\ Len(RemoveAt(s, i)) = Len(s) - 1
         /\ \A j \in 1 .. Len(s) - 1 : RemoveAt(s, i)[j] = s[IF j < i THEN j ELSE j + 1]
  <1> DEFINE a == SubSeq(s, 1, i - 1)
             b == SubSeq(s, i + 1, Len(s))
  <1>1. /\ a \in Seq(A) /\ Len(a) = i - 1
        /\ \A j \in 1 .. i - 1 : a[j] = s[j]
    BY SubSeqProperties
  <1>2. /\ b \in Seq(A) /\ Len(b) = Len(s) - i
        /\ \A j \in 1 .. Len(s) - i : b[j] = s[i + j]
    BY SubSeqProperties
  <1>3. RemoveAt(s, i) = a \o b
    BY DEF RemoveAt
  <1> HIDE DEF a, b
  <1>4. /\ a \o b \in Seq(A) /\ Len(a \o b) = Len(a) + Len(b)
        /\ \A j \in 1 .. Len(a) + Len(b) : (a \o b)[j] = IF j <= Len(a) THEN a[j] ELSE b[j - Len(a)]
    BY <1>1, <1>2, ConcatProperties
  <1>5. Len(s) \in Nat /\ Len(a) + Len(b) = Len(s) - 1
    BY <1>1, <1>2
  <1>6. ASSUME NEW j \in 1 .. Len(s) - 1 PROVE (a \o b)[j] = s[IF j < i THEN j ELSE j + 1]
    <2>1. CASE j < i
      <3>1. (a \o b)[j] = a[j]
        BY <1>1, <1>4, <1>5, <2>1
      <3> QED BY <1>1, <1>5, <2>1, <3>1
    <2>2. CASE ~(j < i)
      <3>1. (a \o b)[j] = b[j - (i - 1)] /\ j - (i - 1) \in 1 .. Len(s) - i
        BY <1>1, <1>4, <1>5, <2>2
      <3>2. i + (j - (i - 1)) = j + 1
        BY <1>5, <2>2
      <3> QED BY <1>2, <2>2, <3>1, <3>2
    <2> QED BY <2>1, <2>2
  <1> QED BY <1>3, <1>4, <1>5, <1>6

LEMMA ConnectStep ==
  ASSUME PoolInv, NEW c \in Callers, c \notin Served, Connect(c)
  PROVE  PoolInv' /\ Served' = Served \cup {c}
  <1> DEFINE a == [caller |-> c, creating |-> CreatingNewConnection]
  <1>0. UNCHANGED <<size, idle, abandoned, held>> /\ size \in Nat
    BY PoolSizesAssumption DEF Connect, PoolInv, PoolTypeOK
  <1>1. a \in Acquisition /\ a.caller = c /\ a.creating = CreatingNewConnection
    BY DEF Acquisition, CreatingNewConnection
  <1>2. CASE idle > 0 \/ ~HasRoom
    <2>1. pending' = Append(pending, a) /\ opening' = opening
      BY <1>2 DEF Connect
    <2>2. ~CreatingNewConnection
      BY <1>2 DEF CreatingNewConnection, PoolInv, PoolTypeOK
    <2> HIDE DEF a
    <2>3. /\ pending' \in Seq(Acquisition) /\ Len(pending') = Len(pending) + 1
          /\ DOMAIN pending = 1 .. Len(pending) /\ DOMAIN pending' = 1 .. Len(pending) + 1
          /\ Len(pending) \in Nat
          /\ \A i \in 1 .. Len(pending) : pending'[i] = pending[i]
          /\ pending'[Len(pending) + 1] = a
      BY <1>1, <2>1 DEF PoolInv, PoolTypeOK
    <2>4. Served' = Served \cup {c}
      <3>1. ASSUME NEW d PROVE d \in Served' <=> d \in Served \/ d = c
        <4>1. /\ d \in Served <=> \/ \E x \in opening \cup held : x.caller = d
                                  \/ \E i \in DOMAIN pending : pending[i].caller = d
              /\ d \in Served' <=> \/ \E x \in opening' \cup held' : x.caller = d
                                   \/ \E i \in DOMAIN pending' : pending'[i].caller = d
          BY DEF Served, Acquisitions, Range
        <4>2. (\E i \in DOMAIN pending' : pending'[i].caller = d)
                <=> (\E i \in DOMAIN pending : pending[i].caller = d) \/ d = c
          BY <1>1, <2>3
        <4> QED BY <1>0, <2>1, <4>1, <4>2
      <3> QED BY <3>1
    <2>5. Distinct'
      BY <1>0, <1>1, <2>1, <2>3, ServedParts DEF PoolInv, Distinct
    <2>6. Guessed'
      BY <1>0, <1>1, <2>2, <2>3 DEF PoolInv, Guessed
    <2>7. Counted'
      <3>1. IsFiniteSet(Served') /\ Cardinality(Served') = Cardinality(Served) + 1
        BY <2>4, FS_AddElement DEF PoolInv, Counted
      <3>2. /\ Cardinality(opening) \in Nat /\ Cardinality(held) \in Nat
            /\ Cardinality(Served) \in Nat
        BY FS_CardinalityType DEF PoolInv, Counted
      <3>3. totalCount' = totalCount /\ totalCount <= size
        BY <1>0, <2>1 DEF PoolInv, Counted, totalCount
      <3> QED BY <1>0, <2>1, <2>3, <3>1, <3>2, <3>3 DEF PoolInv, Counted
    <2> QED BY <1>0, <2>1, <2>3, <2>4, <2>5, <2>6, <2>7 DEF PoolInv, PoolTypeOK
  <1>3. CASE ~(idle > 0 \/ ~HasRoom)
    <2>1. opening' = opening \cup {a} /\ pending' = pending
      BY <1>3 DEF Connect
    <2> HIDE DEF a
    <2>2. Served' = Served \cup {c}
      BY <1>0, <1>1, <2>1 DEF Served, Acquisitions
    <2>3. Distinct'
      BY <1>0, <1>1, <2>1, ServedParts DEF PoolInv, Distinct
    <2>4. Counted'
      <3>1. IsFiniteSet(Served') /\ Cardinality(Served') = Cardinality(Served) + 1
        BY <2>2, FS_AddElement DEF PoolInv, Counted
      <3>2. a \notin opening
        BY <1>1, ServedParts
      <3>3. IsFiniteSet(opening') /\ Cardinality(opening') = Cardinality(opening) + 1
        BY <2>1, <3>2, FS_AddElement DEF PoolInv, Counted
      <3>4. totalCount < size
        BY <1>3 DEF HasRoom
      <3>5. /\ Cardinality(opening) \in Nat /\ Cardinality(held) \in Nat /\ Cardinality(Served) \in Nat
            /\ idle \in Nat /\ abandoned \in Nat
        BY FS_CardinalityType DEF PoolInv, Counted, PoolTypeOK
      <3>6. totalCount' <= size'
        BY <1>0, <3>3, <3>4, <3>5 DEF totalCount
      <3>7. Len(pending) \in Nat
        BY DEF PoolInv, PoolTypeOK
      <3> QED BY <1>0, <2>1, <3>1, <3>3, <3>5, <3>6, <3>7 DEF PoolInv, Counted
    <2> QED BY <1>0, <1>1, <2>1, <2>2, <2>3, <2>4 DEF PoolInv, PoolTypeOK, Guessed
  <1> QED BY <1>2, <1>3

\* An acquisition that leaves the queue.
Unqueued(i) ==
  /\ pending' \in Seq(Acquisition) /\ Len(pending') = Len(pending) - 1
  /\ \A j \in 1 .. Len(pending) - 1 : pending'[j] = pending[IF j < i THEN j ELSE j + 1]

LEMMA QueueWithout ==
  ASSUME PoolInv, NEW i \in DOMAIN pending, Unqueued(i)
  PROVE  /\ \A d : (\E j \in DOMAIN pending' : pending'[j].caller = d)
                     <=> /\ \E j \in DOMAIN pending : pending[j].caller = d
                         /\ d # pending[i].caller
         /\ \A j, k \in DOMAIN pending' : pending'[j].caller = pending'[k].caller => j = k
         /\ \A j \in DOMAIN pending' : ~pending'[j].creating
         /\ Len(pending) \in Nat \ {0} /\ i \in 1 .. Len(pending)
  <1>0. /\ Len(pending) \in Nat /\ DOMAIN pending = 1 .. Len(pending)
        /\ DOMAIN pending' = 1 .. Len(pending) - 1
    BY DEF PoolInv, PoolTypeOK, Unqueued
  <1> DEFINE from(j) == IF j < i THEN j ELSE j + 1
  <1>1. \A j \in DOMAIN pending' : from(j) \in DOMAIN pending /\ from(j) # i
                                   /\ pending'[j] = pending[from(j)]
    BY <1>0 DEF Unqueued
  <1>2. \A j \in DOMAIN pending : j # i => \E k \in DOMAIN pending' : from(k) = j
    <2> TAKE j \in DOMAIN pending
    <2> HAVE j # i
    <2>1. CASE j < i
      BY <1>0, <2>1
    <2>2. CASE j > i
      <3>1. j - 1 \in DOMAIN pending' /\ from(j - 1) = j
        BY <1>0, <2>2
      <3> QED BY <3>1
    <2> QED BY <1>0, <2>1, <2>2
  <1>3. \A j, k \in DOMAIN pending' : from(j) = from(k) => j = k
    BY <1>0
  <1> HIDE DEF from
  <1> QED BY <1>0, <1>1, <1>2, <1>3 DEF PoolInv, Distinct, Guessed

LEMMA PulseStep ==
  ASSUME PoolInv, PulseQueue
  PROVE  PoolInv' /\ Served' = Served
  <1> DEFINE a == Head(pending)
  <1>0. UNCHANGED <<size, abandoned>> /\ pending # <<>> /\ pending' = Tail(pending)
    BY DEF PulseQueue
  <1>1. /\ 1 \in DOMAIN pending /\ a = pending[1] /\ a \in Acquisition /\ Unqueued(1)
        /\ Len(pending) \in Nat
    BY <1>0, HeadTailProperties DEF PoolInv, PoolTypeOK, Unqueued
  <1>2. /\ \A d : (\E j \in DOMAIN pending' : pending'[j].caller = d)
                    <=> (\E j \in DOMAIN pending : pending[j].caller = d) /\ d # a.caller
        /\ \A j, k \in DOMAIN pending' : pending'[j].caller = pending'[k].caller => j = k
        /\ \A j \in DOMAIN pending' : ~pending'[j].creating
    BY <1>1, QueueWithout
  <1>3. Len(pending') = Len(pending) - 1 /\ pending' \in Seq(Acquisition)
    BY <1>1 DEF Unqueued
  <1>4. ~a.creating /\ a.caller \in Callers
    BY <1>1 DEF PoolInv, Guessed, Acquisition
  <1>5. /\ Cardinality(opening) \in Nat /\ Cardinality(held) \in Nat /\ Cardinality(Served) \in Nat
        /\ idle \in Nat /\ abandoned \in Nat /\ size \in Nat
    BY FS_CardinalityType, PoolSizesAssumption DEF PoolInv, Counted, PoolTypeOK
  <1> HIDE DEF a
  <1>6. ASSUME idle > 0, idle' = idle - 1, Acquired(a, "idle"), opening' = opening
        PROVE  PoolInv' /\ Served' = Served
    <2> DEFINE l == [caller |-> a.caller, creating |-> a.creating, source |-> "idle"]
    <2>1. held' = held \cup {l} /\ l.caller = a.caller /\ l.creating = a.creating /\ l \in Loan
      BY <1>1, <1>4, <1>6 DEF Acquired, Loan, Acquisition
    <2> HIDE DEF l
    <2>2. Served' = Served
      <3>1. ASSUME NEW d PROVE d \in Served' <=> d \in Served
        <4>1. d \in Served <=> \/ \E x \in opening \cup held : x.caller = d
                               \/ \E i \in DOMAIN pending : pending[i].caller = d
          BY ServedParts
        <4>2. d \in Served' <=> \/ \E x \in opening' \cup held' : x.caller = d
                                \/ \E i \in DOMAIN pending' : pending'[i].caller = d
          BY DEF Served, Acquisitions, Range
        <4> QED BY <1>1, <1>2, <1>6, <2>1, <4>1, <4>2
      <3> QED BY <3>1
    <2>3. \A x \in opening \cup held : x.caller # a.caller
      BY <1>1 DEF PoolInv, Distinct
    <2>4. Distinct'
      <3>1. \A j \in DOMAIN pending' : \A x \in opening \cup held : pending'[j].caller # x.caller
        BY <1>2 DEF PoolInv, Distinct
      <3>2. \A j \in DOMAIN pending' : pending'[j].caller # a.caller
        BY <1>2
      <3> QED BY <1>2, <1>6, <2>1, <2>3, <3>1, <3>2 DEF PoolInv, Distinct
    <2>5. Guessed'
      BY <1>2, <1>4, <2>1 DEF PoolInv, Guessed
    <2>6. Counted'
      <3>1. l \notin held
        BY <2>1, <2>3
      <3>2. IsFiniteSet(held') /\ Cardinality(held') = Cardinality(held) + 1
        BY <2>1, <3>1, FS_AddElement DEF PoolInv, Counted
      <3>3. totalCount' <= size'
        BY <1>0, <1>5, <1>6, <3>2 DEF PoolInv, Counted, totalCount
      <3> QED BY <1>1, <1>3, <1>5, <1>6, <2>2, <3>2, <3>3 DEF PoolInv, Counted
    <2> QED BY <1>0, <1>3, <1>5, <1>6, <2>1, <2>2, <2>4, <2>5, <2>6 DEF PoolInv, PoolTypeOK
  <1>7. ASSUME idle = 0, HasRoom, opening' = opening \cup {a}, UNCHANGED <<idle, held>>
        PROVE  PoolInv' /\ Served' = Served
    <2>2. Served' = Served
      <3>1. ASSUME NEW d PROVE d \in Served' <=> d \in Served
        <4>1. d \in Served <=> \/ \E x \in opening \cup held : x.caller = d
                               \/ \E i \in DOMAIN pending : pending[i].caller = d
          BY ServedParts
        <4>2. d \in Served' <=> \/ \E x \in opening' \cup held' : x.caller = d
                                \/ \E i \in DOMAIN pending' : pending'[i].caller = d
          BY DEF Served, Acquisitions, Range
        <4> QED BY <1>1, <1>2, <1>7, <4>1, <4>2
      <3> QED BY <3>1
    <2>3. \A x \in opening \cup held : x.caller # a.caller
      BY <1>1 DEF PoolInv, Distinct
    <2>4. Distinct'
      <3>1. \A j \in DOMAIN pending' : \A x \in opening \cup held : pending'[j].caller # x.caller
        BY <1>2 DEF PoolInv, Distinct
      <3>2. \A j \in DOMAIN pending' : pending'[j].caller # a.caller
        BY <1>2
      <3> QED BY <1>2, <1>7, <2>3, <3>1, <3>2 DEF PoolInv, Distinct
    <2>5. Guessed'
      BY <1>2, <1>7 DEF PoolInv, Guessed
    <2>6. Counted'
      <3>1. a \notin opening
        BY <2>3
      <3>2. IsFiniteSet(opening') /\ Cardinality(opening') = Cardinality(opening) + 1
        BY <1>7, <3>1, FS_AddElement DEF PoolInv, Counted
      <3>3. totalCount' <= size'
        BY <1>0, <1>5, <1>7, <3>2 DEF HasRoom, totalCount
      <3> QED BY <1>1, <1>3, <1>5, <1>7, <2>2, <3>2, <3>3 DEF PoolInv, Counted
    <2> QED BY <1>0, <1>1, <1>3, <1>7, <2>2, <2>4, <2>5, <2>6 DEF PoolInv, PoolTypeOK
  <1> QED BY <1>6, <1>7 DEF PulseQueue, a

LEMMA OpenedStep ==
  ASSUME PoolInv, NEW c, Opened(c)
  PROVE  PoolInv' /\ Served' = Served
  <1> PICK a \in opening : /\ a.caller = c /\ opening' = opening \ {a} /\ Acquired(a, "new")
                           /\ UNCHANGED <<size, idle, pending, abandoned>>
    BY DEF Opened
  <1> DEFINE l == [caller |-> a.caller, creating |-> a.creating, source |-> "new"]
  <1>1. held' = held \cup {l} /\ l.caller = c /\ l.source = "new" /\ l \in Loan
    BY DEF Acquired, Loan, Acquisition, PoolInv, PoolTypeOK
  <1> HIDE DEF l
  <1>2. \A x \in (opening \cup held) \ {a} : x.caller # c
    BY DEF PoolInv, Distinct
  <1>3. \A i \in DOMAIN pending : pending[i].caller # c
    BY DEF PoolInv, Distinct
  <1>4. Served' = Served
    BY <1>1 DEF Served, Acquisitions
  <1>5. l \notin held /\ l \notin opening'
    <2>1. a \notin held
      BY DEF PoolInv, Distinct
    <2> QED BY <1>1, <1>2, <2>1
  <1>6. Distinct'
    BY <1>1, <1>2, <1>3, <1>5 DEF PoolInv, Distinct
  <1>7. Counted'
    <2>1. /\ IsFiniteSet(held') /\ Cardinality(held') = Cardinality(held) + 1
          /\ IsFiniteSet(opening') /\ Cardinality(opening') = Cardinality(opening) - 1
      BY <1>1, <1>5, FS_AddElement, FS_RemoveElement DEF PoolInv, Counted
    <2>2. /\ Cardinality(opening) \in Nat /\ Cardinality(held) \in Nat /\ Len(pending) \in Nat
          /\ idle \in Nat /\ abandoned \in Nat
      BY FS_CardinalityType DEF PoolInv, Counted, PoolTypeOK
    <2> QED BY <1>4, <2>1, <2>2 DEF PoolInv, Counted, totalCount
  <1> QED BY <1>1, <1>4, <1>6, <1>7 DEF PoolInv, PoolTypeOK, Guessed

\* Whoever leaves the pool is no longer served: one entry less.
LEMMA EntryLeft ==
  ASSUME PoolInv, NEW c \in Served, Served' = Served \ {c}, size' = size, totalCount' <= totalCount,
         IsFiniteSet(opening') /\ IsFiniteSet(held'),
         Cardinality(opening') + Cardinality(held') + Len(pending')
           = Cardinality(opening) + Cardinality(held) + Len(pending) - 1,
         totalCount' \in Int
  PROVE  Counted'
  <1>1. IsFiniteSet(Served') /\ Cardinality(Served') = Cardinality(Served) - 1
    BY FS_RemoveElement DEF PoolInv, Counted
  <1>2. totalCount \in Int /\ size \in Int
    BY FS_CardinalityType, PoolSizesAssumption DEF PoolInv, Counted, PoolTypeOK, totalCount
  <1>3. totalCount <= size
    BY DEF PoolInv, Counted
  <1>4. totalCount' <= size'
    BY <1>2, <1>3
  <1>5. Cardinality(Served) = Cardinality(opening) + Cardinality(held) + Len(pending)
    BY DEF PoolInv, Counted
  <1>6. Cardinality(Served') = Cardinality(opening') + Cardinality(held') + Len(pending')
    <2>1. Cardinality(opening) \in Nat /\ Cardinality(held) \in Nat /\ Len(pending) \in Nat
      BY FS_CardinalityType DEF PoolInv, Counted, PoolTypeOK
    <2> QED BY <1>1, <1>5, <2>1
  <1> QED BY <1>1, <1>4, <1>6 DEF Counted

LEMMA OpeningLeft ==
  ASSUME PoolInv, NEW c, NEW a \in opening, a.caller = c, opening' = opening \ {a},
         UNCHANGED <<size, idle, pending, held>>, abandoned' \in {abandoned, abandoned + 1}
  PROVE  PoolInv' /\ c \in Served /\ Served' = Served \ {c}
  <1>1. c \in Served
    BY ServedParts
  <1>2. Served' = Served \ {c}
    <2>1. ASSUME NEW d PROVE d \in Served' <=> d \in Served /\ d # c
      <3>1. d \in Served <=> \/ \E x \in opening \cup held : x.caller = d
                             \/ \E i \in DOMAIN pending : pending[i].caller = d
        BY ServedParts
      <3>2. d \in Served' <=> \/ \E x \in opening' \cup held' : x.caller = d
                              \/ \E i \in DOMAIN pending' : pending'[i].caller = d
        BY DEF Served, Acquisitions, Range
      <3>3. \A x \in (opening \cup held) \ {a} : x.caller # c
        BY DEF PoolInv, Distinct
      <3>4. a \notin held /\ \A i \in DOMAIN pending : pending[i].caller # c
        BY DEF PoolInv, Distinct
      <3> QED BY <3>1, <3>2, <3>3, <3>4
    <2> QED BY <2>1
  <1>3. Distinct' /\ Guessed' /\ PoolTypeOK'
    BY DEF PoolInv, Distinct, Guessed, PoolTypeOK
  <1>4. Counted'
    <2>1. IsFiniteSet(opening') /\ Cardinality(opening') = Cardinality(opening) - 1
      BY FS_RemoveElement DEF PoolInv, Counted
    <2>2. /\ Cardinality(opening) \in Nat /\ Cardinality(held) \in Nat /\ Len(pending) \in Nat
          /\ idle \in Nat /\ abandoned \in Nat
      BY FS_CardinalityType DEF PoolInv, Counted, PoolTypeOK
    <2>3. totalCount' <= totalCount /\ totalCount' \in Int
      BY <2>1, <2>2 DEF totalCount
    <2>4. IsFiniteSet(held')
      BY DEF PoolInv, Counted
    <2>5. Cardinality(opening') + Cardinality(held') + Len(pending')
            = Cardinality(opening) + Cardinality(held) + Len(pending) - 1
      BY <2>1, <2>2
    <2> QED BY <1>1, <1>2, <2>1, <2>3, <2>4, <2>5, EntryLeft
  <1> QED BY <1>1, <1>2, <1>3, <1>4 DEF PoolInv

LEMMA OpenFailsStep ==
  ASSUME PoolInv, NEW c, OpenFails(c)
  PROVE  PoolInv' /\ c \in Served /\ Served' = Served \ {c}
  BY OpeningLeft DEF OpenFails

LEMMA GivesUpStep ==
  ASSUME PoolInv, NEW c, AcquireTimesOut(c)
  PROVE  PoolInv' /\ c \in Served /\ Served' = Served \ {c}
  <1>0. UNCHANGED <<size, idle, held>>
    BY DEF AcquireTimesOut
  <1>1. ASSUME NEW i \in DOMAIN pending, pending[i].caller = c, pending' = RemoveAt(pending, i),
               UNCHANGED <<opening, abandoned>>
        PROVE  PoolInv' /\ c \in Served /\ Served' = Served \ {c}
    <2>1. i \in 1 .. Len(pending) /\ pending \in Seq(Acquisition)
      BY DEF PoolInv, PoolTypeOK
    <2>2. Unqueued(i)
      BY <1>1, <2>1, Removed DEF Unqueued
    <2>3. /\ \A d : (\E j \in DOMAIN pending' : pending'[j].caller = d)
                      <=> (\E j \in DOMAIN pending : pending[j].caller = d) /\ d # c
          /\ \A j, k \in DOMAIN pending' : pending'[j].caller = pending'[k].caller => j = k
          /\ \A j \in DOMAIN pending' : ~pending'[j].creating
      <3>1. i \in DOMAIN pending /\ c = pending[i].caller
        BY <1>1
      <3> QED BY <2>2, <3>1, QueueWithout
    <2>4. c \in Served
      BY <1>1, ServedParts
    <2>5. Served' = Served \ {c}
      <3>1. ASSUME NEW d PROVE d \in Served' <=> d \in Served /\ d # c
        <4>1. d \in Served <=> \/ \E x \in opening \cup held : x.caller = d
                               \/ \E j \in DOMAIN pending : pending[j].caller = d
          BY ServedParts
        <4>2. d \in Served' <=> \/ \E x \in opening' \cup held' : x.caller = d
                                \/ \E j \in DOMAIN pending' : pending'[j].caller = d
          BY DEF Served, Acquisitions, Range
        <4>3. \A x \in opening \cup held : x.caller # c
          BY <1>1 DEF PoolInv, Distinct
        <4> QED BY <1>0, <1>1, <2>3, <4>1, <4>2, <4>3
      <3> QED BY <3>1
    <2>6. Distinct'
      <3>1. \A j \in DOMAIN pending' : \A x \in opening \cup held : pending'[j].caller # x.caller
        BY <2>3 DEF PoolInv, Distinct
      <3> QED BY <1>0, <1>1, <2>3, <3>1 DEF PoolInv, Distinct
    <2>7. Guessed' /\ PoolTypeOK'
      BY <1>0, <1>1, <2>2, <2>3 DEF PoolInv, Guessed, PoolTypeOK, Unqueued
    <2>8. Counted'
      <3>1. /\ Cardinality(opening) \in Nat /\ Cardinality(held) \in Nat /\ Len(pending) \in Nat
            /\ idle \in Nat /\ abandoned \in Nat
        BY FS_CardinalityType DEF PoolInv, Counted, PoolTypeOK
      <3>2. totalCount' <= totalCount /\ totalCount' \in Int
        BY <1>0, <1>1, <3>1 DEF totalCount
      <3>3. IsFiniteSet(opening') /\ IsFiniteSet(held')
        BY <1>0, <1>1 DEF PoolInv, Counted
      <3>4. Cardinality(opening') + Cardinality(held') + Len(pending')
              = Cardinality(opening) + Cardinality(held) + Len(pending) - 1
        BY <1>0, <1>1, <2>2, <3>1 DEF Unqueued
      <3> QED BY <1>0, <2>4, <2>5, <3>2, <3>3, <3>4, EntryLeft
    <2> QED BY <2>4, <2>5, <2>6, <2>7, <2>8 DEF PoolInv
  <1>2. ASSUME NEW a \in opening, a.caller = c, opening' = opening \ {a},
               abandoned' = abandoned + 1, UNCHANGED pending
        PROVE  PoolInv' /\ c \in Served /\ Served' = Served \ {c}
    BY <1>0, <1>2, OpeningLeft
  <1> QED BY <1>1, <1>2 DEF AcquireTimesOut, GivesUp

LEMMA ReleaseStep ==
  ASSUME PoolInv, NEW c, NEW broken, Release(c, broken)
  PROVE  PoolInv' /\ c \in Served /\ Served' = Served \ {c}
  <1> PICK l \in held : /\ l.caller = c /\ held' = held \ {l}
                        /\ idle' = (IF broken THEN idle ELSE idle + 1)
                        /\ UNCHANGED <<size, pending, opening, abandoned>>
    BY DEF Release
  <1>1. c \in Served
    BY ServedParts
  <1>2. Served' = Served \ {c}
    <2>1. ASSUME NEW d PROVE d \in Served' <=> d \in Served /\ d # c
      <3>1. d \in Served <=> \/ \E x \in opening \cup held : x.caller = d
                             \/ \E i \in DOMAIN pending : pending[i].caller = d
        BY ServedParts
      <3>2. d \in Served' <=> \/ \E x \in opening' \cup held' : x.caller = d
                              \/ \E i \in DOMAIN pending' : pending'[i].caller = d
        BY DEF Served, Acquisitions, Range
      <3>3. \A x \in (opening \cup held) \ {l} : x.caller # c
        BY DEF PoolInv, Distinct
      <3>4. l \notin opening /\ \A i \in DOMAIN pending : pending[i].caller # c
        BY DEF PoolInv, Distinct
      <3> QED BY <3>1, <3>2, <3>3, <3>4
    <2> QED BY <2>1
  <1>3. Distinct' /\ Guessed' /\ PoolTypeOK'
    BY DEF PoolInv, Distinct, Guessed, PoolTypeOK
  <1>4. Counted'
    <2>1. IsFiniteSet(held') /\ Cardinality(held') = Cardinality(held) - 1
      BY FS_RemoveElement DEF PoolInv, Counted
    <2>2. /\ Cardinality(opening) \in Nat /\ Cardinality(held) \in Nat /\ Len(pending) \in Nat
          /\ idle \in Nat /\ abandoned \in Nat
      BY FS_CardinalityType DEF PoolInv, Counted, PoolTypeOK
    <2>3. totalCount' <= totalCount /\ totalCount' \in Int
      BY <2>1, <2>2 DEF totalCount
    <2>4. IsFiniteSet(opening')
      BY DEF PoolInv, Counted
    <2>5. Cardinality(opening') + Cardinality(held') + Len(pending')
            = Cardinality(opening) + Cardinality(held) + Len(pending) - 1
      BY <2>1, <2>2
    <2> QED BY <1>1, <1>2, <2>1, <2>3, <2>4, <2>5, EntryLeft
  <1> QED BY <1>1, <1>2, <1>3, <1>4 DEF PoolInv

\* Connections that nobody holds come and go.
LEMMA IdleStep ==
  ASSUME PoolInv, AbandonedOpened \/ IdleLost \/ UNCHANGED poolVars
  PROVE  PoolInv' /\ Served' = Served
  <1>1. UNCHANGED <<size, pending, opening, held>>
    BY DEF AbandonedOpened, IdleLost, poolVars
  <1>2. Served' = Served /\ Distinct' /\ Guessed'
    BY <1>1 DEF Served, Acquisitions, PoolInv, Distinct, Guessed
  <1>3. /\ Cardinality(opening) \in Nat /\ Cardinality(held) \in Nat
        /\ idle \in Nat /\ abandoned \in Nat /\ size \in Nat
    BY FS_CardinalityType, PoolSizesAssumption DEF PoolInv, Counted, PoolTypeOK
  <1>4. idle' \in Nat /\ abandoned' \in Nat /\ idle' + abandoned' <= idle + abandoned
    BY <1>3 DEF AbandonedOpened, IdleLost, poolVars
  <1>5. PoolTypeOK'
    BY <1>1, <1>4 DEF PoolInv, PoolTypeOK
  <1>6. totalCount' <= size'
    <2>1. idle + abandoned + Cardinality(opening) + Cardinality(held) <= size
      BY DEF PoolInv, Counted, totalCount
    <2>2. ASSUME NEW a \in Nat, NEW b \in Nat, NEW i \in Nat, NEW j \in Nat, NEW o \in Nat,
                 NEW h \in Nat, NEW n \in Nat, a + b + o + h <= n, i + j <= a + b
          PROVE  i + j + o + h <= n
      BY <2>2
    <2>3. idle' + abandoned' + Cardinality(opening) + Cardinality(held) <= size
      BY <1>3, <1>4, <2>1, <2>2
    <2> QED BY <1>1, <2>3 DEF totalCount
  <1>7. Counted'
    BY <1>1, <1>2, <1>6 DEF PoolInv, Counted
  <1> QED BY <1>2, <1>5, <1>7 DEF PoolInv

LEMMA PoolInitInv == PoolInit => PoolInv /\ Served = {}
  <1> SUFFICES ASSUME PoolInit PROVE PoolInv /\ Served = {}
    OBVIOUS
  <1>1. /\ size \in PoolSizes /\ size \in Nat /\ idle \in Nat /\ idle <= size
        /\ pending = <<>> /\ opening = {} /\ abandoned = 0 /\ held = {}
    BY PoolSizesAssumption DEF PoolInit
  <1>2. Served = {}
    BY <1>1 DEF Served, Acquisitions, Range
  <1>3. PoolTypeOK /\ Distinct /\ Guessed
    BY <1>1 DEF PoolTypeOK, Distinct, Guessed
  <1>4. Counted
    BY <1>1, <1>2, FS_EmptySet DEF Counted, totalCount
  <1> QED BY <1>2, <1>3, <1>4 DEF PoolInv
-----------------------------------------------------------------------------
(***************************************************************************)
(* The way of a request                                                    *)
(***************************************************************************)
TypeInv ==
  /\ request \in [Requests -> Request] /\ deployment \in Deployment
  /\ pc \in [Requests -> Steps] /\ admitted \in [Requests -> BOOLEAN]
  /\ DOMAIN charged = Requests /\ DOMAIN answer = Requests
  /\ attempt \in [Requests -> Nat] /\ runs \in [Requests -> Nat]
  /\ retries \in [Requests -> Nat] /\ exhausted \in [Requests -> Nat]

\* The operation has not been tried.
Fresh(r) == attempt[r] = 1 /\ runs[r] = 0 /\ retries[r] = 0 /\ exhausted[r] = 0

\* The limiter is asked, and let the request pass if it was.
Charged(r) == Limited(r) /\ charged[r] = <<Scope(request[r]), Client(r)>>
Passed(r) == Limited(r) => admitted[r] /\ Charged(r)

\* The request passed everything that stands before its operation.
Cleared(r) ==
  /\ request[r].op \in UserOperations
  /\ FirstRefusal(request[r], Principal(r)) = Accepted
  /\ Passed(r)

\* Every run but the one to come was retried.
Trying(r) ==
  /\ exhausted[r] = 0 /\ runs[r] = retries[r]
  /\ retries[r] > 0 => Transactional(r)

\* The part of RetriesHonest that is about one request.
RetriesTold(r) ==
  /\ runs[r] <= (IF Transactional(r) THEN MaxAttempts ELSE 1)
  /\ runs[r] <= retries[r] + 1 /\ retries[r] <= runs[r]
  /\ retries[r] + exhausted[r] <= runs[r]
  /\ exhausted[r] > 0 => exhausted[r] = 1 /\ runs[r] = MaxAttempts /\ answer[r].status = 503

Concluded(r) ==
  /\ RetriesTold(r)
  /\ runs[r] > 0 => Cleared(r)
  /\ request[r].op \in UserOperations => Declared(request[r].op, answer[r])

Journey(r) ==
  /\ pc[r] \in {"arrived", "limiterSweep", "route", "ledgerSweep"} \cup ConsumeSteps => Fresh(r)
  /\ pc[r] \in {"limiterSweep"} \cup ConsumeSteps => Charged(r)
  /\ pc[r] = "route" => Passed(r)
  /\ pc[r] \in {"ledgerSweep", "operation", "backoff"} => Cleared(r)
  /\ pc[r] = "operation" => Trying(r) /\ attempt[r] = runs[r] + 1 /\ attempt[r] <= MaxAttempts
  /\ pc[r] = "backoff" => /\ Trying(r) /\ Transactional(r)
                          /\ attempt[r] = runs[r] /\ attempt[r] < MaxAttempts
  /\ pc[r] = "answered" => Concluded(r)

\* A request is with the pool for the step it is at.
AtItsStep == \A c \in Served : c \in Requests \X DatabaseSteps /\ c[2] = pc[c[1]]

IInv == TypeInv /\ PoolInv /\ AtItsStep /\ \A r \in Requests : Journey(r)

\* What happens to the others.
Untouched(q) ==
  /\ pc'[q] = pc[q] /\ charged'[q] = charged[q] /\ admitted'[q] = admitted[q]
  /\ attempt'[q] = attempt[q] /\ runs'[q] = runs[q] /\ retries'[q] = retries[q]
  /\ exhausted'[q] = exhausted[q] /\ answer'[q] = answer[q]

LEMMA SameQuestion ==
  ASSUME NEW r, UNCHANGED <<request, deployment>>
  PROVE  /\ Limited(r)' = Limited(r) /\ Client(r)' = Client(r) /\ Principal(r)' = Principal(r)
         /\ Transactional(r)' = Transactional(r)
         /\ charged'[r] = charged[r] => Charged(r)' = Charged(r)
         /\ charged'[r] = charged[r] /\ admitted'[r] = admitted[r]
              => Passed(r)' = Passed(r) /\ Cleared(r)' = Cleared(r)
  <1>1. Client(r)' = Client(r)
    BY DEF Client
  <1>2. Limited(r)' = Limited(r)
    BY <1>1 DEF Limited
  <1>3. Principal(r)' = Principal(r) /\ Transactional(r)' = Transactional(r)
    BY DEF Principal, Transactional
  <1>4. charged'[r] = charged[r] => Charged(r)' = Charged(r)
    BY <1>1, <1>2 DEF Charged
  <1>5. ASSUME charged'[r] = charged[r], admitted'[r] = admitted[r]
        PROVE  Passed(r)' = Passed(r) /\ Cleared(r)' = Cleared(r)
    <2>1. Passed(r)' = Passed(r)
      BY <1>2, <1>4, <1>5 DEF Passed
    <2> QED BY <1>3, <2>1 DEF Cleared
  <1> QED BY <1>1, <1>2, <1>3, <1>4, <1>5

LEMMA UntouchedJourney ==
  ASSUME NEW q, UNCHANGED <<request, deployment>>, Untouched(q), Journey(q)
  PROVE  Journey(q)'
  <1>1. /\ Passed(q)' = Passed(q) /\ Cleared(q)' = Cleared(q) /\ Charged(q)' = Charged(q)
        /\ Transactional(q)' = Transactional(q)
    BY SameQuestion DEF Untouched
  <1>2. Fresh(q)' = Fresh(q) /\ Trying(q)' = Trying(q)
    BY <1>1 DEF Untouched, Fresh, Trying
  <1>3. Concluded(q)' = Concluded(q)
    <2>1. RetriesTold(q)' = RetriesTold(q)
      BY <1>1 DEF Untouched, RetriesTold
    <2> QED BY <1>1, <2>1 DEF Untouched, Concluded
  <1> QED BY <1>1, <1>2, <1>3 DEF Untouched, Journey

LEMMA ReplyDeclared ==
  ASSUME TypeInv, NEW r \in Requests, NEW a, Reply(r, a), IsAnswer(a),
         Declared(request[r].op, a)
  PROVE  Declared(request[r].op, answer'[r]) /\ answer'[r].status = a.status
  <1>1. answer'[r] = IF admitted[r] THEN WithQuota(a) ELSE a
    BY DEF Reply, TypeInv, WithQuota
  <1> QED BY <1>1, QuotaDeclared

\* A request that is answered without having run has told the truth.
LEMMA RefusedJourney ==
  ASSUME TypeInv, NEW r \in Requests, Fresh(r), NEW a, Reply(r, a),
         request[r].op \in UserOperations => IsAnswer(a) /\ Declared(request[r].op, a),
         UNCHANGED <<request, deployment, attempt, runs, retries, exhausted>>
  PROVE  Journey(r)'
  <1>1. pc'[r] = "answered"
    BY DEF TypeInv, Reply, GoTo
  <1>2. request[r].op \in UserOperations => Declared(request[r].op, answer'[r])
    BY ReplyDeclared
  <1>3. RetriesTold(r)'
    BY MaxAttemptsAssumption DEF Fresh, RetriesTold, Transactional
  <1>4. Concluded(r)'
    BY <1>2, <1>3 DEF Concluded, Fresh
  <1> QED BY <1>1, <1>4 DEF Journey, ConsumeSteps

LEMMA SweepJourney ==
  ASSUME TypeInv, NEW r \in Requests, Journey(r), pc[r] \in Sweeps, AfterSweep(r),
         UNCHANGED <<request, deployment, charged, runs>>
  PROVE  Journey(r)'
  <1>1. /\ UNCHANGED <<admitted, attempt, retries, exhausted, answer>>
        /\ pc'[r] = IF pc[r] = "limiterSweep" THEN "bucketInsert" ELSE "operation"
    BY DEF AfterSweep, GoTo, TypeInv
  <1>2. /\ Charged(r)' = Charged(r) /\ Cleared(r)' = Cleared(r)
    BY <1>1, SameQuestion
  <1>3. Fresh(r) /\ Fresh(r)'
    BY <1>1 DEF Journey, Sweeps, Fresh
  <1>4. CASE pc[r] = "limiterSweep"
    <2>1. Charged(r)' /\ pc'[r] = "bucketInsert"
      BY <1>1, <1>2, <1>4 DEF Journey
    <2> QED BY <1>3, <2>1 DEF Journey
  <1>5. CASE pc[r] = "ledgerSweep"
    <2>1. Cleared(r)' /\ pc'[r] = "operation"
      BY <1>1, <1>2, <1>5 DEF Journey
    <2>2. Trying(r)' /\ attempt'[r] = runs'[r] + 1 /\ attempt'[r] <= MaxAttempts
      BY <1>3, MaxAttemptsAssumption DEF Fresh, Trying
    <2> QED BY <2>1, <2>2 DEF Journey, ConsumeSteps
  <1> QED BY <1>4, <1>5 DEF Sweeps

LEMMA ConsumeJourney ==
  ASSUME TypeInv, NEW r \in Requests, Journey(r), pc[r] \in ConsumeSteps,
         NEW outcome \in Outcomes(r), AfterConsume(r, outcome),
         UNCHANGED <<request, deployment, charged, runs>>
  PROVE  Journey(r)'
  <1>1. /\ UNCHANGED <<attempt, retries, exhausted>>
        /\ admitted'[r] = (outcome = "allowed")
    BY DEF AfterConsume, TypeInv
  <1>2. Fresh(r) /\ Fresh(r)' /\ Charged(r) /\ Charged(r)'
    <2>1. Fresh(r) /\ Charged(r)
      BY DEF Journey
    <2>2. Fresh(r)'
      BY <1>1, <2>1 DEF Fresh
    <2> QED BY <2>1, <2>2, SameQuestion
  <1>3. outcome \in {"allowed", "taken", "denied"} \cup Failures
    BY DEF Outcomes, ConsumeSteps, Sweeps
  <1>4. CASE outcome = "allowed"
    <2>1. pc'[r] = "route" /\ Passed(r)'
      BY <1>1, <1>2, <1>4 DEF AfterConsume, Failures, GoTo, TypeInv, Passed
    <2> QED BY <1>2, <2>1 DEF Journey, ConsumeSteps
  <1>5. CASE outcome = "taken"
    <2>1. pc'[r] \in ConsumeSteps
      BY <1>5 DEF AfterConsume, Failures, GoTo, TypeInv, ConsumeSteps
    <2> QED BY <1>2, <2>1 DEF Journey, ConsumeSteps
  <1>6. CASE outcome = "denied"
    <2>1. Reply(r, DeniedAnswer)
      BY <1>6 DEF AfterConsume, Failures
    <2> QED BY <1>1, <1>2, <2>1, DeniedDeclared, RefusedJourney
  <1>7. CASE outcome \in Failures
    <2>1. Reply(r, ErrorAnswer(FailureStatus(outcome), {}))
      BY <1>7 DEF AfterConsume, Failures
    <2> QED BY <1>1, <1>2, <1>7, <2>1, FailureDeclared, RefusedJourney
  <1> QED BY <1>3, <1>4, <1>5, <1>6, <1>7

\* The operation ran, or - without a connection - did not.
LEMMA OperationJourney ==
  ASSUME TypeInv, NEW r \in Requests, Journey(r), pc[r] = "operation",
         NEW outcome \in Outcomes(r), AfterOperation(r, outcome), NEW n \in {0, 1},
         runs'[r] = runs[r] + n, n = 1 \/ outcome = "unavailable",
         UNCHANGED <<request, deployment, charged>>
  PROVE  Journey(r)'
  <1>1. /\ Cleared(r) /\ Trying(r) /\ attempt[r] = runs[r] + 1 /\ attempt[r] <= MaxAttempts
        /\ Cleared(r)' /\ Transactional(r)' = Transactional(r)
        /\ UNCHANGED <<admitted, attempt>>
    <2>1. UNCHANGED <<admitted, attempt>>
      BY DEF AfterOperation
    <2> QED BY <2>1, SameQuestion DEF Journey
  <1>2. /\ attempt[r] \in Nat /\ runs[r] \in Nat /\ retries[r] \in Nat /\ MaxAttempts \in Nat
        /\ exhausted[r] = 0 /\ runs[r] = retries[r]
    BY <1>1, MaxAttemptsAssumption DEF TypeInv, Trying
  <1>3. CASE Retryable(r, outcome) /\ ~Exhausted(r)
    <2>1. /\ pc'[r] = "backoff" /\ retries'[r] = retries[r] + 1 /\ exhausted'[r] = 0
          /\ Transactional(r) /\ outcome = "retryable" /\ n = 1 /\ attempt[r] < MaxAttempts
      BY <1>2, <1>3 DEF AfterOperation, Retryable, Exhausted, GoTo, TypeInv
    <2>2. Trying(r)' /\ Transactional(r)' /\ attempt'[r] = runs'[r] /\ attempt'[r] < MaxAttempts
      BY <1>1, <1>2, <2>1 DEF Trying
    <2> QED BY <1>1, <2>1, <2>2 DEF Journey, ConsumeSteps
  <1>4. CASE ~(Retryable(r, outcome) /\ ~Exhausted(r))
    <2> DEFINE a == IF outcome \in Failures THEN ErrorAnswer(FailureStatus(outcome), {})
                                            ELSE ResultAnswer(request[r], outcome)
    <2>1. /\ Reply(r, a) /\ retries'[r] = retries[r]
          /\ exhausted'[r] = IF Retryable(r, outcome) THEN 1 ELSE 0
      BY <1>2, <1>4 DEF AfterOperation, TypeInv
    <2>2. outcome \in Failures \cup Results(request[r])
      BY DEF Outcomes, Sweeps
    <2>3. request[r] \in Request /\ request[r].op \in UserOperations
      BY <1>1 DEF TypeInv, Cleared
    <2>4. IsAnswer(a) /\ Declared(request[r].op, a)
      BY <2>2, <2>3, FailureDeclared, ResultDeclared
    <2>5. Retryable(r, outcome) => a.status = 503
      <3>1. Retryable(r, outcome) => a = ErrorAnswer(503, {})
        BY DEF Retryable, Failures, FailureStatus
      <3>2. ErrorAnswer(503, {}).status = 503
        BY DEF ErrorAnswer, Answer
      <3> HIDE DEF a
      <3> QED BY <3>1, <3>2
    <2> HIDE DEF a
    <2>6. /\ Declared(request[r].op, answer'[r]) /\ answer'[r].status = a.status
          /\ pc'[r] = "answered"
      <3>1. pc'[r] = "answered"
        BY <2>1 DEF Reply, GoTo, TypeInv
      <3> QED BY <2>1, <2>4, <3>1, ReplyDeclared
    <2>7. RetriesTold(r)'
      <3>1. ~Transactional(r) => runs[r] = 0
        BY <1>1, <1>2 DEF Trying
      <3>2. CASE Retryable(r, outcome)
        <4>1. n = 1 /\ Transactional(r) /\ attempt[r] = MaxAttempts /\ answer'[r].status = 503
          BY <1>1, <1>2, <1>4, <2>5, <2>6, <3>2 DEF Retryable, Exhausted
        <4>2. exhausted'[r] = 1 /\ retries'[r] = runs[r] /\ runs'[r] = runs[r] + 1
          BY <1>2, <2>1, <3>2, <4>1
        <4> QED BY <1>1, <1>2, <4>1, <4>2 DEF RetriesTold
      <3>3. CASE ~Retryable(r, outcome)
        <4>1. exhausted'[r] = 0 /\ retries'[r] = runs[r] /\ runs'[r] \in {runs[r], runs[r] + 1}
          BY <1>2, <2>1, <3>3
        <4>2. runs[r] + 1 <= (IF Transactional(r) THEN MaxAttempts ELSE 1)
          BY <1>1, <1>2, <3>1
        <4>3. (IF Transactional(r) THEN MaxAttempts ELSE 1) \in Nat
          BY <1>2
        <4> DEFINE most == IF Transactional(r) THEN MaxAttempts ELSE 1
        <4> HIDE DEF most
        <4>4. runs'[r] <= most
          BY <1>2, <4>1, <4>2, <4>3 DEF most
        <4> QED BY <1>1, <1>2, <4>1, <4>4 DEF RetriesTold, most
      <3> QED BY <3>2, <3>3
    <2> QED BY <1>1, <2>6, <2>7 DEF Journey, Concluded, ConsumeSteps
  <1> QED BY <1>3, <1>4

\* Whatever comes after a database step, it is about this request.
LEMMA AfterStep ==
  ASSUME TypeInv, NEW r \in Requests, Journey(r), pc[r] \in DatabaseSteps,
         NEW outcome \in Outcomes(r), After(r, outcome), NEW n \in {0, 1},
         runs' = [runs EXCEPT ![r] = @ + n],
         IF pc[r] = "operation" THEN n = 1 \/ outcome = "unavailable" ELSE n = 0
  PROVE  /\ TypeInv' /\ Journey(r)' /\ UNCHANGED <<request, deployment>>
         /\ pc'[r] # pc[r] /\ \A q \in Requests \ {r} : Untouched(q)
  <1>1. UNCHANGED <<request, deployment, charged>>
    BY DEF After
  <1>2. runs'[r] = runs[r] + n /\ runs' \in [Requests -> Nat]
    BY DEF TypeInv
  <1>3. /\ pc[r] \in Sweeps => AfterSweep(r)
        /\ pc[r] \in ConsumeSteps => AfterConsume(r, outcome)
        /\ pc[r] = "operation" => AfterOperation(r, outcome)
    BY DEF After, Sweeps, ConsumeSteps, DatabaseSteps
  <1>4. CASE pc[r] \in Sweeps
    <2>1. UNCHANGED runs
      BY <1>4 DEF TypeInv, Sweeps
    <2>2. Journey(r)'
      BY <1>1, <1>3, <1>4, <2>1, SweepJourney
    <2>3. \E step \in Steps \ {pc[r]} : GoTo(r, step)
      BY <1>3, <1>4 DEF AfterSweep, Sweeps, Steps, DatabaseSteps, ConsumeSteps
    <2> QED
      BY <1>1, <1>3, <1>4, <2>1, <2>2, <2>3 DEF AfterSweep, GoTo, TypeInv, Untouched
  <1>5. CASE pc[r] \in ConsumeSteps
    <2>1. UNCHANGED runs
      BY <1>5 DEF TypeInv, ConsumeSteps
    <2>2. Journey(r)'
      BY <1>1, <1>3, <1>5, <2>1, ConsumeJourney
    <2>3. /\ \E step \in Steps \ {pc[r]} : GoTo(r, step)
          /\ answer' = answer \/ \E a : answer' = [answer EXCEPT ![r] = a]
          /\ admitted' = [admitted EXCEPT ![r] = outcome = "allowed"]
          /\ UNCHANGED <<attempt, retries, exhausted>>
      <3>1. \A a : Reply(r, a) => /\ GoTo(r, "answered")
                                  /\ \E b : answer' = [answer EXCEPT ![r] = b]
        BY DEF Reply
      <3>2. outcome \in {"allowed", "taken", "denied"} \cup Failures
        BY <1>5 DEF Outcomes, ConsumeSteps, Sweeps
      <3>3. pc[r] = "bucketSelect" => outcome # "taken"
        BY DEF Outcomes, Sweeps, Failures
      <3>4. AfterConsume(r, outcome)
        BY <1>3, <1>5
      <3>5. CASE outcome = "allowed"
        BY <1>5, <3>4, <3>5 DEF AfterConsume, Failures, Steps, DatabaseSteps, ConsumeSteps
      <3>6. CASE outcome = "taken"
        BY <1>5, <3>3, <3>4, <3>6 DEF AfterConsume, Failures, Steps, DatabaseSteps, ConsumeSteps
      <3>7. CASE outcome = "denied"
        BY <1>5, <3>1, <3>4, <3>7 DEF AfterConsume, Failures, Steps, DatabaseSteps, ConsumeSteps
      <3>8. CASE outcome \in Failures
        BY <1>5, <3>1, <3>4, <3>8 DEF AfterConsume, Failures, Steps, DatabaseSteps, ConsumeSteps
      <3> QED BY <3>2, <3>5, <3>6, <3>7, <3>8
    <2> QED BY <1>1, <2>1, <2>2, <2>3 DEF GoTo, TypeInv, Untouched
  <1>6. CASE pc[r] = "operation"
    <2>1. Journey(r)'
      BY <1>1, <1>2, <1>3, <1>6, OperationJourney
    <2>2. /\ \E step \in Steps \ {pc[r]} : GoTo(r, step)
          /\ answer' = answer \/ \E a : answer' = [answer EXCEPT ![r] = a]
          /\ UNCHANGED <<admitted, attempt>>
          /\ retries' = retries \/ retries' = [retries EXCEPT ![r] = @ + 1]
          /\ \/ exhausted' = exhausted
             \/ \E k \in {0, 1} : exhausted' = [exhausted EXCEPT ![r] = @ + k]
      BY <1>3, <1>6 DEF AfterOperation, Reply, Steps
    <2> QED BY <1>1, <1>2, <2>1, <2>2 DEF GoTo, TypeInv, Untouched
  <1> QED BY <1>4, <1>5, <1>6 DEF DatabaseSteps

LEMMA ArriveJourney ==
  ASSUME TypeInv, NEW r \in Requests, Journey(r), Arrive(r)
  PROVE  TypeInv' /\ Journey(r)' /\ \A q \in Requests \ {r} : Untouched(q)
  <1>1. /\ pc[r] = "arrived" /\ Fresh(r) /\ Fresh(r)'
        /\ UNCHANGED <<request, deployment, admitted, attempt, runs, retries, exhausted>>
    BY DEF Arrive, Journey, Fresh
  <1>2. CASE Reply(r, RefusalAnswer(401)) /\ UNCHANGED charged
    <2>1. request[r].op \in UserOperations =>
            IsAnswer(RefusalAnswer(401)) /\ Declared(request[r].op, RefusalAnswer(401))
      BY RefusalDeclared DEF EarlyRefusals
    <2>2. Journey(r)'
      BY <1>1, <1>2, <2>1, RefusedJourney
    <2> QED BY <1>1, <1>2, <2>2 DEF Reply, GoTo, TypeInv, Untouched, Steps
  <1>3. ASSUME Limited(r), NEW step \in {"limiterSweep", "bucketInsert"}, GoTo(r, step),
               charged' = [charged EXCEPT ![r] = <<Scope(request[r]), Client(r)>>],
               UNCHANGED answer
        PROVE  TypeInv' /\ Journey(r)' /\ \A q \in Requests \ {r} : Untouched(q)
    <2>1. Charged(r)'
      <3>1. Limited(r)' /\ Client(r)' = Client(r)
        BY <1>1, <1>3, SameQuestion
      <3> QED BY <1>1, <1>3, <3>1 DEF Charged, TypeInv
    <2>2. pc'[r] = step /\ step \in DatabaseSteps
      BY <1>3 DEF GoTo, TypeInv, DatabaseSteps, Sweeps, ConsumeSteps
    <2>3. Journey(r)'
      BY <1>1, <1>3, <2>1, <2>2 DEF Journey
    <2> QED BY <1>1, <1>3, <2>2, <2>3 DEF GoTo, TypeInv, Untouched, Steps
  <1>4. CASE ~Limited(r) /\ GoTo(r, "route") /\ UNCHANGED <<charged, answer>>
    <2>1. Passed(r)' /\ pc'[r] = "route"
      BY <1>1, <1>4, SameQuestion DEF Passed, GoTo, TypeInv
    <2>2. Journey(r)'
      BY <1>1, <2>1 DEF Journey, ConsumeSteps
    <2> QED BY <1>1, <1>4, <2>2 DEF GoTo, TypeInv, Untouched, Steps
  <1> QED BY <1>2, <1>3, <1>4 DEF Arrive

LEMMA DispatchJourney ==
  ASSUME TypeInv, NEW r \in Requests, Journey(r), Dispatch(r)
  PROVE  TypeInv' /\ Journey(r)' /\ \A q \in Requests \ {r} : Untouched(q)
  <1> DEFINE refusal == FirstRefusal(request[r], Principal(r))
  <1>1. /\ pc[r] = "route" /\ Fresh(r) /\ Fresh(r)' /\ Passed(r)
        /\ UNCHANGED <<request, deployment, charged, admitted, attempt, runs, retries, exhausted>>
    BY DEF Dispatch, Journey, Fresh
  <1>2. ASSUME NEW a, Reply(r, a), Journey(r)'
        PROVE  TypeInv' /\ Journey(r)' /\ \A q \in Requests \ {r} : Untouched(q)
    BY <1>1, <1>2 DEF Reply, GoTo, TypeInv, Untouched, Steps
  <1>3. CASE refusal # Accepted /\ Reply(r, RefusalAnswer(refusal))
    <2>1. request[r] \in Request
      BY DEF TypeInv
    <2>2. request[r].op \in UserOperations =>
            IsAnswer(RefusalAnswer(refusal)) /\ Declared(request[r].op, RefusalAnswer(refusal))
      BY <1>3, <2>1, FirstRefusals, RefusalDeclared
    <2> HIDE DEF refusal
    <2> QED BY <1>1, <1>2, <1>3, <2>2, RefusedJourney
  <1>4. ASSUME request[r].op \notin UserOperations, NEW a, Reply(r, a)
        PROVE  TypeInv' /\ Journey(r)' /\ \A q \in Requests \ {r} : Untouched(q)
    BY <1>1, <1>2, <1>4, RefusedJourney
  <1>5. ASSUME refusal = Accepted, request[r].op \in UserOperations,
               NEW step \in {"operation", "ledgerSweep"}, GoTo(r, step), UNCHANGED answer
        PROVE  TypeInv' /\ Journey(r)' /\ \A q \in Requests \ {r} : Untouched(q)
    <2>1. Cleared(r)'
      BY <1>1, <1>5, SameQuestion DEF Cleared
    <2>2. Trying(r)' /\ attempt'[r] = runs'[r] + 1 /\ attempt'[r] <= MaxAttempts
      BY <1>1, MaxAttemptsAssumption DEF Fresh, Trying
    <2>3. pc'[r] = step
      BY <1>5 DEF GoTo, TypeInv
    <2>4. Journey(r)'
      BY <1>1, <2>1, <2>2, <2>3 DEF Journey, ConsumeSteps
    <2>5. step \in Steps
      BY DEF Steps, DatabaseSteps, Sweeps
    <2> QED BY <1>1, <1>5, <2>4, <2>5 DEF GoTo, TypeInv, Untouched
  <1> QED BY <1>3, <1>4, <1>5 DEF Dispatch

LEMMA RetryJourney ==
  ASSUME TypeInv, NEW r \in Requests, Journey(r), Retry(r)
  PROVE  TypeInv' /\ Journey(r)' /\ \A q \in Requests \ {r} : Untouched(q)
  <1>1. /\ pc[r] = "backoff" /\ Cleared(r) /\ Trying(r) /\ Transactional(r)
        /\ attempt[r] = runs[r] /\ attempt[r] < MaxAttempts
        /\ UNCHANGED <<request, deployment, charged, admitted, runs, retries, exhausted, answer>>
    BY DEF Retry, Journey
  <1>2. pc'[r] = "operation" /\ attempt'[r] = attempt[r] + 1
    BY DEF Retry, GoTo, TypeInv
  <1>3. Cleared(r)' /\ Trying(r)'
    BY <1>1, SameQuestion DEF Trying
  <1>4. attempt'[r] <= MaxAttempts
    BY <1>1, <1>2, MaxAttemptsAssumption DEF TypeInv
  <1>5. Journey(r)'
    BY <1>1, <1>2, <1>3, <1>4 DEF Journey, ConsumeSteps
  <1> QED BY <1>1, <1>5 DEF Retry, GoTo, TypeInv, Untouched, Steps, DatabaseSteps

(***************************************************************************)
(* The steps                                                               *)
(***************************************************************************)
\* A step of a request that is not, or no longer, with the pool.
LEMMA RequestKept ==
  ASSUME IInv, NEW r \in Requests, TypeInv', PoolInv', Journey(r)',
         UNCHANGED <<request, deployment>>, \A q \in Requests \ {r} : Untouched(q),
         Served' \subseteq Served, \A c \in Served' : c[1] # r
  PROVE  IInv'
  <1>1. \A q \in Requests : Journey(q)'
    BY UntouchedJourney DEF IInv
  <1>2. AtItsStep'
    BY DEF IInv, AtItsStep, Untouched
  <1> QED BY <1>1, <1>2 DEF IInv

LEMMA PoolKept ==
  ASSUME IInv, PoolInv', UNCHANGED requestVars, AtItsStep'
  PROVE  IInv'
  <1>1. UNCHANGED <<request, deployment, pc, charged, admitted, attempt, runs, retries, exhausted, answer>>
    BY DEF requestVars
  <1>2. TypeInv'
    BY <1>1 DEF IInv, TypeInv
  <1>3. \A q \in Requests : Journey(q)'
    BY <1>1, UntouchedJourney DEF IInv, Untouched
  <1> QED BY <1>2, <1>3 DEF IInv

LEMMA IInvInit == Init => IInv
  <1> SUFFICES ASSUME Init PROVE IInv
    OBVIOUS
  <1>1. PoolInv /\ AtItsStep
    BY PoolInitInv DEF Init, AtItsStep
  <1>2. request \in [Requests -> Request] /\ deployment \in Deployment
    BY ScenariosAssumption DEF Init
  <1>3. TypeInv
    BY <1>2 DEF Init, TypeInv, Steps
  <1>4. \A r \in Requests : Journey(r)
    BY DEF Init, Journey, Fresh, ConsumeSteps
  <1> QED BY <1>1, <1>3, <1>4 DEF IInv

LEMMA RequestStep ==
  ASSUME IInv, NEW r \in Requests, Proceed(r) \/ ConnectionTimesOut(r)
  PROVE  IInv'
  <1> USE DEF IInv
  <1>1. CASE Arrive(r) \/ Dispatch(r) \/ Retry(r)
    <2>1. UNCHANGED poolVars /\ pc[r] \notin DatabaseSteps /\ UNCHANGED <<request, deployment>>
      BY <1>1 DEF Arrive, Dispatch, Retry, DatabaseSteps, Sweeps, ConsumeSteps
    <2>2. PoolInv' /\ Served' = Served
      BY <2>1, IdleStep
    <2>3. \A c \in Served : c[1] # r
      BY <2>1 DEF AtItsStep
    <2>4. TypeInv' /\ Journey(r)' /\ \A q \in Requests \ {r} : Untouched(q)
      BY <1>1, ArriveJourney, DispatchJourney, RetryJourney
    <2> QED BY <2>1, <2>2, <2>3, <2>4, RequestKept
  <1>2. CASE AskForConnection(r)
    <2>1. /\ pc[r] \in DatabaseSteps /\ Caller(r) \notin Served /\ Connect(Caller(r))
          /\ UNCHANGED requestVars /\ Caller(r) \in Callers
      BY <1>2, ServedParts, CallersAssumption DEF AskForConnection, Caller
    <2>2. PoolInv' /\ Served' = Served \cup {Caller(r)}
      BY <2>1, ConnectStep
    <2>3. AtItsStep'
      BY <2>1, <2>2 DEF AtItsStep, Caller, requestVars
    <2> QED BY <2>1, <2>2, <2>3, PoolKept
  <1>3. CASE ConnectionOpened(r)
    <2>1. PoolInv' /\ Served' = Served /\ UNCHANGED requestVars
      BY <1>3, OpenedStep DEF ConnectionOpened
    <2>2. AtItsStep'
      BY <2>1 DEF AtItsStep, requestVars
    <2> QED BY <2>1, <2>2, PoolKept
  <1>4. ASSUME PoolInv', Caller(r) \in Served, Served' = Served \ {Caller(r)},
               NEW outcome \in Outcomes(r), After(r, outcome), NEW n \in {0, 1},
               runs' = [runs EXCEPT ![r] = @ + n],
               IF pc[r] = "operation" THEN n = 1 \/ outcome = "unavailable" ELSE n = 0
        PROVE  IInv'
    <2>1. pc[r] \in DatabaseSteps
      BY <1>4 DEF AtItsStep, Caller
    <2>2. /\ TypeInv' /\ Journey(r)' /\ UNCHANGED <<request, deployment>>
          /\ \A q \in Requests \ {r} : Untouched(q)
      BY <1>4, <2>1, AfterStep
    <2>3. \A c \in Served' : c[1] # r
      BY <1>4 DEF AtItsStep, Caller
    <2> QED BY <1>4, <2>2, <2>3, RequestKept
  <1>5. CASE ConnectionRefused(r) \/ ConnectionTimesOut(r)
    <2>1. "unavailable" \in Outcomes(r)
      BY DEF Outcomes, Failures
    <2>2. PoolInv' /\ Caller(r) \in Served /\ Served' = Served \ {Caller(r)}
      BY <1>5, OpenFailsStep, GivesUpStep DEF ConnectionRefused, ConnectionTimesOut
    <2>3. After(r, "unavailable") /\ runs' = [runs EXCEPT ![r] = @ + 0]
      BY <1>5 DEF ConnectionRefused, ConnectionTimesOut, TypeInv
    <2> QED BY <1>4, <2>1, <2>2, <2>3
  <1>6. CASE Work(r)
    <2>1. PICK outcome \in Outcomes(r) :
              /\ Release(Caller(r), Breaks(r, outcome)) /\ After(r, outcome)
              /\ runs' = [runs EXCEPT ![r] = @ + (IF pc[r] = "operation" THEN 1 ELSE 0)]
      BY <1>6 DEF Work
    <2>2. PoolInv' /\ Caller(r) \in Served /\ Served' = Served \ {Caller(r)}
      BY <2>1, ReleaseStep
    <2> QED BY <1>4, <2>1, <2>2
  <1> QED BY <1>1, <1>2, <1>3, <1>5, <1>6 DEF Proceed

LEMMA IInvStep == IInv /\ [Next]_vars => IInv'
  <1> SUFFICES ASSUME IInv, [Next]_vars PROVE IInv'
    OBVIOUS
  <1>1. ASSUME NEW r \in Requests, Proceed(r) \/ ConnectionTimesOut(r) PROVE IInv'
    BY <1>1, RequestStep
  <1>2. ASSUME PoolInv', Served' = Served, UNCHANGED requestVars PROVE IInv'
    <2>1. AtItsStep'
      BY <1>2 DEF IInv, AtItsStep, requestVars
    <2> QED BY <1>2, <2>1, PoolKept
  <1>3. CASE Pulse
    BY <1>2, <1>3, PulseStep DEF Pulse, IInv
  <1>4. CASE AbandonedConnection \/ IdleConnectionLost
    BY <1>2, <1>4, IdleStep DEF AbandonedConnection, IdleConnectionLost, IInv
  <1>5. CASE UNCHANGED vars
    BY <1>2, <1>5, IdleStep DEF vars, IInv
  <1> QED BY <1>1, <1>3, <1>4, <1>5 DEF Next

\* The inductive invariant, from which the theorems follow.
LEMMA Inductive == Spec => []IInv
  BY IInvInit, IInvStep, PTL DEF Spec

(***************************************************************************)
(* Theorems                                                                *)
(***************************************************************************)
\* The requests' and the pool's variables keep their types, for any requests, any
\* deployment and any size of the pool.
THEOREM TypeCorrect == Spec => [](TypeInv /\ PoolTypeOK)
  <1>1. IInv => TypeInv /\ PoolTypeOK
    BY DEF IInv, PoolInv
  <1> QED BY <1>1, Inductive, PTL

\* create_time is recorded for connections that were opened for the acquisition
\* (ObservedPostgresPool), whatever other requests do to the pool meanwhile.
THEOREM CreateTimesAreHonest == Spec => []CreateTimeHonest
  <1>1. IInv => CreateTimeHonest
    BY DEF IInv, PoolInv, Guessed, CreateTimeHonest, CreateTimeRecorded
  <1> QED BY <1>1, Inductive, PTL

\* The telemetry of DrizzleTransactionManager tells how often a creation was
\* tried, and that "busy" was its last attempt.
THEOREM RetriesAreHonest == Spec => []RetriesHonest
  <1>1. ASSUME IInv, NEW r \in Requests PROVE RetriesTold(r)
    <2>1. Journey(r) /\ MaxAttempts \in Nat \ {0}
      BY <1>1, MaxAttemptsAssumption DEF IInv
    <2>2. /\ pc[r] \in Steps /\ attempt[r] \in Nat /\ runs[r] \in Nat /\ retries[r] \in Nat
          /\ exhausted[r] \in Nat
      BY <1>1 DEF IInv, TypeInv
    <2>3. CASE Fresh(r)
      BY <2>1, <2>3 DEF Fresh, RetriesTold
    <2>4. ASSUME Trying(r), runs[r] <= MaxAttempts PROVE RetriesTold(r)
      BY <2>1, <2>2, <2>4 DEF Trying, RetriesTold
    <2>5. CASE pc[r] \in {"operation", "backoff"}
      <3>1. Trying(r) /\ runs[r] <= MaxAttempts
        BY <2>1, <2>2, <2>5 DEF Journey
      <3> QED BY <2>4, <3>1
    <2>6. CASE pc[r] = "answered"
      BY <2>1, <2>6 DEF Journey, Concluded
    <2> QED
      BY <2>1, <2>2, <2>3, <2>5, <2>6 DEF Journey, Steps, DatabaseSteps, Sweeps, ConsumeSteps
  <1>2. IInv => RetriesHonest
    BY <1>1 DEF RetriesHonest, RetriesTold
  <1> QED BY <1>2, Inductive, PTL

\* What a user operation answers is declared for it in the OpenAPI document.
THEOREM ContractIsKept == Spec => []ContractKept
  <1>1. ASSUME IInv, NEW r \in Requests, pc[r] = "answered", request[r].op \in UserOperations
        PROVE  Declared(request[r].op, answer[r])
    <2>1. Journey(r)
      BY <1>1 DEF IInv
    <2> QED BY <1>1, <2>1 DEF Journey, Concluded
  <1>2. IInv => ContractKept
    BY <1>1 DEF ContractKept, Declared
  <1> QED BY <1>2, Inductive, PTL

\* The client of a request with a known peer is known.
LEMMA ClientKnown ==
  ASSUME NEW q \in Request, q.peer # NoAddress
  PROVE  ClientAddress(q.peer, q.chain) # NoAddress
  <1> DEFINE outside == {i \in DOMAIN q.chain : q.chain[i] \notin Proxies}
  <1>1. q.chain \in Seq(Addresses \ {NoAddress})
    BY DEF Request
  <1>2. /\ Len(q.chain) \in Nat /\ outside \in SUBSET (1 .. Len(q.chain))
        /\ \A i \in 1 .. Len(q.chain) : q.chain[i] # NoAddress
    BY <1>1
  <1>3. outside # {} => Max(outside) \in 1 .. Len(q.chain)
    <2> HIDE DEF outside
    <2> QED BY <1>2, LastPosition
  <1>4. ReadableChain(q.chain) => 1 \in 1 .. Len(q.chain)
    BY <1>2 DEF ReadableChain
  <1> QED BY <1>2, <1>3, <1>4 DEF ClientAddress

\* No operation is begun for a request that something refuses, or that the
\* limiter has not admitted for its own client.
THEOREM OperationsAreAdmitted == Spec => []OnlyAdmitted
  <1>1. ASSUME IInv, NEW r \in Requests, runs[r] > 0 PROVE Cleared(r)
    <2>1. Journey(r) /\ pc[r] \in Steps
      BY <1>1 DEF IInv, TypeInv
    <2>2. ~Fresh(r)
      BY <1>1 DEF Fresh
    <2> QED
      BY <1>1, <2>1, <2>2 DEF Journey, Concluded, Steps, DatabaseSteps, Sweeps, ConsumeSteps
  <1>2. ASSUME IInv, NEW r \in Requests, runs[r] > 0
        PROVE  /\ Principal(r) # NoPrincipal
               /\ Principal(r).tenant /\ RequiredScope(request[r].op) \in Principal(r).scopes
               /\ ~request[r].large /\ request[r].input = "valid"
               /\ (request[r].op \in WithBody => request[r].json)
    <2>1. request[r] \in Request
      BY <1>2 DEF IInv, TypeInv
    <2> QED BY <1>1, <1>2, <2>1, FirstRefusals DEF Cleared
  <1>3. ASSUME IInv, NEW r \in Requests, runs[r] > 0,
               deployment.limiter # "none", request[r].peer # NoAddress
        PROVE  admitted[r] /\ charged[r] = <<Scope(request[r]), Client(r)>>
    <2>1. request[r] \in Request
      BY <1>3 DEF IInv, TypeInv
    <2>2. Client(r) # NoAddress
      BY <1>3, <2>1, ClientKnown DEF Client
    <2>3. Cleared(r)
      BY <1>1, <1>3
    <2>4. Scope(request[r]) # NoScope
      BY <2>3 DEF Cleared, UserOperations, Scope, NoScope
    <2>5. Limited(r)
      BY <1>3, <2>2, <2>4 DEF Limited
    <2> QED BY <2>3, <2>5 DEF Cleared, Passed, Charged
  <1>4. ASSUME NEW q \in Request
        PROVE  LET c == ClientAddress(q.peer, q.chain)
               IN  \/ c = q.peer
                   \/ Range(q.chain) \subseteq Proxies
                   \/ \A forged \in Proxies \cup Outsiders \cup {NotAnAddress} :
                          ClientAddress(q.peer, <<forged>> \o q.chain) \in {c, q.peer}
    <2>1. q.chain \in Seq(Addresses)
      <3>1. q.chain \in Seq(Addresses \ {NoAddress})
        BY DEF Request
      <3> QED BY <3>1, SeqMonotonic
    <2>2. Proxies \cup Outsiders \cup {NotAnAddress} \subseteq Addresses
      BY DEF Addresses
    <2> QED BY <2>1, <2>2, ForgedHop
  <1>5. IInv => OnlyAdmitted
    <2> SUFFICES ASSUME IInv, NEW r \in Requests, runs[r] > 0,
                        deployment.limiter # "none", request[r].peer # NoAddress
                 PROVE  /\ admitted[r]
                        /\ charged[r][1] = Scope(request[r])
                        /\ \/ charged[r][2] = request[r].peer
                           \/ Range(request[r].chain) \subseteq Proxies
                           \/ \A forged \in Proxies \cup Outsiders \cup {NotAnAddress} :
                                  ClientAddress(request[r].peer, <<forged>> \o request[r].chain)
                                      \in {charged[r][2], request[r].peer}
      BY <1>2 DEF OnlyAdmitted
    <2>1. request[r] \in Request
      BY DEF IInv, TypeInv
    <2>2. admitted[r] /\ charged[r][1] = Scope(request[r]) /\ charged[r][2] = Client(r)
      BY <1>3
    <2> QED BY <1>4, <2>1, <2>2 DEF Client
  <1> QED BY <1>5, Inductive, PTL

\* A request is with the pool at most once, for the step it is at; the pool
\* stays within its size and its gauges count who is with it.
THEOREM ConnectionsAreReturned == Spec => []ConnectionsReturned
  <1>1. ASSUME IInv PROVE ConnectionsReturned
    <2> USE <1>1
    <2>1. \A a \in Acquisitions : a.caller = Caller(a.caller[1])
      <3> TAKE a \in Acquisitions
      <3>1. a.caller \in Served
        BY DEF Served
      <3>2. a.caller \in Requests \X DatabaseSteps /\ a.caller[2] = pc[a.caller[1]]
        BY <3>1 DEF IInv, AtItsStep
      <3> QED BY <3>2 DEF Caller
    <2>2. ASSUME NEW r \in Requests
          PROVE  Cardinality({a \in Acquisitions : a.caller[1] = r}) <= 1
      <3> DEFINE S == {a \in Acquisitions : a.caller[1] = r}
      <3>1. \A a, b \in S : a = b
        <4>1. \A a, b \in Acquisitions : a.caller = b.caller => a = b
          BY DEF IInv, PoolInv, Distinct, Acquisitions, Range
        <4> QED BY <2>1, <4>1
      <3>2. S = {} \/ \E a : S = {a}
        BY <3>1
      <3> HIDE DEF S
      <3>3. CASE S = {}
        BY <3>3, FS_EmptySet DEF S
      <3>4. ASSUME NEW a, S = {a} PROVE Cardinality(S) <= 1
        <4>1. Cardinality({} \cup {a}) = 0 + 1
          BY FS_EmptySet, FS_AddElement
        <4>2. {} \cup {a} = {a}
          OBVIOUS
        <4> QED BY <3>4, <4>1, <4>2
      <3> QED BY <3>2, <3>3, <3>4 DEF S
    <2>3. /\ Cardinality(opening) \in Nat /\ Cardinality(held) \in Nat /\ Len(pending) \in Nat
          /\ idle \in Nat /\ abandoned \in Nat /\ size \in Nat
      BY FS_CardinalityType, PoolSizesAssumption DEF IInv, PoolInv, Counted, PoolTypeOK
    <2>4. Gauges.idle = idle /\ Gauges.max = size /\ Gauges.pending = Len(pending)
      BY DEF Gauges
    <2>5. Gauges.used = abandoned + Cardinality(opening) + Cardinality(held)
      <3>1. Gauges.used = IF totalCount > idle THEN totalCount - idle ELSE 0
        BY DEF Gauges
      <3> QED BY <2>3, <3>1 DEF totalCount
    <2>6. Gauges.idle + Gauges.used <= Gauges.max
      <3>1. totalCount <= size
        BY DEF IInv, PoolInv, Counted
      <3> QED BY <2>3, <2>4, <2>5, <3>1 DEF totalCount
    <2>7. Cardinality({r \in Requests : WithPool(Caller(r))}) = Cardinality(Served)
      <3> DEFINE B == {r \in Requests : WithPool(Caller(r))}
                 f == [c \in Served |-> c[1]]
      <3>1. \A c \in Served : c[1] \in Requests /\ c = Caller(c[1])
        BY DEF IInv, AtItsStep, Caller
      <3>2. \A r \in Requests : r \in B <=> Caller(r) \in Served
        BY ServedParts
      <3>3. f \in [Served -> B]
        BY <3>1, <3>2
      <3>4. \A c, d \in Served : f[c] = f[d] => c = d
        BY <3>1
      <3>5. \A r \in B : \E c \in Served : f[c] = r
        BY <3>2 DEF Caller
      <3> HIDE DEF B, f
      <3>6. f \in Bijection(Served, B)
        BY <3>3, <3>4, <3>5 DEF Bijection, Injection, Surjection, IsInjective
      <3>7. IsFiniteSet(Served)
        BY DEF IInv, PoolInv, Counted
      <3>8. Cardinality(B) = Cardinality(Served)
        BY <3>6, <3>7, FS_Bijection DEF ExistsBijection
      <3> QED BY <3>8 DEF B
    <2>8. Gauges.used - abandoned + Gauges.pending
            = Cardinality({r \in Requests : WithPool(Caller(r))})
      <3>1. Cardinality(Served) = Cardinality(opening) + Cardinality(held) + Len(pending)
        BY DEF IInv, PoolInv, Counted
      <3> QED BY <2>3, <2>4, <2>5, <2>7, <3>1
    <2> QED BY <2>1, <2>2, <2>6, <2>8 DEF ConnectionsReturned
  <1> QED BY <1>1, Inductive, PTL

-----------------------------------------------------------------------------
(***************************************************************************)
(* Every request comes to an end                                           *)
(*                                                                         *)
(* Two facts without fairness: the program never stands still while work   *)
(* is left, and every request has so many steps and no more.               *)
(***************************************************************************)
Opens(c) == \E a \in opening : a.caller = c

\* The guards of Proceed and of Pulse.
MayProceed(r) ==
  \/ pc[r] \in {"arrived", "route", "backoff"}
  \/ pc[r] \in DatabaseSteps /\ (~WithPool(Caller(r)) \/ Opens(Caller(r)) \/ Holds(Caller(r)))

MayPulse == pending # <<>> /\ (idle > 0 \/ HasRoom)

\* A pool in which nobody can be served has all its connections with someone.
LEMMA PoolUsedUp ==
  ASSUME PoolInv, pending # <<>>, ~MayPulse
  PROVE  abandoned > 0 \/ opening # {} \/ held # {}
  <1>1. /\ idle \in Nat /\ abandoned \in Nat /\ size \in Nat \ {0} /\ idle = 0
        /\ ~(totalCount < size)
    BY PoolSizesAssumption DEF PoolInv, PoolTypeOK, MayPulse, HasRoom
  <1>2. opening = {} /\ held = {} => totalCount = idle + abandoned
    BY <1>1, FS_EmptySet DEF totalCount
  <1> QED BY <1>1, <1>2

\* The program never stands still with a request unanswered: whoever waits for a
\* connection waits for one that is being opened or for a request that goes on.
THEOREM NoStandstill ==
  Spec => [](\/ \A r \in Requests : pc[r] = "answered"
             \/ \E r \in Requests : MayProceed(r)
             \/ MayPulse
             \/ abandoned > 0)
  <1>1. ASSUME IInv, NEW r \in Requests, pc[r] # "answered", ~MayPulse,
               \A q \in Requests : ~MayProceed(q)
        PROVE  abandoned > 0
    <2>1. PoolInv /\ AtItsStep /\ pc[r] \in Steps
      BY <1>1 DEF IInv, TypeInv
    <2>2. pc[r] \in DatabaseSteps
      BY <1>1, <2>1 DEF Steps, MayProceed
    <2>3. WithPool(Caller(r)) /\ ~Opens(Caller(r)) /\ ~Holds(Caller(r))
      BY <1>1, <2>2 DEF MayProceed
    <2>4. pending # <<>>
      BY <2>3 DEF WithPool, Opens, Holds, Range
    <2>5. \A a \in opening \cup held : FALSE
      <3> SUFFICES ASSUME NEW a \in opening \cup held PROVE FALSE
        OBVIOUS
      <3>1. a.caller \in Served
        BY ServedParts
      <3>2. a.caller \in Requests \X DatabaseSteps /\ a.caller[2] = pc[a.caller[1]]
        BY <2>1, <3>1 DEF AtItsStep
      <3>3. a.caller = Caller(a.caller[1]) /\ pc[a.caller[1]] \in DatabaseSteps
        BY <3>2 DEF Caller
      <3>4. Opens(a.caller) \/ Holds(a.caller)
        BY DEF Opens, Holds
      <3> QED BY <1>1, <3>2, <3>3, <3>4 DEF MayProceed
    <2> QED BY <1>1, <2>1, <2>4, <2>5, PoolUsedUp
  <1>2. IInv => \/ \A r \in Requests : pc[r] = "answered"
                \/ \E r \in Requests : MayProceed(r)
                \/ MayPulse
                \/ abandoned > 0
    BY <1>1
  <1> QED BY <1>2, Inductive, PTL
\* How many steps a request is from the end of its use of the pool: it has yet to ask,
\* it is in the queue, a connection is being opened for it, it has one.
Stage(r) ==
  IF Holds(Caller(r)) THEN 1
  ELSE IF Opens(Caller(r)) THEN 2
  ELSE IF WithPool(Caller(r)) THEN 3 ELSE 4

\* How many steps a request can still take, however often its transaction is retried.
StepsLeft(r) ==
  CASE pc[r] = "answered"  -> 0
    [] pc[r] = "backoff"   -> 5 * (MaxAttempts - attempt[r])
    [] pc[r] = "operation" -> 5 * (MaxAttempts - attempt[r]) + Stage(r)
    [] OTHER ->
         5 * MaxAttempts
           + CASE pc[r] = "ledgerSweep"  -> Stage(r)
               [] pc[r] = "route"        -> 5
               [] pc[r] = "bucketSelect" -> 5 + Stage(r)
               [] pc[r] = "bucketUpdate" -> 10 + Stage(r)
               [] pc[r] = "bucketInsert" -> 15 + Stage(r)
               [] pc[r] = "limiterSweep" -> 20 + Stage(r)
               [] OTHER                  -> 25

\* A step of one request: it brings the request closer to its answer, and no other
\* one further from it.
OneStep(r) ==
  /\ StepsLeft(r)' < StepsLeft(r)
  /\ \A q \in Requests \ {r} : StepsLeft(q)' = StepsLeft(q)

\* Where a request goes, and that its attempts are counted.
Onward(r) ==
  \/ pc'[r] = "answered" /\ pc[r] \notin {"answered", "backoff"}
  \/ pc[r] = "arrived" /\ pc'[r] \in {"limiterSweep", "bucketInsert", "route"}
  \/ pc[r] = "limiterSweep" /\ pc'[r] = "bucketInsert"
  \/ pc[r] = "bucketInsert" /\ pc'[r] = "bucketUpdate"
  \/ pc[r] = "bucketUpdate" /\ pc'[r] = "bucketSelect"
  \/ pc[r] \in ConsumeSteps /\ pc'[r] = "route"
  \/ pc[r] = "route" /\ pc'[r] \in {"ledgerSweep", "operation"} /\ attempt'[r] = attempt[r]
  \/ pc[r] = "ledgerSweep" /\ pc'[r] = "operation" /\ attempt'[r] = attempt[r]
  \/ pc[r] = "operation" /\ pc'[r] = "backoff" /\ attempt'[r] = attempt[r]
  \/ pc[r] = "backoff" /\ pc'[r] = "operation" /\ attempt'[r] = attempt[r] + 1

LEMMA StageNumber ==
  ASSUME NEW r
  PROVE  Stage(r) \in 1 .. 4 /\ Stage(r)' \in 1 .. 4
  BY DEF Stage

LEMMA LeftOf ==
  ASSUME NEW r \in Requests, TypeInv, Journey(r)
  PROVE  StepsLeft(r) \in 0 .. 5 * MaxAttempts + 25
  <1>1. Stage(r) \in 1 .. 4 /\ MaxAttempts \in Nat \ {0} /\ attempt[r] \in Nat
    BY StageNumber, MaxAttemptsAssumption DEF TypeInv
  <1>2. pc[r] = "operation" => attempt[r] <= MaxAttempts
    BY DEF Journey
  <1>3. pc[r] = "backoff" => attempt[r] < MaxAttempts
    BY DEF Journey
  <1> HIDE DEF Stage
  <1> QED BY <1>1, <1>2, <1>3 DEF StepsLeft

LEMMA OnwardCounts ==
  ASSUME NEW r \in Requests, TypeInv, Journey(r), Journey(r)', Onward(r)
  PROVE  StepsLeft(r)' < StepsLeft(r)
  <1>1. /\ Stage(r) \in 1 .. 4 /\ Stage(r)' \in 1 .. 4
        /\ MaxAttempts \in Nat \ {0} /\ attempt[r] \in Nat
    BY StageNumber, MaxAttemptsAssumption DEF TypeInv
  <1>2. /\ pc[r] = "operation" => attempt[r] <= MaxAttempts
        /\ pc[r] = "backoff" => attempt[r] < MaxAttempts
        /\ pc[r] \in {"route", "ledgerSweep"} => attempt[r] = 1
    BY DEF Journey, Fresh
  <1> HIDE DEF Stage
  <1>3. CASE pc'[r] = "answered" /\ pc[r] \notin {"answered", "backoff"}
    BY <1>1, <1>2, <1>3 DEF StepsLeft
  <1>4. CASE pc'[r] # "answered"
    BY <1>1, <1>2, <1>4 DEF Onward, StepsLeft, ConsumeSteps
  <1> QED BY <1>3, <1>4 DEF Onward

LEMMA AfterOnward ==
  ASSUME TypeInv, NEW r \in Requests, pc[r] \in DatabaseSteps,
         NEW outcome \in Outcomes(r), After(r, outcome)
  PROVE  Onward(r)
  <1>1. ASSUME NEW step, GoTo(r, step) PROVE pc'[r] = step
    BY <1>1 DEF GoTo, TypeInv
  <1>2. \A a : Reply(r, a) => pc'[r] = "answered"
    BY <1>1 DEF Reply
  <1>3. CASE pc[r] \in Sweeps
    <2>1. AfterSweep(r)
      BY <1>3 DEF After, Sweeps, ConsumeSteps
    <2> QED BY <1>1, <1>3, <2>1 DEF AfterSweep, Sweeps, Onward
  <1>4. CASE pc[r] \in ConsumeSteps
    <2>1. AfterConsume(r, outcome)
      BY <1>4 DEF After, ConsumeSteps, Sweeps
    <2>2. outcome \in {"allowed", "taken", "denied"} \cup Failures
      BY <1>4 DEF Outcomes, ConsumeSteps, Sweeps
    <2>3. pc[r] = "bucketSelect" => outcome # "taken"
      BY DEF Outcomes, Sweeps, Failures
    <2>4. CASE outcome = "allowed"
      BY <1>1, <1>4, <2>1, <2>4 DEF AfterConsume, Failures, Onward
    <2>5. CASE outcome = "taken"
      BY <1>1, <1>4, <2>1, <2>3, <2>5 DEF AfterConsume, Failures, Onward, ConsumeSteps
    <2>6. CASE outcome = "denied" \/ outcome \in Failures
      BY <1>2, <1>4, <2>1, <2>6 DEF AfterConsume, Failures, Onward, ConsumeSteps
    <2> QED BY <2>2, <2>4, <2>5, <2>6
  <1>5. CASE pc[r] = "operation"
    <2>1. AfterOperation(r, outcome)
      BY <1>5 DEF After, ConsumeSteps, Sweeps
    <2> QED BY <1>1, <1>2, <1>5, <2>1 DEF AfterOperation, Onward
  <1> QED BY <1>3, <1>4, <1>5 DEF DatabaseSteps

\* An operation of the pool for one caller leaves every other one where it is.
LEMMA StagesKept ==
  ASSUME NEW c, \/ Connect(c) \/ Opened(c) \/ OpenFails(c) \/ AcquireTimesOut(c)
                \/ \E broken : Release(c, broken)
  PROVE  \A d : d # c => (Holds(d)' <=> Holds(d)) /\ (Opens(d)' <=> Opens(d))
  <1>1. CASE Connect(c)
    BY <1>1 DEF Connect, Holds, Opens
  <1>2. CASE Opened(c)
    BY <1>2 DEF Opened, Acquired, Holds, Opens
  <1>3. CASE OpenFails(c) \/ AcquireTimesOut(c)
    BY <1>3 DEF OpenFails, AcquireTimesOut, GivesUp, Holds, Opens
  <1>4. CASE \E broken : Release(c, broken)
    BY <1>4 DEF Release, Holds, Opens
  <1> QED BY <1>1, <1>2, <1>3, <1>4

\* Who is untouched and stays where it is with the pool has as many steps left.
LEMMA SameLeft ==
  ASSUME NEW q \in Requests, pc'[q] = pc[q], attempt'[q] = attempt[q],
         /\ Holds(Caller(q))' <=> Holds(Caller(q))
         /\ Opens(Caller(q))' <=> Opens(Caller(q))
         /\ WithPool(Caller(q))' <=> WithPool(Caller(q))
  PROVE  StepsLeft(q)' = StepsLeft(q)
  <1>1. Stage(q)' = Stage(q)
    BY DEF Stage
  <1> QED BY <1>1 DEF StepsLeft

LEMMA OthersCount ==
  ASSUME NEW r \in Requests, pc[r] \in DatabaseSteps,
         \A q \in Requests \ {r} : pc'[q] = pc[q] /\ attempt'[q] = attempt[q],
         \/ Connect(Caller(r)) \/ Opened(Caller(r)) \/ OpenFails(Caller(r))
         \/ AcquireTimesOut(Caller(r)) \/ \E broken : Release(Caller(r), broken),
         Served' \in {Served, Served \cup {Caller(r)}, Served \ {Caller(r)}}
  PROVE  \A q \in Requests \ {r} : StepsLeft(q)' = StepsLeft(q)
  <1> TAKE q \in Requests \ {r}
  <1>1. Caller(q)' = Caller(q) /\ Caller(q) # Caller(r)
    BY DEF Caller
  <1>2. /\ Holds(Caller(q))' <=> Holds(Caller(q))
        /\ Opens(Caller(q))' <=> Opens(Caller(q))
    <2> DEFINE d == Caller(q)
    <2>1. \A e : e # Caller(r) => (Holds(e)' <=> Holds(e)) /\ (Opens(e)' <=> Opens(e))
      BY StagesKept
    <2> QED BY <1>1, <2>1 DEF Holds, Opens
  <1>3. WithPool(Caller(q))' <=> WithPool(Caller(q))
    BY <1>1 DEF WithPool, Served, Acquisitions
  <1> QED BY <1>1, <1>2, <1>3, SameLeft

\* A step with the pool brings a request closer to the end of its use of it.
LEMMA StageCounts ==
  ASSUME TypeInv, NEW r \in Requests, pc[r] \in DatabaseSteps,
         pc'[r] = pc[r], attempt'[r] = attempt[r], Stage(r)' < Stage(r)
  PROVE  StepsLeft(r)' < StepsLeft(r)
  <1>1. /\ Stage(r) \in 1 .. 4 /\ Stage(r)' \in 1 .. 4
        /\ MaxAttempts \in Nat \ {0} /\ attempt[r] \in Nat
    BY StageNumber, MaxAttemptsAssumption DEF TypeInv
  <1> HIDE DEF Stage
  <1> QED BY <1>1 DEF StepsLeft, DatabaseSteps, Sweeps, ConsumeSteps

LEMMA AcquiredHeld ==
  ASSUME NEW a, NEW source, Acquired(a, source)
  PROVE  \E l \in held' : l.caller = a.caller
  <1> DEFINE l == [caller |-> a.caller, creating |-> a.creating, source |-> source]
  <1>1. l \in held' /\ l.caller = a.caller
    BY DEF Acquired
  <1> QED BY <1>1

LEMMA RequestCounts ==
  ASSUME IInv, NEW r \in Requests, Proceed(r) \/ ConnectionTimesOut(r)
  PROVE  OneStep(r)
  <1>0. /\ TypeInv /\ PoolInv /\ AtItsStep /\ Journey(r) /\ Journey(r)'
        /\ UNCHANGED <<request, deployment>>
    <2>1. IInv'
      BY RequestStep
    <2>2. UNCHANGED <<request, deployment>>
      BY DEF Proceed, Arrive, Dispatch, AskForConnection, ConnectionOpened, ConnectionRefused,
             ConnectionTimesOut, Work, Retry, After, requestVars
    <2> QED BY <2>1, <2>2 DEF IInv
  <1>1. CASE Arrive(r) \/ Dispatch(r) \/ Retry(r)
    <2>1. UNCHANGED poolVars /\ \A q \in Requests \ {r} : Untouched(q)
      BY <1>0, <1>1, ArriveJourney, DispatchJourney, RetryJourney DEF Arrive, Dispatch, Retry
    <2>2. \A q \in Requests \ {r} : StepsLeft(q)' = StepsLeft(q)
      BY <2>1, SameLeft DEF Untouched, poolVars, Holds, Opens, WithPool, Caller
    <2>3. Onward(r)
      <3>1. ASSUME NEW step, GoTo(r, step) PROVE pc'[r] = step
        BY <1>0, <3>1 DEF GoTo, TypeInv
      <3>2. \A a : Reply(r, a) => pc'[r] = "answered"
        BY <3>1 DEF Reply
      <3>3. CASE Arrive(r)
        BY <3>1, <3>2, <3>3 DEF Arrive, Onward
      <3>4. CASE Dispatch(r)
        <4>1. pc[r] = "route" /\ attempt' = attempt
          BY <3>4 DEF Dispatch
        <4>2. pc'[r] \in {"answered", "operation", "ledgerSweep"}
          BY <3>1, <3>2, <3>4 DEF Dispatch
        <4> QED BY <4>1, <4>2 DEF Onward
      <3>5. CASE Retry(r)
        BY <1>0, <3>1, <3>5 DEF Retry, Onward, TypeInv
      <3> QED BY <1>1, <3>3, <3>4, <3>5
    <2> QED BY <1>0, <2>2, <2>3, OnwardCounts DEF OneStep
  <1>2. CASE AskForConnection(r)
    <2>1. /\ pc[r] \in DatabaseSteps /\ Caller(r) \notin Served /\ Connect(Caller(r))
          /\ UNCHANGED requestVars /\ Caller(r) \in Callers
      BY <1>2, ServedParts, CallersAssumption DEF AskForConnection, Caller
    <2>2. UNCHANGED <<pc, attempt>> /\ Caller(r)' = Caller(r)
      BY <2>1 DEF requestVars, Caller
    <2>3. Served' = Served \cup {Caller(r)}
      BY <1>0, <2>1, ConnectStep
    <2>4. Stage(r) = 4
      BY <2>1 DEF Stage, WithPool, Opens, Holds, Served, Acquisitions
    <2>5. WithPool(Caller(r))'
      BY <2>2, <2>3 DEF WithPool, Served, Acquisitions
    <2>6. Stage(r)' < Stage(r)
      BY <2>4, <2>5 DEF Stage
    <2> QED BY <1>0, <2>1, <2>2, <2>3, <2>6, StageCounts, OthersCount DEF OneStep
  <1>3. ASSUME Caller(r) \in Served PROVE pc[r] \in DatabaseSteps
    BY <1>0, <1>3 DEF AtItsStep, Caller
  <1>4. CASE ConnectionOpened(r)
    <2>1. Served' = Served /\ UNCHANGED requestVars /\ Opened(Caller(r))
      BY <1>0, <1>4, OpenedStep DEF ConnectionOpened
    <2>2. UNCHANGED <<pc, attempt>> /\ Caller(r)' = Caller(r)
      BY <2>1 DEF requestVars, Caller
    <2>3. Opens(Caller(r)) /\ Holds(Caller(r))'
      <3> DEFINE c == Caller(r)
      <3>1. PICK a \in opening : a.caller = c /\ Acquired(a, "new")
        BY <2>1 DEF Opened
      <3>2. \E l \in held' : l.caller = c
        BY <3>1, AcquiredHeld
      <3> QED BY <2>2, <3>1, <3>2 DEF Opens, Holds
    <2>4. ~Holds(Caller(r))
      BY <1>0, <2>3 DEF PoolInv, Distinct, Opens, Holds
    <2>5. Stage(r)' < Stage(r)
      BY <2>3, <2>4 DEF Stage
    <2>6. pc[r] \in DatabaseSteps
      BY <1>3, <2>3, ServedParts DEF Opens
    <2> QED BY <1>0, <2>1, <2>2, <2>5, <2>6, StageCounts, OthersCount DEF OneStep
  <1>5. ASSUME Caller(r) \in Served, Served' = Served \ {Caller(r)},
               NEW outcome \in Outcomes(r), After(r, outcome), NEW n \in {0, 1},
               runs' = [runs EXCEPT ![r] = @ + n],
               IF pc[r] = "operation" THEN n = 1 \/ outcome = "unavailable" ELSE n = 0,
               \/ OpenFails(Caller(r)) \/ AcquireTimesOut(Caller(r))
               \/ \E broken : Release(Caller(r), broken)
        PROVE  OneStep(r)
    <2>1. pc[r] \in DatabaseSteps
      BY <1>3, <1>5
    <2>2. \A q \in Requests \ {r} : Untouched(q)
      BY <1>0, <1>5, <2>1, AfterStep
    <2>3. StepsLeft(r)' < StepsLeft(r)
      BY <1>0, <1>5, <2>1, AfterOnward, OnwardCounts
    <2>4. \A q \in Requests \ {r} : StepsLeft(q)' = StepsLeft(q)
      BY <1>5, <2>1, <2>2, OthersCount DEF Untouched
    <2> QED BY <2>3, <2>4 DEF OneStep
  <1>6. CASE ConnectionRefused(r) \/ ConnectionTimesOut(r)
    <2>1. "unavailable" \in Outcomes(r)
      BY DEF Outcomes, Failures
    <2>2. Caller(r) \in Served /\ Served' = Served \ {Caller(r)}
      BY <1>0, <1>6, OpenFailsStep, GivesUpStep DEF ConnectionRefused, ConnectionTimesOut
    <2>3. After(r, "unavailable") /\ runs' = [runs EXCEPT ![r] = @ + 0]
      BY <1>0, <1>6 DEF ConnectionRefused, ConnectionTimesOut, TypeInv
    <2>4. OpenFails(Caller(r)) \/ AcquireTimesOut(Caller(r))
      BY <1>6 DEF ConnectionRefused, ConnectionTimesOut
    <2> QED BY <1>5, <2>1, <2>2, <2>3, <2>4
  <1>7. CASE Work(r)
    <2>1. PICK outcome \in Outcomes(r) :
              /\ Release(Caller(r), Breaks(r, outcome)) /\ After(r, outcome)
              /\ runs' = [runs EXCEPT ![r] = @ + (IF pc[r] = "operation" THEN 1 ELSE 0)]
      BY <1>7 DEF Work
    <2>2. Caller(r) \in Served /\ Served' = Served \ {Caller(r)}
      BY <1>0, <2>1, ReleaseStep
    <2>3. \E broken : Release(Caller(r), broken)
      BY <2>1
    <2> QED BY <1>5, <2>1, <2>2, <2>3
  <1> QED BY <1>1, <1>2, <1>4, <1>6, <1>7 DEF Proceed

\* Whoever is served from the queue is closer to the end, and nobody else concerned.
LEMMA PulseCounts ==
  ASSUME IInv, Pulse
  PROVE  \E r \in Requests : OneStep(r)
  <1> DEFINE h == Head(pending)
  <1>0. /\ TypeInv /\ PoolInv /\ AtItsStep
        /\ pending # <<>> /\ PulseQueue /\ UNCHANGED <<pc, attempt>>
    BY DEF IInv, Pulse, PulseQueue, requestVars
  <1>1. /\ Served' = Served /\ 1 \in DOMAIN pending /\ h = pending[1]
    BY <1>0, PulseStep, HeadTailProperties DEF PoolInv, PoolTypeOK
  <1> HIDE DEF h
  <1>2. h.caller \in Served /\ \A a \in opening \cup held : a.caller # h.caller
    BY <1>0, <1>1, ServedParts DEF PoolInv, Distinct
  <1>3. PICK r \in Requests : h.caller = Caller(r) /\ pc[r] \in DatabaseSteps
    BY <1>0, <1>2 DEF AtItsStep, Caller
  <1>4. \A q \in Requests : Caller(q)' = Caller(q)
    BY <1>0 DEF Caller
  <1>5. \/ Acquired(h, "idle") /\ UNCHANGED opening
        \/ opening' = opening \cup {h} /\ UNCHANGED held
    BY <1>0 DEF PulseQueue, h
  <1>6. /\ Holds(Caller(r))' \/ Opens(Caller(r))'
        /\ \A d : d # Caller(r) => (Holds(d)' <=> Holds(d)) /\ (Opens(d)' <=> Opens(d))
    <2> DEFINE c == Caller(r)
    <2>1. (\E l \in held' : l.caller = c) \/ \E a \in opening' : a.caller = c
      BY <1>3, <1>5, AcquiredHeld
    <2>2. \A d : d # c => (Holds(d)' <=> Holds(d)) /\ (Opens(d)' <=> Opens(d))
      BY <1>3, <1>5 DEF Acquired, Holds, Opens
    <2> QED BY <1>4, <2>1, <2>2 DEF Holds, Opens
  <1>7. Stage(r)' < Stage(r)
    <2>1. Stage(r) = 3
      BY <1>2, <1>3, ServedParts DEF Stage, Holds, Opens
    <2>2. Stage(r)' \in {1, 2}
      BY <1>6 DEF Stage
    <2> QED BY <2>1, <2>2
  <1>8. \A q \in Requests \ {r} : StepsLeft(q)' = StepsLeft(q)
    <2> TAKE q \in Requests \ {r}
    <2>1. Caller(q) # Caller(r)
      BY DEF Caller
    <2>2. WithPool(Caller(q))' <=> WithPool(Caller(q))
      BY <1>1, <1>4 DEF WithPool, Served, Acquisitions
    <2>3. /\ Holds(Caller(q))' <=> Holds(Caller(q))
          /\ Opens(Caller(q))' <=> Opens(Caller(q))
      BY <1>4, <1>6, <2>1 DEF Holds, Opens
    <2> QED BY <1>0, <2>2, <2>3, SameLeft
  <1> QED BY <1>0, <1>3, <1>7, <1>8, StageCounts DEF OneStep

\* A request takes a bounded number of steps, be its transaction retried or not: every
\* step of Next brings one request closer to its answer and no other one further from
\* it, save that connections nobody waits for come and go.
THEOREM EveryStepCounts ==
  Spec => /\ [](\A r \in Requests : StepsLeft(r) \in 0 .. 5 * MaxAttempts + 25)
          /\ [][\/ \E r \in Requests : OneStep(r)
                \/ AbandonedConnection \/ IdleConnectionLost]_vars
  <1>1. IInv => \A r \in Requests : StepsLeft(r) \in 0 .. 5 * MaxAttempts + 25
    BY LeftOf DEF IInv
  <1>2. IInv /\ [Next]_vars => [\/ \E r \in Requests : OneStep(r)
                                \/ AbandonedConnection \/ IdleConnectionLost]_vars
    BY RequestCounts, PulseCounts DEF Next
  <1> QED BY <1>1, <1>2, Inductive, PTL DEF Spec
=============================================================================
