--------------------------- MODULE ListingProofs ---------------------------
(***************************************************************************)
(* What holds of UserListing for any users, page size and resolution of    *)
(* time.                                                                   *)
(***************************************************************************)
EXTENDS UserListing, FiniteSetTheorems, TLAPS

\* A walk that has not begun has listed nobody, and only a walk by number counts.
Begun ==
  /\ walk.pc = "idle" => walk.page = 0 /\ listed = [i \in Ids |-> 0] /\ standing = {}
  /\ walk.pc = "cursor" => walk.page = 0
  /\ walk.pc = "offset" => walk.page > 1

\* Who has been there throughout is there.
Present == standing \subseteq Rows

\* A walk by cursor has listed who does not come after it, each of them once.
Swept ==
  walk.page = 0 =>
    /\ \A i \in Ids : listed[i] <= 1
    /\ \A i \in Ids : listed[i] > 0 => i \notin Foreign /\ user[i].pc \in {"committed", "gone"}
    /\ walk.pc = "cursor" =>
         /\ \A i \in Ids : listed[i] > 0 => ~Before(walk.after, Pos(i))
         /\ \A i \in standing : listed[i] > 0 \/ Before(walk.after, Pos(i))

\* A walk by number has listed the rows of its pages, if nothing has moved.
Tiled ==
  walk.page > 1 /\ quiet =>
    \A i \in Ids :
      listed[i] = IF i \in Rows /\ Rank(Rows, i) < (walk.page - 1) * Limit THEN 1 ELSE 0

IInv == /\ TypeOK
        /\ Begun /\ Present /\ Swept /\ Tiled
        /\ NoneSkipped /\ PagesTile
        /\ walk.pc = "done" => walk.page = 0 \/ walk.page > 1

-----------------------------------------------------------------------------
(***************************************************************************)
(* Keys.                                                                   *)
(***************************************************************************)
LEMMA DivFloor ==
  ASSUME NEW a \in Int, NEW m \in Nat \ {0}
  PROVE  /\ a \div m \in Int
         /\ (a \div m) * m <= a
         /\ a < (a \div m) * m + m
BY Z3

\* What the column stores are whole milliseconds.
LEMMA StoredWhole ==
  ASSUME NEW now \in Nat
  PROVE  Stored(now) \in Millis
<1> DEFINE q == (now + Milli \div 2) \div Milli
<1>1. Milli \div 2 \in Nat
  BY Numbers
<1>2. q \in Nat
  BY <1>1, Numbers
<1>3. Stored(now) = Milli * q
  BY DEF Stored
<1> HIDE DEF q
<1>4. Milli * q \in Nat /\ (Milli * q) % Milli = 0
  BY <1>2, Numbers, Z3
<1> QED BY <1>3, <1>4 DEF Millis

\* A whole number of milliseconds survives the Date.
LEMMA EncodedSame ==
  ASSUME NEW p \in Position
  PROVE  Encoded(p) = p
<1>1. p.createdAt \in Nat /\ p.createdAt % Milli = 0
  BY DEF Position, Millis
<1>2. Milli * (p.createdAt \div Milli) = p.createdAt
  BY <1>1, Numbers, Z3
<1> QED BY <1>2 DEF Encoded, Position

\* Keys are totally ordered.
LEMMA Order ==
  /\ \A p, q \in Position : Before(p, q) => ~Before(q, p)
  /\ \A p, q, r \in Position : Before(p, q) /\ Before(q, r) => Before(p, r)
  /\ \A p, q \in Position : p.id # q.id => Before(p, q) \/ Before(q, p)
BY DEF Before, Position, Millis

LEMMA PosTyped == ASSUME TypeOK, NEW i \in Ids PROVE Pos(i) \in Position /\ Pos(i).id = i
BY Users DEF TypeOK, Pos, Position

-----------------------------------------------------------------------------
(***************************************************************************)
(* Ranks and pages.                                                        *)
(***************************************************************************)
LEMMA Finite == ASSUME NEW rows \in SUBSET Ids
                PROVE  IsFiniteSet(rows) /\ Cardinality(rows) \in Nat
BY Users, FS_Subset, FS_CardinalityType

\* A rank is smaller than the number of rows and grows along the order.
LEMMA RankBounds ==
  ASSUME TypeOK, NEW rows \in SUBSET Ids, NEW i \in rows
  PROVE  /\ Rank(rows, i) \in Nat /\ Rank(rows, i) < Cardinality(rows)
         /\ \A j \in rows : Before(Pos(j), Pos(i)) => Rank(rows, j) <= Rank(rows, i)
<1> DEFINE above(k) == {j \in rows : Before(Pos(j), Pos(k))}
<1>1. \A k \in rows : Rank(rows, k) = Cardinality(above(k)) /\ above(k) \subseteq rows
  BY DEF Rank
<1>2. i \notin above(i)
  BY PosTyped, Order
<1>3. \A k \in rows : IsFiniteSet(above(k)) /\ Rank(rows, k) \in Nat
                      /\ Rank(rows, k) <= Cardinality(rows)
  BY <1>1, Finite, FS_Subset, FS_CardinalityType
<1>4. Rank(rows, i) # Cardinality(rows)
  BY <1>1, <1>2, Finite, FS_Subset
<1>5. ASSUME NEW j \in rows, Before(Pos(j), Pos(i))
      PROVE  Rank(rows, j) <= Rank(rows, i)
  <2>1. above(j) \subseteq above(i)
    BY <1>5, PosTyped, Order
  <2>2. IsFiniteSet(above(i))
    BY <1>3
  <2> HIDE DEF above
  <2>3. Cardinality(above(j)) <= Cardinality(above(i))
    BY <2>1, <2>2, FS_Subset
  <2> QED BY <1>1, <2>3
<1> HIDE DEF above
<1>6. Cardinality(rows) \in Nat
  BY Finite
<1>7. Rank(rows, i) \in Nat /\ Rank(rows, i) < Cardinality(rows)
  BY <1>3, <1>4, <1>6
<1> QED BY <1>5, <1>7

\* The first page leaves out only what comes after each of its rows, and nothing
\* if there are no more rows than the limit.
LEMMA FirstPage ==
  ASSUME TypeOK, NEW rows \in SUBSET Ids
  PROVE  /\ Slice(rows, 0, Limit) \subseteq rows
         /\ \A i \in rows \ Slice(rows, 0, Limit), last \in Slice(rows, 0, Limit) :
              Before(Pos(last), Pos(i))
         /\ Cardinality(rows) <= Limit => Slice(rows, 0, Limit) = rows
<1>1. \A i \in rows : i \in Slice(rows, 0, Limit) <=> Rank(rows, i) < Limit
  BY RankBounds, Numbers DEF Slice
<1>2. Slice(rows, 0, Limit) \subseteq rows
  BY DEF Slice
<1>3. ASSUME NEW i \in rows \ Slice(rows, 0, Limit), NEW last \in Slice(rows, 0, Limit)
      PROVE  Before(Pos(last), Pos(i))
  <2>1. last \in rows /\ i # last /\ Rank(rows, last) < Limit /\ ~(Rank(rows, i) < Limit)
    BY <1>1, <1>2
  <2>2. Before(Pos(last), Pos(i)) \/ Before(Pos(i), Pos(last))
    BY <2>1, PosTyped, Order
  <2>3. ~Before(Pos(i), Pos(last))
    BY <2>1, RankBounds, Numbers
  <2> QED BY <2>2, <2>3
<1>4. ASSUME Cardinality(rows) <= Limit PROVE Slice(rows, 0, Limit) = rows
  <2>1. Cardinality(rows) \in Nat
    BY Finite
  <2>2. \A i \in rows : Rank(rows, i) < Limit
    BY <1>4, <2>1, RankBounds, Numbers
  <2> QED BY <1>1, <1>2, <2>2
<1> QED BY <1>2, <1>3, <1>4

\* Slices of consecutive pages do not overlap, and the last one is the last.
LEMMA PageBounds ==
  ASSUME NEW p \in Nat \ {0}, NEW c \in Nat
  PROVE  /\ (p - 1) * Limit \in Nat /\ p * Limit = (p - 1) * Limit + Limit
         /\ ~(p < (c + Limit - 1) \div Limit) => c <= p * Limit
<1> DEFINE q == (c + Limit - 1) \div Limit
<1>1. (p - 1) * Limit \in Nat /\ p * Limit = (p - 1) * Limit + Limit
  BY Numbers
<1>2. q \in Int /\ c + Limit - 1 < q * Limit + Limit
  BY DivFloor, Numbers
<1>3. ASSUME ~(p < q) PROVE c <= p * Limit
  <2> HIDE DEF q
  <2>1. (p - q) * Limit >= 0 /\ (p - q) * Limit = p * Limit - q * Limit
    BY <1>2, <1>3, Numbers
  <2>2. q * Limit \in Int /\ p * Limit \in Int
    BY <1>2, Numbers
  <2> QED BY <1>2, <2>1, <2>2, Numbers
<1> QED BY <1>1, <1>3

-----------------------------------------------------------------------------
(***************************************************************************)
(* The invariant.                                                          *)
(***************************************************************************)
LEMMA InitOK == Init => IInv
<1> SUFFICES ASSUME Init PROVE IInv
  OBVIOUS
<1>1. 0 \in Millis /\ 0 \in Nat
  BY Numbers DEF Millis
<1>2. TypeOK
  BY <1>1 DEF Init, TypeOK, Position
<1>3. Begun /\ Present /\ Swept /\ Tiled /\ NoneSkipped /\ PagesTile
  BY DEF Init, Begun, Present, Swept, Tiled, NoneSkipped, PagesTile
<1> QED BY <1>2, <1>3 DEF Init, IInv

\* A page of the cursor keeps the invariant: rows are what is not before it, and
\* whoever has been listed, or is missing, is on the other side.
LEMMA CursorOK ==
  ASSUME TypeOK, NEW rows \in SUBSET Rows,
         \A i \in rows : listed[i] = 0,
         \A i \in Ids : listed[i] <= 1,
         \A i \in Ids : listed[i] > 0 =>
           i \notin Foreign /\ user[i].pc \in {"committed", "gone"},
         \A i \in Ids, j \in rows : listed[i] > 0 => ~Before(Pos(j), Pos(i)),
         walk.page = 0, UNCHANGED <<clock, user>>, quiet' \in BOOLEAN,
         standing' \subseteq Rows, \A i \in standing' : listed[i] > 0 \/ i \in rows,
         CursorPage(rows)
  PROVE  IInv'
<1> DEFINE page == Slice(rows, 0, Limit)
<1>1. rows \subseteq Ids /\ rows \subseteq Rows /\ rows \cap Foreign = {}
  BY DEF Rows
<1>2. page \subseteq rows
      /\ (\A i \in rows \ page, last \in page : Before(Pos(last), Pos(i)))
      /\ (Cardinality(rows) <= Limit => page = rows)
  BY <1>1, FirstPage
<1>3. Cardinality(rows) \in Nat
  BY <1>1, Finite
<1>4. listed' = [i \in Ids |-> listed[i] + IF i \in page THEN 1 ELSE 0]
  BY DEF CursorPage, Listing
<1>5. \/ /\ page = rows
         /\ walk' = [walk EXCEPT !.pc = "done"]
      \/ \E last \in page :
           /\ \A i \in page : i = last \/ Before(Pos(i), Pos(last))
           /\ walk' = [walk EXCEPT !.pc = "cursor", !.after = Encoded(Pos(last))]
  <2>1. CASE Cardinality(rows) > Limit
    BY <2>1 DEF CursorPage
  <2>2. CASE ~(Cardinality(rows) > Limit)
    <3>1. page = rows
      BY <1>2, <1>3, <2>2, Numbers
    <3>2. walk' = [walk EXCEPT !.pc = "done"]
      BY <2>2 DEF CursorPage
    <3> QED BY <3>1, <3>2
  <2> QED BY <2>1, <2>2
<1> HIDE DEF page
<1>6. TypeOK'
  <2>1. walk' \in [pc : {"idle", "cursor", "offset", "done"}, after : Position, page : Nat]
    <3>1. \A last \in page : Encoded(Pos(last)) \in Position
      BY <1>1, <1>2, PosTyped, EncodedSame
    <3> QED BY <1>5, <3>1 DEF TypeOK
  <2>2. listed' \in [Ids -> Nat]
    BY <1>4 DEF TypeOK
  <2> QED BY <2>1, <2>2 DEF TypeOK, Rows
<1>7. Rows' = Rows /\ \A i \in Ids : Pos(i)' = Pos(i)
  BY DEF Rows, Pos
<1>8. walk'.page = 0 /\ walk'.pc \in {"cursor", "done"}
  BY <1>5 DEF TypeOK
<1>9. \A i \in Ids : listed'[i] <= 1
  BY <1>1, <1>2, <1>4 DEF TypeOK
<1>10. \A i \in Ids : listed'[i] > 0 <=> listed[i] > 0 \/ i \in page
  BY <1>4 DEF TypeOK
<1>11. \A i \in Ids : listed'[i] > 0 =>
         i \notin Foreign /\ user'[i].pc \in {"committed", "gone"}
  BY <1>1, <1>2, <1>10 DEF Rows
<1>12. CASE page = rows /\ walk' = [walk EXCEPT !.pc = "done"]
  <2>1. \A i \in standing' : listed'[i] > 0
    BY <1>1, <1>10, <1>12 DEF Rows
  <2>2. walk'.pc = "done"
    BY <1>12 DEF TypeOK
  <2> QED BY <1>6, <1>7, <1>8, <1>9, <1>11, <2>1, <2>2
          DEF IInv, Begun, Present, Swept, Tiled, NoneSkipped, PagesTile
<1>13. ASSUME NEW last \in page,
              \A i \in page : i = last \/ Before(Pos(i), Pos(last)),
              walk' = [walk EXCEPT !.pc = "cursor", !.after = Encoded(Pos(last))]
       PROVE  IInv'
  <2>1. last \in Ids /\ walk'.pc = "cursor" /\ walk'.after = Pos(last)
    BY <1>1, <1>2, <1>13, PosTyped, EncodedSame DEF TypeOK
  <2>2. \A i \in Ids : listed'[i] > 0 => ~Before(Pos(last), Pos(i))
    BY <1>1, <1>2, <1>10, <1>13, <2>1, PosTyped, Order
  <2>3. \A i \in standing' : listed'[i] > 0 \/ Before(Pos(last), Pos(i))
    BY <1>1, <1>2, <1>10, <1>13 DEF Rows
  <2>4. \A i \in Ids : i \in standing' => i \in Ids
    OBVIOUS
  <2>5. Swept'
    BY <1>7, <1>8, <1>9, <1>11, <2>1, <2>2, <2>3 DEF Swept, Rows
  <2> QED BY <1>6, <1>7, <1>8, <2>1, <2>5
          DEF IInv, Begun, Present, Tiled, NoneSkipped, PagesTile
<1> QED BY <1>5, <1>12, <1>13

\* A page by its number keeps the invariant.
LEMMA OffsetOK ==
  ASSUME TypeOK, NEW p \in Nat \ {0}, UNCHANGED <<clock, user>>, quiet' \in BOOLEAN,
         standing' \subseteq Rows,
         quiet' => \A i \in Ids :
           listed[i] = IF i \in Rows /\ Rank(Rows, i) < (p - 1) * Limit THEN 1 ELSE 0,
         OffsetPage(p)
  PROVE  IInv'
<1> DEFINE c == Cardinality(Rows)
           page == Slice(Rows, (p - 1) * Limit, Limit)
<1>1. Rows \subseteq Ids /\ c \in Nat
  BY Finite DEF Rows
<1>2. /\ (p - 1) * Limit \in Nat /\ p * Limit = (p - 1) * Limit + Limit
      /\ ~(p < (c + Limit - 1) \div Limit) => c <= p * Limit
  BY <1>1, PageBounds
<1>3. listed' = [i \in Ids |-> listed[i] + IF i \in page THEN 1 ELSE 0]
  BY DEF OffsetPage, Listing
<1>4. /\ walk' \in [pc : {"idle", "cursor", "offset", "done"}, after : Position, page : Nat]
      /\ walk'.page = p + 1 /\ walk'.pc \in {"offset", "done"}
      /\ walk'.pc = "done" => ~(p < (c + Limit - 1) \div Limit)
  <2>1. walk' = [walk EXCEPT !.page = p + 1,
                             !.pc = IF p < (c + Limit - 1) \div Limit
                                    THEN "offset" ELSE "done"]
    BY DEF OffsetPage
  <2> DEFINE more == p < (c + Limit - 1) \div Limit
  <2> HIDE DEF more
  <2>2. walk' = [walk EXCEPT !.page = p + 1, !.pc = IF more THEN "offset" ELSE "done"]
    BY <2>1 DEF more
  <2>3. /\ walk' \in [pc : {"idle", "cursor", "offset", "done"}, after : Position, page : Nat]
        /\ walk'.page = p + 1 /\ walk'.pc \in {"offset", "done"}
        /\ walk'.pc = "done" => ~more
    <3>1. walk \in [pc : {"idle", "cursor", "offset", "done"}, after : Position, page : Nat]
      BY DEF TypeOK
    <3>2. CASE more
      <4>1. walk' = [walk EXCEPT !.page = p + 1, !.pc = "offset"]
        BY <2>2, <3>2
      <4>2. p + 1 \in Nat
        OBVIOUS
      <4>3. /\ walk' \in [pc : {"idle", "cursor", "offset", "done"}, after : Position, page : Nat]
            /\ walk'.page = p + 1 /\ walk'.pc = "offset"
        BY <3>1, <4>1, <4>2
      <4> QED BY <3>2, <4>3
    <3>3. CASE ~more
      <4>1. walk' = [walk EXCEPT !.page = p + 1, !.pc = "done"]
        BY <2>2, <3>3
      <4>2. p + 1 \in Nat
        OBVIOUS
      <4>3. /\ walk' \in [pc : {"idle", "cursor", "offset", "done"}, after : Position, page : Nat]
            /\ walk'.page = p + 1 /\ walk'.pc = "done"
        BY <3>1, <4>1, <4>2
      <4> QED BY <3>3, <4>3
    <3> QED BY <3>2, <3>3
  <2> QED BY <2>3 DEF more
<1>5. \A i \in Ids : i \in page <=>
        i \in Rows /\ (p - 1) * Limit <= Rank(Rows, i) /\ Rank(Rows, i) < (p - 1) * Limit + Limit
  BY DEF Slice
<1>6. \A i \in Rows : Rank(Rows, i) \in Nat /\ Rank(Rows, i) < c
  BY <1>1, RankBounds
<1>7. Rows' = Rows /\ \A i \in Ids : Rank(Rows, i)' = Rank(Rows, i)
  BY DEF Rows, Rank, Pos
<1> HIDE DEF c, page
<1>8. TypeOK'
  <2>1. listed' \in [Ids -> Nat]
    BY <1>3 DEF TypeOK
  <2> QED BY <1>1, <1>4, <2>1 DEF TypeOK
<1>9. ASSUME quiet', NEW i \in Ids
      PROVE  listed'[i] = IF i \in Rows /\ Rank(Rows, i) < p * Limit THEN 1 ELSE 0
  <2>1. listed'[i] = listed[i] + IF i \in page THEN 1 ELSE 0
    BY <1>3
  <2>2. CASE i \notin Rows
    BY <1>5, <1>9, <2>1, <2>2
  <2>3. CASE i \in Rows
    BY <1>2, <1>5, <1>6, <1>9, <2>1, <2>3, Numbers
  <2> QED BY <2>2, <2>3
<1>10. (walk'.page - 1) * Limit = p * Limit
  BY <1>4
<1>11. Tiled'
  BY <1>7, <1>9, <1>10 DEF Tiled
<1>12. PagesTile'
  <2>1. ASSUME walk'.pc = "done", NEW i \in Rows PROVE Rank(Rows, i) < p * Limit
    BY <1>1, <1>2, <1>4, <1>6, <2>1, Numbers
  <2> QED BY <1>7, <1>9, <2>1 DEF PagesTile
<1> QED BY <1>4, <1>7, <1>8, <1>11, <1>12
        DEF IInv, Begun, Present, Swept, NoneSkipped

\* A write leaves every listed id and every key in its place, and the rows that a
\* walk has counted are others only if it was disturbed.
LEMMA WriteOK ==
  ASSUME IInv, NEW i \in Ids, UNCHANGED <<clock, walk, listed>>,
         \/ BeginCreate(i) \/ CommitCreate(i) \/ Delete(i)
  PROVE  IInv'
<1> USE DEF IInv
<1>1. TypeOK'
  <2>1. CASE BeginCreate(i)
    BY <2>1, StoredWhole DEF TypeOK, BeginCreate
  <2>2. CASE CommitCreate(i)
    BY <2>2 DEF TypeOK, CommitCreate
  <2>3. CASE Delete(i)
    BY <2>3 DEF TypeOK, Delete
  <2> QED BY <2>1, <2>2, <2>3
<1>2. \A j \in Ids : user[j].pc # "none" =>
        /\ Pos(j)' = Pos(j)
        /\ user'[j].pc # "none"
        /\ user[j].pc \in {"committed", "gone"} => user'[j].pc \in {"committed", "gone"}
  BY DEF TypeOK, BeginCreate, CommitCreate, Delete, Pos
<1>3. standing' \subseteq standing /\ standing' \subseteq Rows'
  BY DEF TypeOK, Present, Rows, BeginCreate, CommitCreate, Delete
<1>4. Swept'
  <2> SUFFICES ASSUME walk.page = 0 PROVE Swept'
    BY DEF Swept
  <2>1. \A j \in Ids : listed[j] > 0 =>
          /\ j \notin Foreign /\ user'[j].pc \in {"committed", "gone"}
          /\ Pos(j)' = Pos(j)
    BY <1>2 DEF Swept
  <2>2. \A j \in standing' : j \in standing /\ j \in Ids /\ Pos(j)' = Pos(j)
    BY <1>2, <1>3 DEF Present, Rows
  <2> QED BY <2>1, <2>2 DEF Swept
<1>5. NoneSkipped'
  BY <1>3 DEF NoneSkipped
<1>6. ASSUME quiet'
      PROVE  quiet /\ Rows' = Rows /\ \A j \in Rows : Pos(j)' = Pos(j)
  <2>1. BeginCreate(i)
    BY <1>6 DEF CommitCreate, Delete
  <2> QED BY <1>6, <2>1, <1>2 DEF BeginCreate, Rows, TypeOK
<1>7. ASSUME quiet' PROVE \A j \in Rows : Rank(Rows, j)' = Rank(Rows, j)
  BY <1>6, <1>7 DEF Rank
<1>8. Tiled'
  BY <1>6, <1>7 DEF Tiled
<1>9. PagesTile'
  BY <1>6 DEF PagesTile
<1>10. Begun' /\ Present'
  BY <1>3 DEF Begun, Present
<1> QED BY <1>1, <1>4, <1>5, <1>8, <1>9, <1>10

LEMMA StepOK == IInv /\ [Next]_vars => IInv'
<1> SUFFICES ASSUME IInv, [Next]_vars PROVE IInv'
  OBVIOUS
<1> USE DEF IInv
<1>1. CASE Tick \/ UNCHANGED vars
  <2>1. clock' \in Nat /\ UNCHANGED <<user, walk, listed, standing, quiet>>
    BY <1>1 DEF Tick, vars, TypeOK
  <2> QED BY <2>1 DEF TypeOK, Begun, Present, Swept, Tiled, NoneSkipped, PagesTile,
                      Rows, Rank, Pos
<1>2. ASSUME NEW i \in Ids, BeginCreate(i) \/ CommitCreate(i) \/ Delete(i)
      PROVE  IInv'
  <2>1. UNCHANGED <<clock, walk, listed>>
    BY <1>2 DEF BeginCreate, CommitCreate, Delete
  <2> QED BY <1>2, <2>1, WriteOK
<1>3. CASE Start(CursorPage(Rows))
  <2>1. /\ walk.page = 0 /\ \A i \in Ids : listed[i] = 0
        /\ standing' = Rows /\ quiet' = TRUE /\ UNCHANGED <<clock, user>>
        /\ CursorPage(Rows)
    BY <1>3 DEF Start, Begun
  <2>2. Rows \subseteq Ids
    BY DEF Rows
  <2> QED BY <2>1, <2>2, CursorOK
<1>4. CASE NextByCursor
  <2> DEFINE rows == {i \in Rows : Before(walk.after, Pos(i))}
  <2>1. /\ walk.pc = "cursor" /\ walk.page = 0
        /\ UNCHANGED <<clock, user, standing, quiet>> /\ CursorPage(rows)
    BY <1>4 DEF NextByCursor, Continue, Begun
  <2>2. rows \subseteq Rows /\ Rows \subseteq Ids /\ walk.after \in Position
    BY DEF Rows, TypeOK
  <2>3. \A i \in rows : listed[i] = 0
    BY <2>1, <2>2 DEF Swept, TypeOK
  <2>4. \A i \in Ids, j \in rows : listed[i] > 0 => ~Before(Pos(j), Pos(i))
    BY <2>1, <2>2, PosTyped, Order DEF Swept
  <2>5. standing' \subseteq Rows /\ \A i \in standing' : listed[i] > 0 \/ i \in rows
    BY <2>1 DEF Swept, Present
  <2>6. quiet' \in BOOLEAN
    BY <2>1 DEF TypeOK
  <2> HIDE DEF rows
  <2> QED BY <2>1, <2>2, <2>3, <2>4, <2>5, <2>6, CursorOK DEF Swept
<1>5. CASE Start(OffsetPage(1))
  <2>1. /\ \A i \in Ids : listed[i] = 0
        /\ standing' = Rows /\ quiet' = TRUE /\ UNCHANGED <<clock, user>>
        /\ OffsetPage(1)
    BY <1>5 DEF Start, Begun
  <2>2. \A i \in Rows : ~(Rank(Rows, i) < (1 - 1) * Limit)
    <3>1. Rows \subseteq Ids /\ (1 - 1) * Limit = 0
      BY Numbers DEF Rows
    <3>2. \A i \in Rows : Rank(Rows, i) \in Nat
      BY <3>1, RankBounds
    <3>3. \A n \in Nat : ~(n < 0)
      OBVIOUS
    <3> QED BY <3>1, <3>2, <3>3
  <2> QED BY <2>1, <2>2, OffsetOK
<1>6. CASE Continue("offset", OffsetPage(walk.page))
  <2>1. /\ walk.page > 1 /\ walk.page \in Nat \ {0}
        /\ UNCHANGED <<clock, user, standing, quiet>> /\ OffsetPage(walk.page)
    BY <1>6 DEF Continue, Begun, TypeOK
  <2>2. quiet' \in BOOLEAN /\ standing' \subseteq Rows
    BY <2>1 DEF TypeOK, Present
  <2> QED BY <2>1, <2>2, OffsetOK DEF Tiled
<1> QED BY <1>1, <1>2, <1>3, <1>4, <1>5, <1>6 DEF Next

LEMMA SpecHasIInv == Spec => []IInv
BY InitOK, StepOK, PTL DEF Spec

-----------------------------------------------------------------------------
\* Every variable keeps its type: whatever fraction now() has, users.created_at
\* and every cursor are whole milliseconds.
THEOREM KeysAreMilliseconds == Spec => []TypeOK
<1>1. IInv => TypeOK
  BY DEF IInv
<1> QED BY <1>1, SpecHasIInv, PTL

\* listAfter lists nobody twice on a walk, and nobody of another tenant.
THEOREM NobodyIsListedTwice == Spec => []EachOnce
<1>1. IInv => EachOnce
  BY DEF IInv, TypeOK, Swept, EachOnce
<1> QED BY <1>1, SpecHasIInv, PTL

\* listAfter lists everyone who is there throughout a walk, for any page size,
\* any number of users that share a millisecond and any writes in between.
THEOREM NobodyIsSkipped == Spec => []NoneSkipped
<1>1. IInv => NoneSkipped
  BY DEF IInv
<1> QED BY <1>1, SpecHasIInv, PTL

\* The pages of listPage, up to totalPages, are a partition of an undisturbed
\* collection.
THEOREM PagesPartition == Spec => []PagesTile
<1>1. IInv => PagesTile
  BY DEF IInv
<1> QED BY <1>1, SpecHasIInv, PTL
=============================================================================
