--------------------------- MODULE TemplateProofs ---------------------------
(***************************************************************************)
(* The invariants of TemplateInit for every template, every set of         *)
(* commands and every number of runs.                                      *)
(***************************************************************************)
EXTENDS TemplateInit, TLAPS

IsDisk(d) == d = [p \in ManagedPaths |-> d[p]]

\* Files that each are as they were at first or as they were planned, bun.lock aside.
AllWhole(d) ==
  \A p \in ManagedPaths \ {"bun.lock"} :
    d[p] = first[p] \/ \E i \in Targets : d[p] = Planned(p, i)

\* The files are typed, and what is under way started from the pristine ones.
Begun ==
  /\ IsDisk(disk) /\ IsDisk(snapshot) /\ IsDisk(first)
  /\ temp => pc \in {"writing", "restoring"} /\ ~ Done
  /\ pc # "idle" => /\ snapshot = Identified(Source)
                    /\ target \in Targets /\ target # Source
                    /\ result = "none"
  /\ pc \in {"writing", "installing", "verifying"} => lost = {}

\* The files before the position are written, and those after it are not.
Writing ==
  pc = "writing" =>
    /\ at \in 1 .. 6
    /\ disk["bun.lock"] = snapshot["bun.lock"]
    /\ \A i \in 1 .. 5 :
         disk[WriteOrder[i]] = IF i < at THEN Planned(WriteOrder[i], target)
                               ELSE snapshot[WriteOrder[i]]

\* All files but bun.lock are written.
Planned5 ==
  pc \in {"installing", "verifying"} =>
    \A p \in ManagedPaths \ {"bun.lock"} : disk[p] = Planned(p, target)

\* The files before the position are restored or lost.
Restoring ==
  pc = "restoring" =>
    \A i \in 1 .. 6 :
      i < at => \/ disk[RestoreOrder[i]] = snapshot[RestoreOrder[i]]
                \/ RestoreOrder[i] \in lost

Whole == AllWhole(disk) /\ AllWhole(snapshot)

\* Every file is the template's or planned for one and the same identity.
FromBoth(i) ==
  \A p \in ManagedPaths \ {"bun.lock"} :
    disk[p] = Identified(Source)[p] \/ disk[p] = Planned(p, i)

Half ==
  /\ disk = first \/ \E i \in Targets : FromBoth(i)
  /\ pc # "idle" => FromBoth(target)

Inv ==
  /\ TypeOK /\ Begun /\ Writing /\ Planned5 /\ Restoring /\ Whole /\ Half
  /\ SuccessComplete /\ FailureRestores /\ CustomisedKept

-----------------------------------------------------------------------------
(***************************************************************************)
(* The two orders.                                                         *)
(***************************************************************************)
\* The files are written one after the other, all but bun.lock.
LEMMA WriteOrderFact ==
  /\ \A i \in 1 .. 5 : WriteOrder[i] \in ManagedPaths \ {"bun.lock"}
  /\ \A i, j \in 1 .. 5 : WriteOrder[i] = WriteOrder[j] => i = j
  /\ \A p \in ManagedPaths \ {"bun.lock"} : \E i \in 1 .. 5 : WriteOrder[i] = p
<1>1. \A i \in 1 .. 5 : i = 1 \/ i = 2 \/ i = 3 \/ i = 4 \/ i = 5
  OBVIOUS
<1>2. /\ WriteOrder[1] = "package.json" /\ WriteOrder[2] = "README.md"
      /\ WriteOrder[3] = ".env.example" /\ WriteOrder[4] = "config.schema.ts"
      /\ WriteOrder[5] = "load-config.test.ts"
  BY DEF WriteOrder
<1>3. ManagedPaths \ {"bun.lock"} =
        {WriteOrder[1], WriteOrder[2], WriteOrder[3], WriteOrder[4], WriteOrder[5]}
  BY <1>2 DEF ManagedPaths
<1>4. 1 \in 1 .. 5 /\ 2 \in 1 .. 5 /\ 3 \in 1 .. 5 /\ 4 \in 1 .. 5 /\ 5 \in 1 .. 5
  OBVIOUS
<1>5. \A i, j \in 1 .. 5 : WriteOrder[i] = WriteOrder[j] => i = j
  BY <1>1, <1>2
<1>6. \A i \in 1 .. 5 : WriteOrder[i] \in ManagedPaths \ {"bun.lock"}
  BY <1>1, <1>3
<1>7. \A p \in ManagedPaths \ {"bun.lock"} : \E i \in 1 .. 5 : WriteOrder[i] = p
  BY <1>3, <1>4, Zenon
<1> QED BY <1>5, <1>6, <1>7

\* The files are restored one after the other, all of them.
LEMMA RestoreOrderFact ==
  /\ \A i \in 1 .. 6 : RestoreOrder[i] \in ManagedPaths
  /\ \A p \in ManagedPaths : \E i \in 1 .. 6 : RestoreOrder[i] = p
<1>1. \A i \in 1 .. 6 : i = 1 \/ i = 2 \/ i = 3 \/ i = 4 \/ i = 5 \/ i = 6
  OBVIOUS
<1>2. /\ RestoreOrder[1] = "package.json" /\ RestoreOrder[2] = "bun.lock"
      /\ RestoreOrder[3] = "README.md" /\ RestoreOrder[4] = ".env.example"
      /\ RestoreOrder[5] = "config.schema.ts" /\ RestoreOrder[6] = "load-config.test.ts"
  BY DEF RestoreOrder
<1>3. ManagedPaths = {RestoreOrder[1], RestoreOrder[2], RestoreOrder[3],
                      RestoreOrder[4], RestoreOrder[5], RestoreOrder[6]}
  BY <1>2 DEF ManagedPaths
<1>4. 1 \in 1 .. 6 /\ 2 \in 1 .. 6 /\ 3 \in 1 .. 6 /\ 4 \in 1 .. 6 /\ 5 \in 1 .. 6
      /\ 6 \in 1 .. 6
  OBVIOUS
<1>5. \A i \in 1 .. 6 : RestoreOrder[i] \in ManagedPaths
  BY <1>1, <1>3
<1>6. \A p \in ManagedPaths : \E i \in 1 .. 6 : RestoreOrder[i] = p
  BY <1>3, <1>4, Zenon
<1> QED BY <1>5, <1>6

\* The two orders once more, in their types.
LEMMA PathFact ==
  ASSUME at \in Nat \ {0}, ~ Done, pc \in {"writing", "restoring"}
  PROVE  /\ Path \in ManagedPaths
         /\ pc = "writing" => at \in 1 .. 5 /\ Path = WriteOrder[at] /\ Path # "bun.lock"
         /\ pc = "restoring" => at \in 1 .. 6 /\ Path = RestoreOrder[at]
<1>1. CASE pc = "writing"
  <2>1. at \in 1 .. 5 BY <1>1 DEF Done
  <2> QED BY <1>1, <2>1, WriteOrderFact DEF Path
<1>2. CASE pc = "restoring"
  <2>1. at \in 1 .. 6 BY <1>2 DEF Done
  <2> QED BY <1>2, <2>1, RestoreOrderFact DEF Path
<1> QED BY <1>1, <1>2

\* A plain name is planned as the identity has it.
LEMMA PlannedFact ==
  ASSUME NEW i, i # Source, InsertedAsIs(i), NEW p \in ManagedPaths
  PROVE  Planned(p, i) = Identified(i)[p]
BY DEF Planned, Identified, InsertedAsIs, ManagedPaths

\* The repository of an identity holds the managed files, bun.lock among them.
LEMMA IdentifiedFact ==
  ASSUME NEW i
  PROVE  IsDisk(Identified(i)) /\ Identified(i)["bun.lock"] = i.package
BY DEF IsDisk, Identified, ManagedPaths

-----------------------------------------------------------------------------
(***************************************************************************)
(* The invariant.                                                          *)
(***************************************************************************)
LEMMA InitInv == Init => Inv
<1> SUFFICES ASSUME Init PROVE Inv
  OBVIOUS
<1>0. temp \in BOOLEAN
  BY DEF Init
<1>1. TypeOK
  <2>1. pc = "idle" /\ at = 1 /\ lost = {} /\ result = "none" /\ runs = 0
    BY DEF Init
  <2> QED BY <1>0, <2>1, MaxRunsAssumption DEF TypeOK, Results
<1>2. Begun
  BY StartsAssumption DEF Init, Begun, IsDisk
<1>3. Writing /\ Planned5 /\ Restoring
  BY DEF Init, Writing, Planned5, Restoring
<1>4. Whole /\ Half
  BY DEF Init, Whole, AllWhole, Half
<1>5. SuccessComplete /\ FailureRestores /\ CustomisedKept
  BY DEF Init, SuccessComplete, FailureRestores, CustomisedKept
<1> QED BY <1>1, <1>2, <1>3, <1>4, <1>5 DEF Inv

LEMMA RunInv ==
  ASSUME Inv, NEW command \in Commands, Run(command)
  PROVE  Inv'
<1> USE DEF Inv
<1>0. pc = "idle" /\ temp = FALSE /\ temp' = FALSE /\ disk' = disk /\ snapshot' = disk
      /\ first' = first /\ lost' = {} /\ at' = 1 /\ runs' = runs + 1 /\ runs < MaxRuns
  BY DEF Run, Begun, TypeOK
<1>1. pc' \in {"idle", "writing"} /\ result' \in Results
  BY <1>0 DEF Run, Results
<1>2. result' # "changed" /\ result' # "failed" /\ result' # "unrestored"
  BY DEF Run
<1>3. pc' = "writing" => /\ target' \in Targets /\ target' # Source
                         /\ disk = Identified(Source) /\ result' = "none"
  <2> SUFFICES ASSUME pc' = "writing"
               PROVE  /\ target' \in Targets /\ target' # Source
                      /\ disk = Identified(Source) /\ result' = "none"
    OBVIOUS
  <2>1. /\ command # Bad /\ Resolves(command) /\ target' = TargetOf(command)
        /\ Classify(disk, target') = "pristine" /\ result' = "none"
    BY <1>0 DEF Run
  <2>2. target' \in Targets
    BY <2>1 DEF Targets
  <2>3. disk = Identified(Source) /\ target' # Source
    BY <2>1 DEF Classify
  <2> QED BY <2>1, <2>2, <2>3
<1>4. result' = "unchanged" => disk = Identified(target')
  <2> SUFFICES ASSUME result' = "unchanged" PROVE disk = Identified(target')
    OBVIOUS
  <2>1. Classify(disk, target') = "target"
    BY DEF Run
  <2> QED BY <2>1 DEF Classify
<1>5. TypeOK'
  <2>1. temp' \in BOOLEAN
    BY <1>0
  <2>2. runs' \in 0 .. MaxRuns
    BY <1>0, MaxRunsAssumption DEF TypeOK
  <2> QED BY <1>0, <1>1, <2>1, <2>2 DEF TypeOK
<1>6. Begun'
  BY <1>0, <1>1, <1>3 DEF Begun, IsDisk
<1>7. Writing'
  BY <1>0 DEF Writing
<1>8. Planned5' /\ Restoring'
  BY <1>0, <1>1 DEF Planned5, Restoring
<1>9. Whole'
  BY <1>0 DEF Whole, AllWhole
<1>10. Half'
  <2>1. pc' # "idle" => FromBoth(target)'
    BY <1>0, <1>1, <1>3 DEF FromBoth
  <2>2. (disk = first \/ \E i \in Targets : FromBoth(i))'
    BY <1>0 DEF Half, FromBoth
  <2> QED BY <2>1, <2>2 DEF Half
<1>11. SuccessComplete' /\ FailureRestores' /\ CustomisedKept'
  BY <1>0, <1>2, <1>4 DEF SuccessComplete, FailureRestores, CustomisedKept
<1> QED BY <1>5, <1>6, <1>7, <1>8, <1>9, <1>10, <1>11

\* What a step of a command under way has to keep of the typing.
LEMMA UnderWay ==
  ASSUME Inv, pc # "idle", pc' # "idle",
         UNCHANGED <<target, snapshot, result, runs, first>>,
         IsDisk(disk'), AllWhole(disk)', FromBoth(target)', at' \in 1 .. 7, lost' \subseteq ManagedPaths,
         pc' \in {"writing", "installing", "verifying", "restoring"},
         pc' \in {"writing", "installing", "verifying"} => lost' = {},
         temp' = FALSE \/ (temp' = TRUE /\ pc' \in {"writing", "restoring"} /\ ~ Done'),
         Writing', Planned5', Restoring'
  PROVE  Inv'
<1> USE DEF Inv
<1>1. temp' \in BOOLEAN
  OBVIOUS
<1>2. TypeOK'
  BY <1>1 DEF TypeOK
<1>3. Begun'
  BY DEF Begun, IsDisk
<1>4. Whole'
  BY DEF Whole, AllWhole
<1>5. Half'
  <2>1. \E i \in Targets : FromBoth(i)'
    BY DEF Begun
  <2> QED BY <2>1 DEF Half
<1>6. result' = "none" /\ snapshot' = Identified(Source)
  BY DEF Begun
<1>7. SuccessComplete' /\ FailureRestores' /\ CustomisedKept'
  BY <1>6 DEF SuccessComplete, FailureRestores, CustomisedKept
<1> QED BY <1>2, <1>3, <1>4, <1>5, <1>7

LEMMA OpenTemporaryInv == ASSUME Inv, OpenTemporary PROVE Inv'
<1>1. /\ pc \in {"writing", "restoring"} /\ pc' = pc /\ temp' = TRUE /\ at' = at
      /\ disk' = disk /\ lost' = lost /\ ~ Done'
      /\ UNCHANGED <<target, snapshot, result, runs, first>>
  BY DEF OpenTemporary, Done
<1>2. Writing' /\ Planned5' /\ Restoring'
  BY <1>1 DEF Inv, Writing, Planned5, Restoring
<1>3. IsDisk(disk') /\ at' \in 1 .. 7 /\ lost' \subseteq ManagedPaths
      /\ (pc' = "writing" => lost' = {})
  BY <1>1 DEF Inv, Begun, TypeOK
<1>4. AllWhole(disk)' /\ FromBoth(target)'
  BY <1>1 DEF Inv, Whole, AllWhole, Half, FromBoth
<1> QED BY <1>1, <1>2, <1>3, <1>4, UnderWay

LEMMA RenameInv == ASSUME Inv, Rename PROVE Inv'
<1> USE DEF Inv
<1>1. /\ pc \in {"writing", "restoring"} /\ pc' = pc /\ ~ Done /\ at \in 1 .. 7
      /\ temp' = FALSE /\ at' = at + 1 /\ disk' = [disk EXCEPT ![Path] = Content]
      /\ lost' = lost /\ UNCHANGED <<target, snapshot, result, runs, first>>
  BY DEF Rename, Begun, TypeOK
<1>2. /\ Path \in ManagedPaths
      /\ pc = "writing" => at \in 1 .. 5 /\ Path = WriteOrder[at] /\ Path # "bun.lock"
      /\ pc = "restoring" => at \in 1 .. 6 /\ Path = RestoreOrder[at]
  BY <1>1, PathFact
<1>3. /\ IsDisk(disk') /\ disk'[Path] = Content
      /\ \A p \in ManagedPaths \ {Path} : disk'[p] = disk[p]
  BY <1>1, <1>2 DEF Begun, IsDisk
<1>4. CASE pc = "writing"
  <2>1. Content = Planned(Path, target)
    BY <1>4 DEF Content
  <2>2. Writing'
    <3>1. at' \in 1 .. 6
      BY <1>1, <1>2, <1>4
    <3>2. disk'["bun.lock"] = snapshot["bun.lock"]
      BY <1>2, <1>3, <1>4 DEF Writing, ManagedPaths
    <3>3. ASSUME NEW i \in 1 .. 5
          PROVE  disk'[WriteOrder[i]] = IF i < at' THEN Planned(WriteOrder[i], target)
                                        ELSE snapshot[WriteOrder[i]]
      <4>1. CASE i = at
        BY <1>1, <1>2, <1>3, <1>4, <2>1, <4>1
      <4>2. CASE i # at
        <5>1. WriteOrder[i] \in ManagedPaths \ {Path}
          BY <1>2, <1>4, <4>2, WriteOrderFact
        <5>2. disk'[WriteOrder[i]] = disk[WriteOrder[i]]
          BY <1>3, <5>1
        <5>3. i < at' <=> i < at
          BY <1>1, <1>2, <1>4, <4>2
        <5> QED BY <1>4, <5>2, <5>3 DEF Writing
      <4> QED BY <4>1, <4>2
    <3> QED BY <1>1, <3>1, <3>2, <3>3 DEF Writing
  <2>3. AllWhole(disk)' /\ FromBoth(target)'
    BY <1>1, <1>2, <1>3, <1>4, <2>1 DEF Whole, AllWhole, Begun, Half, FromBoth
  <2>4. Planned5' /\ Restoring' /\ at' \in 1 .. 7 /\ lost' = {}
    BY <1>1, <1>2, <1>4 DEF Planned5, Restoring, Begun
  <2> QED BY <1>1, <1>3, <1>4, <2>2, <2>3, <2>4, UnderWay
<1>5. CASE pc = "restoring"
  <2>1. Content = snapshot[Path]
    BY <1>5 DEF Content
  <2>2. Restoring'
    <3>1. ASSUME NEW i \in 1 .. 6, i < at'
          PROVE  disk'[RestoreOrder[i]] = snapshot[RestoreOrder[i]] \/ RestoreOrder[i] \in lost
      <4>1. RestoreOrder[i] \in ManagedPaths
        BY RestoreOrderFact
      <4>2. CASE RestoreOrder[i] = Path
        BY <1>3, <2>1, <4>2
      <4>3. CASE RestoreOrder[i] # Path
        <5>1. i < at
          BY <1>1, <1>2, <1>5, <3>1, <4>3
        <5> QED BY <1>3, <1>5, <4>1, <4>3, <5>1 DEF Restoring
      <4> QED BY <4>2, <4>3
    <3> QED BY <1>1, <3>1 DEF Restoring
  <2>3. AllWhole(disk)' /\ FromBoth(target)'
    BY <1>1, <1>2, <1>3, <1>5, <2>1 DEF Whole, AllWhole, Begun, Half, FromBoth
  <2>4. Planned5' /\ Writing' /\ at' \in 1 .. 7 /\ lost' \subseteq ManagedPaths
    BY <1>1, <1>2, <1>5 DEF Planned5, Writing, TypeOK
  <2> QED BY <1>1, <1>3, <1>5, <2>2, <2>3, <2>4, UnderWay
<1> QED BY <1>1, <1>4, <1>5

LEMMA WriteFailsInv == ASSUME Inv, WriteFails PROVE Inv'
<1> USE DEF Inv
<1>1. /\ pc = "writing" /\ pc' = "restoring" /\ at' = 1 /\ temp' = FALSE
      /\ disk' = disk /\ lost' = lost /\ UNCHANGED <<target, snapshot, result, runs, first>>
  BY DEF WriteFails, StartRestoring
<1>2. Writing' /\ Planned5' /\ Restoring'
  BY <1>1 DEF Writing, Planned5, Restoring
<1>3. IsDisk(disk') /\ at' \in 1 .. 7 /\ lost' \subseteq ManagedPaths
  BY <1>1 DEF Begun, TypeOK
<1>4. AllWhole(disk)' /\ FromBoth(target)'
  BY <1>1 DEF Whole, AllWhole, Half, FromBoth
<1> QED BY <1>1, <1>2, <1>3, <1>4, UnderWay

LEMMA RestoreFailsInv == ASSUME Inv, RestoreFails PROVE Inv'
<1> USE DEF Inv
<1>1. /\ pc = "restoring" /\ pc' = pc /\ ~ Done /\ temp' = FALSE /\ at \in 1 .. 7
      /\ disk' = disk /\ lost' = lost \cup {Path} /\ at' = at + 1
      /\ UNCHANGED <<target, snapshot, result, runs, first>>
  BY DEF RestoreFails, Begun, TypeOK
<1>2. Path \in ManagedPaths /\ at \in 1 .. 6 /\ Path = RestoreOrder[at]
  BY <1>1, PathFact
<1>3. Restoring'
  <2>1. ASSUME NEW i \in 1 .. 6, i < at'
        PROVE  disk[RestoreOrder[i]] = snapshot[RestoreOrder[i]] \/ RestoreOrder[i] \in lost'
    <3>1. CASE i = at BY <1>1, <1>2, <3>1
    <3>2. CASE i # at
      <4>1. i < at BY <1>1, <1>2, <2>1, <3>2
      <4> QED BY <1>1, <4>1 DEF Restoring
    <3> QED BY <3>1, <3>2
  <2> QED BY <1>1, <2>1 DEF Restoring
<1>4. Writing' /\ Planned5' /\ at' \in 1 .. 7 /\ lost' \subseteq ManagedPaths
  BY <1>1, <1>2 DEF Writing, Planned5, TypeOK
<1>5. IsDisk(disk') /\ AllWhole(disk)' /\ FromBoth(target)'
  BY <1>1 DEF Begun, Whole, AllWhole, Half, FromBoth
<1> QED BY <1>1, <1>3, <1>4, <1>5, UnderWay

LEMMA StartBunInv == ASSUME Inv, StartBun PROVE Inv'
<1> USE DEF Inv
<1>1. /\ pc = "writing" /\ pc' = "installing" /\ Done /\ temp = FALSE /\ temp' = FALSE
      /\ disk' = disk /\ lost' = lost /\ at' = at
      /\ UNCHANGED <<target, snapshot, result, runs, first>>
  BY DEF StartBun, Begun, TypeOK
<1>2. Planned5'
  <2>1. at \in 1 .. 6 /\ at > 5
    BY <1>1 DEF Done, Writing
  <2>2. \A i \in 1 .. 5 : disk[WriteOrder[i]] = Planned(WriteOrder[i], target)
    BY <1>1, <2>1 DEF Writing
  <2>3. \A p \in ManagedPaths \ {"bun.lock"} : disk[p] = Planned(p, target)
    BY <2>2, WriteOrderFact
  <2> QED BY <1>1, <2>3 DEF Planned5
<1>3. Writing' /\ Restoring' /\ at' \in 1 .. 7 /\ lost' = {}
  BY <1>1 DEF Writing, Restoring, TypeOK, Begun
<1>4. IsDisk(disk') /\ AllWhole(disk)' /\ FromBoth(target)'
  BY <1>1 DEF Begun, Whole, AllWhole, Half, FromBoth
<1> QED BY <1>1, <1>2, <1>3, <1>4, UnderWay

\* bun writes nothing but the lockfile.
LEMMA LockFact ==
  ASSUME Inv, NEW lock, disk' = [disk EXCEPT !["bun.lock"] = lock],
         UNCHANGED <<first, snapshot, target>>
  PROVE  /\ IsDisk(disk') /\ AllWhole(disk)' /\ (pc # "idle" => FromBoth(target)')
         /\ \A p \in ManagedPaths \ {"bun.lock"} : disk'[p] = disk[p]
<1>1. IsDisk(disk') /\ \A p \in ManagedPaths \ {"bun.lock"} : disk'[p] = disk[p]
  BY DEF Inv, Begun, IsDisk, ManagedPaths
<1> QED BY <1>1 DEF Inv, Whole, AllWhole, Half, FromBoth

LEMMA BunExitsInv == ASSUME Inv, BunExits PROVE Inv'
<1> USE DEF Inv
<1>1. /\ pc = "installing" /\ temp = FALSE /\ temp' = FALSE /\ lost' = lost /\ lost = {}
      /\ UNCHANGED <<target, snapshot, result, runs, first>>
      /\ (pc' = "verifying" /\ at' = at) \/ (pc' = "restoring" /\ at' = 1)
  BY DEF BunExits, StartRestoring, Begun, TypeOK
<1>2. PICK lock \in Locks : disk' = [disk EXCEPT !["bun.lock"] = lock]
  BY DEF BunExits
<1>3. /\ IsDisk(disk') /\ AllWhole(disk)' /\ FromBoth(target)'
      /\ \A p \in ManagedPaths \ {"bun.lock"} : disk'[p] = disk[p]
  BY <1>1, <1>2, LockFact
<1>4. Planned5'
  BY <1>1, <1>3 DEF Planned5
<1>5. Writing' /\ Restoring' /\ at' \in 1 .. 7
  BY <1>1 DEF Writing, Restoring, TypeOK
<1> QED BY <1>1, <1>3, <1>4, <1>5, UnderWay

LEMMA VerifyInv == ASSUME Inv, Verify PROVE Inv'
<1> USE DEF Inv
<1>1. /\ pc = "verifying" /\ temp = FALSE /\ temp' = FALSE /\ lost' = lost /\ lost = {}
      /\ disk' = disk /\ UNCHANGED <<target, snapshot, runs, first>>
      /\ IsDisk(disk') /\ AllWhole(disk)' /\ FromBoth(target)' /\ at \in 1 .. 7
      /\ snapshot = Identified(Source)
  BY DEF Verify, Begun, TypeOK, Whole, AllWhole, Half, FromBoth
<1>2. CASE StartRestoring /\ result' = result
  <2>1. Writing' /\ Planned5' /\ Restoring'
    BY <1>2 DEF Writing, Planned5, Restoring, StartRestoring
  <2>2. pc' = "restoring" /\ at' \in 1 .. 7 /\ lost' \subseteq ManagedPaths
    BY <1>1, <1>2 DEF StartRestoring
  <2>3. UNCHANGED <<target, snapshot, result, runs, first>>
    BY <1>1, <1>2
  <2> QED BY <1>1, <2>1, <2>2, <2>3, UnderWay
<1>3. CASE pc' = "idle" /\ result' = "changed" /\ at' = at /\ disk["bun.lock"] = target.package
  <2>1. SuccessComplete'
    <3> SUFFICES ASSUME InsertedAsIs(target)
                 PROVE  disk = Identified(target)
      BY <1>1, <1>3 DEF SuccessComplete, InsertedAsIs
    <3>1. \A p \in ManagedPaths \ {"bun.lock"} : disk[p] = Identified(target)[p]
      BY <1>1, PlannedFact DEF Planned5, Begun
    <3>2. \A p \in ManagedPaths : disk[p] = Identified(target)[p]
      BY <1>3, <3>1, IdentifiedFact
    <3> QED BY <3>2, IdentifiedFact DEF Begun, IsDisk
  <2>2. TypeOK' /\ Begun'
    <3>1. temp' \in BOOLEAN BY <1>1
    <3> QED BY <1>1, <1>3, <3>1 DEF TypeOK, Begun, IsDisk, Results
  <2>3. Writing' /\ Planned5' /\ Restoring' /\ Whole'
    BY <1>1, <1>3 DEF Writing, Planned5, Restoring, Whole, AllWhole
  <2>4. FailureRestores' /\ CustomisedKept'
    BY <1>1, <1>3 DEF FailureRestores, CustomisedKept
  <2>5. Half'
    BY <1>1, <1>3 DEF Half, FromBoth, Begun
  <2> QED BY <2>1, <2>2, <2>3, <2>4, <2>5
<1> QED BY <1>2, <1>3 DEF Verify

LEMMA RestoredInv == ASSUME Inv, Restored PROVE Inv'
<1> USE DEF Inv
<1>1. /\ pc = "restoring" /\ Done /\ pc' = "idle" /\ temp = FALSE /\ temp' = FALSE
      /\ result' = IF lost = {} THEN "failed" ELSE "unrestored"
      /\ disk' = disk /\ UNCHANGED <<target, snapshot, runs, first, at, lost>>
  BY DEF Restored, Begun, TypeOK
<1>2. \A p \in ManagedPaths : disk[p] # snapshot[p] => p \in lost
  <2>1. at \in 1 .. 7 /\ at > 6
    BY <1>1 DEF Done, TypeOK
  <2>2. \A i \in 1 .. 6 : \/ disk[RestoreOrder[i]] = snapshot[RestoreOrder[i]]
                          \/ RestoreOrder[i] \in lost
    BY <1>1, <2>1 DEF Restoring
  <2> QED BY <2>2, RestoreOrderFact
<1>3. lost = {} => disk = snapshot
  BY <1>2 DEF Begun, IsDisk
<1>4. FailureRestores' /\ SuccessComplete' /\ CustomisedKept'
  BY <1>1, <1>2, <1>3 DEF FailureRestores, SuccessComplete, CustomisedKept
<1>5. TypeOK' /\ Begun'
  <2>1. temp' \in BOOLEAN BY <1>1
  <2> QED BY <1>1, <2>1 DEF TypeOK, Begun, IsDisk, Results
<1>6. Writing' /\ Planned5' /\ Restoring' /\ Whole' /\ Half'
  BY <1>1 DEF Writing, Planned5, Restoring, Whole, AllWhole, Half, FromBoth
<1> QED BY <1>4, <1>5, <1>6

LEMMA KillInv == ASSUME Inv, Kill PROVE Inv'
<1> USE DEF Inv
<1>1. /\ pc # "idle" /\ pc' = "idle" /\ temp' = FALSE /\ result' = "killed"
      /\ UNCHANGED <<target, snapshot, runs, first, at, lost>>
  BY DEF Kill
<1>2. IsDisk(disk') /\ AllWhole(disk)' /\ FromBoth(target)'
  <2>1. CASE disk' = disk
    BY <1>1, <2>1 DEF Begun, Whole, AllWhole, Half, FromBoth
  <2>2. CASE \E lock \in Locks : disk' = [disk EXCEPT !["bun.lock"] = lock]
    BY <1>1, <2>2, LockFact
  <2> QED BY <2>1, <2>2 DEF Kill
<1>3. TypeOK'
  <2>1. temp' \in BOOLEAN BY <1>1
  <2> QED BY <1>1, <2>1 DEF TypeOK, Results
<1>4. Begun' /\ snapshot' = Identified(Source)
  BY <1>1, <1>2 DEF Begun, IsDisk
<1>5. Writing' /\ Planned5' /\ Restoring' /\ Whole'
  BY <1>1, <1>2 DEF Writing, Planned5, Restoring, Whole, AllWhole
<1>6. Half'
  BY <1>1, <1>2 DEF Half, FromBoth, Begun
<1>7. SuccessComplete' /\ FailureRestores' /\ CustomisedKept'
  BY <1>1, <1>4 DEF SuccessComplete, FailureRestores, CustomisedKept
<1> QED BY <1>3, <1>4, <1>5, <1>6, <1>7

LEMMA NextInv == ASSUME Inv, [Next]_vars PROVE Inv'
<1>1. CASE UNCHANGED vars
  <2>1. UNCHANGED <<disk, temp, pc, target, at, snapshot, lost, result, runs, first>>
    BY <1>1 DEF vars
  <2>2. TypeOK' BY <2>1 DEF Inv, TypeOK
  <2>3. Begun' BY <2>1 DEF Inv, Begun, IsDisk, Done
  <2>4. Writing' /\ Planned5' /\ Restoring' /\ Whole' /\ Half'
    BY <2>1 DEF Inv, Writing, Planned5, Restoring, Whole, AllWhole, Half, FromBoth
  <2>5. SuccessComplete' /\ FailureRestores' /\ CustomisedKept'
    BY <2>1 DEF Inv, SuccessComplete, FailureRestores, CustomisedKept
  <2> QED BY <2>2, <2>3, <2>4, <2>5 DEF Inv
<1> QED BY <1>1, RunInv, OpenTemporaryInv, RenameInv, WriteFailsInv, RestoreFailsInv,
           StartBunInv, BunExitsInv, VerifyInv, RestoredInv, KillInv DEF Next

LEMMA Invariant == Spec => []Inv
BY InitInv, NextInv, PTL DEF Spec

-----------------------------------------------------------------------------
(***************************************************************************)
(* The theorems.                                                           *)
(***************************************************************************)
\* Every variable has its type in every reachable state of `just init`.
THEOREM TypeCorrect == Spec => []TypeOK
<1>1. Inv => TypeOK BY DEF Inv
<1> QED BY <1>1, Invariant, PTL

\* A command that reports success left all six files with the identity it was given.
THEOREM SuccessIsComplete == Spec => []SuccessComplete
<1>1. Inv => SuccessComplete BY DEF Inv
<1> QED BY <1>1, Invariant, PTL

\* A command that fails has undone all that it did, or says that it could not.
THEOREM FailureIsUndone == Spec => []FailureRestores
<1>1. Inv => FailureRestores BY DEF Inv
<1> QED BY <1>1, Invariant, PTL

\* No file but bun.lock is ever half written, whenever the command is killed.
THEOREM FilesStayWhole == Spec => []WholeFiles
<1>1. Inv => WholeFiles BY DEF Inv, Whole, AllWhole, WholeFiles
<1> QED BY <1>1, Invariant, PTL

\* Whatever was edited by hand is as it was, however often `just init` is run.
THEOREM CustomisedFilesKept == Spec => []CustomisedKept
<1>1. Inv => CustomisedKept BY DEF Inv
<1> QED BY <1>1, Invariant, PTL

\* Files of which each is the template's or a target's, and that the doctor passes,
\* are all of the one or all of the other.
LEMMA DoctorTells ==
  ASSUME NEW i \in Targets, FromBoth(i), DoctorPasses(disk)
  PROVE  \/ \A p \in ManagedPaths \ {"load-config.test.ts"} : disk[p] = Identified(Source)[p]
         \/ /\ disk["bun.lock"] = i.package
            /\ \A p \in ManagedPaths \ {"load-config.test.ts", "bun.lock"} :
                 disk[p] = Planned(p, i)
<1>1. /\ disk["bun.lock"] = disk["package.json"].name
      /\ disk[".env.example"] = disk["config.schema.ts"]
  BY DEF DoctorPasses, LockfileName, ServiceName
<1>2. /\ Identified(Source)["package.json"] = PackageJson(Source)
      /\ Identified(Source)["bun.lock"] = Source.package
      /\ Identified(Source)["README.md"] = [heading |-> Source.display, description |-> SourceText]
      /\ Identified(Source)[".env.example"] = Source.service
      /\ Identified(Source)["config.schema.ts"] = Source.service
  BY DEF Identified, ManagedPaths
<1>3. /\ Planned("package.json", i) = PackageJson(i)
      /\ Planned(".env.example", i) = i.service
      /\ Planned("config.schema.ts", i) = i.service
  BY DEF Planned, Identified, ManagedPaths
<1>4. /\ disk["package.json"] \in {PackageJson(Source), PackageJson(i)}
      /\ disk["README.md"] = Identified(Source)["README.md"]
           \/ disk["README.md"] = Planned("README.md", i)
      /\ disk[".env.example"] \in {Source.service, i.service}
  BY <1>2, <1>3 DEF FromBoth, ManagedPaths
<1>5. CASE /\ PackageIsSource(disk) /\ RepositoryIsSource(disk)
           /\ ServiceIsSource(disk) /\ ReadmeIsSource(disk)
  <2>1. disk["package.json"] = PackageJson(Source) /\ disk["bun.lock"] = Source.package
    BY <1>1, <1>4, <1>5 DEF PackageIsSource, RepositoryIsSource, PackageJson
  <2>2. disk["README.md"] = Identified(Source)["README.md"]
    BY <1>2, <1>5 DEF ReadmeIsSource
  <2>3. disk[".env.example"] = Source.service /\ disk["config.schema.ts"] = Source.service
    BY <1>1, <1>5 DEF ServiceIsSource
  <2> QED BY <1>2, <2>1, <2>2, <2>3 DEF ManagedPaths
<1>6. CASE ~ PackageIsSource(disk) /\ ~ ServiceIsSource(disk) /\ ~ ReadmeIsSource(disk)
  <2>1. disk["package.json"] = PackageJson(i) /\ disk["bun.lock"] = i.package
    BY <1>1, <1>4, <1>6 DEF PackageIsSource, PackageJson
  <2>2. disk["README.md"] = Planned("README.md", i)
    BY <1>2, <1>4, <1>6 DEF ReadmeIsSource
  <2>3. disk[".env.example"] = i.service /\ disk["config.schema.ts"] = i.service
    BY <1>1, <1>4, <1>6 DEF ServiceIsSource
  <2> QED BY <1>3, <2>1, <2>2, <2>3 DEF ManagedPaths
<1> QED BY <1>5, <1>6 DEF DoctorPasses, ActiveIdentity

\* The doctor finds what a killed or badly restored command left half done.
THEOREM DoctorFindsWhatIsLeft == Spec => []DoctorFindsHalf
<1>1. Inv => DoctorFindsHalf
  <2> SUFFICES ASSUME Inv, DoctorPasses(disk), disk # first,
                      NEW i \in Targets, FromBoth(i)
               PROVE  DoctorFindsHalf
    BY DEF Inv, Half, DoctorFindsHalf
  <2> QED BY DoctorTells DEF DoctorFindsHalf
<1> QED BY <1>1, Invariant, PTL

\* After a success every file is as it was planned, or as it should have been before.
Written ==
  result \in {"changed", "unchanged"} =>
    /\ target \in Targets
    /\ \/ Readable(disk) /\ disk = Identified(target)
       \/ \A p \in ManagedPaths : disk[p] = Planned(p, target)

LEMMA WrittenStep == ASSUME Inv, Written, [Next]_vars PROVE Written'
<1>1. CASE UNCHANGED vars
  BY <1>1 DEF vars, Written, Readable, ReadmeRead
<1>2. CASE \E command \in Commands : Run(command)
  <2> PICK command \in Commands : Run(command)
    BY <1>2
  <2>1. disk' = disk
    BY DEF Run
  <2>2. CASE result' = "unchanged"
    <3>1. /\ command # Bad /\ Resolves(command) /\ target' = TargetOf(command)
          /\ Readable(disk) /\ Classify(disk, target') = "target"
      BY <2>2 DEF Run
    <3> QED BY <2>1, <3>1 DEF Classify, Targets, Written, Readable, ReadmeRead
  <2>3. CASE result' # "unchanged"
    BY <2>3 DEF Run, Written
  <2> QED BY <2>2, <2>3
<1>3. CASE Verify
  <2>1. disk' = disk /\ target' = target /\ target \in Targets /\ target # Source
        /\ pc = "verifying" /\ result = "none"
    BY <1>3 DEF Verify, Inv, Begun
  <2>2. CASE disk["bun.lock"] = target.package
    <3>1. Planned("bun.lock", target) = target.package
      BY DEF Planned, Identified, ManagedPaths
    <3>2. \A p \in ManagedPaths \ {"bun.lock"} : disk[p] = Planned(p, target)
      BY <2>1 DEF Inv, Planned5
    <3> QED BY <2>1, <2>2, <3>1, <3>2 DEF Written
  <2>3. CASE result' = result
    BY <2>1, <2>3 DEF Written
  <2> QED BY <1>3, <2>2, <2>3 DEF Verify
<1>4. CASE OpenTemporary \/ Rename \/ WriteFails \/ RestoreFails \/ StartBun \/ BunExits
  <2>1. result' = result /\ pc # "idle"
    BY <1>4 DEF OpenTemporary, Rename, WriteFails, RestoreFails, StartBun, BunExits, Inv, Begun
  <2> QED BY <2>1 DEF Inv, Begun, Written
<1>5. CASE Restored \/ Kill
  BY <1>5 DEF Restored, Kill, Written
<1> QED BY <1>1, <1>2, <1>3, <1>4, <1>5 DEF Next

\* The doctor passes the repository of a target that keeps nothing of the template's
\* and that it can read back.
LEMMA DoctorPassesWritten ==
  ASSUME NEW i, NothingShared(i), i.slug \notin Dotted, Readable(disk),
         disk["package.json"] = PackageJson(i), disk["bun.lock"] = i.package,
         disk["README.md"] # Identified(Source)["README.md"],
         disk[".env.example"] = i.service, disk["config.schema.ts"] = i.service
  PROVE  DoctorPasses(disk)
<1>1. PackageMetadata(disk) /\ ServicesRead(disk) /\ ReadmeRead(disk)
  BY DEF PackageMetadata, ServicesRead, Readable, ManagedPaths, PackageJson
<1>2. /\ disk["package.json"].name = i.package /\ disk["package.json"].repository = i.slug
  BY DEF PackageJson
<1>3. ~ PackageIsSource(disk) /\ ~ RepositoryIsSource(disk) /\ ~ ServiceIsSource(disk)
  BY <1>2 DEF NothingShared, PackageIsSource, RepositoryIsSource, ServiceIsSource
<1>4. ~ ReadmeIsSource(disk)
  BY DEF ReadmeIsSource, Identified, ManagedPaths
<1>5. LockfileName(disk) /\ ServiceName(disk)
  BY <1>1, <1>2 DEF LockfileName, ServiceName, Readable, ManagedPaths
<1> QED BY <1>1, <1>3, <1>4, <1>5 DEF DoctorPasses, ReadmeIdentity, ActiveIdentity

\* What `just init` calls a success, `just doctor` passes, for an identity that keeps
\* nothing of the template's, whose slug a URL keeps and whose name leaves a heading.
THEOREM SuccessPassesTheDoctor == Spec => []DoctorAccepts
<1>1. Init => Written
  BY DEF Init, Written
<1>2. ASSUME Inv, Written PROVE DoctorAccepts
  <2> SUFFICES ASSUME result \in {"changed", "unchanged"}, NothingShared(target),
                      ReadBack(target)
               PROVE  DoctorPasses(disk)
    BY DEF DoctorAccepts
  <2>1. target \in Targets /\ target # Source
    BY <1>2 DEF Written, NothingShared
  <2>2. /\ Identified(target)["package.json"] = PackageJson(target)
        /\ Identified(target)["bun.lock"] = target.package
        /\ Identified(target)["README.md"]
             = [heading |-> target.display, description |-> target.display]
        /\ Identified(target)[".env.example"] = target.service
        /\ Identified(target)["config.schema.ts"] = target.service
    BY <2>1 DEF Identified, ManagedPaths
  <2>3. CASE Readable(disk) /\ disk = Identified(target)
    <3>1. disk["README.md"] # Identified(Source)["README.md"]
      BY <2>2, <2>3, SourceTextAssumption DEF Identified, ManagedPaths
    <3> QED BY <2>2, <2>3, <3>1, DoctorPassesWritten DEF ReadBack
  <2>4. CASE \A p \in ManagedPaths : disk[p] = Planned(p, target)
    <3>1. disk["README.md"] = Planned("README.md", target)
      BY <2>4 DEF ManagedPaths
    <3>2. Readable(disk)
      BY <2>1, <2>4, <3>1, PlannedAssumption DEF Readable, ReadmeRead, ReadBack, ManagedPaths
    <3>3. \A p \in ManagedPaths \ {"README.md"} : disk[p] = Identified(target)[p]
      BY <2>4 DEF Planned
    <3>4. /\ disk["package.json"] = PackageJson(target) /\ disk["bun.lock"] = target.package
          /\ disk[".env.example"] = target.service /\ disk["config.schema.ts"] = target.service
      BY <2>2, <3>3 DEF ManagedPaths
    <3> QED BY <3>1, <3>2, <3>4, DoctorPassesWritten DEF NothingShared, ReadBack
  <2> QED BY <1>2, <2>3, <2>4 DEF Written
<1> QED BY <1>1, <1>2, Invariant, WrittenStep, PTL DEF Spec
=============================================================================
