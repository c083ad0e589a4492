---------------------------- MODULE TemplateInit ----------------------------
(***************************************************************************)
(* The command `just init`, run time and again on one repository: it       *)
(* writes the planned files, lets bun rewrite the lockfile, verifies it,   *)
(* and restores every managed file when any of this fails.  A write may    *)
(* fail, bun may do anything to its lockfile, and the command may be       *)
(* killed between any two steps.                                           *)
(*                                                                         *)
(* One command runs at a time: the next one starts after the bun of a      *)
(* killed one has ended.  Nobody else writes the managed files meanwhile.  *)
(***************************************************************************)
EXTENDS TemplateRepository

CONSTANTS
  Commands,   \* the options of a command, or Bad for arguments that do not parse
  Starts,     \* the repositories that the first command may find
  MaxRuns     \* bound: the commands that are run

ASSUME MaxRunsAssumption == MaxRuns \in Nat
ASSUME StartsAssumption == \A d \in Starts : d = [p \in ManagedPaths |-> d[p]]

VARIABLES
  disk,       \* the managed files
  temp,       \* a temporary file of atomicWrite is being written
  pc,
  target,     \* the identity that the command is to write
  at,         \* the position in the order that is being gone through
  snapshot,   \* the files as the command read them
  lost,       \* the paths that could not be restored
  result,     \* of the last command
  runs,
  first       \* history: the files before the first command

vars == <<disk, temp, pc, target, at, snapshot, lost, result, runs, first>>

WriteOrder ==
  <<"package.json", "README.md", ".env.example", "config.schema.ts",
    "load-config.test.ts">>

RestoreOrder ==
  <<"package.json", "bun.lock", "README.md", ".env.example", "config.schema.ts",
    "load-config.test.ts">>

NoTarget == [f \in Fields |-> Unset]

Results == {"none", "usage", "refused", "unchanged", "dry-run", "changed",
            "failed", "unrestored", "killed"}

Init ==
  /\ disk \in Starts /\ first = disk /\ snapshot = disk
  /\ temp = FALSE /\ pc = "idle" /\ target = NoTarget /\ at = 1
  /\ lost = {} /\ result = "none" /\ runs = 0

-----------------------------------------------------------------------------
(***************************************************************************)
(* runInitCli and initializeTemplate.                                      *)
(***************************************************************************)
Targets == {TargetOf(c) : c \in {c \in Commands \ {Bad} : Resolves(c)}}

\* What is planned is no torn text (its README.md may have an empty heading).
ASSUME PlannedAssumption == \A i \in Targets, p \in ManagedPaths : Planned(p, i) # Garbled

\* Reading, inferring and planning write nothing, and are one step.
Run(command) ==
  /\ pc = "idle" /\ runs < MaxRuns
  /\ runs' = runs + 1
  /\ snapshot' = disk /\ lost' = {} /\ at' = 1
  /\ \/ /\ command = Bad
        /\ target' = NoTarget /\ result' = "usage" /\ UNCHANGED pc
     \/ /\ command # Bad /\ ~ Resolves(command)
        /\ target' = NoTarget /\ result' = "refused" /\ UNCHANGED pc
     \/ /\ command # Bad /\ Resolves(command)
        /\ target' = TargetOf(command)
        /\ \/ /\ ~ Readable(disk) \/ Classify(disk, target') = "mixed"
              /\ result' = "refused" /\ UNCHANGED pc
           \/ /\ Readable(disk) /\ Classify(disk, target') = "target"
              /\ result' = "unchanged" /\ UNCHANGED pc
           \/ /\ Readable(disk) /\ Classify(disk, target') = "pristine"
              /\ IF command.dryRun
                   THEN result' = "dry-run" /\ UNCHANGED pc
                   ELSE result' = "none" /\ pc' = "writing"
  /\ UNCHANGED <<disk, temp, first>>

Path == IF pc = "writing" THEN WriteOrder[at] ELSE RestoreOrder[at]

Done == at > (IF pc = "writing" THEN 5 ELSE 6)

Content == IF pc = "writing" THEN Planned(Path, target) ELSE snapshot[Path]

\* Mutant: the file is written in place.
OpenTemporaryInPlace ==
  /\ pc \in {"writing", "restoring"} /\ ~ Done /\ ~ temp
  /\ temp' = TRUE
  /\ disk' = [disk EXCEPT ![Path] = Garbled]
  /\ UNCHANGED <<pc, target, at, snapshot, lost, result, runs, first>>

\* atomicWrite: the content goes to a file of its own.
OpenTemporary ==
  /\ pc \in {"writing", "restoring"} /\ ~ Done /\ ~ temp
  /\ temp' = TRUE
  /\ UNCHANGED <<disk, pc, target, at, snapshot, lost, result, runs, first>>

\* atomicWrite: the file takes the place of the one at the path.
Rename ==
  /\ temp /\ temp' = FALSE
  /\ disk' = [disk EXCEPT ![Path] = Content]
  /\ at' = at + 1
  /\ UNCHANGED <<pc, target, snapshot, lost, result, runs, first>>

StartRestoring == pc' = "restoring" /\ at' = 1

\* The temporary file, removed at best, is no managed file.
WriteFails ==
  /\ pc = "writing" /\ temp /\ temp' = FALSE
  /\ StartRestoring
  /\ UNCHANGED <<disk, target, snapshot, lost, result, runs, first>>

\* Mutant: the first file that cannot be restored ends the restoring.
RestoreFailsAndStops ==
  /\ pc = "restoring" /\ temp /\ temp' = FALSE
  /\ lost' = lost \cup {Path} /\ at' = 7
  /\ UNCHANGED <<disk, pc, target, snapshot, result, runs, first>>

RestoreFails ==
  /\ pc = "restoring" /\ temp /\ temp' = FALSE
  /\ lost' = lost \cup {Path} /\ at' = at + 1
  /\ UNCHANGED <<disk, pc, target, snapshot, result, runs, first>>

StartBun ==
  /\ pc = "writing" /\ Done
  /\ pc' = "installing"
  /\ UNCHANGED <<disk, temp, target, at, snapshot, lost, result, runs, first>>

\* `bun install --lockfile-only` writes the name that package.json has, or nothing,
\* or a part of it.
Locks == {disk["bun.lock"], disk["package.json"].name, Garbled}

BunExits ==
  /\ pc = "installing"
  /\ \E lock \in Locks : disk' = [disk EXCEPT !["bun.lock"] = lock]
  /\ \/ pc' = "verifying" /\ UNCHANGED at
     \/ StartRestoring
  /\ UNCHANGED <<temp, target, snapshot, lost, result, runs, first>>

\* Mutant: an exit code of zero is enough.
VerifyNothing ==
  /\ pc = "verifying" /\ pc' = "idle"
  /\ result' = "changed"
  /\ UNCHANGED <<disk, temp, target, at, snapshot, lost, runs, first>>

\* The lockfile is read again, which may fail.
Verify ==
  /\ pc = "verifying"
  /\ \/ /\ disk["bun.lock"] = target.package
        /\ pc' = "idle" /\ result' = "changed" /\ UNCHANGED at
     \/ StartRestoring /\ UNCHANGED result
  /\ UNCHANGED <<disk, temp, target, snapshot, lost, runs, first>>

\* The error is thrown again, in an AggregateError when a file was lost.
Restored ==
  /\ pc = "restoring" /\ Done
  /\ pc' = "idle"
  /\ result' = IF lost = {} THEN "failed" ELSE "unrestored"
  /\ UNCHANGED <<disk, temp, target, at, snapshot, lost, runs, first>>

\* The process is killed; its bun may still do its work.
Kill ==
  /\ pc # "idle" /\ pc' = "idle"
  /\ temp' = FALSE /\ result' = "killed"
  /\ \/ UNCHANGED disk
     \/ /\ pc = "installing"
        /\ \E lock \in Locks : disk' = [disk EXCEPT !["bun.lock"] = lock]
  /\ UNCHANGED <<target, at, snapshot, lost, runs, first>>

Next ==
  \/ \E command \in Commands : Run(command)
  \/ OpenTemporary \/ Rename \/ WriteFails \/ RestoreFails
  \/ StartBun \/ BunExits \/ Verify \/ Restored
  \/ Kill

Spec == Init /\ [][Next]_vars

-----------------------------------------------------------------------------
(***************************************************************************)
(* Properties.                                                             *)
(***************************************************************************)
\* Every variable has its type.
TypeOK ==
  /\ temp \in BOOLEAN
  /\ pc \in {"idle", "writing", "installing", "verifying", "restoring"}
  /\ at \in 1 .. 7
  /\ lost \subseteq ManagedPaths
  /\ result \in Results
  /\ runs \in 0 .. MaxRuns

\* The name has no replacement pattern of String.replace in it.
InsertedAsIs(i) ==
  AfterReplace[i.display] = [heading |-> i.display, description |-> i.display]

\* A command that answers "changed" or "unchanged" leaves every managed file with
\* the identity it was given: no write was left out, and the lockfile that bun
\* wrote is of this package (a name as "$$" is not written as it is).
SuccessComplete ==
  result = "unchanged" \/ (result = "changed" /\ InsertedAsIs(target))
    => disk = Identified(target)

\* A command that fails leaves every file as it found it, whatever step failed and
\* whatever bun did before; only a file whose own restoring failed may differ, and
\* then the failure says so.
FailureRestores ==
  /\ result \in {"failed", "unrestored"} =>
       \A p \in ManagedPaths : disk[p] # snapshot[p] => p \in lost
  /\ result = "failed" => disk = snapshot

\* The files that a command writes are never seen half written, not even after a
\* kill: each is as it was at first or as it was planned for some identity.
WholeFiles ==
  \A p \in ManagedPaths \ {"bun.lock"} :
    \/ disk[p] = first[p]
    \/ \E i \in Targets : disk[p] = Planned(p, i)

\* A repository that somebody customised is not touched, however little of it
\* differs from the template: a command writes only over the pristine one.
CustomisedKept == snapshot # Identified(Source) => disk = snapshot

\* Whatever a kill or a restoring that went wrong leaves behind of a command, the
\* doctor fails on it unless the files that it reads are all of one identity.
DoctorFindsHalf ==
  DoctorPasses(disk) =>
    \/ disk = first
    \/ \A p \in ManagedPaths \ {"load-config.test.ts"} : disk[p] = Identified(Source)[p]
    \/ \E i \in Targets : /\ disk["bun.lock"] = i.package
                         /\ \A p \in ManagedPaths \ {"load-config.test.ts", "bun.lock"} :
                              disk[p] = Planned(p, i)

\* Identities that have nothing of the template's where the doctor looks for it.
NothingShared(i) ==
  /\ i.package # Source.package /\ i.service # Source.service /\ i.slug # Source.slug
  /\ Planned("README.md", i) # Identified(Source)["README.md"]

\* The identities that the initialiser accepts and the doctor cannot read back: a
\* slug that the URL of package.json does not keep, a name of which String.replace
\* leaves no heading.
ReadBack(i) == i.slug \notin Dotted /\ Planned("README.md", i).heading # ""

\* What the initialiser calls a success the doctor passes, as long as slug, package
\* and service are all new (the doctor takes one that is kept for a residue) and can
\* be read back.
DoctorAccepts ==
  result \in {"changed", "unchanged"} /\ NothingShared(target) /\ ReadBack(target)
    => DoctorPasses(disk)
=============================================================================
