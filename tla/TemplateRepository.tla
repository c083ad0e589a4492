------------------------- MODULE TemplateRepository -------------------------
(***************************************************************************)
(* The files of a repository made from the template that carry its         *)
(* identity: what the initialiser takes for the identity (identity.ts),    *)
(* how it reads, classifies and rewrites the files (repository-files.ts),  *)
(* and what the doctor makes of them (doctor-lib.ts).                      *)
(*                                                                         *)
(* A file is what its readers see of it, or Garbled: missing, torn, or     *)
(* without the one managed match.  The opening of README.md is its heading *)
(* and its description; a whole README.md may have an empty heading, which *)
(* its readers refuse.  Texts that pass the patterns of their field are    *)
(* values, and those that do not are Bad.                                  *)
(***************************************************************************)
EXTENDS Naturals

CONSTANTS
  Source,        \* SOURCE_TEMPLATE_IDENTITY
  SourceText,    \* SOURCE_README_DESCRIPTION
  Origin,        \* the slug that `git remote get-url origin` gives, or Bad
  Derived,       \* by slug: the names that its repository part is turned into
  AfterReplace,  \* by name: the opening that String.replace writes, which takes
                 \* some of a name for patterns: "$$" is "$", "$&" the opening
                 \* itself, "$" with a quote what is before it (nothing) or after
  Dotted,        \* the slugs of an owner "." or "..", which a URL has no place for
  Garbled, Bad, Unset

\* The template's README says more of it than its name.
ASSUME SourceTextAssumption == SourceText # Source.display

Fields == {"slug", "display", "package", "service"}

ManagedPaths ==
  {"package.json", "bun.lock", "README.md", ".env.example", "config.schema.ts",
   "load-config.test.ts"}

-----------------------------------------------------------------------------
(***************************************************************************)
(* inferIdentityFromOrigin.  The options of a command give a field or      *)
(* leave it Unset; a name that is given is not derived.                    *)
(***************************************************************************)
Slug(options) == IF options.slug # Unset THEN options.slug ELSE Origin

TargetOf(options) ==
  [f \in Fields |->
     IF f = "slug" THEN Slug(options)
     ELSE IF options[f] # Unset THEN options[f] ELSE Derived[Slug(options)][f]]

\* The assertions on the slug and the names throw.
Resolves(options) ==
  Slug(options) # Bad /\ \A f \in Fields : TargetOf(options)[f] # Bad

-----------------------------------------------------------------------------
(***************************************************************************)
(* Reading and rewriting the managed files.                                *)
(***************************************************************************)
PackageJson(i) ==
  [name |-> i.package, repository |-> i.slug, bugs |-> i.slug, homepage |-> i.slug]

\* The repository of an identity, as snapshotMatches expects every field of it.
Identified(i) ==
  [p \in ManagedPaths |->
     CASE p = "package.json" -> PackageJson(i)
       [] p = "bun.lock" -> i.package
       [] p = "README.md" ->
            [heading |-> i.display,
             description |-> IF i = Source THEN SourceText ELSE i.display]
       [] OTHER -> i.service]

\* The pattern of the opening, which initialiser and doctor share, asks for a
\* character or more after "# ".
ReadmeRead(disk) == disk["README.md"] # Garbled /\ disk["README.md"].heading # ""

Readable(disk) == ReadmeRead(disk) /\ \A p \in ManagedPaths : disk[p] # Garbled

Classify(disk, target) ==
  IF disk = Identified(target) THEN "target"
  ELSE IF disk = Identified(Source) THEN "pristine"
  ELSE "mixed"

\* What planIdentityChanges makes of a pristine file; bun.lock is left to bun.
Planned(path, target) ==
  IF path = "README.md" THEN AfterReplace[target.display] ELSE Identified(target)[path]

-----------------------------------------------------------------------------
(***************************************************************************)
(* runDoctor: the checks of the files that FAIL.  The version of bun and   *)
(* the origin, on which it fails or warns too, are not in the files.       *)
(***************************************************************************)
\* The slug of repository.url is read with the URL parser, which drops a dotted owner
\* (the initialiser splits the slug at the slash, and compares URLs as strings).
PackageMetadata(disk) ==
  LET package == disk["package.json"] IN
  /\ package # Garbled /\ package.repository \notin Dotted
  /\ package.bugs = package.repository /\ package.homepage = package.repository

ServicesRead(disk) ==
  disk[".env.example"] # Garbled /\ disk["config.schema.ts"] # Garbled

ServiceName(disk) ==
  ServicesRead(disk) /\ disk[".env.example"] = disk["config.schema.ts"]

\* Mutant: the heading alone tells.
ReadmeIsSourceByHeading(disk) == disk["README.md"].heading = Source.display

ReadmeIsSource(disk) ==
  disk["README.md"] = [heading |-> Source.display, description |-> SourceText]

PackageIsSource(disk) == disk["package.json"].name = Source.package

RepositoryIsSource(disk) == disk["package.json"].repository = Source.slug

ServiceIsSource(disk) == disk[".env.example"] = Source.service

ReadmeIdentity(disk) ==
  /\ ReadmeRead(disk)
  /\ PackageMetadata(disk) /\ ReadmeIsSource(disk)
       => PackageIsSource(disk) /\ RepositoryIsSource(disk)

LockfileName(disk) ==
  /\ disk["bun.lock"] # Garbled /\ PackageMetadata(disk)
  /\ disk["bun.lock"] = disk["package.json"].name

\* Mutant: what is left of the source is not looked for.
ActiveIdentityOnly(disk) ==
  PackageMetadata(disk) /\ ServicesRead(disk) /\ ReadmeRead(disk)

\* All of the identity is the source's, or none of it is.
ActiveIdentity(disk) ==
  /\ PackageMetadata(disk) /\ ServicesRead(disk) /\ ReadmeRead(disk)
  /\ \/ /\ PackageIsSource(disk) /\ RepositoryIsSource(disk)
        /\ ServiceIsSource(disk) /\ ReadmeIsSource(disk)
     \/ ~ (\/ PackageIsSource(disk) \/ RepositoryIsSource(disk)
           \/ ServiceIsSource(disk) \/ ReadmeIsSource(disk))

DoctorPasses(disk) ==
  /\ PackageMetadata(disk)
  /\ LockfileName(disk)
  /\ ServiceName(disk)
  /\ ReadmeIdentity(disk)
  /\ ActiveIdentity(disk)
=============================================================================
