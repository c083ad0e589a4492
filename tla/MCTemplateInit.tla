--------------------------- MODULE MCTemplateInit ---------------------------
(***************************************************************************)
(* A small instance of TemplateInit for TLC: identities that share fields  *)
(* with the template's or none, names that cannot be used or that          *)
(* String.replace does not insert as they are, and files that were edited  *)
(* before.                                                                 *)
(***************************************************************************)
EXTENDS TemplateInit

MCSource ==
  [slug |-> "lamy/Hono", display |-> "Hono", package |-> "hono-template",
   service |-> "hono"]

\* A fork keeps the name of the repository and with it the service.
MCDerived ==
  [s \in {"lamy/Hono", "acme/Hono", "acme/api", "../api"} |->
     IF s \in {"acme/api", "../api"}
     THEN [display |-> "api", package |-> "api", service |-> "api"]
     ELSE [display |-> "Hono", package |-> "hono", service |-> "hono"]]

\* "$&" inserts the opening of the template; "$before" is the dollar with a backquote,
\* which inserts nothing.
MCAfterReplace ==
  [d \in {"Hono", "api", "US$$", "$&", "$before"} |->
     CASE d = "US$$" -> [heading |-> "US$", description |-> "US$"]
       [] d = "$&" -> [heading |-> "# Hono", description |-> SourceText]
       [] d = "$before" -> [heading |-> "", description |-> ""]
       [] OTHER -> [heading |-> d, description |-> d]]

NoOptions ==
  [slug |-> Unset, display |-> Unset, package |-> Unset, service |-> Unset,
   dryRun |-> FALSE]

MCCommands ==
  {Bad, NoOptions,
   [NoOptions EXCEPT !.dryRun = TRUE],
   [NoOptions EXCEPT !.slug = "acme/Hono"],
   [NoOptions EXCEPT !.slug = "../api"],
   [NoOptions EXCEPT !.slug = Bad],
   [NoOptions EXCEPT !.package = "hono-template"],
   [NoOptions EXCEPT !.service = Bad],
   [NoOptions EXCEPT !.display = "Hono"],
   [NoOptions EXCEPT !.display = "US$$"],
   [NoOptions EXCEPT !.display = "$&"],
   [NoOptions EXCEPT !.display = "$before"]}

Edited(p) ==
  {[Identified(Source) EXCEPT ![p] = content] :
     content \in {Garbled, Identified(TargetOf(NoOptions))[p]}}

MCStarts ==
  {Identified(Source), Identified(TargetOf(NoOptions))}
    \cup UNION {Edited(p) : p \in ManagedPaths}
=============================================================================
