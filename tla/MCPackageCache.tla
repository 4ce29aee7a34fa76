---------------------------- MODULE MCPackageCache ----------------------------
(* An application that needs a library; its new version also replaces an old  *)
(* package, and that of the library a tool of the user.  The tool needs the   *)
(* old package, and that a helper, which the new application is in conflict   *)
(* with but does not replace.                                                 *)
EXTENDS PackageCache

AllPackages == {"app", "lib", "old", "help", "tool"}

Newest == [p \in AllPackages |-> IF p \in {"app", "lib"} THEN 2 ELSE 1]

NeedsOf(p, v) ==
  CASE p = "app"  -> {<<"lib", v>>}
    [] p = "old"  -> {<<"help", 1>>}
    [] p = "tool" -> {<<"old", 1>>}
    [] OTHER      -> {}

AgainstOf(p, v) ==
  CASE p = "app" /\ v = 2 -> {"old", "help"}
    [] p = "lib" /\ v = 2 -> {"tool"}
    [] OTHER              -> {}
ReplacesOf(p, v) == AgainstOf(p, v) \ {"help"}

\* Another domain may be configured, before the one that was there.
TrustOf   == [d \in {"unsigned", "signed", "other", "certified"} |->
                CASE d = "unsigned" -> 0 [] d = "certified" -> 2 [] OTHER -> 1]
ConfigsOf == {<<"unsigned", "signed", "certified">>, <<"unsigned", "signed", "other", "certified">>}

\* The new library comes from a worse domain, the application from two.
SourcesOf == [p \in AllPackages |->
                CASE p = "lib" -> <<"signed">> [] p = "app" -> <<"unsigned", "certified">>
                  [] OTHER -> <<"certified">>]

At(app, lib, old, tool) ==
  [p \in AllPackages |-> CASE p = "app" -> app [] p = "lib" -> lib [] p = "tool" -> tool
                           [] OTHER -> old]

\* index_trust_level_for_package, for one index after the other.
OneIndex(c, level, new, found, i) ==
  IF found # Unsigned THEN IF Trust[c[i]] > Trust[c[found]] THEN i ELSE found
  ELSE IF new \/ Trust[c[i]] >= level THEN i ELSE found

\* Accepted is what the loop over the indices comes to.
ASSUME AcceptedAssumption ==
  \A c \in Configs : \A indices \in UNION {[1 .. n -> DOMAIN c] : n \in 0 .. 4} :
    \A level \in 0 .. 3, new \in BOOLEAN :
      Accepted(indices, c, new, level)
        = FoldLeft(LAMBDA found, i : OneIndex(c, level, new, found, i), Unsigned, indices)

StartOf == {At(0, 0, 1, 0), At(1, 1, 1, 1)}

\* Another instance: a library that nothing needs and that has an update from a worse
\* domain, an application that needs one more package of the user, and a tool that is
\* broken and stays so.
TwoNewest == [p \in AllPackages |-> IF p = "lib" THEN 2 ELSE IF p = "help" THEN 0 ELSE 1]

BrokenNeedsOf(p, v) ==
  CASE p = "tool" -> {<<"help", 1>>} [] p = "app" -> {<<"old", 1>>} [] OTHER -> {}
BrokenAgainstOf(p, v) == {}

BrokenSourcesOf == [p \in AllPackages |-> IF p = "lib" THEN <<"unsigned">> ELSE <<"certified">>]

BrokenStartOf == {[p \in AllPackages |-> IF p \in {"lib", "tool"} THEN 1 ELSE 0]}
=============================================================================
