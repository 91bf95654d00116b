---------------------------- MODULE MCInstaller ----------------------------
(* An instance of Installer for TLC.                                       *)
EXTENDS Installer, TLC

\* The release of this package lists its command line; nothing else is listed.
OneListed == {<<"v1", "argus">>}
TwoTags == {"v1", "v2"}

\* The hooks do not differ.
AnyHook == Permutations(Installs)

=============================================================================
