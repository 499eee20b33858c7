------------------------------ MODULE Contract ------------------------------
(***************************************************************************)
(* Who owns a path of the data repository, and what the two sides of a     *)
(* synchronization may change (crates/plainfeed-sync-core).  A path is the *)
(* sequence of its components; ".." and "/" stand for every component that *)
(* is not a plain name, the parent and the root.                           *)
(***************************************************************************)
EXTENDS Naturals, Sequences, Functions

NotPlain == {"..", "/"}

Plain(path) == path # <<>> /\ Range(path) \cap NotPlain = {}

path_owner(path) ==
    CASE ~Plain(path) -> "Unknown"
      [] Plain(path) /\ path[1] = "content" -> "Producer"
      [] Plain(path) /\ path[1] = "config" -> "RepositoryOwner"
      [] path \in {<<".gitignore">>, <<"guide">>} -> "RepositoryOwner"
      [] Plain(path) /\ path[1] = "state" -> "Plainfeed"
      [] Plain(path) /\ path[1] = ".plainfeed" -> "LocalOnly"
      [] OTHER -> "Unknown"

\* audit_remote_changes, for paths a remote commit changes.
RemoteMayChange(path) == path_owner(path) \in {"Producer", "RepositoryOwner", "Plainfeed"}

\* audit_plainfeed_changes, for paths a state commit changes.
PlainfeedMayChange(path) == path_owner(path) = "Plainfeed"
=============================================================================
