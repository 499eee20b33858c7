-------------------------- MODULE MCRepositoryInit --------------------------
(***************************************************************************)
(* RepositoryInit for TLC: two good commits with a file and two            *)
(* directories, so that a rename fails after others succeeded, and one     *)
(* commit for each reason to refuse.                                       *)
(***************************************************************************)
EXTENDS RepositoryInit

Good == {<<".gitignore">>, <<"content", "a">>, <<"state", "a">>}

MCSnapshots == [
    first |-> [paths |-> Good, valid |-> TRUE],
    second |-> [paths |-> Good \cup {<<"content", "b">>}, valid |-> TRUE],
    unparsable |-> [paths |-> Good, valid |-> FALSE],
    stateless |-> [paths |-> {<<"content", "a">>}, valid |-> TRUE],
    metadata |-> [paths |-> Good \cup {<<".plainfeed", "sync.toml">>}, valid |-> TRUE],
    stray |-> [paths |-> Good \cup {<<"guide", "a">>}, valid |-> TRUE],
    escaping |-> [paths |-> Good \cup {<<"content", "..", "state", "a">>}, valid |-> TRUE]]
=============================================================================
