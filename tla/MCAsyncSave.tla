---------------------------- MODULE MCAsyncSave ----------------------------
(* Small instances of AsyncSave for TLC. *)
EXTENDS AsyncSave

CONSTANTS a, b

MCContents == {Empty, a, b}
AllChoices == {"keep-local", "keep-remote", "restore-base", "save-as", "merge"}
KeepOrMerge == {"keep-local", "keep-remote", "merge"}
OnlyRemote == {"keep-remote"}
=============================================================================
