---------------------------- MODULE MCGitHubMirror ----------------------------
(* A small instance of GitHubMirror for TLC. *)
EXTENDS GitHubMirror

CONSTANTS g1, s1, s2, s3
=============================================================================
