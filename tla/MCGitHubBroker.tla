--------------------------- MODULE MCGitHubBroker ---------------------------
EXTENDS GitHubBroker

(* The second file is too long; the third does not fit on a page with the  *)
(* first one; the fourth is not text.                                      *)
Sizes == <<2, 3, 1, None>>
=============================================================================
