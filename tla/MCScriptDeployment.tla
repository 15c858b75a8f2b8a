------------------------- MODULE MCScriptDeployment -------------------------
(***************************************************************************)
(* Three deployers, four deployments, three files of which the second is   *)
(* DDL: releases with a script, with one more behind it and one in front,  *)
(* with the first one changed, and with a hole.                            *)
(***************************************************************************)
EXTENDS ScriptDeployment

CONSTANTS a, b

MCNumFiles == 3
MCDdl == {2}
MCContents == {a, b}
MCReleases ==
  {<<None, a, None>>, <<None, a, a>>, <<a, a, a>>, <<b, a, a>>, <<a, None, b>>}
MCMaxDeployments == 4
=============================================================================
