----------------------------- MODULE MCBuildTool -----------------------------
EXTENDS BuildTool, TLC

CONSTANTS s1, s2, own, shared

\* One header of s1 alone, and one that both include.
MCIncludes == s1 :> {own, shared} @@ s2 :> {shared}
=============================================================================
