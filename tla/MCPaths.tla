------------------------------ MODULE MCPaths ------------------------------
\* A small instance of Paths for TLC: two mount points, a working directory at
\* one of them, and paths over two punctuation characters and one letter.
EXTENDS Paths

MCMounts == <<<<"/", "a", ".">>, <<"/", "a", "/", "a">>>>
MCCwd == <<"/", "a", "/", "a">>
=============================================================================
