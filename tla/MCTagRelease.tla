---------------------------- MODULE MCTagRelease ----------------------------
EXTENDS TagRelease

CONSTANTS r1, r2, ext

MCRepos == {r1, r2}
MCRepoOrder == <<r1, r2>>
=============================================================================
