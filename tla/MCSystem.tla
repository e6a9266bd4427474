------------------------------ MODULE MCSystem ------------------------------
\* Four harts of which three have a slot; two of them run the programs of two
\* address spaces, one with a shared page and one with a private page.
EXTENDS System

CONSTANTS a, b

MCCpus   == {0, 1}
MCMms    == {a, b}
MCShared == {a}
MCFrames == {1, 2}
=============================================================================
