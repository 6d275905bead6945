---- MODULE MCIcloudImport ----
EXTENDS IcloudImport, TLC
CONSTANTS a, b, c, q1, q2
\* Two chunks, the first with two candidates.
MCChunkOf == <<{a, b}, {c}>>
MCSymmetry == Permutations({a, b}) \cup Permutations(Requests)
====
