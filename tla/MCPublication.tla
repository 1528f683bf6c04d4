---------------------------- MODULE MCPublication ----------------------------
(* Publication for TLC: two units, three threads, a handful of requests.    *)
EXTENDS Publication, TLC

CONSTANTS t1, t2, t3, word1, rule

Threads == Permutations(Thread)

Asked(kind, number, content, text, print, base, at) ==
  [kind |-> kind, number |-> number, units |-> content, text |-> text,
   print |-> print, base |-> base, at |-> at]

\* The pilot is version 1.  Version 2 is an editor's draft, or a bundle; version 3 is a
\* bundle that brings a unit of that one again, and there is one with other sources.
Requests ==
  {Asked("pilot", 1, {}, "words", "none", 0, 2),
   Asked("catalog", 2, {word1}, "words", "catalog", 0, 2),
   Asked("bundle", 2, {rule}, "reviewed", "bundle 2", 0, 2),
   Asked("bundle", 3, {word1, rule}, "reviewed", "bundle 3", 0, 3),
   Asked("bundle", 3, {word1, rule}, "reviewed", "other sources", 0, 3)}

\* Two bundles with different content for the same unit.
Corrections ==
  {Asked("bundle", 2, {rule}, "reviewed", "bundle 2", 0, 2),
   Asked("bundle", 3, {word1, rule}, "corrected", "bundle 3", 0, 3)}
=============================================================================
