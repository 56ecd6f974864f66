-------------------------- MODULE MC_MemoryService ---------------------------
(***************************************************************************)
(* Instances of MemoryService for TLC.                                      *)
(***************************************************************************)
EXTENDS MemoryService, TLC

CONSTANTS i1, i2, i3, u1, u2, x1, x2, x3, m1, m2, t1, t2

(* Each text is a near duplicate of itself only.                            *)
SelfNear == {<<x, x>> : x \in Texts}
(* x1 and x2 differ in a word, x3 is about something else.                  *)
PairNear == SelfNear \cup {<<x1, x2>>, <<x2, x1>>}

Adds(us, xs, ms) == [op : {"add"}, user : us, text : xs, meta : ms]
Patches(is, xs) == [op : {"patch"}, id : is, text : xs]
Deletes(is) == [op : {"delete"}, id : is]

(* Adds of one text by every user, patches with another where there is one, *)
(* deletes.                                                                 *)
MixedRequests ==
  Adds(Users, {x1}, {m1}) \cup Patches(Ids, Texts \cap {x1, x2}) \cup Deletes(Ids)
AddsAndDeletes == Adds(Users, Texts, Metas) \cup Deletes(Ids)

Symmetry ==
  Permutations(Ids) \cup Permutations(Tasks) \cup Permutations(Users)
=============================================================================
