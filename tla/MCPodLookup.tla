---------------------------- MODULE MCPodLookup ----------------------------
(* Values of the constants of PodLookup for model checking. *)
EXTENDS PodLookup, TLC

CONSTANTS p1, p2, a, b, c, v

OnePod == p1 :> a

\* Two pods of one name in two namespaces.
SharedName == (p1 :> a) @@ (p2 :> a)

\* A container with a limit that mounts a volume with a size limit.
Limited ==
  [containers |-> {c}, limited |-> {c}, emptyDirs |-> {v}, sized |-> {v},
   mounts |-> {<<c, v>>}]

\* The same container without any limits.
Unlimited == [Limited EXCEPT !.limited = {}, !.sized = {}]

BothSpecs == {Limited, Unlimited}
=============================================================================
