------------------------------ MODULE MCPerimeter ------------------------------
(* Instances of Perimeter for TLC: calls named for their action class.     *)
EXTENDS Perimeter

CONSTANTS read, write, push, patch, purge,  \* calls, by what they do
          web, api, lib                     \* projects; lib lies in web's tree

MCProjects == {web, api, lib}
MCWithin   == {<<p, p>> : p \in MCProjects} \union {<<lib, web>>}
MCCwdOf    == [c \in Calls |-> CASE c = push  -> api
                                 [] c = write -> lib
                                 [] OTHER     -> web]
MCIntents  == {"tidy", "other"}
MCIntentOf == [c \in Calls |-> IF c \in {write, push} THEN "tidy" ELSE "other"]
MCBase     == [c \in Calls |-> CASE c \in {patch, purge} -> "HALT"
                                 [] c = push             -> "REVIEW"
                                 [] OTHER                -> "ALLOW"]
MCAlwaysDenied == Calls \intersect {patch, purge}
MCMaintainable == Calls \intersect {patch}
MCSafeAllowed  == Calls \intersect {read}
MCDisarmTimes  == {1, 2}
=============================================================================
