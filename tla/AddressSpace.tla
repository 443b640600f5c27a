---------------------------- MODULE AddressSpace ----------------------------
(***************************************************************************)
(* What paging promises: every page has a frame or none, the low pages     *)
(* have their own to begin with, and a call of map_page() gives one page   *)
(* one frame and leaves every other page alone.                            *)
(***************************************************************************)
CONSTANTS
  Page,      \* the pages, but for those through which the tables are seen
  LowPage,   \* the identity-mapped ones
  Unmapped   \* no frame

VARIABLE space

Map(v, f) == space' = [space EXCEPT ![v] = f]

ASInit == space = [v \in Page |-> IF v \in LowPage THEN v ELSE Unmapped]

\* Any frame may be mapped, so the new one is read off the page itself.
ASNext == \E v \in Page : Map(v, space'[v]) /\ space'[v] # Unmapped

ASSpec == ASInit /\ [][ASNext]_space
=============================================================================
