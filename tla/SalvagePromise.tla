--------------------------- MODULE SalvagePromise ---------------------------
(***************************************************************************)
(* What the tail-layout writer promises whoever looks at its two paths,    *)
(* with no file format in it: the salvage path shows either nothing or the *)
(* tiles of the last checkpoint, all of them and no others; the output     *)
(* path changes only when a run publishes, and then to everything that run *)
(* was given.                                                              *)
(***************************************************************************)
CONSTANTS Tiles, Bodies, Nothing

VARIABLES
  salvage,     \* the tile map a reader finds at <output>.partial
  published,   \* the tile map a reader finds at the output path
  added        \* the tile map given to the current run so far

vars == <<salvage, published, added>>

NoTiles == [t \in {} |-> Nothing]

Init == salvage = Nothing /\ published = Nothing /\ added = NoTiles

\* A run starts; an archive an earlier run left may leave this path.
Start == /\ added' = NoTiles
         /\ salvage' \in {salvage, Nothing}
         /\ UNCHANGED published

Add(t, b) == /\ t \notin DOMAIN added
             /\ added' = [u \in DOMAIN added \cup {t} |->
                            IF u = t THEN b ELSE added[u]]
             /\ UNCHANGED <<salvage, published>>

\* The salvage archive becomes unreadable.
Lose == salvage' = Nothing /\ UNCHANGED <<published, added>>

Checkpoint == salvage' = added /\ UNCHANGED <<published, added>>

Publish == /\ salvage = added
           /\ published' = added /\ salvage' = Nothing
           /\ UNCHANGED added

Next == \/ Start \/ Lose \/ Checkpoint \/ Publish
        \/ \E t \in Tiles, b \in Bodies : Add(t, b)

Spec == Init /\ [][Next]_vars
=============================================================================
