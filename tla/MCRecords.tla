------------------------------- MODULE MCRecords -------------------------------
(* Two scenes of a few records for TLC: calls alone, and calls beside a reader. *)
EXTENDS RecordListing, TLC

CONSTANTS r1, r2, r3, c1, c2, c3

VARIABLE scene

Places == 1..3

\* Calls are interchangeable, but for the one that only the first scene has; rows are
\* not, they are ordered by their ids.
CallSymmetry == Permutations({c1, c2})

OneRow == INSTANCE RecordListing WITH There <- {r1}

\* One row that is there and one that may be created, and any three calls: two
\* rotations and an edit between them.
EditInit == scene = "edits" /\ OneRow!ListingInit
EditNext == RecordsNext /\ UNCHANGED walk /\ row'[r3] = NoRow

\* Three rows and any two calls.  A list is walked from one state of its rows, which
\* every filter keeps; edits lead to the others.
WalkInit ==
    /\ scene = "walk" /\ ListingInit
    /\ \A r \in There : row[r].status \in {"active", "published"} /\ row[r].type # "public"
TwoCalls == call'[c3].pc = "idle"

SceneNext ==
    /\ UNCHANGED scene
    /\ \/ scene = "edits" /\ EditNext
       \/ scene = "walk" /\ ListingNext /\ TwoCalls

SceneSpec == (EditInit \/ WalkInit) /\ [][SceneNext]_<<listingVars, scene>>
=============================================================================
