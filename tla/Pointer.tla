-------------------------------- MODULE Pointer --------------------------------
(***************************************************************************)
(* What the cursor channel promises: after each cursor that PipeWire       *)
(* reports the client shows that image at that hotspot, or its own default *)
(* pointer when the image is too large for the protocol. Cursor implements *)
(* this with a cache on either side.                                       *)
(***************************************************************************)
CONSTANTS
    Cursors,    \* pairs of an image and a hotspot
    Large       \* those whose image is larger than the protocol allows

Default == "default"

VARIABLES
    reported,   \* the last cursor that PipeWire reported
    shown       \* what the client shows

Init == reported = Default /\ shown = Default

Show(c) ==
    /\ reported' = c
    /\ shown' = IF c \in Large THEN Default ELSE c

Next == \E c \in Cursors : Show(c)

Spec == Init /\ [][Next]_<<reported, shown>>
=============================================================================
