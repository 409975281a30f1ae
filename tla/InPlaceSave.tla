---------------------------- MODULE InPlaceSave ----------------------------
(***************************************************************************)
(* What -[HFByteArray writeToFile:trackingProgress:error:] promises: the   *)
(* save ends with YES only once the file reads as the byte array, and      *)
(* whatever happens in between, or after a cancellation or an error, only  *)
(* the positions rangesOfFileModifiedIfSavedToFile: announces change.      *)
(* The owners of other byte arrays rely on the second part: before a save  *)
(* they break their dependencies on those positions and on no others.      *)
(***************************************************************************)
EXTENDS ByteArrays

VARIABLES array, startLength, disk, result

Untouched == (0 .. (startLength - 1)) \ ModifiedBySaving(array, startLength)

Init ==
    /\ IsByteArray(array)
    /\ startLength \in Nat
    /\ SourcesFit(array, startLength)
    /\ disk = OriginalFile(startLength)
    /\ result = "none"

\* The save is under way and has changed the file.
Touch ==
    /\ result = "none"
    /\ \A c \in Untouched : c \in DOMAIN disk' /\ disk'[c] = disk[c]
    /\ UNCHANGED <<array, startLength, result>>

Succeed ==
    /\ result = "none"
    /\ disk' = Contents(array)
    /\ result' = "YES"
    /\ UNCHANGED <<array, startLength>>

GiveUp ==
    /\ result = "none"
    /\ result' = "NO"
    /\ UNCHANGED <<array, startLength, disk>>

Next == Touch \/ Succeed \/ GiveUp

Spec == Init /\ [][Next]_<<array, startLength, disk, result>>
=============================================================================
