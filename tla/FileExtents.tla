------------------------------ MODULE FileExtents ------------------------------
(***************************************************************************)
(* What the extent-layout inode surface promises its callers: a file is a  *)
(* sequence of extents that a writer either replaces as a whole or extends *)
(* by one, in one step each.  How the rows and pages are laid out, promoted*)
(* and cleaned up is invisible.                                            *)
(*                                                                         *)
(* Code: the ExtentInodeService interface of metadata/service.go.          *)
(***************************************************************************)
EXTENDS Sequences

CONSTANTS
    Extents,  \* extent ids
    Writes    \* extent sequences a writer may install as a whole

VARIABLE content

Init == content = <<>>

SetInlineExtent == \E e \in Extents : content' = <<e>>
AppendExtent == \E e \in Extents : content' = Append(content, e)
ReplaceExtents == content' \in Writes

Next == SetInlineExtent \/ AppendExtent \/ ReplaceExtents

Spec == Init /\ [][Next]_content

================================================================================
