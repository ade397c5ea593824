----------------------------- MODULE MCExtentPages -----------------------------
(* Small instances of ExtentPages for TLC. *)
EXTENDS ExtentPages

CONSTANTS e1, e2

\* Whole-file writes: none, one page, a full page, and a page that leaves the
\* second one part full.
MCWrites == {<<>>, <<e2>>, <<e1, e2>>, <<e2, e2, e1>>}

\* AppendExtent as its callers may rely on it: it reuses pages an interrupted
\* writer left under the next root, and does not count the first page of a file
\* whose pages layout is empty.
AppendIsSafe ==
    (\E e \in Extents : AppendExtent(e)) =>
        crashes = 0 /\ (row.layout = "pages" => row.count > 0)

================================================================================
