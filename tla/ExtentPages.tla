------------------------------ MODULE ExtentPages ------------------------------
(***************************************************************************)
(* The extent-layout inode: one inode row, its copy-on-write extent pages  *)
(* keyed by (root, page number), and the operations that move it between   *)
(* the empty, inline and pages layouts.  Every page write and the row write*)
(* are separate mutations; a writer may stop between any two of them; a    *)
(* reader reads the row first and the pages after it.                      *)
(*                                                                         *)
(* Code: metadata/inode_store.go, metadata/extent_page.go,                 *)
(* metadata/inode_v2_serving.go, and the allocation path of                *)
(* metadata/pebble_store.go that shares the row.                           *)
(***************************************************************************)
EXTENDS Integers, Sequences, FiniteSets

CONSTANTS
    Extents,            \* extent ids (a chunk and its extent share an id)
    None,               \* no extent, no page
    Writes,             \* extent sequences ReplaceExtents is called with
    Ops,                \* operations the callers use
    MaxExtentsPerPage,
    MaxRoot,            \* bound on ExtentRoot
    MaxPages,           \* bound on ExtentPageCount
    MaxCrashes          \* bound on writers that stop half way

ASSUME PageAssumption ==
    /\ None \notin Extents /\ None \notin Seq(Extents)
    /\ Writes \subseteq Seq(Extents)
    /\ Ops \subseteq {"inline", "promote", "append", "replace", "allocate", "resolve"}
    /\ MaxExtentsPerPage \in Nat \ {0}
    /\ MaxRoot \in Nat /\ MaxPages \in Nat \ {0, 1} /\ MaxCrashes \in Nat

Roots == 1 .. MaxRoot
PageNos == 0 .. MaxPages - 1

VARIABLES
    row,        \* the inode row
    pages,      \* <<root, page number>> -> the page's extents, or None
    metas,      \* extents that have an /extent-meta row
    plan,       \* what the writer in progress has left to do
    committed,  \* history: the content the operations on the layout row promised
    reader,     \* a ResolveExtents call in progress
    crashes

vars == <<row, pages, metas, plan, committed, reader, crashes>>

-----------------------------------------------------------------------------
(* Rows, pages and what a reader makes of them.                            *)

EmptyRow == [layout |-> "empty", inline |-> None, root |-> 0, count |-> 0, chunks |-> <<>>]

GetPage(root, p) == IF <<root, p>> \in DOMAIN pages THEN pages[<<root, p>>] ELSE None

\* The page under the newest root that has it.
ResolvePage(root, p) ==
    LET has == {r \in 1 .. root : GetPage(r, p) # None}
    IN  IF has = {} THEN None ELSE GetPage(CHOOSE r \in has : \A s \in has : s <= r, p)

ResolvePages(root, count) ==
    LET upTo[n \in 0 .. count] ==
            IF n = 0 THEN <<>>
            ELSE LET page == ResolvePage(root, n - 1)
                 IN  upTo[n - 1] \o (IF page = None THEN <<>> ELSE page)
    IN  upTo[count]

ResolveExtents ==
    CASE row.layout = "empty" -> <<>>
      [] row.layout = "inline" -> <<row.inline>>
      [] row.layout = "pages" -> ResolvePages(row.root, row.count)

\* A row with a ChunkMap is read through it, any other through its layout.
ResolveFileChunks == IF row.chunks # <<>> THEN row.chunks ELSE ResolveExtents

-----------------------------------------------------------------------------
(* The writer.  A plan lists the pages to write under a new root, the row  *)
(* that publishes them, the pages of the old root to drop afterwards and,  *)
(* when an append had to promote first, the extent still to be appended.   *)

NoPlan == [pc |-> "idle", root |-> 0, todo |-> {}, row |-> EmptyRow, drop |-> {},
           append |-> None, want |-> <<>>]

Idle == plan.pc = "idle"

OldPages(r) == IF r.root = 0 THEN {} ELSE {<<r.root, p>> : p \in 0 .. r.count - 1}

InlinePlan(r, e) ==
    [pc |-> "write", root |-> r.root, todo |-> {},
     row |-> [r EXCEPT !.layout = "inline", !.inline = e, !.chunks = <<>>],
     drop |-> OldPages(r), append |-> None, want |-> <<e>>]

PromotePlan(r, e) ==
    [pc |-> "write", root |-> r.root + 1,
     todo |-> {<<0, IF r.inline = None THEN <<>> ELSE <<r.inline>>>>},
     row |-> [layout |-> "pages", inline |-> None, root |-> r.root + 1, count |-> 1,
              chunks |-> <<>>],
     drop |-> OldPages(r), append |-> e, want |-> committed]

\* The last page is full: the extent starts a new one.
NewPagePlan(r, last, e) ==
    [pc |-> "write", root |-> r.root + 1, todo |-> {<<last + 1, <<e>>>>},
     row |-> [r EXCEPT !.root = r.root + 1, !.count = r.count + 1, !.chunks = <<>>],
     drop |-> {}, append |-> None, want |-> Append(committed, e)]

\* The copy of the last page is taken from the current root only.
UpdatePagePlan(r, last, e) ==
    LET page == GetPage(r.root, last)
    IN  [pc |-> "write", root |-> r.root + 1,
         todo |-> {<<last, Append(IF page = None THEN <<>> ELSE page, e)>>},
         row |-> [r EXCEPT !.root = r.root + 1, !.chunks = <<>>],
         drop |-> {}, append |-> None, want |-> Append(committed, e)]

LastPage(r) == IF r.count = 0 THEN 0 ELSE r.count - 1

\* Mutant: the page is taken for full one extent late.
PageFullLate(r) ==
    LET page == ResolvePage(r.root, LastPage(r))
    IN  page # None /\ Len(page) > MaxExtentsPerPage

PageFull(r) ==
    LET page == ResolvePage(r.root, LastPage(r))
    IN  page # None /\ Len(page) >= MaxExtentsPerPage

AppendPlan(r, e) ==
    IF PageFull(r) THEN NewPagePlan(r, LastPage(r), e) ELSE UpdatePagePlan(r, LastPage(r), e)

PageCount(ws) == (Len(ws) + MaxExtentsPerPage - 1) \div MaxExtentsPerPage
PageOf(ws, p) ==
    LET lo == p * MaxExtentsPerPage
        hi == IF lo + MaxExtentsPerPage > Len(ws) THEN Len(ws) ELSE lo + MaxExtentsPerPage
    IN  SubSeq(ws, lo + 1, hi)

\* Mutant: the operation ends after its first page.
FirstPagePlan(r, ws) ==
    [pc |-> "write", root |-> r.root + 1, todo |-> {<<0, PageOf(ws, 0)>>},
     row |-> [layout |-> "pages", inline |-> None, root |-> r.root + 1, count |-> 1,
              chunks |-> <<>>],
     drop |-> OldPages(r), append |-> None, want |-> PageOf(ws, 0)]

ReplacePlan(r, ws) ==
    [pc |-> "write", root |-> r.root + 1,
     todo |-> {<<p, PageOf(ws, p)>> : p \in 0 .. PageCount(ws) - 1},
     row |-> [layout |-> "pages", inline |-> None, root |-> r.root + 1,
              count |-> PageCount(ws), chunks |-> <<>>],
     drop |-> OldPages(r), append |-> None, want |-> ws]

NoReader == [pc |-> "idle", root |-> 0, count |-> 0, next |-> 0, out |-> <<>>,
             switched |-> FALSE]

\* A reader in progress notes that the row changed under it.
Switched ==
    IF reader.pc = "idle" THEN reader
    ELSE [reader EXCEPT !.switched = TRUE]

-----------------------------------------------------------------------------
Init ==
    /\ row = EmptyRow
    /\ pages = [rp \in Roots \X PageNos |-> None]
    /\ metas = {}
    /\ plan = NoPlan
    /\ committed = <<>>
    /\ reader = NoReader
    /\ crashes = 0

\* Mutant: the extent metadata is left to be written later.
StartWithoutMeta(op, new, p) ==
    /\ Idle /\ op \in Ops
    /\ p.row.root < MaxRoot /\ p.row.count <= MaxPages
    /\ plan' = p
    /\ UNCHANGED <<row, pages, metas, committed, reader, crashes>>

\* An operation starts: extent metadata first, then the row is read.
Start(op, new, p) ==
    /\ Idle /\ op \in Ops
    /\ p.row.root < MaxRoot /\ p.row.count <= MaxPages
    /\ metas' = metas \union new
    /\ plan' = p
    /\ UNCHANGED <<row, pages, committed, reader, crashes>>

SetInlineExtent(e) == Start("inline", {e}, InlinePlan(row, e))
PromoteToPages == Start("promote", {}, PromotePlan(row, None))
ReplaceExtents(ws) ==
    Start("replace", {ws[i] : i \in 1 .. Len(ws)}, ReplacePlan(row, ws))
AppendExtent(e) ==
    Start("append", {e}, IF row.layout = "pages" THEN AppendPlan(row, e) ELSE PromotePlan(row, e))

\* The pages of a plan are written one by one, in page order.
WritePage ==
    /\ plan.pc = "write"
    /\ \E t \in plan.todo :
        /\ \A u \in plan.todo : t[1] <= u[1]
        /\ pages' = [pages EXCEPT ![<<plan.root, t[1]>>] = t[2]]
        /\ plan' = [plan EXCEPT !.todo = plan.todo \ {t}]
    /\ UNCHANGED <<row, metas, committed, reader, crashes>>

\* Mutant: the row is published before its pages are all written.
PutRowEarly ==
    /\ plan.pc = "write"
    /\ row' = plan.row
    /\ committed' = plan.want
    /\ plan' = [plan EXCEPT !.pc = "drop"]
    /\ reader' = Switched
    /\ UNCHANGED <<pages, metas, crashes>>

\* The row is published.
PutRow ==
    /\ plan.pc = "write" /\ plan.todo = {}
    /\ row' = plan.row
    /\ committed' = plan.want
    /\ plan' = [plan EXCEPT !.pc = "drop"]
    /\ reader' = Switched
    /\ UNCHANGED <<pages, metas, crashes>>

\* DeleteRoot: the old root's pages go one by one.
DeletePage ==
    /\ plan.pc = "drop"
    /\ \E rp \in plan.drop :
        /\ \A other \in plan.drop : rp[2] <= other[2]
        /\ pages' = [pages EXCEPT ![rp] = None]
        /\ plan' = [plan EXCEPT !.drop = plan.drop \ {rp}]
    /\ UNCHANGED <<row, metas, committed, reader, crashes>>

\* The operation returns, or the append behind a promotion re-reads the row.
Finish ==
    /\ plan.pc = "drop" /\ plan.drop = {}
    /\ plan' = IF plan.append = None THEN NoPlan ELSE AppendPlan(row, plan.append)
    /\ UNCHANGED <<row, pages, metas, committed, reader, crashes>>

\* The process stops, or one of the mutations fails, with the rest undone.
Crash ==
    /\ ~Idle /\ crashes < MaxCrashes
    /\ crashes' = crashes + 1
    /\ plan' = NoPlan
    /\ UNCHANGED <<row, pages, metas, committed, reader>>

\* Chunk allocation appends to the ChunkMap of the row it decodes as V1 and
\* writes that row back.
AllocateChunk(e) ==
    /\ Idle /\ "allocate" \in Ops
    /\ Len(row.chunks) < MaxExtentsPerPage
    /\ row' = [EmptyRow EXCEPT !.chunks = Append(row.chunks, e)]
    /\ committed' = <<>>
    /\ reader' = Switched
    /\ UNCHANGED <<pages, metas, plan, crashes>>

-----------------------------------------------------------------------------
(* ResolveExtents for a pages row: the row, then page after page.          *)

BeginResolve ==
    /\ reader.pc = "idle" /\ "resolve" \in Ops /\ row.layout = "pages"
    /\ reader' = [pc |-> "reading", root |-> row.root, count |-> row.count, next |-> 0,
                  out |-> <<>>, switched |-> FALSE]
    /\ UNCHANGED <<row, pages, metas, plan, committed, crashes>>

\* Mutant: the walk starts one root too high, at the one being written.
ReadPageAhead ==
    /\ reader.pc = "reading" /\ reader.next < reader.count
    /\ LET page == ResolvePage(reader.root + 1, reader.next)
       IN  reader' = [reader EXCEPT !.next = reader.next + 1,
                                    !.out = reader.out \o (IF page = None THEN <<>> ELSE page)]
    /\ UNCHANGED <<row, pages, metas, plan, committed, crashes>>

ReadPage ==
    /\ reader.pc = "reading" /\ reader.next < reader.count
    /\ LET page == ResolvePage(reader.root, reader.next)
       IN  reader' = [reader EXCEPT !.next = reader.next + 1,
                                    !.out = reader.out \o (IF page = None THEN <<>> ELSE page)]
    /\ UNCHANGED <<row, pages, metas, plan, committed, crashes>>

EndResolve ==
    /\ reader.pc = "reading" /\ reader.next = reader.count
    /\ reader' = NoReader
    /\ UNCHANGED <<row, pages, metas, plan, committed, crashes>>

Next ==
    \/ \E e \in Extents : SetInlineExtent(e) \/ AppendExtent(e) \/ AllocateChunk(e)
    \/ \E ws \in Writes : ReplaceExtents(ws)
    \/ PromoteToPages \/ WritePage \/ PutRow \/ DeletePage \/ Finish \/ Crash
    \/ BeginResolve \/ ReadPage \/ EndResolve

Spec == Init /\ [][Next]_vars

-----------------------------------------------------------------------------
(* Properties.                                                             *)

Layouts == {"empty", "inline", "pages"}
RowType == [layout : Layouts, inline : Extents \union {None}, root : 0 .. MaxRoot,
            count : 0 .. MaxPages, chunks : Seq(Extents)]

PlanType == [pc : {"idle", "write", "drop"}, root : 0 .. MaxRoot,
             todo : SUBSET (PageNos \X Seq(Extents)), row : RowType,
             drop : SUBSET (Roots \X PageNos), append : Extents \union {None},
             want : Seq(Extents)]

\* Every row, page and plan is well formed; no page holds more than
\* MaxExtentsPerPage references, roots and page numbers stay in range.
TypeOK ==
    /\ row \in RowType
    /\ pages \in [Roots \X PageNos -> Seq(Extents) \union {None}]
    /\ \A rp \in Roots \X PageNos : pages[rp] # None => Len(pages[rp]) <= MaxExtentsPerPage
    /\ metas \subseteq Extents
    /\ plan \in PlanType
    /\ plan.todo # {} => plan.root \in Roots
    /\ committed \in Seq(Extents)
    /\ reader.pc \in {"idle", "reading"} /\ reader.root \in 0 .. MaxRoot
    /\ reader.count \in 0 .. MaxPages /\ reader.next \in 0 .. reader.count
    /\ crashes \in 0 .. MaxCrashes

\* ResolveExtents skips a page it cannot find without an error, so no page
\* below ExtentPageCount may ever be missing from the root history: whatever
\* was interrupted, dropped or copied before.
PagesPresent ==
    row.layout = "pages" =>
        \A p \in 0 .. row.count - 1 : \E r \in 1 .. row.root : pages[<<r, p>>] # None

\* ResolveFileChunks fails on an extent without metadata: every extent a
\* layout row leads to has its /extent-meta row.
ResolvableExtents ==
    row.layout # "empty" =>
        \A i \in 1 .. Len(ResolveExtents) : ResolveExtents[i] \in metas

\* A layout row always resolves to exactly what the last completed operation
\* promised, also while another one writes pages under its fresh root or has
\* stopped half way.
CommittedContent == row.layout # "empty" => ResolveExtents = committed

\* A read that overlaps no row switch returns the file's content, whatever
\* pages are being written under the next root or dropped from the last one.
QuietReads ==
    reader.pc = "reading" /\ reader.next = reader.count /\ ~reader.switched =>
        reader.out = ResolveExtents

\* The rows and pages implement the promise of FileExtents: writers see
\* replacements and appends, never a layout step.
File == INSTANCE FileExtents WITH content <- ResolveFileChunks
Implements == File!Spec

================================================================================
