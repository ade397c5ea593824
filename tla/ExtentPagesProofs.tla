--------------------------- MODULE ExtentPagesProofs ---------------------------
(***************************************************************************)
(* Every page and row stays well formed and no page below ExtentPageCount  *)
(* is ever missing: for any extents, writes, page size and bounds, and with*)
(* operations of every kind interrupted anywhere.                          *)
(***************************************************************************)
EXTENDS ExtentPages, TLAPS

-----------------------------------------------------------------------------
(* The inductive invariant.                                                *)

Has(root, p) == \E r \in 1 .. root : pages[<<r, p>>] # None

\* Rows with pages have a root.
Rooted(r) == r.layout = "pages" => r.root \in Roots

\* What makes a plan safe to carry out from the current pages: the pages it
\* writes fit, and every page of the row it publishes is still to be written,
\* written under its root, or inherited by an append, which drops nothing.
SafePlan(p) ==
    /\ p \in PlanType
    /\ Rooted(p.row)
    /\ p.todo # {} => p.root \in Roots
    /\ \A t \in p.todo : Len(t[2]) <= MaxExtentsPerPage
    /\ p.append # None =>
          p.row.layout = "pages" /\ p.row.count = 1 /\ p.row.root < MaxRoot
    /\ p.pc = "write" /\ p.row.layout = "pages" =>
          /\ p.row.root = p.root
          /\ \A n \in 0 .. p.row.count - 1 :
                \/ \E t \in p.todo : t[1] = n
                \/ pages[<<p.root, n>>] # None
                \/ p.drop = {} /\ Has(p.root, n)
          /\ \A rp \in p.drop : rp[1] # p.root

\* While an old root is dropped the published row is complete without it.
SafeDrop ==
    plan.pc = "drop" =>
        /\ row = plan.row /\ plan.todo = {}
        /\ row.layout = "pages" /\ plan.drop # {} =>
              /\ \A n \in 0 .. row.count - 1 : pages[<<row.root, n>>] # None
              /\ \A rp \in plan.drop : rp[1] # row.root

ReaderShape ==
    reader = [pc |-> reader.pc, root |-> reader.root, count |-> reader.count,
              next |-> reader.next, out |-> reader.out,
              switched |-> reader.switched]

IInv ==
    /\ TypeOK /\ PagesPresent /\ Rooted(row)
    /\ SafePlan(plan) /\ SafeDrop /\ ReaderShape

-----------------------------------------------------------------------------
(* The plans of the operations are safe.                                   *)

\* The newest root that has a page is a root that has it.
LEMMA ResolvePageIs ==
  ASSUME TypeOK, NEW root \in 0 .. MaxRoot, NEW p \in PageNos,
         ResolvePage(root, p) # None
  PROVE  /\ Has(root, p)
         /\ root \in Roots /\ pages[<<root, p>>] # None => ResolvePage(root, p) = pages[<<root, p>>]
  <1> DEFINE has == {r \in 1 .. root : GetPage(r, p) # None}
             last == CHOOSE r \in has : \A s \in has : s <= r
  <1>1. \A r \in 1 .. root : r \in Roots /\ GetPage(r, p) = pages[<<r, p>>]
    BY PageAssumption DEF GetPage, Roots, TypeOK
  <1>2. PICK r \in has : TRUE
    BY DEF ResolvePage
  <1>3. Has(root, p)
    BY <1>1, <1>2 DEF Has
  <1>4. ASSUME root \in Roots, pages[<<root, p>>] # None
        PROVE  ResolvePage(root, p) = pages[<<root, p>>]
    <2>1. root \in has
      BY <1>1, <1>4 DEF Roots
    <2>2. \A s \in has : s <= root
      OBVIOUS
    <2>3. last \in has /\ \A s \in has : s <= last
      BY <2>1, <2>2
    <2>4. last = root
      BY <2>1, <2>2, <2>3
    <2> QED
      BY <2>1, <2>4, <1>1 DEF ResolvePage
  <1> QED
    BY <1>3, <1>4

\* The pages an operation drops lie under the root it replaces.
LEMMA OldPagesType ==
  ASSUME PageAssumption, NEW r \in RowType
  PROVE  /\ OldPages(r) \in SUBSET (Roots \X PageNos)
         /\ \A rp \in OldPages(r) : rp[1] = r.root
  BY DEF OldPages, RowType, Roots, PageNos, PageAssumption

\* SetInlineExtent plans a row without pages.
LEMMA InlinePlanSafe ==
  ASSUME TypeOK, NEW e \in Extents
  PROVE  SafePlan(InlinePlan(row, e))
  <1> DEFINE q == InlinePlan(row, e)
             new == [row EXCEPT !.layout = "inline", !.inline = e, !.chunks = <<>>]
  <1>0. row \in RowType /\ <<>> \in Seq(Extents) /\ <<e>> \in Seq(Extents)
    BY DEF TypeOK
  <1>1. new \in RowType /\ new.layout = "inline"
    BY <1>0 DEF RowType, Layouts
  <1>2. q = [pc |-> "write", root |-> row.root, todo |-> {}, row |-> new,
             drop |-> OldPages(row), append |-> None, want |-> <<e>>]
    BY DEF InlinePlan
  <1>3. OldPages(row) \in SUBSET (Roots \X PageNos) /\ row.root \in 0 .. MaxRoot
    BY <1>0, OldPagesType, PageAssumption DEF RowType
  <1> HIDE DEF q, new
  <1>4. q \in PlanType
    BY <1>0, <1>1, <1>2, <1>3 DEF PlanType
  <1>5. q.row = new /\ q.todo = {} /\ q.append = None
    BY <1>2
  <1>6. SafePlan(q)
    BY <1>1, <1>4, <1>5 DEF SafePlan, Rooted
  <1> QED
    BY <1>6 DEF q

\* PromoteToPages writes the one page of the row it publishes.
LEMMA PromotePlanSafe ==
  ASSUME TypeOK, NEW e \in Extents \union {None}, row.root + 1 < MaxRoot
  PROVE  SafePlan(PromotePlan(row, e))
  <1> DEFINE q == PromotePlan(row, e)
             page == IF row.inline = None THEN <<>> ELSE <<row.inline>>
  <1> USE PageAssumption
  <1>1. q.row \in RowType /\ q.row.root \in Roots /\ q.row.count = 1
    BY DEF TypeOK, RowType, PromotePlan, Layouts, Roots
  <1>2. page \in Seq(Extents) /\ Len(page) <= MaxExtentsPerPage
    BY DEF TypeOK, RowType
  <1>3. q.todo = {<<0, page>>} /\ q.todo \in SUBSET (PageNos \X Seq(Extents))
    <2>1. q.todo = {<<0, page>>}
      BY DEF PromotePlan
    <2>2. 0 \in PageNos
      BY DEF PageNos
    <2> HIDE DEF q, page
    <2> QED
      BY <1>2, <2>1, <2>2
  <1>4. q \in PlanType
    <2>1. OldPages(row) \in SUBSET (Roots \X PageNos) /\ committed \in Seq(Extents)
          /\ row.root + 1 \in 0 .. MaxRoot
      BY OldPagesType DEF TypeOK, RowType
    <2>2. q = [pc |-> "write", root |-> row.root + 1, todo |-> q.todo, row |-> q.row,
               drop |-> OldPages(row), append |-> e, want |-> committed]
      BY DEF PromotePlan
    <2> HIDE DEF q
    <2> QED
      BY <1>1, <1>3, <2>1, <2>2 DEF PlanType
  <1>5. \A rp \in q.drop : rp[1] # q.root
    BY OldPagesType DEF TypeOK, RowType, PromotePlan
  <1>6. \A n \in 0 .. q.row.count - 1 : \E t \in q.todo : t[1] = n
    BY <1>1, <1>3
  <1>7. q.row.root = q.root /\ q.row.root < MaxRoot /\ q.row.layout = "pages"
    BY DEF PromotePlan
  <1> QED
    BY <1>1, <1>2, <1>3, <1>4, <1>5, <1>6, <1>7 DEF SafePlan, Rooted

\* A page of a whole-file write holds at most MaxExtentsPerPage extents.
LEMMA PageOfFits ==
  ASSUME NEW ws \in Seq(Extents), NEW p \in Nat
  PROVE  PageOf(ws, p) \in Seq(Extents) /\ Len(PageOf(ws, p)) <= MaxExtentsPerPage
  <1> DEFINE lo == p * MaxExtentsPerPage
             hi == IF lo + MaxExtentsPerPage > Len(ws) THEN Len(ws) ELSE lo + MaxExtentsPerPage
  <1>1. lo \in Nat /\ hi \in Nat /\ hi <= Len(ws) /\ hi <= lo + MaxExtentsPerPage
    BY PageAssumption
  <1>2. PageOf(ws, p) = SubSeq(ws, lo + 1, hi)
    BY DEF PageOf
  <1> HIDE DEF lo, hi
  <1> QED
    BY <1>1, <1>2, PageAssumption

\* The number of pages of a whole-file write is a natural number.
LEMMA PageCountNat ==
  ASSUME NEW ws \in Seq(Extents)
  PROVE  PageCount(ws) \in Nat
  BY PageAssumption DEF PageCount

\* ReplaceExtents writes every page of the row it publishes.
LEMMA ReplacePlanSafe ==
  ASSUME TypeOK, NEW ws \in Writes, row.root + 1 < MaxRoot, PageCount(ws) <= MaxPages
  PROVE  SafePlan(ReplacePlan(row, ws))
  <1> DEFINE q == ReplacePlan(row, ws)
  <1> USE PageAssumption
  <1>0. ws \in Seq(Extents) /\ PageCount(ws) \in 0 .. MaxPages
    BY PageCountNat
  <1>1. q.row \in RowType /\ q.row.root \in Roots /\ q.row.count = PageCount(ws)
    BY <1>0 DEF TypeOK, RowType, ReplacePlan, Layouts, Roots
  <1>2. q.todo = {<<p, PageOf(ws, p)>> : p \in 0 .. PageCount(ws) - 1}
    BY DEF ReplacePlan
  <1>3. \A p \in 0 .. PageCount(ws) - 1 :
          /\ p \in PageNos /\ PageOf(ws, p) \in Seq(Extents)
          /\ Len(PageOf(ws, p)) <= MaxExtentsPerPage
    BY <1>0, PageOfFits DEF PageNos
  <1>4. q.todo \in SUBSET (PageNos \X Seq(Extents))
        /\ \A t \in q.todo : Len(t[2]) <= MaxExtentsPerPage
    BY <1>2, <1>3
  <1>5. q \in PlanType
    BY <1>0, <1>1, <1>4, OldPagesType DEF TypeOK, RowType, PlanType, ReplacePlan
  <1>6. \A rp \in q.drop : rp[1] # q.root
    BY OldPagesType DEF TypeOK, RowType, ReplacePlan
  <1>7. \A n \in 0 .. q.row.count - 1 : \E t \in q.todo : t[1] = n
    <2> SUFFICES ASSUME NEW n \in 0 .. PageCount(ws) - 1
                 PROVE  \E t \in q.todo : t[1] = n
      BY <1>1
    <2>1. <<n, PageOf(ws, n)>> \in q.todo
      BY <1>2
    <2> HIDE DEF q
    <2> QED
      BY <2>1
  <1>8. q.row.root = q.root /\ q.append = None
    BY DEF ReplacePlan
  <1> QED
    BY <1>1, <1>4, <1>5, <1>6, <1>7, <1>8 DEF SafePlan, Rooted

\* AppendExtent inherits all pages but the one it writes, which fits.
LEMMA AppendPlanSafe ==
  ASSUME IInv, NEW e \in Extents, row.layout = "pages",
         row.root + 1 <= MaxRoot, AppendPlan(row, e).row.count <= MaxPages
  PROVE  SafePlan(AppendPlan(row, e))
  <1> DEFINE q == AppendPlan(row, e)
             last == LastPage(row)
             page == GetPage(row.root, last)
  <1> USE PageAssumption
  <1>0. /\ TypeOK /\ PagesPresent /\ row \in RowType /\ row.root \in Roots /\ last \in PageNos
        /\ row.root + 1 \in Roots /\ <<row.root, last>> \in Roots \X PageNos
        /\ DOMAIN pages = Roots \X PageNos
    <2>1. TypeOK /\ PagesPresent /\ row \in RowType /\ row.root \in Roots
      BY DEF IInv, TypeOK, Rooted
    <2>2. last \in PageNos /\ row.root + 1 \in Roots
      BY <2>1 DEF RowType, LastPage, Roots, PageNos
    <2> QED
      BY <2>1, <2>2 DEF TypeOK
  <1>1. \A n \in 0 .. row.count - 1 : Has(row.root + 1, n)
    BY <1>0 DEF PagesPresent, Has, RowType
  <1>2. CASE PageFull(row)
    <2>1. q = NewPagePlan(row, last, e)
      BY <1>2 DEF AppendPlan
    <2>a. row.count + 1 \in 0 .. MaxPages /\ row.root + 1 \in 0 .. MaxRoot
          /\ <<>> \in Seq(Extents) /\ Append(committed, e) \in Seq(Extents)
      <3> DEFINE new == [row EXCEPT !.root = row.root + 1, !.count = row.count + 1, !.chunks = <<>>]
      <3>0. q.row = new
        BY <2>1 DEF NewPagePlan
      <3>1. new.count = row.count + 1
        BY <1>0 DEF RowType
      <3>2. row.count + 1 <= MaxPages
        BY <3>0, <3>1
      <3>3. committed \in Seq(Extents)
        BY <1>0 DEF TypeOK
      <3> HIDE DEF q, new
      <3> QED
        BY <1>0, <3>2, <3>3 DEF RowType, Roots
    <2>2. q.row \in RowType /\ q.row.root = row.root + 1 /\ q.row.count = row.count + 1
          /\ q.row.layout = "pages"
      <3> DEFINE new == [row EXCEPT !.root = row.root + 1, !.count = row.count + 1, !.chunks = <<>>]
      <3>1. q.row = new
        BY <2>1 DEF NewPagePlan
      <3>2. new \in RowType /\ new.root = row.root + 1 /\ new.count = row.count + 1
            /\ new.layout = "pages"
        BY <1>0, <2>a DEF RowType
      <3> QED
        BY <3>1, <3>2
    <2>3. q.todo = {<<last + 1, <<e>>>>} /\ last + 1 \in PageNos
      <3>1. q.todo = {<<last + 1, <<e>>>>}
        BY <2>1 DEF NewPagePlan
      <3>2. last + 1 \in PageNos
        BY <1>0, <2>a DEF LastPage, PageNos, RowType
      <3> QED
        BY <3>1, <3>2
    <2>4. q.todo \in SUBSET (PageNos \X Seq(Extents)) /\ \A t \in q.todo : Len(t[2]) <= MaxExtentsPerPage
      BY <2>3
    <2>5. q \in PlanType
      <3> DEFINE want == Append(committed, e)
      <3>1. q = [pc |-> "write", root |-> row.root + 1, todo |-> q.todo, row |-> q.row,
                 drop |-> {}, append |-> None, want |-> want]
        BY <2>1 DEF NewPagePlan
      <3>2. want \in Seq(Extents) /\ row.root + 1 \in 0 .. MaxRoot
        BY <2>a
      <3> HIDE DEF q, want
      <3>3. {} \in SUBSET (Roots \X PageNos) /\ None \in Extents \union {None}
        OBVIOUS
      <3> QED
        BY <2>2, <2>4, <3>1, <3>2, <3>3 DEF PlanType
    <2>6. Has(row.root + 1, last)
      <3>1. ResolvePage(row.root, last) # None
        BY <1>2 DEF PageFull
      <3>2. Has(row.root, last)
        BY <1>0, <3>1, ResolvePageIs DEF RowType
      <3>3. 1 .. row.root \subseteq 1 .. row.root + 1
        BY <1>0 DEF Roots
      <3> QED
        BY <3>2, <3>3 DEF Has
    <2>7. \A n \in 0 .. q.row.count - 1 : (\E t \in q.todo : t[1] = n) \/ Has(q.root, n)
      <3>1. q.root = row.root + 1 /\ row.count \in Nat
        BY <1>0, <2>1 DEF NewPagePlan, RowType
      <3>2. \A n \in 0 .. row.count : n \in 0 .. row.count - 1 \/ n = last \/ n = last + 1
        BY <3>1 DEF LastPage
      <3> HIDE DEF q, last
      <3> QED
        BY <1>1, <2>2, <2>3, <2>6, <3>1, <3>2
    <2>8. q.pc = "write" /\ q.root = row.root + 1 /\ q.append = None /\ q.drop = {}
      BY <2>1 DEF NewPagePlan
    <2> QED
      BY <1>0, <2>2, <2>4, <2>5, <2>7, <2>8 DEF SafePlan, Rooted
  <1>3. CASE ~PageFull(row)
    <2> DEFINE new == Append(IF page = None THEN <<>> ELSE page, e)
    <2>1. q = UpdatePagePlan(row, last, e)
      BY <1>3 DEF AppendPlan
    <2>a. row.root + 1 \in 0 .. MaxRoot
          /\ <<>> \in Seq(Extents) /\ Append(committed, e) \in Seq(Extents)
      BY <1>0 DEF RowType, Roots, TypeOK
    <2>2. q.row \in RowType /\ q.row.root = row.root + 1 /\ q.row.count = row.count
          /\ q.row.layout = "pages"
      <3> DEFINE next == [row EXCEPT !.root = row.root + 1, !.chunks = <<>>]
      <3>1. q.row = next
        BY <2>1 DEF UpdatePagePlan
      <3>2. next \in RowType /\ next.root = row.root + 1 /\ next.count = row.count
            /\ next.layout = "pages"
        BY <1>0, <2>a DEF RowType
      <3> QED
        BY <3>1, <3>2
    <2>3. page = pages[<<row.root, last>>] /\ page \in Seq(Extents) \union {None}
      BY <1>0 DEF GetPage, TypeOK
    <2>4. page # None => Len(page) < MaxExtentsPerPage
      <3>1. SUFFICES ASSUME page # None PROVE Len(page) < MaxExtentsPerPage
        OBVIOUS
      <3>2. ResolvePage(row.root, last) # None
        <4> DEFINE has == {r \in 1 .. row.root : GetPage(r, last) # None}
        <4>1. row.root \in has
          BY <3>1, <1>0 DEF Roots
        <4>2. \A s \in has : s <= row.root
          BY <1>0 DEF Roots
        <4>3. (CHOOSE r \in has : \A s \in has : s <= r) \in has
          BY <4>1, <4>2
        <4> QED
          BY <4>1, <4>3 DEF ResolvePage
      <3>3. ResolvePage(row.root, last) = page
        BY <1>0, <2>3, <3>1, <3>2, ResolvePageIs DEF Roots
      <3>4. Len(page) \in Nat
        BY <2>3, <3>1
      <3> QED
        BY <1>3, <3>2, <3>3, <3>4 DEF PageFull
    <2>5. new \in Seq(Extents) /\ Len(new) <= MaxExtentsPerPage
      BY <2>3, <2>4
    <2>6. q.todo = {<<last, new>>}
      BY <2>1 DEF UpdatePagePlan
    <2>7. q.todo \in SUBSET (PageNos \X Seq(Extents)) /\ \A t \in q.todo : Len(t[2]) <= MaxExtentsPerPage
      <3> HIDE DEF q, new, last
      <3> QED
        BY <1>0, <2>5, <2>6
    <2>8. q \in PlanType
      <3> DEFINE want == Append(committed, e)
      <3>1. q = [pc |-> "write", root |-> row.root + 1, todo |-> q.todo, row |-> q.row,
                 drop |-> {}, append |-> None, want |-> want]
        BY <2>1 DEF UpdatePagePlan
      <3>2. want \in Seq(Extents) /\ row.root + 1 \in 0 .. MaxRoot
        BY <2>a
      <3> HIDE DEF q, want
      <3>3. {} \in SUBSET (Roots \X PageNos) /\ None \in Extents \union {None}
        OBVIOUS
      <3> QED
        BY <2>2, <2>7, <3>1, <3>2, <3>3 DEF PlanType
    <2>9. q.pc = "write" /\ q.root = row.root + 1 /\ q.append = None /\ q.drop = {}
      BY <2>1 DEF UpdatePagePlan
    <2>10. \A n \in 0 .. q.row.count - 1 : Has(q.root, n)
      BY <1>1, <2>2, <2>9
    <2> QED
      BY <1>0, <2>2, <2>7, <2>8, <2>9, <2>10 DEF SafePlan, Rooted
  <1> QED
    BY <1>2, <1>3

-----------------------------------------------------------------------------
(* The steps preserve the invariant.                                       *)

\* An operation that starts from a safe plan keeps the invariant.
LEMMA StartKeeps ==
  ASSUME IInv, NEW op, NEW new \in SUBSET Extents, NEW p, SafePlan(p), p.pc = "write",
         Start(op, new, p)
  PROVE  IInv'
  <1>1. UNCHANGED <<row, pages, committed, reader, crashes>> /\ plan' = p
        /\ metas' = metas \union new
    BY DEF Start
  <1>2. TypeOK'
    BY <1>1 DEF IInv, TypeOK, SafePlan
  <1>3. SafePlan(plan)'
    BY <1>1 DEF SafePlan, Has, Rooted
  <1>4. PagesPresent' /\ Rooted(row)' /\ SafeDrop' /\ ReaderShape'
    BY <1>1 DEF IInv, PagesPresent, Rooted, SafeDrop, ReaderShape
  <1> QED
    BY <1>2, <1>3, <1>4 DEF IInv

\* The invariant holds of a fresh inode.
LEMMA InitIInv == Init => IInv
  <1> SUFFICES ASSUME Init PROVE IInv
    OBVIOUS
  <1> USE PageAssumption DEF Init
  <1>1. EmptyRow \in RowType /\ EmptyRow.layout = "empty"
    BY DEF EmptyRow, RowType, Layouts
  <1>2. NoPlan \in PlanType
    BY <1>1 DEF NoPlan, PlanType
  <1>3. NoPlan.pc = "idle" /\ NoPlan.todo = {} /\ NoPlan.append = None /\ NoPlan.row = EmptyRow
    BY DEF NoPlan
  <1>4. TypeOK
    BY <1>1, <1>2, <1>3 DEF TypeOK, NoReader
  <1>5. SafePlan(plan)
    BY <1>1, <1>2, <1>3 DEF SafePlan, Rooted
  <1>6. PagesPresent /\ Rooted(row) /\ SafeDrop /\ ReaderShape
    BY <1>1, <1>3 DEF PagesPresent, Rooted, SafeDrop, ReaderShape, NoReader
  <1> QED
    BY <1>4, <1>5, <1>6 DEF IInv

\* Writing a page under the plan's root loses no page and completes the plan.
LEMMA WritePageKeeps ==
  ASSUME IInv, WritePage
  PROVE  IInv'
  <1> USE PageAssumption
  <1>1. PICK t \in plan.todo :
          /\ pages' = [pages EXCEPT ![<<plan.root, t[1]>>] = t[2]]
          /\ plan' = [plan EXCEPT !.todo = plan.todo \ {t}]
    BY DEF WritePage
  <1>2. plan.pc = "write" /\ UNCHANGED <<row, metas, committed, reader, crashes>>
    BY DEF WritePage
  <1>3. /\ TypeOK /\ SafePlan(plan) /\ plan \in PlanType
        /\ plan.root \in Roots /\ t[1] \in PageNos /\ t[2] \in Seq(Extents)
        /\ Len(t[2]) <= MaxExtentsPerPage /\ t[2] # None
    BY DEF IInv, TypeOK, SafePlan, PlanType
  <1>4. /\ plan' \in PlanType /\ plan'.todo = plan.todo \ {t} /\ plan'.row = plan.row
        /\ plan'.pc = "write" /\ plan'.root = plan.root /\ plan'.drop = plan.drop
        /\ plan'.append = plan.append
    BY <1>1, <1>2, <1>3 DEF PlanType
  <1>5. /\ pages' \in [Roots \X PageNos -> Seq(Extents) \union {None}]
        /\ \A rp \in Roots \X PageNos : pages[rp] # None => pages'[rp] # None
        /\ pages'[<<plan.root, t[1]>>] = t[2]
        /\ \A rp \in Roots \X PageNos : pages'[rp] # None => Len(pages'[rp]) <= MaxExtentsPerPage
    BY <1>1, <1>3 DEF TypeOK
  <1>6. TypeOK'
    BY <1>2, <1>3, <1>4, <1>5 DEF TypeOK
  <1>7. ASSUME NEW root \in 0 .. MaxRoot, NEW n \in PageNos, NEW r \in 1 .. root,
               pages[<<r, n>>] # None
        PROVE  pages'[<<r, n>>] # None
    <2>1. <<r, n>> \in Roots \X PageNos
      BY DEF Roots
    <2> QED
      BY <1>5, <1>7, <2>1
  <1>8. PagesPresent'
    <2> SUFFICES ASSUME row.layout = "pages", NEW n \in 0 .. row.count - 1
                 PROVE  \E r \in 1 .. row.root : pages'[<<r, n>>] # None
      BY <1>2 DEF PagesPresent
    <2>1. row.root \in 0 .. MaxRoot /\ n \in PageNos
      BY <1>3 DEF TypeOK, RowType, PageNos
    <2>2. PICK r \in 1 .. row.root : pages[<<r, n>>] # None
      BY DEF IInv, PagesPresent
    <2> QED
      BY <1>7, <2>1, <2>2
  <1>9. SafePlan(plan)'
    <2>1. ASSUME plan.row.layout = "pages", NEW n \in 0 .. plan.row.count - 1
          PROVE  \/ \E u \in plan'.todo : u[1] = n
                 \/ pages'[<<plan.root, n>>] # None
                 \/ plan.drop = {} /\ \E r \in 1 .. plan.root : pages'[<<r, n>>] # None
      <3>1. n \in PageNos /\ plan.root \in 0 .. MaxRoot
        BY <1>3, <2>1 DEF PlanType, RowType, PageNos, Roots
      <3>2. CASE \E u \in plan.todo : u[1] = n
        BY <3>2, <1>3, <1>4, <1>5
      <3>3. CASE pages[<<plan.root, n>>] # None
        BY <3>1, <3>3, <1>3, <1>5
      <3>4. CASE plan.drop = {} /\ Has(plan.root, n)
        BY <3>1, <3>4, <1>7 DEF Has
      <3> QED
        BY <1>2, <1>3, <2>1, <3>2, <3>3, <3>4 DEF SafePlan
    <2>2. \A u \in plan'.todo : Len(u[2]) <= MaxExtentsPerPage
      BY <1>3, <1>4 DEF SafePlan
    <2> QED
      BY <1>2, <1>3, <1>4, <2>1, <2>2 DEF SafePlan, Rooted, Has
  <1>10. Rooted(row)' /\ SafeDrop' /\ ReaderShape'
    BY <1>2, <1>4 DEF IInv, Rooted, SafeDrop, ReaderShape
  <1> QED
    BY <1>6, <1>8, <1>9, <1>10 DEF IInv

\* The row that is published finds all its pages written.
LEMMA PutRowKeeps ==
  ASSUME IInv, PutRow
  PROVE  IInv'
  <1> USE PageAssumption
  <1>1. /\ plan.pc = "write" /\ plan.todo = {} /\ row' = plan.row /\ committed' = plan.want
        /\ plan' = [plan EXCEPT !.pc = "drop"] /\ reader' = Switched
        /\ UNCHANGED <<pages, metas, crashes>>
    BY DEF PutRow
  <1>2. TypeOK /\ SafePlan(plan) /\ plan \in PlanType /\ plan.row \in RowType /\ ReaderShape
    BY DEF IInv, TypeOK, PlanType
  <1>3. /\ plan' \in PlanType /\ plan'.todo = {} /\ plan'.row = plan.row /\ plan'.pc = "drop"
        /\ plan'.root = plan.root /\ plan'.drop = plan.drop /\ plan'.append = plan.append
    BY <1>1, <1>2 DEF PlanType
  <1>4. /\ ReaderShape' /\ reader'.pc = reader.pc /\ reader'.root = reader.root
        /\ reader'.count = reader.count /\ reader'.next = reader.next
    BY <1>1, <1>2 DEF Switched, ReaderShape
  <1>5. committed' \in Seq(Extents)
    BY <1>1, <1>2 DEF PlanType
  <1>6. TypeOK'
    BY <1>1, <1>2, <1>3, <1>4, <1>5 DEF TypeOK
  <1>7. ASSUME plan.row.layout = "pages"
        PROVE  /\ plan.row.root = plan.root /\ plan.root \in Roots
               /\ \A n \in 0 .. plan.row.count - 1 :
                     \/ pages[<<plan.root, n>>] # None
                     \/ plan.drop = {} /\ Has(plan.root, n)
               /\ \A rp \in plan.drop : rp[1] # plan.root
    BY <1>1, <1>2, <1>7 DEF SafePlan, Rooted
  <1>8. PagesPresent'
    <2> SUFFICES ASSUME plan.row.layout = "pages", NEW n \in 0 .. plan.row.count - 1
                 PROVE  Has(plan.row.root, n)
      BY <1>1 DEF PagesPresent, Has
    <2> QED
      BY <1>7 DEF Has, Roots
  <1>9. SafeDrop' /\ SafePlan(plan)'
    BY <1>1, <1>2, <1>3, <1>7 DEF SafeDrop, SafePlan, Rooted
  <1>10. Rooted(row)'
    BY <1>1, <1>2 DEF SafePlan, Rooted
  <1> QED
    BY <1>4, <1>6, <1>8, <1>9, <1>10 DEF IInv

\* The root that is dropped is never the one the row reads through.
LEMMA DeletePageKeeps ==
  ASSUME IInv, DeletePage
  PROVE  IInv'
  <1> USE PageAssumption
  <1>1. PICK rp \in plan.drop :
          pages' = [pages EXCEPT ![rp] = None] /\ plan' = [plan EXCEPT !.drop = plan.drop \ {rp}]
    BY DEF DeletePage
  <1>2. plan.pc = "drop" /\ UNCHANGED <<row, metas, committed, reader, crashes>>
    BY DEF DeletePage
  <1>3. TypeOK /\ SafePlan(plan) /\ plan \in PlanType /\ rp \in Roots \X PageNos /\ SafeDrop
    BY DEF IInv, TypeOK, PlanType
  <1>4. /\ plan' \in PlanType /\ plan'.todo = plan.todo /\ plan'.row = plan.row
        /\ plan'.pc = "drop" /\ plan'.root = plan.root /\ plan'.drop = plan.drop \ {rp}
        /\ plan'.append = plan.append
    BY <1>1, <1>2, <1>3 DEF PlanType
  <1>5. /\ pages' \in [Roots \X PageNos -> Seq(Extents) \union {None}]
        /\ \A q \in Roots \X PageNos : q # rp => pages'[q] = pages[q]
        /\ \A q \in Roots \X PageNos : pages'[q] # None => Len(pages'[q]) <= MaxExtentsPerPage
    BY <1>1, <1>3 DEF TypeOK
  <1>6. TypeOK'
    BY <1>2, <1>3, <1>4, <1>5 DEF TypeOK
  <1>7. ASSUME row.layout = "pages"
        PROVE  \A n \in 0 .. row.count - 1 : pages'[<<row.root, n>>] # None
    <2> SUFFICES ASSUME NEW n \in 0 .. row.count - 1 PROVE pages'[<<row.root, n>>] # None
      OBVIOUS
    <2>1. pages[<<row.root, n>>] # None /\ rp[1] # row.root /\ row.root \in Roots
      BY <1>1, <1>2, <1>3, <1>7 DEF IInv, SafeDrop, Rooted
    <2>2. <<row.root, n>> \in Roots \X PageNos
      BY <2>1, <1>3 DEF TypeOK, RowType, PageNos
    <2> QED
      BY <2>1, <2>2, <1>5
  <1>8. PagesPresent'
    BY <1>2, <1>7 DEF IInv, PagesPresent, Rooted, Roots
  <1>9. SafePlan(plan)'
    BY <1>3, <1>4 DEF SafePlan, Rooted
  <1>10. SafeDrop'
    BY <1>1, <1>2, <1>3, <1>4, <1>7 DEF SafeDrop
  <1>11. Rooted(row)' /\ ReaderShape'
    BY <1>2 DEF IInv, Rooted, ReaderShape
  <1> QED
    BY <1>6, <1>8, <1>9, <1>10, <1>11 DEF IInv

\* An idle writer is safe.
LEMMA NoPlanSafe ==
  /\ SafePlan(NoPlan) /\ NoPlan \in PlanType /\ NoPlan.pc = "idle" /\ NoPlan.todo = {}
  <1> USE PageAssumption
  <1>1. EmptyRow \in RowType /\ EmptyRow.layout = "empty"
    BY DEF EmptyRow, RowType, Layouts
  <1>2. NoPlan \in PlanType
    BY <1>1 DEF NoPlan, PlanType
  <1>3. NoPlan.pc = "idle" /\ NoPlan.todo = {} /\ NoPlan.append = None /\ NoPlan.row = EmptyRow
    BY DEF NoPlan
  <1> QED
    BY <1>1, <1>2, <1>3 DEF SafePlan, Rooted

\* An append behind a promotion finds the row the promotion published.
LEMMA FinishKeeps ==
  ASSUME IInv, Finish
  PROVE  IInv'
  <1> USE PageAssumption
  <1>1. /\ plan.pc = "drop" /\ UNCHANGED <<row, pages, metas, committed, reader, crashes>>
        /\ plan' = IF plan.append = None THEN NoPlan ELSE AppendPlan(row, plan.append)
    BY DEF Finish
  <1>2. TypeOK /\ SafePlan(plan) /\ SafeDrop /\ row = plan.row /\ plan \in PlanType
    BY <1>1 DEF IInv, SafeDrop, TypeOK
  <1>3. SafePlan(plan') /\ plan'.pc # "drop"
    <2>1. CASE plan.append = None
      BY <1>1, <2>1, NoPlanSafe
    <2>2. CASE plan.append # None
      <3>1. plan.append \in Extents /\ row.layout = "pages" /\ row.count = 1 /\ row.root < MaxRoot
        BY <1>2, <2>2 DEF SafePlan, PlanType
      <3>2. row \in RowType
        BY <1>2 DEF TypeOK
      <3>3. AppendPlan(row, plan.append).row.count <= MaxPages
            /\ AppendPlan(row, plan.append).pc = "write"
        <4> DEFINE new == [row EXCEPT !.root = row.root + 1, !.count = row.count + 1, !.chunks = <<>>]
                   next == [row EXCEPT !.root = row.root + 1, !.chunks = <<>>]
        <4>1. new.count = 2 /\ next.count = 1
          BY <3>1, <3>2 DEF RowType
        <4>2. /\ NewPagePlan(row, LastPage(row), plan.append).row = new
              /\ NewPagePlan(row, LastPage(row), plan.append).pc = "write"
          BY DEF NewPagePlan
        <4>3. /\ UpdatePagePlan(row, LastPage(row), plan.append).row = next
              /\ UpdatePagePlan(row, LastPage(row), plan.append).pc = "write"
          BY DEF UpdatePagePlan
        <4> HIDE DEF new, next
        <4> QED
          BY <4>1, <4>2, <4>3 DEF AppendPlan
      <3>4. row.root + 1 <= MaxRoot
        BY <3>1, <3>2 DEF RowType
      <3> QED
        BY <1>1, <2>2, <3>1, <3>3, <3>4, AppendPlanSafe
    <2> QED
      BY <2>1, <2>2
  <1>4. TypeOK'
    BY <1>1, <1>2, <1>3 DEF TypeOK, SafePlan
  <1>5. SafePlan(plan)'
    BY <1>1, <1>3 DEF SafePlan, Has, Rooted
  <1>6. PagesPresent' /\ Rooted(row)' /\ SafeDrop' /\ ReaderShape'
    BY <1>1, <1>3 DEF IInv, PagesPresent, Rooted, SafeDrop, ReaderShape
  <1> QED
    BY <1>4, <1>5, <1>6 DEF IInv

\* Whatever leaves the rows and pages alone, or only stops the writer, keeps
\* the invariant.
LEMMA OthersKeep ==
  ASSUME IInv,
         \/ Crash \/ BeginResolve \/ ReadPage \/ EndResolve
         \/ \E e \in Extents : AllocateChunk(e)
         \/ UNCHANGED vars
  PROVE  IInv'
  <1> USE PageAssumption
  <1>1. ASSUME Crash PROVE IInv'
    <2>1. UNCHANGED <<row, pages, metas, committed, reader>> /\ plan' = NoPlan
          /\ crashes' \in 0 .. MaxCrashes
      BY <1>1 DEF Crash, IInv, TypeOK
    <2>2. TypeOK'
      BY <2>1, NoPlanSafe DEF IInv, TypeOK
    <2>3. SafePlan(plan)' /\ SafeDrop'
      BY <2>1, NoPlanSafe DEF SafePlan, SafeDrop, Has, Rooted
    <2> QED
      BY <2>1, <2>2, <2>3 DEF IInv, PagesPresent, Rooted, ReaderShape
  <1>2. ASSUME BeginResolve \/ ReadPage \/ EndResolve PROVE IInv'
    <2>1. UNCHANGED <<row, pages, metas, plan, committed, crashes>>
      BY <1>2 DEF BeginResolve, ReadPage, EndResolve
    <2>2. /\ reader'.pc \in {"idle", "reading"} /\ reader'.root \in 0 .. MaxRoot
          /\ reader'.count \in 0 .. MaxPages /\ reader'.next \in 0 .. reader'.count
          /\ ReaderShape'
      <3>1. CASE BeginResolve
        BY <3>1 DEF BeginResolve, IInv, TypeOK, RowType, ReaderShape
      <3>2. CASE EndResolve
        BY <3>2 DEF EndResolve, NoReader, ReaderShape
      <3>3. CASE ReadPage
        <4> DEFINE n == reader.next + 1
                   o == reader.out \o (IF ResolvePage(reader.root, reader.next) = None THEN <<>>
                                       ELSE ResolvePage(reader.root, reader.next))
        <4>1. reader' = [reader EXCEPT !.next = n, !.out = o] /\ reader.next < reader.count
          BY <3>3 DEF ReadPage
        <4>2. ReaderShape /\ n \in 0 .. reader.count
          BY <4>1 DEF IInv, TypeOK
        <4> HIDE DEF n, o
        <4>3. reader' = [pc |-> reader.pc, root |-> reader.root, count |-> reader.count,
                         next |-> n, out |-> o, switched |-> reader.switched]
          BY <4>1, <4>2 DEF ReaderShape
        <4> QED
          BY <4>2, <4>3 DEF IInv, TypeOK, ReaderShape
      <3> QED
        BY <1>2, <3>1, <3>2, <3>3
    <2>3. TypeOK'
      BY <2>1, <2>2 DEF IInv, TypeOK
    <2> QED
      BY <2>1, <2>2, <2>3 DEF IInv, PagesPresent, SafePlan, SafeDrop, Has, Rooted
  <1>3. ASSUME NEW e \in Extents, AllocateChunk(e) PROVE IInv'
    <2>1. /\ plan.pc = "idle" /\ row' = [EmptyRow EXCEPT !.chunks = Append(row.chunks, e)]
          /\ committed' = <<>> /\ reader' = Switched
          /\ UNCHANGED <<pages, metas, plan, crashes>>
      BY <1>3 DEF AllocateChunk, Idle
    <2>2. row' \in RowType /\ row'.layout = "empty"
      <3> DEFINE refs == Append(row.chunks, e)
      <3>1. refs \in Seq(Extents)
        BY DEF IInv, TypeOK, RowType
      <3> HIDE DEF refs
      <3>2. row' = [layout |-> "empty", inline |-> None, root |-> 0, count |-> 0, chunks |-> refs]
        BY <2>1 DEF EmptyRow, refs
      <3> QED
        BY <3>1, <3>2 DEF RowType, Layouts
    <2>3. /\ ReaderShape' /\ reader'.pc = reader.pc /\ reader'.root = reader.root
          /\ reader'.count = reader.count /\ reader'.next = reader.next
      BY <2>1 DEF Switched, ReaderShape, IInv
    <2>4. committed' \in Seq(Extents)
      BY <2>1
    <2>5. TypeOK'
      BY <2>1, <2>2, <2>3, <2>4 DEF IInv, TypeOK
    <2>6. SafePlan(plan)'
      BY <2>1 DEF IInv, SafePlan, Has, Rooted
    <2> QED
      BY <2>1, <2>2, <2>3, <2>5, <2>6 DEF IInv, PagesPresent, SafeDrop, Rooted
  <1>4. ASSUME UNCHANGED vars PROVE IInv'
    BY <1>4 DEF vars, IInv, TypeOK, PagesPresent, SafePlan, SafeDrop, Has, Rooted, ReaderShape
  <1> QED
    BY <1>1, <1>2, <1>3, <1>4

\* Every operation starts with a safe plan.
LEMMA StartsKeep ==
  ASSUME IInv,
         \/ \E e \in Extents : SetInlineExtent(e) \/ AppendExtent(e)
         \/ \E ws \in Writes : ReplaceExtents(ws)
         \/ PromoteToPages
  PROVE  IInv'
  <1> USE PageAssumption
  <1>0. TypeOK /\ row \in RowType
    BY DEF IInv, TypeOK
  <1>1. ASSUME NEW e \in Extents, SetInlineExtent(e) PROVE IInv'
    <2>1. SafePlan(InlinePlan(row, e)) /\ InlinePlan(row, e).pc = "write"
      BY <1>0, InlinePlanSafe DEF InlinePlan
    <2> QED
      BY <1>1, <2>1, StartKeeps DEF SetInlineExtent
  <1>2. ASSUME NEW e \in Extents \union {None}, NEW op, NEW new \in SUBSET Extents,
               Start(op, new, PromotePlan(row, e))
        PROVE  IInv'
    <2>1. row.root + 1 < MaxRoot
      BY <1>2 DEF Start, PromotePlan
    <2>2. SafePlan(PromotePlan(row, e)) /\ PromotePlan(row, e).pc = "write"
      BY <1>0, <2>1, PromotePlanSafe DEF PromotePlan
    <2> QED
      BY <1>2, <2>2, StartKeeps
  <1>3. ASSUME NEW e \in Extents, AppendExtent(e) PROVE IInv'
    <2>1. CASE row.layout # "pages"
      BY <1>2, <1>3, <2>1 DEF AppendExtent
    <2>2. CASE row.layout = "pages"
      <3>1. Start("append", {e}, AppendPlan(row, e))
        BY <1>3, <2>2 DEF AppendExtent
      <3>2. AppendPlan(row, e).row.count <= MaxPages /\ AppendPlan(row, e).row.root < MaxRoot
        BY <3>1 DEF Start
      <3>3. AppendPlan(row, e).row.root = row.root + 1 /\ AppendPlan(row, e).pc = "write"
        <4> DEFINE new == [row EXCEPT !.root = row.root + 1, !.count = row.count + 1, !.chunks = <<>>]
                   next == [row EXCEPT !.root = row.root + 1, !.chunks = <<>>]
        <4>1. new.root = row.root + 1 /\ next.root = row.root + 1
          BY <1>0 DEF RowType
        <4>2. /\ NewPagePlan(row, LastPage(row), e).row = new
              /\ NewPagePlan(row, LastPage(row), e).pc = "write"
          BY DEF NewPagePlan
        <4>3. /\ UpdatePagePlan(row, LastPage(row), e).row = next
              /\ UpdatePagePlan(row, LastPage(row), e).pc = "write"
          BY DEF UpdatePagePlan
        <4> HIDE DEF new, next
        <4> QED
          BY <4>1, <4>2, <4>3 DEF AppendPlan
      <3>4. row.root + 1 <= MaxRoot
        BY <1>0, <3>2, <3>3 DEF RowType
      <3>5. SafePlan(AppendPlan(row, e))
        BY <2>2, <3>2, <3>4, AppendPlanSafe
      <3> QED
        BY <3>1, <3>3, <3>5, StartKeeps
    <2> QED
      BY <2>1, <2>2
  <1>4. ASSUME NEW ws \in Writes, ReplaceExtents(ws) PROVE IInv'
    <2>1. ws \in Seq(Extents) /\ {ws[i] : i \in 1 .. Len(ws)} \in SUBSET Extents
      OBVIOUS
    <2>2. row.root + 1 < MaxRoot /\ PageCount(ws) <= MaxPages
      BY <1>4 DEF ReplaceExtents, Start, ReplacePlan
    <2>3. SafePlan(ReplacePlan(row, ws)) /\ ReplacePlan(row, ws).pc = "write"
      BY <1>0, <2>2, ReplacePlanSafe DEF ReplacePlan
    <2> QED
      BY <1>4, <2>1, <2>3, StartKeeps DEF ReplaceExtents
  <1>5. ASSUME PromoteToPages PROVE IInv'
    BY <1>2, <1>5 DEF PromoteToPages
  <1> QED
    BY <1>1, <1>3, <1>4, <1>5

\* Every step preserves the invariant.
LEMMA StepKeeps ==
  ASSUME IInv, [Next]_vars
  PROVE  IInv'
  BY StartsKeep, OthersKeep, WritePageKeeps, PutRowKeeps, DeletePageKeeps, FinishKeeps DEF Next

\* The invariant holds throughout.
LEMMA Invariance == Spec => []IInv
  <1>1. Init => IInv
    BY InitIInv
  <1>2. IInv /\ [Next]_vars => IInv'
    BY StepKeeps
  <1> QED
    BY <1>1, <1>2, PTL DEF Spec

\* Rows, pages and plans stay well formed and no page ever holds more than
\* MaxExtentsPerPage references.
THEOREM TypeCorrect == Spec => []TypeOK
  <1>1. IInv => TypeOK
    BY DEF IInv
  <1> QED
    BY <1>1, Invariance, PTL

\* ResolveExtents never meets a missing page: whichever operations ran and
\* wherever they stopped, every page below ExtentPageCount exists under some
\* root of the row's history.
THEOREM NoMissingPage == Spec => []PagesPresent
  <1>1. IInv => PagesPresent
    BY DEF IInv
  <1> QED
    BY <1>1, Invariance, PTL

================================================================================
