------------------------- MODULE ScripthashPages -------------------------
(***************************************************************************)
(* One scripthash body file (rbitcoin-store scripthash.rs, scripthash_     *)
(* pages.rs, scripthash_unlink.rs): the slab and page allocator with its   *)
(* free lists, the list of creates of a key as it grows from an inline     *)
(* word to a slab to a chain of pages, and the unlink of a disconnected    *)
(* block, which rewrites the tail of a chain under an undo record.         *)
(*                                                                         *)
(* Offsets count slabs; a page is two slabs long and starts at an even     *)
(* offset.  A free slab or page holds the offset of                        *)
(* the next free one in its first bytes, so a page image written over it   *)
(* destroys that link.                                                     *)
(***************************************************************************)
EXTENDS Naturals, Sequences, FiniteSets, SequencesExt

CONSTANTS PgKeys,
          MegaMin,     \* SH_MEGAKEY_MIN_FKS: lists this long are page chains
          PageCap,     \* creates of the last page of a chain; an inner page
                       \* written as such has a shorter header and holds one more
          PgMaxFk,     \* creates in all
          PgMaxCut,    \* blocks disconnected
          PgCrashes,
          PgRegrow     \* whether a chain may grow again after a disconnect

VARIABLES cells,     \* what lies at each offset of the body
          mem,       \* AllocState: bump and the free list heads
          hdr,       \* the alloc header on disk, with the undo record
          head,      \* the list word of each key
          cut,       \* the unlink under way
          lists,     \* the creates of each key
          floor,     \* those of them no disconnect under way removes
          pgfk, ncut, pgcr

pgVars == <<cells, mem, hdr, head, cut, lists, floor, pgfk, ncut, pgcr>>

PageLen == 2
Garbage == 99
NoCut == [at |-> "none"]
Empty == [m |-> "empty", at |-> 0]
Inline(fk) == [m |-> "inline", at |-> fk]
Slab(off) == [m |-> "slab", at |-> off]
Extent(off) == [m |-> "extent", at |-> off]
Keep == [m |-> "keep", at |-> 0]      \* no list word
NoUndo == [target |-> 0, image |-> 0, key |-> 0, word |-> Keep]
FreeCell(next) == [t |-> "free", next |-> next]
SlabCell(fks) == [t |-> "slab", fks |-> fks]

\* A page: the last page of a chain names the first one and carries the
\* extent it began as; any other page names its successor.
LastPage(fks, base, n, creates) ==
    [t |-> "page", last |-> TRUE, off |-> base, base |-> base, n |-> n,
     creates |-> creates, fks |-> fks]
InnerPage(fks, next) ==
    [t |-> "page", last |-> FALSE, off |-> next, base |-> 0, n |-> 0,
     creates |-> 0, fks |-> fks]
sh_page_next(page) == IF page.last THEN 0 ELSE page.off

Disk(c, m) == [cells |-> c, mem |-> m]
Write(d, off, cell) ==
    [d EXCEPT !.cells = [o \in DOMAIN d.cells \cup {off} |->
                            IF o = off THEN cell ELSE d.cells[o]]]

-----------------------------------------------------------------------------
(* The allocator                                                           *)

push_free_head(d, class, off) ==
    [Write(d, off, FreeCell(d.mem[class])) EXCEPT !.mem[class] = off]

\* What the first bytes of a cell say when they are read as a link.
LinkAt(d, off) == IF d.cells[off].t = "free" THEN d.cells[off].next ELSE Garbage

\* carve_gap_into_freelist and the bump of alloc_slab / alloc_extent.
Aligned(d) == IF d.mem.bump % PageLen = 0 THEN d
              ELSE [push_free_head(d, "slab", d.mem.bump) EXCEPT !.mem.bump = @ + 1]

Bumped(d, n) == [d EXCEPT !.mem.bump = @ + n]

\* alloc_slab: the free list first, then the bump.
alloc_slab(d, class) ==
    IF d.mem[class] # 0
    THEN [d |-> [d EXCEPT !.mem[class] = LinkAt(d, d.mem[class])], off |-> d.mem[class]]
    ELSE IF class = "slab"
    THEN [d |-> Bumped(d, 1), off |-> d.mem.bump]
    ELSE [d |-> Bumped(Aligned(d), PageLen), off |-> Aligned(d).mem.bump]

alloc_extent(d, n) ==
    [d |-> Bumped(Aligned(d), n * PageLen), off |-> Aligned(d).mem.bump]

CanAlloc(class) == mem[class] # Garbage

-----------------------------------------------------------------------------
(* Reading a list                                                          *)

Increasing(s) == \A i \in 1..(Len(s) - 1) : s[i] < s[i + 1]

\* follow_page_chain / collect_linked_pages: the offsets of the pages from
\* off on, at most the pages of the file.
PagesFrom(c, off) ==
    LET N == Cardinality(DOMAIN c)
        walk[i \in 0..N] ==
            IF i = 0 THEN <<off>>
            ELSE LET w == walk[i - 1]
                     p == c[w[Len(w)]]
                 IN IF p.t # "page" \/ sh_page_next(p) = 0 THEN w
                    ELSE Append(w, sh_page_next(p))
    IN walk[N]

ListOf(c, pages) == FlattenSeq([i \in DOMAIN pages |-> c[pages[i]].fks])

Broken == <<0>>

\* collect_extent_then_tail: the extent named by the last page is read as
\* one span whose pages must link to each other, the rest page by page.
collect_extent_then_tail(c, last) ==
    IF c[last].t # "page" \/ c[last].n = 0 THEN Broken
    ELSE LET base == c[last].base
             n == c[last].n
             span == [i \in 1..n |-> base + (i - 1) * PageLen]
             linked == \A i \in 1..n :
                          /\ span[i] \in DOMAIN c /\ c[span[i]].t = "page"
                          /\ i < n => sh_page_next(c[span[i]]) = span[i + 1]
             tail == IF linked THEN sh_page_next(c[span[n]]) ELSE 0
             pages == IF last = span[n] THEN span ELSE span \o PagesFrom(c, tail)
         IN IF ~linked \/ (last # span[n] /\ tail = 0) THEN Broken
            ELSE IF \E i \in DOMAIN pages : c[pages[i]].t # "page" THEN Broken
            ELSE IF ~Increasing(ListOf(c, pages)) THEN Broken
            ELSE ListOf(c, pages)

\* collect_entries_from: the creates a list word stands for.
Entries(c, val) ==
    CASE val.m = "empty" -> <<>>
      [] val.m = "inline" -> <<val.at>>
      [] val.m = "slab" -> IF c[val.at].t = "slab" THEN c[val.at].fks ELSE Broken
      [] val.m = "extent" -> collect_extent_then_tail(c, val.at)

\* The pages of a chain, and the list of a key along their links.
Chain(last) == PagesFrom(cells, cells[last].base)

LinkedList(k) ==
    IF head[k].m # "extent" THEN Entries(cells, head[k])
    ELSE IF cells[head[k].at].t # "page" THEN Broken
    ELSE IF \E o \in Range(Chain(head[k].at)) : cells[o].t # "page" THEN Broken
    ELSE ListOf(cells, Chain(head[k].at))

PgInit ==
    /\ cells = <<>>
    /\ mem = [bump |-> PageLen, slab |-> 0, page |-> 0]
    /\ hdr = [bump |-> PageLen, slab |-> 0, page |-> 0, undo |-> NoUndo]
    /\ head = [k \in PgKeys |-> Empty]
    /\ cut = NoCut /\ lists = [k \in PgKeys |-> <<>>] /\ floor = lists
    /\ pgfk = 1 /\ ncut = 0 /\ pgcr = 0

Header(m, u) == [bump |-> m.bump, slab |-> m.slab, page |-> m.page, undo |-> u]

-----------------------------------------------------------------------------
(* Appending                                                               *)

\* sh_page_chunk_ranges: inner pages are filled, and a last chunk that only
\* an inner page could hold is split.
Chunks(fks) ==
    LET full == (Len(fks) - 1) \div (PageCap + 1)
        rest == SubSeq(fks, full * (PageCap + 1) + 1, Len(fks))
    IN [i \in 1..full |-> SubSeq(fks, (i - 1) * (PageCap + 1) + 1, i * (PageCap + 1))]
       \o (IF Len(rest) <= PageCap THEN <<rest>>
           ELSE <<SubSeq(rest, 1, PageCap), <<rest[PageCap + 1]>>>>)

\* write_new_page_chain: one extent of contiguous pages.
write_new_page_chain(d0, fks) ==
    LET chunks == Chunks(fks)
        n == Len(chunks)
        a == alloc_extent(d0, n)
        at(i) == a.off + (i - 1) * PageLen
        d[i \in 0..n] ==
            IF i = 0 THEN a.d
            ELSE Write(d[i - 1], at(i),
                       IF i = n THEN LastPage(chunks[i], a.off, n, Len(fks))
                       ELSE InnerPage(chunks[i], at(i + 1)))
    IN [d |-> d[n], val |-> Extent(at(n))]

\* pack_entries_reuse: inline, slab (reusing the slab the list is in) or pages.
pack_entries(d, fks, reuse) ==
    IF fks = <<>> THEN [d |-> d, val |-> Empty]
    ELSE IF Len(fks) = 1 THEN [d |-> d, val |-> Inline(fks[1])]
    ELSE IF Len(fks) >= MegaMin THEN write_new_page_chain(d, fks)
    ELSE IF reuse # 0 THEN [d |-> Write(d, reuse, SlabCell(fks)), val |-> Slab(reuse)]
    ELSE LET a == alloc_slab(d, "slab")
         IN [d |-> Write(a.d, a.off, SlabCell(fks)), val |-> Slab(a.off)]

\* append_fks_to_pages for one create: into the last page, or onto a new page
\* that joins the extent when it lies right behind it.
append_fks_to_pages(d, last, fk) ==
    LET p == d.cells[last]
    IN IF Len(p.fks) < PageCap
       THEN [d |-> Write(d, last, [p EXCEPT !.fks = Append(@, fk), !.creates = @ + 1]),
             val |-> Extent(last)]
       ELSE LET a == alloc_slab(d, "page")
                glued == a.off = p.base + p.n * PageLen
                new == LastPage(<<fk>>, p.base, IF glued THEN p.n + 1 ELSE p.n, p.creates + 1)
            IN [d |-> Write(Write(a.d, last, [p EXCEPT !.last = FALSE, !.off = a.off]),
                            a.off, new),
                val |-> Extent(a.off)]

\* append_sorted_creates; a slab the list left is freed.
append_sorted_creates(d, old, fk) ==
    CASE old.m = "extent" -> append_fks_to_pages(d, old.at, fk)
      [] old.m = "slab" ->
            LET new == pack_entries(d, Append(d.cells[old.at].fks, fk), old.at)
            IN IF new.val = old THEN new
               ELSE [new EXCEPT !.d = push_free_head(@, "slab", old.at)]
      [] OTHER -> pack_entries(d, Append(Entries(d.cells, old), fk), 0)

\* A block that creates an output of k: body, header, then the list word.
PutCreate(k) ==
    /\ cut = NoCut /\ pgfk <= PgMaxFk /\ CanAlloc("slab") /\ CanAlloc("page")
    /\ PgRegrow \/ ncut = 0 \/ head[k].m # "extent"
    /\ Entries(cells, head[k]) # Broken
    /\ \E r \in {append_sorted_creates(Disk(cells, mem), head[k], pgfk)} :
          /\ cells' = r.d.cells /\ mem' = r.d.mem
          /\ hdr' = Header(r.d.mem, hdr.undo)
          /\ head' = [head EXCEPT ![k] = r.val]
    /\ lists' = [lists EXCEPT ![k] = Append(LinkedList(k), pgfk)]
    /\ floor' = [floor EXCEPT ![k] = lists'[k]]
    /\ pgfk' = pgfk + 1
    /\ UNCHANGED <<cut, ncut, pgcr>>

-----------------------------------------------------------------------------
(* Unlinking the creates of a disconnected block                           *)

WithoutFks(fks, gone) == SelectSeq(fks, LAMBDA x : x \notin gone)

\* new_extent_n: an extent that is cut inside its span ends at the boundary.
new_extent_n(base, n, boundary) ==
    IF boundary >= base /\ boundary <= base + (n - 1) * PageLen
    THEN (boundary - base) \div PageLen + 1 ELSE n

\* plan_extent_suffix: the last page that keeps a create, the creates it
\* keeps, and the pages behind it.
KeepIdx(last, gone) ==
    {i \in DOMAIN Chain(last) : WithoutFks(cells[Chain(last)[i]].fks, gone) # <<>>}

\* unlink_one of the newest creates `gone` of k starts.  A list that ends up
\* empty waits for the tip flush (defer_full_unlink); any other list that is
\* not a chain is packed anew, named by the head, and its slab freed.
Unlink(k, gone) ==
    /\ cut = NoCut /\ ncut < PgMaxCut
    /\ \E old \in {LinkedList(k)} :
          /\ old # Broken
          /\ lists' = [lists EXCEPT ![k] = old]
          /\ floor' = [floor EXCEPT ![k] = WithoutFks(old, gone)]
          /\ IF WithoutFks(old, gone) = <<>>
             THEN cut' = [at |-> "defer", key |-> k]
             ELSE IF head[k].m # "extent"
             THEN cut' = [at |-> "rewrite", key |-> k]
             ELSE \E b \in {Max(KeepIdx(head[k].at, gone))} :
                  \E chain \in {Chain(head[k].at)} : \E p \in {cells[head[k].at]} :
                     cut' = [at |-> IF chain[b] = head[k].at THEN "prepare" ELSE "retire",
                             key |-> k, last |-> head[k].at, boundary |-> chain[b],
                             keep |-> WithoutFks(cells[chain[b]].fks, gone),
                             drop |-> SubSeq(chain, b + 1, Len(chain)),
                             base |-> p.base, n |-> new_extent_n(p.base, p.n, chain[b]),
                             creates |-> p.creates - (Len(old) - Len(WithoutFks(old, gone)))]
    /\ ncut' = ncut + 1
    /\ UNCHANGED <<cells, mem, hdr, head, pgfk, pgcr>>

\* unlink_by_rewrite and finish_unlink_batch.
RewriteSlab ==
    /\ cut.at = "rewrite" /\ CanAlloc("slab")
    /\ \E r \in {pack_entries(Disk(cells, mem), floor[cut.key], 0)} :
       \E d \in {push_free_head(r.d, "slab", head[cut.key].at)} :
          /\ cells' = d.cells /\ mem' = d.mem /\ hdr' = Header(d.mem, hdr.undo)
          /\ head' = [head EXCEPT ![cut.key] = r.val]
    /\ lists' = [lists EXCEPT ![cut.key] = floor[cut.key]]
    /\ cut' = NoCut
    /\ UNCHANGED <<floor, pgfk, ncut, pgcr>>

\* commit_one_empty, after the tip shrink is durable: the empty head first,
\* then every page or the slab goes to its free list.
FreeAll(d, class, offs) == FoldSeq(LAMBDA o, x : push_free_head(x, class, o), d, offs)

DeferredEmpty ==
    /\ cut.at = "defer"
    /\ head' = [head EXCEPT ![cut.key] = Empty]
    /\ \E old \in {head[cut.key]} :
       \E d \in {CASE old.m = "extent" -> FreeAll(Disk(cells, mem), "page", Chain(old.at))
                    [] old.m = "slab" -> push_free_head(Disk(cells, mem), "slab", old.at)
                    [] OTHER -> Disk(cells, mem)} :
          /\ cells' = d.cells /\ mem' = d.mem /\ hdr' = Header(d.mem, hdr.undo)
    /\ lists' = [lists EXCEPT ![cut.key] = <<>>]
    /\ cut' = NoCut
    /\ UNCHANGED <<floor, pgfk, ncut, pgcr>>

\* retire_head_page: the page the head names becomes the empty last page of
\* the shorter extent, before the boundary page is touched.
Retire ==
    /\ cut.at = "retire"
    /\ cut' = [at |-> "arm", plan |-> cut, target |-> cut.last, word |-> Keep,
               page |-> LastPage(<<>>, cut.base, cut.n, cut.creates)]
    /\ UNCHANGED <<cells, mem, hdr, head, lists, floor, pgfk, ncut, pgcr>>

\* prepare_boundary: the kept creates as the last page, or split over the
\* boundary page and a new last page when they only fit an inner page.
Prepare ==
    /\ cut.at = "prepare" /\ CanAlloc("page")
    /\ IF Len(cut.keep) <= PageCap
       THEN /\ cut' = [at |-> "arm", plan |-> cut, target |-> cut.boundary,
                       word |-> IF cut.boundary = cut.last THEN Keep ELSE Extent(cut.boundary),
                       page |-> LastPage(cut.keep, cut.base, cut.n, cut.creates)]
            /\ UNCHANGED <<cells, mem>>
       ELSE \E a \in {alloc_slab(Disk(cells, mem), "page")} :
            \E d \in {Write(a.d, a.off, LastPage(<<cut.keep[PageCap + 1]>>,
                                                 cut.base, cut.n, cut.creates))} :
               /\ cells' = d.cells /\ mem' = d.mem
               /\ cut' = [at |-> "arm", plan |-> cut, target |-> cut.boundary,
                          word |-> Extent(a.off),
                          page |-> InnerPage(SubSeq(cut.keep, 1, PageCap), a.off)]
    /\ UNCHANGED <<hdr, head, lists, floor, pgfk, ncut, pgcr>>

\* arm_undo: the old page is copied to a new page, then the undo record is
\* published together with the allocator state.
ArmImage ==
    /\ cut.at = "arm" /\ CanAlloc("page")
    /\ \E a \in {alloc_slab(Disk(cells, mem), "page")} :
       \E d \in {Write(a.d, a.off, cells[cut.target])} :
          /\ cells' = d.cells /\ mem' = d.mem
          /\ cut' = [at |-> "publish", plan |-> cut.plan, target |-> cut.target,
                     word |-> cut.word, page |-> cut.page, image |-> a.off]
    /\ UNCHANGED <<hdr, head, lists, floor, pgfk, ncut, pgcr>>

\* Mutated form: the record does not hold the old list word.
persist_undoNoWord ==
    /\ cut.at = "publish"
    /\ hdr' = Header(mem, [target |-> cut.target, image |-> cut.image, key |-> cut.plan.key,
                           word |-> Keep])
    /\ cut' = [cut EXCEPT !.at = "target"]
    /\ UNCHANGED <<cells, mem, head, lists, floor, pgfk, ncut, pgcr>>

persist_undo ==
    /\ cut.at = "publish"
    /\ hdr' = Header(mem, [target |-> cut.target, image |-> cut.image, key |-> cut.plan.key,
                           word |-> IF cut.word = Keep THEN Keep ELSE head[cut.plan.key]])
    /\ cut' = [cut EXCEPT !.at = "target"]
    /\ UNCHANGED <<cells, mem, head, lists, floor, pgfk, ncut, pgcr>>

WriteTarget ==
    /\ cut.at = "target"
    /\ cells' = [cells EXCEPT ![cut.target] = cut.page]
    /\ cut' = [cut EXCEPT !.at = "head"]
    /\ UNCHANGED <<mem, hdr, head, lists, floor, pgfk, ncut, pgcr>>

WriteHead ==
    /\ cut.at = "head"
    /\ head' = IF cut.word = Keep THEN head ELSE [head EXCEPT ![cut.plan.key] = cut.word]
    /\ cut' = [cut EXCEPT !.at = "clear"]
    /\ UNCHANGED <<cells, mem, hdr, lists, floor, pgfk, ncut, pgcr>>

\* clear_undo_keep_image, then the image page is freed.  After the boundary
\* write the dropped pages are freed and the header written.
ClearUndo ==
    /\ cut.at = "clear"
    /\ hdr' = Header(mem, NoUndo)
    /\ cut' = [cut EXCEPT !.at = "free"]
    /\ UNCHANGED <<cells, mem, head, lists, floor, pgfk, ncut, pgcr>>

FreeImage ==
    /\ cut.at = "free"
    /\ \E d \in {push_free_head(Disk(cells, mem), "page", cut.image)} :
          IF cut.plan.at = "retire"
          THEN /\ cells' = d.cells /\ mem' = d.mem
               /\ cut' = [cut.plan EXCEPT !.at = "prepare"]
               /\ UNCHANGED <<hdr, lists>>
          ELSE \E e \in {FreeAll(d, "page", cut.plan.drop)} :
               /\ cells' = e.cells /\ mem' = e.mem /\ hdr' = Header(e.mem, NoUndo)
               /\ lists' = [lists EXCEPT ![cut.plan.key] = floor[cut.plan.key]]
               /\ cut' = NoCut
    /\ UNCHANGED <<head, floor, pgfk, ncut, pgcr>>

\* rollback_undo: the saved page and the old word go back, the record is
\* cleared and the image freed.  A failed write runs it at once, a restart
\* when it finds the record.
Rolled(m, u) ==
    push_free_head(Disk([cells EXCEPT ![u.target] = cells[u.image]], m), "page", u.image)

RolledHead(u) == IF u.word = Keep THEN head ELSE [head EXCEPT ![u.key] = u.word]

WriteFails ==
    /\ cut.at \in {"target", "head", "clear"} /\ pgcr < PgCrashes
    /\ \E d \in {Rolled(mem, hdr.undo)} :
          cells' = d.cells /\ mem' = d.mem /\ hdr' = Header(mem, NoUndo)
    /\ head' = RolledHead(hdr.undo)
    /\ cut' = NoCut /\ pgcr' = pgcr + 1
    /\ UNCHANGED <<lists, floor, pgfk, ncut>>

PgKill ==
    /\ cut # NoCut /\ pgcr < PgCrashes
    /\ \E m \in {[bump |-> hdr.bump, slab |-> hdr.slab, page |-> hdr.page]} :
          IF hdr.undo = NoUndo
          THEN mem' = m /\ UNCHANGED <<cells, hdr, head>>
          ELSE \E d \in {Rolled(m, hdr.undo)} :
               /\ cells' = d.cells /\ mem' = d.mem /\ hdr' = Header(d.mem, NoUndo)
               /\ head' = RolledHead(hdr.undo)
    /\ cut' = NoCut /\ pgcr' = pgcr + 1
    /\ UNCHANGED <<lists, floor, pgfk, ncut>>

\* A block held up to two of the newest creates of a key.
PgNext ==
    \/ \E k \in PgKeys : PutCreate(k)
    \/ \E k \in PgKeys, j \in 1..2 :
          \E live \in {LinkedList(k)} :
             /\ Len(live) >= j
             /\ Unlink(k, {live[i] : i \in (Len(live) - j + 1)..Len(live)})
    \/ RewriteSlab \/ DeferredEmpty \/ Retire \/ Prepare
    \/ ArmImage \/ persist_undo \/ WriteTarget \/ WriteHead \/ ClearUndo \/ FreeImage
    \/ WriteFails \/ PgKill

PgSpec == PgInit /\ [][PgNext]_pgVars

-----------------------------------------------------------------------------
InOrder(k, got) == got # Broken /\ IsPrefix(floor[k], got) /\ IsPrefix(got, lists[k])

\* Between unlinks, after a failed write was rolled back, and after a kill at
\* any step of one, a history read returns at least the creates of the blocks
\* that stay, at most those before the disconnect, in order.
ListRecovered == cut = NoCut => \A k \in PgKeys : InOrder(k, Entries(cells, head[k]))

\* The offsets a list word stands for.
Owned(k) == CASE head[k].m = "extent" /\ Entries(cells, head[k]) # Broken ->
                     Range(Chain(head[k].at))
              [] head[k].m = "slab" -> {head[k].at}
              [] OTHER -> {}

FreeChain(class) ==
    LET N == Cardinality(DOMAIN cells)
        walk[i \in 0..N] ==
            IF i = 0 THEN <<mem[class]>>
            ELSE LET w == walk[i - 1]
                     o == w[Len(w)]
                 IN IF o \in {0, Garbage} THEN w ELSE Append(w, LinkAt(Disk(cells, mem), o))
    IN walk[N]

\* Two lists never share a page, and nothing on a free list belongs to one.
NoSharedPage ==
    \A k \in PgKeys :
        /\ \A l \in PgKeys \ {k} : Owned(k) \cap Owned(l) = {}
        /\ \A class \in {"slab", "page"} : Owned(k) \cap Range(FreeChain(class)) = {}

\* No page is owned twice, and a list survives the rewrites and the kills of
\* its pages.
PagesSafe == NoSharedPage /\ ListRecovered
=============================================================================
