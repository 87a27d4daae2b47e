-------------------------------- MODULE Mmu --------------------------------
(***************************************************************************)
(* Sv39 translation (riscv-mmu.adb) as the RV64 hart uses it: the walk of  *)
(* the page tables, the permission checks, the hardware-managed A and D    *)
(* bits, and the TLB that only SFENCE.VMA flushes.  The kernel edits its   *)
(* tables and switches address spaces at any time in between.              *)
(*                                                                         *)
(* An address is its virtual page number: the offset passes through.  The  *)
(* tables are the pages of Tables; a walk that leaves them reads zeroes    *)
(* or an address beyond 4 GB, and both fault.                              *)
(***************************************************************************)
EXTENDS Integers

CONSTANTS
    Levels,        \* 3 in the code
    Fields,        \* entries of a table: 512 in the code
    TLB_Size,      \* 64 in the code
    Tables,        \* physical pages that hold page tables
    Root,          \* the root table of each address space (ASID)
    VPNs,          \* virtual pages the guest touches
    GuestPrivs,    \* privilege levels it touches them from
    Boot,          \* the tables as firmware built them: [Tables -> [Index -> PTE]]
    Edits          \* <<table, index, pte>> the kernel may store

Index == 0 .. Fields - 1
Flags == {"V", "R", "W", "X", "U", "G", "A", "D"}
ASIDs == DOMAIN Root
PTE   == [flags : SUBSET Flags, ppn : Nat]
Kinds == {"fetch", "load", "store", "amo"}

ASSUME MmuAssumption ==
    /\ Levels \in Nat \ {0} /\ Fields \in Nat \ {0} /\ TLB_Size \in Nat \ {0}
    /\ Tables \subseteq Nat
    /\ \A a \in ASIDs : Root[a] \in Tables
    /\ VPNs \subseteq Nat
    /\ GuestPrivs \subseteq {"U", "S", "M"}
    /\ Boot \in [Tables -> [Index -> PTE]]
    /\ \A e \in Edits : e[1] \in Tables /\ e[2] \in Index /\ e[3] \in PTE

VARIABLES
    tables,
    tlb, Next_Way,
    asid, paging,      \* satp: the address space, and MODE # 0
    sum, mxr,          \* mstatus
    last,              \* history: the access the last step translated
    trusted            \* history: no table changed since the last fence, and then
                       \* every global page was mapped by a table all spaces share

mmuVars == <<tables, tlb, Next_Way, asid, paging, sum, mxr, last, trusted>>

NoAccess == [kind |-> "none"]
NoEntry  == [valid |-> FALSE, tag |-> 0, asid |-> CHOOSE a \in ASIDs : TRUE,
             ppn |-> 0, flags |-> {}]

----------------------------------------------------------------------------
(* The walk *)

\* The 4 KB pages that an entry of level i maps.
Span[i \in 0 .. Levels] == IF i = 0 THEN 1 ELSE Fields * Span[i - 1]

\* VPN[i] of a virtual page.
Field(vpn, i) == (vpn \div Span[i]) % Fields

Fault == [table |-> 0, index |-> 0, ppn |-> 0, flags |-> {}]

Leaf(pte) == "R" \in pte.flags \/ "X" \in pte.flags

Invalid(pte) == "V" \notin pte.flags \/ ("W" \in pte.flags /\ "R" \notin pte.flags)

\* What a leaf of level i maps vpn to: the low VPN fields fill in a superpage,
\* whose own number must be aligned.
Mapped(t, i, pte, vpn) ==
    IF pte.ppn % Span[i] # 0 THEN Fault
    ELSE [table |-> t, index |-> Field(vpn, i), ppn |-> pte.ppn + (vpn % Span[i]),
          flags |-> pte.flags]

\* The leaf that maps vpn under root, with its 4 KB page; walk[i] is what i more
\* levels find from a table.
Walk(tabs, root, vpn) ==
    LET walk[i \in 0 .. Levels] ==
          [t \in Nat |->
             IF i = 0 \/ t \notin Tables THEN Fault
             ELSE LET pte == tabs[t][Field(vpn, i - 1)]
                  IN  IF Invalid(pte) THEN Fault
                      ELSE IF Leaf(pte) THEN Mapped(t, i - 1, pte, vpn)
                      ELSE walk[i - 1][pte.ppn]]
    IN  walk[Levels][root]

\* Check_Perms: the mode of access, the U bit against the level, MXR and SUM.
Check_Perms(flags, acc, priv) ==
    /\ CASE acc = "fetch" -> "X" \in flags
         [] acc = "load"  -> "R" \in flags \/ (mxr /\ "X" \in flags)
         [] acc = "store" -> "W" \in flags
    /\ priv = "U" => "U" \in flags
    /\ priv = "S" => "U" \notin flags \/ sum

\* The flags of a leaf after access acc: A on every walk, D when it stores.
Touched(flags, acc) == flags \cup {"A"} \cup (IF acc = "store" THEN {"D"} ELSE {})

----------------------------------------------------------------------------
(* Translate *)

\* A valid entry for vpn of this address space, or of all of them.
Matches(e, vpn) == e.valid /\ ("G" \in e.flags \/ e.asid = asid) /\ e.tag = vpn

Hits(vpn) == {w \in 0 .. TLB_Size - 1 : Matches(tlb[w], vpn)}

\* The entry a lookup finds: the first that matches.
Hit(vpn) == tlb[CHOOSE w \in Hits(vpn) : \A v \in Hits(vpn) : w <= v]

\* What the caller sees: the page, or a fault of the access's own cause.
Translated(kind, vpn, priv, page) ==
    [kind |-> kind, vpn |-> vpn, priv |-> priv, ok |-> TRUE, page |-> page]
PageFault(kind, vpn, priv, acc) ==
    [kind |-> kind, vpn |-> vpn, priv |-> priv, ok |-> FALSE, cause |-> acc]

Answer(kind, vpn, acc, priv, flags, page) ==
    IF Check_Perms(flags, acc, priv) THEN Translated(kind, vpn, priv, page)
                                     ELSE PageFault(kind, vpn, priv, acc)

\* The access an instruction is translated as.  The A extension asks for a load,
\* so an AMO faults as one, against STATUS.md:220.
AccessOf(kind) == IF kind = "amo" THEN "load" ELSE kind

Bypass(kind, vpn, priv) ==
    /\ ~paging \/ priv = "M"
    /\ last' = Translated(kind, vpn, priv, vpn)
    /\ UNCHANGED <<tables, tlb, Next_Way>>

TlbHit(kind, vpn, priv) ==
    /\ paging /\ priv # "M" /\ Hits(vpn) # {}
    /\ LET e == Hit(vpn)
       IN  last' = Answer(kind, vpn, AccessOf(kind), priv, e.flags, e.ppn)
    /\ UNCHANGED <<tables, tlb, Next_Way>>

\* Fault variant: the accessed bit left to software.
MarkedNever(leaf, acc) == tables

\* The tables with the leaf's A and D bits updated.
Marked(leaf, acc) ==
    [tables EXCEPT ![leaf.table][leaf.index].flags = Touched(@, acc)]

\* Round-robin replacement.
NextWay == (Next_Way + 1) % TLB_Size

\* The entry a walk leaves behind: the page, and the flags the checks need.
Cached(vpn, leaf) ==
    [valid |-> TRUE, tag |-> vpn, asid |-> asid, ppn |-> leaf.ppn,
     flags |-> leaf.flags \cap {"R", "W", "X", "U", "G"}]

TlbMiss(kind, vpn, priv) ==
    /\ paging /\ priv # "M" /\ Hits(vpn) = {}
    /\ LET acc  == AccessOf(kind)
           leaf == Walk(tables, Root[asid], vpn)
       IN  /\ last' = Answer(kind, vpn, acc, priv, leaf.flags, leaf.ppn)
           /\ IF last'.ok
              THEN /\ tables' = Marked(leaf, acc)
                   /\ tlb' = [tlb EXCEPT ![Next_Way] = Cached(vpn, leaf)]
                   /\ Next_Way' = NextWay
              ELSE UNCHANGED <<tables, tlb, Next_Way>>

Access ==
    /\ \E kind \in Kinds, vpn \in VPNs, priv \in GuestPrivs :
          Bypass(kind, vpn, priv) \/ TlbHit(kind, vpn, priv) \/ TlbMiss(kind, vpn, priv)
    /\ UNCHANGED <<asid, paging, sum, mxr, trusted>>

----------------------------------------------------------------------------
(* The kernel *)

\* Every global page is mapped by one table entry in all address spaces.
GlobalsShared ==
    \A vpn \in VPNs, a, b \in ASIDs :
        "G" \in Walk(tables, Root[a], vpn).flags
            => Walk(tables, Root[b], vpn) = Walk(tables, Root[a], vpn)

MmuInit ==
    /\ tables = Boot
    /\ tlb = [w \in 0 .. TLB_Size - 1 |-> NoEntry]
    /\ Next_Way = 0
    /\ asid \in ASIDs /\ paging = FALSE
    /\ sum = FALSE /\ mxr = FALSE
    /\ last = NoAccess
    /\ trusted = GlobalsShared

\* A supervisor's store to a page table (sv39-test.c's to sv39_l2), through a
\* mapping outside the pages of VPNs.
EditTable ==
    /\ \E e \in Edits :
          /\ tables[e[1]][e[2]] # e[3]
          /\ tables' = [tables EXCEPT ![e[1]][e[2]] = e[3]]
    /\ trusted' = FALSE
    /\ last' = NoAccess
    /\ UNCHANGED <<tlb, Next_Way, asid, paging, sum, mxr>>

\* Writes to satp do not touch the TLB.
WriteSatp ==
    /\ asid' \in ASIDs /\ paging' \in BOOLEAN
    /\ last' = NoAccess
    /\ UNCHANGED <<tables, tlb, Next_Way, sum, mxr, trusted>>

\* Writes to sstatus or mstatus.
WriteStatus ==
    /\ sum' \in BOOLEAN /\ mxr' \in BOOLEAN
    /\ last' = NoAccess
    /\ UNCHANGED <<tables, tlb, Next_Way, asid, paging, trusted>>

\* Fault variant: a flush that spares global entries.
FlushedLocal == [w \in 0 .. TLB_Size - 1 |->
                   IF "G" \in tlb[w].flags THEN tlb[w] ELSE NoEntry]

\* Flush_TLB drops every entry, whatever address or ASID SFENCE.VMA names; what
\* an invalid entry holds is never read.
Flushed == [w \in 0 .. TLB_Size - 1 |-> NoEntry]

Sfence ==
    /\ tlb' = Flushed
    /\ trusted' = GlobalsShared
    /\ last' = NoAccess
    /\ UNCHANGED <<tables, Next_Way, asid, paging, sum, mxr>>

MmuNext == Access \/ EditTable \/ WriteSatp \/ WriteStatus \/ Sfence

MmuSpec == MmuInit /\ [][MmuNext]_mmuVars

----------------------------------------------------------------------------
(* Properties *)

MmuTypeOK ==
    /\ tables \in [Tables -> [Index -> PTE]]
    /\ tlb \in [0 .. TLB_Size - 1 ->
                  [valid : BOOLEAN, tag : VPNs \cup {0}, asid : ASIDs, ppn : Nat,
                   flags : SUBSET {"R", "W", "X", "U", "G"}]]
    /\ Next_Way \in 0 .. TLB_Size - 1
    /\ asid \in ASIDs
    /\ {paging, sum, mxr, trusted} \subseteq BOOLEAN

\* What the tables say of the access: a walk that knows no TLB.
Expected(kind, vpn, priv) ==
    IF ~paging \/ priv = "M" THEN Translated(kind, vpn, priv, vpn)
    ELSE LET leaf == Walk(tables, Root[asid], vpn)
         IN  Answer(kind, vpn, AccessOf(kind), priv, leaf.flags, leaf.ppn)

\* The TLB is invisible to a kernel that fences after editing its tables:
\* every access gets the page, or the fault, a walk of the tables gives, across
\* address-space switches, mstatus changes, evictions and repeated accesses.
\* Of the faults of AMOs, which are not what they should be, it does not speak.
TlbInvisible ==
    [][trusted /\ last' # NoAccess /\ (last'.kind = "amo" => last'.ok) =>
          last' = Expected(last'.kind, last'.vpn, last'.priv)]_mmuVars

\* No page is read, written or executed without its A bit ending up set, so an
\* ageing kernel that fences after clearing A never evicts a page in use.
AccessRecorded ==
    [][trusted /\ paging /\ last' # NoAccess =>
          \A vpn \in VPNs : last'.ok /\ last'.vpn = vpn /\ last'.priv # "M" =>
             "A" \in Walk(tables', Root[asid], vpn).flags]_mmuVars

\* What STATUS.md says: "A/D bits updated on every access (hardware-managed)".
DirtyRecorded ==
    [][trusted /\ paging /\ last' # NoAccess =>
          \A vpn \in VPNs : last'.ok /\ last'.vpn = vpn /\ last'.priv # "M" /\ last'.kind = "store" =>
             "D" \in Walk(tables', Root[asid], vpn).flags]_mmuVars
=============================================================================
