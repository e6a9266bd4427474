--------------------------------- MODULE Pte ---------------------------------
(***************************************************************************)
(* Page table entries, include/asm/pgtable.h and pgtable-bits.h, as the    *)
(* helpers build and test them.  An entry is split at bit 7, where both    *)
(* the software bit and the swap offset start: low is the set of its bits  *)
(* 0 to 6 that are set, high is the rest, val >> 7.                        *)
(***************************************************************************)
EXTENDS Integers

PRESENT  == 0
WRITE    == 1
TYPE     == 1..4
ACCESSED == 5
DIRTY    == 6

USER_RO  == {3}
USER_RW  == {1, 3}
USER_RX  == {2}
USER_RWX == {1, 2}

BASE            == {PRESENT, ACCESSED}
PAGE_NONE       == {}
PAGE_READ       == BASE \cup USER_RO
PAGE_WRITE      == BASE \cup USER_RW
PAGE_EXEC       == BASE \cup USER_RX
PAGE_WRITE_EXEC == BASE \cup USER_RWX

\* The protection of a mapping: __P000 to __P111 and __S000 to __S111.  A
\* private page is not writable before its copy; a page that may be written or
\* executed may be read.
Protection(shared, xwr) ==
    LET writable == shared /\ "w" \in xwr
    IN  IF xwr = {} THEN PAGE_NONE
        ELSE IF "x" \in xwr
             THEN IF writable THEN PAGE_WRITE_EXEC ELSE PAGE_EXEC
             ELSE IF writable THEN PAGE_WRITE ELSE PAGE_READ

Pte(low, high) == [low |-> low, high |-> high]
NoPte == Pte({}, 0)

-----------------------------------------------------------------------------
pfn_pte(pfn, prot) == Pte(prot, 8 * pfn)   \* pfn << _PAGE_PFN_SHIFT

\* Mutant: the frame number is shifted by one bit too few.
pte_pfn_by9(p) == p.high \div 4

pte_pfn(p)     == p.high \div 8
pte_present(p) == PRESENT \in p.low
pte_none(p)    == p = NoPte
pte_write(p)   == WRITE \in p.low
pte_dirty(p)   == DIRTY \in p.low
pte_young(p)   == ACCESSED \in p.low

SetBit(p, b)   == [p EXCEPT !.low = @ \cup {b}]
ClearBit(p, b) == [p EXCEPT !.low = @ \ {b}]

pte_wrprotect(p) == ClearBit(p, WRITE)
pte_mkwrite(p)   == SetBit(p, WRITE)
pte_mkdirty(p)   == SetBit(p, DIRTY)
pte_mkclean(p)   == ClearBit(p, DIRTY)

\* The code has these two the wrong way round.
pte_mkyoung(p)   == ClearBit(p, ACCESSED)
pte_mkold(p)     == SetBit(p, ACCESSED)

\* Mutant: _PAGE_CHG_MASK keeps the frame only.
pte_modify_frame(p, prot) == [p EXCEPT !.low = prot]

\* _PAGE_CHG_MASK keeps all but the present bit and the type.
pte_modify(p, prot) == [p EXCEPT !.low = (@ \ (TYPE \cup {PRESENT})) \cup prot]

-----------------------------------------------------------------------------
\* Swap entries: a type of five bits from bit 2, an offset from bit 7.
swp_entry(type, offset) == Pte({b + 2 : b \in type}, offset)
swp_type(p)   == {b \in 0..4 : b + 2 \in p.low}
swp_offset(p) == p.high
=============================================================================
