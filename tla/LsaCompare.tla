---------------------------- MODULE LsaCompare -----------------------------
(***************************************************************************)
(* Link-state headers and their freshness order: OspfTopoMap::lookupLSA   *)
(* (ospf.cc) on the header fields LS_sequence_num_ and LSage_ (ospf.h),   *)
(* and, as the reference, the order spec section 8 defines.               *)
(*                                                                         *)
(* An age is a double: whole seconds of aging plus one InfTransDelay, a   *)
(* fraction of a second, per flooding hop.  Here an age is [n, d], n      *)
(* ticks and d delays.  MaxAge and MaxAgeDiff are MAX_AGE and             *)
(* MAX_AGE_DIFF in ticks.                                                  *)
(***************************************************************************)
EXTENDS Integers

CONSTANTS
    MaxAge,       \* MAX_AGE
    MaxAgeDiff,   \* MAX_AGE_DIFF
    None          \* no instance in the database

Age(n, d) == [n |-> n, d |-> d]
Zero == Age(0, 0)

\* Exact equality of a double age with a whole number of seconds.
AgeIs(a, v) == a.d = 0 /\ a.n = v
\* a < b, and a - b > v, on ages whose delays are below one tick.
AgeLess(a, b) == a.n < b.n \/ (a.n = b.n /\ a.d < b.d)
AgeGapAbove(a, b, v) == a.n - b.n > v \/ (a.n - b.n = v /\ a.d > b.d)
\* The age after one more flooding hop.
Hop(a) == [a EXCEPT !.d = @ + 1]

-----------------------------------------------------------------------------
\* Mutants of lookupLSA: deciding on sequence numbers only; and the two
\* sequence-number comparisons swapped.
LookupLSASeqOnly(h, x) ==
    IF x = None THEN "NO_EXIST"
    ELSE IF h.seq < x.seq THEN "OLDER"
    ELSE IF h.seq > x.seq THEN "NEWER"
    ELSE "EQUALS"

LookupLSASeqSwapped(h, x) ==
    IF x = None THEN "NO_EXIST"
    ELSE IF h.seq < x.seq THEN "NEWER"
    ELSE IF h.seq > x.seq THEN "OLDER"
    ELSE IF AgeIs(h.age, MaxAge) THEN "NEWER"
    ELSE IF AgeIs(x.age, MaxAge) THEN "OLDER"
    ELSE IF AgeGapAbove(x.age, h.age, MaxAgeDiff)
         THEN IF AgeLess(h.age, x.age) THEN "NEWER"
              ELSE IF AgeLess(x.age, h.age) THEN "OLDER" ELSE "EQUALS"
    ELSE "EQUALS"

(* OspfTopoMap::lookupLSA(LinkStateHeader): received header h against the  *)
(* database copy x.                                                        *)
LookupLSA(h, x) ==
    IF x = None THEN "NO_EXIST"
    ELSE IF h.seq < x.seq THEN "OLDER"
    ELSE IF h.seq > x.seq THEN "NEWER"
    ELSE IF AgeIs(h.age, MaxAge) THEN "NEWER"
    ELSE IF AgeIs(x.age, MaxAge) THEN "OLDER"
    ELSE IF AgeGapAbove(x.age, h.age, MaxAgeDiff)
         THEN IF AgeLess(h.age, x.age) THEN "NEWER"
              ELSE IF AgeLess(x.age, h.age) THEN "OLDER" ELSE "EQUALS"
    ELSE "EQUALS"

\* The freshness order of spec section 8: the higher sequence number wins;
\* on equal sequence numbers an instance at MaxAge is newer than one that
\* is not; otherwise an age difference above MaxAgeDiff makes the younger
\* one newer; otherwise they are equal.
SpecCompare(h, x) ==
    IF x = None THEN "NO_EXIST"
    ELSE IF h.seq # x.seq THEN IF h.seq > x.seq THEN "NEWER" ELSE "OLDER"
    ELSE IF AgeIs(h.age, MaxAge) # AgeIs(x.age, MaxAge)
         THEN IF AgeIs(h.age, MaxAge) THEN "NEWER" ELSE "OLDER"
    ELSE IF AgeGapAbove(x.age, h.age, MaxAgeDiff) THEN "NEWER"
    ELSE IF AgeGapAbove(h.age, x.age, MaxAgeDiff) THEN "OLDER"
    ELSE "EQUALS"

=============================================================================
