--------------------------- MODULE ArrayRangeSet ---------------------------
(***************************************************************************)
(* The set of packet numbers an ACK reports, kept as an array of ranges    *)
(* (proto/src/range_set/array_range_set.rs).                               *)
(***************************************************************************)
EXTENDS Integers, FiniteSetsExt, SequencesExt

\* Range<u64>: the numbers from start up to, but not including, end.
Span(start, end) == [start |-> start, end |-> end]

IsEmptySpan(x) == x.start >= x.end

Members(x) == x.start .. x.end - 1

\* The numbers the array stands for (elts).
Elts(rs) == UNION {Members(rs[i]) : i \in DOMAIN rs}

\* contains gives up at the first range that starts after x.
ArrayContains(rs, x) ==
    \E i \in DOMAIN rs :
        /\ x \in Members(rs[i])
        /\ \A j \in 1 .. i : rs[j].start <= x

\* The first range that x is not wholly after; one past the last if there is none.
InsertIndex(rs, x) ==
    Min({i \in DOMAIN rs : rs[i].end >= x.start} \cup {Len(rs) + 1})

\* A plausible slip: the ranges after the extended one are not merged with it.
InsertUnmerged(rs, x) ==
    LET idx == InsertIndex(rs, x)
    IN  IF IsEmptySpan(x) THEN rs
        ELSE IF idx > Len(rs) \/ rs[idx].start > x.end THEN InsertAt(rs, idx, x)
        ELSE [rs EXCEPT ![idx] = Span(Min({@.start, x.start}), Max({@.end, x.end}))]

\* insert: x goes before a range it does not touch, or extends the first range
\* it touches, which then takes in every following range it has come to touch.
ArrayInsert(rs, x) ==
    LET idx == InsertIndex(rs, x)
        \* end of the extended range once it has taken in the ranges up to k
        EndAfter(k) == Max({x.end} \cup {rs[j].end : j \in idx + 1 .. k})
        last == Max({idx} \cup {k \in idx + 1 .. Len(rs) :
                    \A j \in idx + 1 .. k : EndAfter(j - 1) >= rs[j].start})
    IN  IF IsEmptySpan(x) THEN rs
        ELSE IF idx > Len(rs) \/ rs[idx].start > x.end THEN InsertAt(rs, idx, x)
        ELSE IF x.end <= rs[idx].end
        THEN [rs EXCEPT ![idx].start = Min({@, x.start})]
        ELSE SubSeq(rs, 1, idx - 1)
             \o <<Span(Min({rs[idx].start, x.start}), EndAfter(last))>>
             \o SubSeq(rs, last + 1, Len(rs))

InsertOne(rs, x) == ArrayInsert(rs, Span(x, x + 1))

\* What remove leaves of a range that x overlaps: the part left of x and the
\* part right of it.
Remainder(range, x) ==
    SelectSeq(<<Span(range.start, x.start), Span(x.end, range.end)>>,
              LAMBDA r : ~IsEmptySpan(r))

\* remove: it stops at the first range that starts at or after the end of x.
ArrayRemove(rs, x) ==
    LET stop == Min({i \in DOMAIN rs : x.end <= rs[i].start} \cup {Len(rs) + 1})
        left == [i \in DOMAIN rs |-> IF i < stop /\ x.start < rs[i].end
                                     THEN Remainder(rs[i], x)
                                     ELSE <<rs[i]>>]
    IN  IF IsEmptySpan(x) THEN rs ELSE FlattenSeq(left)

\* pop_min drops the lowest range, if there is one.
PopMin(rs) == IF rs = <<>> THEN rs ELSE Tail(rs)
=============================================================================
