--------------------------- MODULE BTreeRangeSet ---------------------------
(***************************************************************************)
(* The set of stream offsets the send and receive halves keep as a map     *)
(* from the start of each range to its end                                 *)
(* (proto/src/range_set/btree_range_set.rs).                               *)
(***************************************************************************)
EXTENDS ArrayRangeSet

\* The numbers the map stands for.
MapElts(map) == UNION {start .. map[start] - 1 : start \in DOMAIN map}

\* BTreeMap::insert and remove.
Put(map, start, end) == (start :> end) @@ map
Without(map, start) == Restrict(map, DOMAIN map \ {start})

\* The starts of the closest range that begins at or before x (pred) and of
\* the closest one that begins after it (succ), as a set of at most one.
Pred(map, x) ==
    {s \in DOMAIN map : s <= x /\ \A t \in DOMAIN map : t <= x => t <= s}
Succ(map, x) ==
    {s \in DOMAIN map : s > x /\ \A t \in DOMAIN map : t > x => s <= t}

MapContains(map, x) == \E s \in Pred(map, x) : map[s] > x

\* The range that starts right after x joins the one that is to end at x + 1.
JoinNext(map, start, x) ==
    IF x + 1 \in Succ(map, x)
    THEN Put(Without(map, x + 1), start, map[x + 1])
    ELSE Put(map, start, x + 1)

\* insert_one.
MapInsertOne(map, x) ==
    IF MapContains(map, x) THEN map
    ELSE LET touching == {s \in Pred(map, x) : map[s] = x}
         IN  IF touching = {} THEN JoinNext(map, x, x)
             ELSE LET s == Min(touching) IN JoinNext(Without(map, s), s, x)

RECURSIVE Absorb(_, _)
\* The loop of insert: while the next range begins within x or right after it,
\* it is removed and x reaches to its end.  The result is the map with x in it.
Absorb(map, x) ==
    LET next == {s \in Succ(map, x.start) : s <= x.end}
    IN  IF next = {} THEN Put(map, x.start, x.end)
        ELSE LET s == Min(next)
             IN  Absorb(Without(map, s), [x EXCEPT !.end = Max({map[s], @})])

\* insert.
MapInsert(map, x) ==
    LET before == {s \in Pred(map, x.start) : map[s] >= x.start}
    IN  IF IsEmptySpan(x) \/ \E s \in before : map[s] >= x.end THEN map
        ELSE IF before = {} THEN Absorb(map, x)
        ELSE LET s == Min(before) IN Absorb(Without(map, s), [x EXCEPT !.start = s])

RECURSIVE RemoveAfter(_, _)
\* The loop of remove over the ranges that begin after the start of x.
RemoveAfter(map, x) ==
    LET next == {s \in Succ(map, x.start) : s < x.end}
    IN  IF next = {} THEN map
        ELSE LET s == Min(next)
             IN  IF map[s] > x.end
                 THEN Put(Without(map, s), x.end, map[s])
                 ELSE RemoveAfter(Without(map, s), x)

\* A plausible slip: remove forgets what the range it cuts has right of x.
RemoveTail(map, x) ==
    LET before == {s \in Pred(map, x.start) : map[s] > x.start}
    IN  IF IsEmptySpan(x) THEN map
        ELSE IF before = {} THEN RemoveAfter(map, x)
        ELSE LET s   == Min(before)
                 cut == IF s < x.start THEN Put(Without(map, s), s, x.start)
                                       ELSE Without(map, s)
             IN  IF map[s] >= x.end THEN cut ELSE RemoveAfter(cut, x)

\* remove: the range around the start of x is cut first; unless it reaches to
\* the end of x, the ranges after it follow.
MapRemove(map, x) ==
    LET before == {s \in Pred(map, x.start) : map[s] > x.start}
    IN  IF IsEmptySpan(x) THEN map
        ELSE IF before = {} THEN RemoveAfter(map, x)
        ELSE LET s    == Min(before)
                 left == IF s < x.start THEN Put(Without(map, s), s, x.start)
                                        ELSE Without(map, s)
                 cut  == IF map[s] > x.end THEN Put(left, x.end, map[s]) ELSE left
             IN  IF map[s] >= x.end THEN cut ELSE RemoveAfter(cut, x)

RECURSIVE ReplaceNext(_, _, _)
\* Replace::next until it gives no more, and the drop that follows: the map
\* with the whole range x in it, and the overlaps met on the way after those
\* already in seen.  A range that only touches the end of x ends the iteration;
\* drop goes on past it and throws away what it still meets.
ReplaceNext(map, x, seen) ==
    LET next == {s \in Succ(map, x.start) : s <= x.end}
    IN  IF next = {} THEN [map |-> Put(map, x.start, x.end), overlaps |-> seen]
        ELSE LET s   == Min(next)
                 end == Min({x.end, map[s]})
                 all == [x EXCEPT !.end = Max({@, map[s]})]
             IN  IF s = end
                 THEN [map |-> Absorb(Without(map, s), all), overlaps |-> seen]
                 ELSE ReplaceNext(Without(map, s), all, Append(seen, Span(s, end)))

\* replace, iterated to its end.
MapReplace(map, x) ==
    LET before == {s \in Pred(map, x.start) : map[s] >= x.start}
    IN  IF before = {} THEN ReplaceNext(map, x, <<>>)
        ELSE LET s   == Min(before)
                 end == Min({x.end, map[s]})
             IN  ReplaceNext(Without(map, s), Span(s, Max({x.end, map[s]})),
                             IF x.start # end THEN <<Span(x.start, end)>> ELSE <<>>)
=============================================================================
