---------------------------- MODULE SeriesAppend ----------------------------
(***************************************************************************)
(* The raw-series append of the Redis realtime repository: the Lua script  *)
(* APPEND_SERIES_SCRIPT of repositories/realtime.ts, which Redis runs as   *)
(* one atomic step, as an operator.                                        *)
(*                                                                         *)
(* A series is a record: "list" holds the points in list order, "order" is *)
(* the marker key: "1" the list is certified strictly ascending, "0" it is *)
(* known not to be, "none" the key is missing (a list written before the   *)
(* marker existed).  A point is [t, v]: t its timestamp, v its payload.    *)
(* A point whose JSON yields no finite timestamp has t = 0.                *)
(***************************************************************************)
EXTENDS Integers, Sequences

Markers == {"none", "0", "1"}

EmptySeries == [list |-> <<>>, order |-> "none"]

\* ltrim KEYS[1] -maxP -1: only the last maxP points stay.
Trim(list, maxP) ==
    IF Len(list) <= maxP THEN list ELSE SubSeq(list, Len(list) - maxP + 1, Len(list))

\* Every point has a timestamp and each is later than the one before it.
StrictlyAscending(list) ==
    /\ \A i \in 1..Len(list) : list[i].t # 0
    /\ \A i \in 1..(Len(list) - 1) : list[i].t < list[i + 1].t

\* The positions whose timestamp is the target's; the script uses the first.
Matches(list, p) == {i \in 1..Len(list) : list[i].t = p.t}

FirstMatch(list, p) == CHOOSE i \in Matches(list, p) : \A j \in Matches(list, p) : i <= j

\* First-match-or-append, the order every list had before the marker.
ReplaceOrAppend(list, p) ==
    IF Matches(list, p) # {} THEN [list EXCEPT ![FirstMatch(list, p)] = p] ELSE Append(list, p)

\* The certified path: with marker "1" only the tail has to be looked at.
FastPathApplies(s, p) ==
    /\ s.order = "1"
    /\ s.list[Len(s.list)].t # 0
    /\ p.t >= s.list[Len(s.list)].t

\* Mutant: an appended point is not compared with the tail.
SlowPathUnchecked(s, p) == s.order # "0" /\ StrictlyAscending(s.list)

\* The slow path recomputes the marker from the whole list before the trim;
\* a marker "0" is never lifted again.
SlowPathOrdered(s, p) ==
    /\ s.order # "0"
    /\ StrictlyAscending(s.list)
    /\ \/ Matches(s.list, p) # {}
       \/ p.t > s.list[Len(s.list)].t

AppendSeries(s, p, maxP) ==
    IF s.list = <<>>
      THEN [list |-> Trim(<<p>>, maxP), order |-> "1"]
    ELSE IF FastPathApplies(s, p)
      THEN [list  |-> Trim(IF p.t > s.list[Len(s.list)].t
                             THEN Append(s.list, p)
                             ELSE [s.list EXCEPT ![Len(s.list)] = p], maxP),
            order |-> "1"]
    ELSE [list  |-> Trim(ReplaceOrAppend(s.list, p), maxP),
          order |-> IF SlowPathOrdered(s, p) THEN "1" ELSE "0"]

=============================================================================
