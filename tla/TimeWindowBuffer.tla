------------------------- MODULE TimeWindowBuffer -------------------------
(***************************************************************************)
(* TimeWindowEventBuffer: a ring of entries that forgets, when one is      *)
(* pushed, the entries that are older than the window, and that grows when *)
(* it is full.  A buffer is a record of its slots, numbered from 0, the    *)
(* index of the oldest entry, the index of the next insertion, and how     *)
(* many entries there are.                                                 *)
(***************************************************************************)
EXTENDS Integers, Sequences, FiniteSets

FreeSlot == [ev |-> 0, ts |-> 0, place |-> 0]

(* the constructor and reset *)
EmptyBuffer(reserve) ==
  [slots |-> [i \in 0 .. reserve - 1 |-> FreeSlot], head |-> 0, tail |-> 0, count |-> 0]

Size(b) == Cardinality(DOMAIN b.slots)

(* the entries, the oldest first *)
Entries(b) == [i \in 1 .. b.count |-> b.slots[(b.head + i - 1) % Size(b)]]

fetchWindow(b) == [i \in 1 .. b.count |-> Entries(b)[i].ev]

(* the entries at the head that are too old, up to the first that is not *)
TooOld(b, now, window) ==
  LET old(i) == now - Entries(b)[i].ts > window
  IN {i \in 1 .. b.count : \A j \in 1 .. i : old(j)}

pruneOldIfNeeded(b, now, window) ==
  LET n == Cardinality(TooOld(b, now, window))
  IN [b EXCEPT !.head = (@ + n) % Size(b), !.count = @ - n]

CopyInPlace(b, grow) ==
  [slots |-> [i \in 0 .. Size(b) * grow - 1 |-> IF i < b.count THEN b.slots[i] ELSE FreeSlot],
   head |-> 0, tail |-> b.count, count |-> b.count]

(* a larger ring, with the entries copied in order *)
expandBuffer(b, grow) ==
  [slots |-> [i \in 0 .. Size(b) * grow - 1 |->
                IF i < b.count THEN b.slots[(b.head + i) % Size(b)] ELSE FreeSlot],
   head |-> 0, tail |-> b.count, count |-> b.count]

NoWrapAround(i, b) == i + 1
NextIndex(i, b) == (i + 1) % Size(b)

(* after the expansion there is room; without it the oldest is overwritten *)
push(buffer, entry, window, grow) ==
  LET p == pruneOldIfNeeded(buffer, entry.ts, window)
      b == IF p.count = Size(p) THEN expandBuffer(p, grow) ELSE p
      w == [b EXCEPT !.slots[b.tail] = entry, !.tail = NextIndex(@, b)]
  IN IF b.count < Size(b)
       THEN [w EXCEPT !.count = @ + 1]
       ELSE [w EXCEPT !.head = NextIndex(@, b)]
=============================================================================
