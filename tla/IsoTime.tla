------------------------------ MODULE IsoTime ------------------------------
(***************************************************************************)
(* Instants and their stored text (app/store.py: iso, parse_iso).          *)
(*                                                                         *)
(* An instant is a number of ticks; TicksPerSecond of them make a second.  *)
(* The store keeps every timestamp as the text iso() writes and its SQL    *)
(* compares those texts.  datetime.isoformat() writes no fraction when the *)
(* microseconds are 0, so within one second                                *)
(*     "...:05.000001Z" < ... < "...:05.999999Z" < "...:05Z"               *)
(* because '.' sorts before 'Z'.  parse_iso() is the inverse of iso(), so  *)
(* code that parses before it compares sees the instants themselves.       *)
(***************************************************************************)
EXTENDS Integers

CONSTANT TicksPerSecond

ASSUME TicksPerSecondAssumption == TicksPerSecond \in Nat \ {0}

\* The length of n seconds in ticks (timedelta(seconds=n)).
Seconds(n) == n * TicksPerSecond

\* The place of iso(t) in the order of the stored texts: a whole second sorts
\* after every fraction of that second.
IsoKey(t) == IF t % TicksPerSecond = 0 THEN t + TicksPerSecond ELSE t

\* iso(a) <= iso(b), compared as text.
IsoLE(a, b) == IsoKey(a) <= IsoKey(b)
=============================================================================
