---------------------------- MODULE SymbolTable ----------------------------
(***************************************************************************)
(* FlatSymbolTable (include/celer/core/symbol_table.hpp): the open         *)
(* addressing table that maps the names of a composite's children to their *)
(* positions.  It is filled once, in the order of the children, by linear  *)
(* probing, and only read afterwards.  Keys and std::hash are a constant   *)
(* set and a constant function; the inline and heap forms of a stored key  *)
(* are one.                                                                *)
(***************************************************************************)
EXTENDS Integers, Sequences, FiniteSets, FiniteSetsExt

CONSTANTS
    Names,       \* names that may be looked up
    Hash,        \* std::hash of each name
    Absent       \* an empty slot, and the nullopt of find

ASSUME HashAssumption == Hash \in [Names -> Nat]
ASSUME AbsentAssumption ==
    Absent \notin Nat /\ Absent \notin [hash : Nat, key : Names, value : Nat]

MaxProbe == 8

VARIABLES
    names,       \* the children's names, in order
    slots,       \* slots_: position -> Absent or [hash, key, value]
    filled       \* how many names build has stored so far

symVars == <<names, slots, filled>>

PowerOfTwo(c) == \A d \in 2..c : c % d = 0 => d % 2 = 0

(* The smallest power of two that is at least 16 and at least 2 * max(n, 4). *)
NextPow2(n) ==
    LET want == IF n < 8 THEN 16 ELSE 2 * n
    IN  Min({c \in want..(2 * want) : PowerOfTwo(c)})

(* slots_.size(), which is mask_ + 1. *)
Capacity == Cardinality(DOMAIN slots)

SlotAt(name, probe) == ((Hash[name] % Capacity) + probe) % Capacity

(* build starts from an empty table sized for the names it is given. *)
BuildStart(ns) ==
    /\ names' = ns
    /\ filled' = 0
    /\ slots' = [p \in 0..(NextPow2(Len(ns)) - 1) |-> Absent]

(* build that forgets to probe: a colliding name takes the slot of another. *)
BuildNextNoProbe ==
    /\ filled < Len(names)
    /\ LET k == names[filled + 1]
       IN  slots' = [slots EXCEPT ![SlotAt(k, 0)] =
                       [hash |-> Hash[k], key |-> k, value |-> filled + 1]]
    /\ filled' = filled + 1
    /\ UNCHANGED names

(* One name of build: the first free slot of its probe sequence takes it. *)
BuildNext ==
    /\ filled < Len(names)
    /\ LET k == names[filled + 1]
           free == {p \in 0..(Capacity - 1) : slots[SlotAt(k, p)] = Absent}
       IN  slots' = [slots EXCEPT ![SlotAt(k, Min(free))] =
                       [hash |-> Hash[k], key |-> k, value |-> filled + 1]]
    /\ filled' = filled + 1
    /\ UNCHANGED names

Matches(slot, name) == slot # Absent /\ slot.hash = Hash[name] /\ slot.key = name

(* find: probes until a free slot, a match or the bound. *)
Find(name) ==
    LET bound == IF Len(names) < MaxProbe THEN MaxProbe ELSE Len(names)
        stops == {p \in 0..(bound - 1) :
                     \/ slots[SlotAt(name, p)] = Absent
                     \/ Matches(slots[SlotAt(name, p)], name)}
    IN  IF Len(names) = 0 \/ stops = {} THEN Absent
        ELSE LET slot == slots[SlotAt(name, Min(stops))]
             IN  IF slot = Absent THEN Absent ELSE slot.value

(***************************************************************************)
(* Whatever the hashes are, every name stored so far is found at the       *)
(* position of its first occurrence, within the probe bound of find, and a *)
(* name that was not stored is not found: linear probing past collisions   *)
(* and round the end of the array never hides an entry.                    *)
(***************************************************************************)
FindIsIndex ==
    \A n \in Names :
        LET at == {i \in 1..filled : names[i] = n}
        IN  Find(n) = IF at = {} THEN Absent ELSE Min(at)
=============================================================================
