------------------------------ MODULE ResourceMap ------------------------------
(*****************************************************************************)
(* The allocator of memory pages and of swap blocks (mm/Allocator.cpp): an   *)
(* array of the free areas, MapNode, in the order of their addresses, ended  *)
(* by an entry of size 0.  The array is a sequence here, and Alloc and Free, *)
(* which change it in place, are functions of it.                            *)
(*****************************************************************************)
EXTENDS Integers, Sequences, SequencesExt

Area(addr, size) == addr..(addr + size - 1)

\* The addresses that are free.
Cells(map) == UNION {Area(map[i].addr, map[i].size) : i \in DOMAIN map}

\* One free area, as SwapperManager::Initialize and PageManager::Initialize make it.
OneArea(addr, size) == << [addr |-> addr, size |-> size] >>

\* The entries are areas in ascending order, none touching the next; 0 is no address.
WellFormed(map) ==
    /\ map \in Seq([addr : Nat \ {0}, size : Nat \ {0}])
    /\ \A i, j \in DOMAIN map : i < j => map[i].addr + map[i].size < map[j].addr

-----------------------------------------------------------------------------
(* Alloc: the first area that is large enough *)

Fits(map, n)  == {i \in DOMAIN map : map[i].size >= n}
First(map, n) == CHOOSE i \in Fits(map, n) : \A j \in Fits(map, n) : i <= j

\* What Alloc returns: 0 if there is no such area.
AllocAddr(map, n) == IF Fits(map, n) = {} THEN 0 ELSE map[First(map, n)].addr

\* The array after Alloc: an area that is used up is taken out.
AllocMap(map, n) ==
    LET i == First(map, n)
    IN  CASE Fits(map, n) = {} -> map
          [] Fits(map, n) # {} /\ map[i].size = n -> RemoveAt(map, i)
          [] OTHER -> [map EXCEPT ![i] = [addr |-> map[i].addr + n, size |-> map[i].size - n]]

-----------------------------------------------------------------------------
(* Free *)

\* The place of the first entry beyond the address.
Place(map, a) ==
    CHOOSE k \in 1..(Len(map) + 1) :
        /\ \A j \in 1..(k - 1) : map[j].addr <= a
        /\ k <= Len(map) => map[k].addr > a

TouchesLast(map, k, a)    == k > 1 /\ map[k - 1].addr + map[k - 1].size = a
TouchesNext(map, k, n, a) == k <= Len(map) /\ a + n = map[k].addr

\* Mutant: an area between two others would only be joined to the first.
FreeMapUnjoined(map, n, a) ==
    LET k == Place(map, a)
    IN  CASE TouchesLast(map, k, a) -> [map EXCEPT ![k - 1].size = @ + n]
          [] ~TouchesLast(map, k, a) /\ TouchesNext(map, k, n, a) ->
                [map EXCEPT ![k] = [addr |-> a, size |-> map[k].size + n]]
          [] OTHER -> IF n = 0 THEN map ELSE InsertAt(map, k, [addr |-> a, size |-> n])

\* The array after Free of the n units from a: they are joined to the areas they touch.
FreeMap(map, n, a) ==
    LET k    == Place(map, a)
        last == TouchesLast(map, k, a)
        next == TouchesNext(map, k, n, a)
    IN  CASE last /\ next ->
                RemoveAt([map EXCEPT ![k - 1] =
                    [addr |-> map[k - 1].addr, size |-> map[k - 1].size + n + map[k].size]], k)
          [] last /\ ~next ->
                [map EXCEPT ![k - 1] =
                    [addr |-> map[k - 1].addr, size |-> map[k - 1].size + n]]
          [] ~last /\ next ->
                [map EXCEPT ![k] = [addr |-> a, size |-> map[k].size + n]]
          [] ~last /\ ~next /\ n > 0 -> InsertAt(map, k, [addr |-> a, size |-> n])
          [] OTHER -> map

=============================================================================
