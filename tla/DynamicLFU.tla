------------------------------- MODULE DynamicLFU ------------------------------
(***************************************************************************)
(* DynamicLFU of cache/dynamic_lfu.go: the cache of algo/lfu.go under a    *)
(* mutex of its own, with a controller of cache/capacity_controller.go     *)
(* that makes it grow and shrink.                                          *)
(*                                                                         *)
(* Every method holds the mutex and is one action.  A method that never    *)
(* returns leaves the mutex locked: nothing happens any more.              *)
(*                                                                         *)
(* The use of memory is not modelled: whenever a controller asks for it,   *)
(* it may be above or below the controller's threshold.  Factors are       *)
(* percentages; hits and misses, which no controller looks at, are left    *)
(* out.                                                                    *)
(***************************************************************************)
EXTENDS LFU

CONSTANTS
  Capacity,      (* initial capacity                                        *)
  MaxFactor,     (* maxCapacity at first, per unit of capacity: 1000        *)
  Sizes,         (* capacities passed to Resize and SetCapacityLimits       *)
  Controllers,   (* a subset of ControllerKinds                             *)
  LoadFactor, LowWaterMark, GrowFactor, ShrinkFactor  (* percentages        *)

ControllerKinds == {"default", "memory", "load"}

ASSUME DynamicLFUAssumption ==
  /\ Capacity \in Nat \ {0} /\ MaxFactor \in Nat \ {0} /\ Sizes \subseteq Nat
  /\ Controllers \subseteq ControllerKinds
  /\ LoadFactor \in 1 .. 100 /\ LowWaterMark \in 0 .. 100
  /\ GrowFactor \in Nat /\ ShrinkFactor \in 1 .. 99

VARIABLES
  cache,           (* the LFU cache                                         *)
  minCapacity, maxCapacity,
  controller,
  autoGrow, autoShrink,
  lastResizeSize,
  stuck,           (* a method holds the mutex for ever                     *)
  recent,          (* history: pairs of cached keys, the first of which was *)
                   (* used after the second                                 *)
  shrunk           (* history: a resize has lowered the capacity              *)

config == <<minCapacity, maxCapacity, controller, autoGrow, autoShrink>>
vars   == <<cache, config, lastResizeSize, stuck, recent, shrunk>>

(* NewDynamicLFU.                                                          *)
Init ==
  /\ cache = NewLFU(Capacity)
  /\ minCapacity = 1 /\ maxCapacity = Capacity * MaxFactor
  /\ controller \in Controllers
  /\ autoGrow = TRUE /\ autoShrink = FALSE /\ lastResizeSize = 0
  /\ stuck = FALSE /\ recent = {} /\ shrunk = FALSE

AtMost(n, bound)  == IF n > bound THEN bound ELSE n
AtLeast(n, bound) == IF n < bound THEN bound ELSE n

--------------------------------------------------------------------------------
(* The controllers.  memory says whether their threshold is crossed.       *)

ShouldGrow(c, memory) ==
  IF controller = "memory" THEN memory
  ELSE Size(c) * 100 >= c.capacity * LoadFactor

ShouldShrink(c, last, memory) ==
  \/ controller = "memory" /\ memory
  \/ controller = "load" /\ Size(c) * 100 <= c.capacity * LowWaterMark
  \/ /\ controller = "default" /\ memory
     /\ last > 0 => Size(c) < (last * 80) \div 100
     /\ (Size(c) * 100) \div ShrinkFactor < (c.capacity * 75) \div 100

NextCapacity(c, factor) == (c.capacity * factor) \div 100

(* The cache after tryAutoGrow.                                            *)
Grown(c, memory) ==
  LET n == AtMost(NextCapacity(c, GrowFactor), maxCapacity)
  IN  IF autoGrow /\ ShouldGrow(c, memory) /\ n > c.capacity
      THEN LFUResize(c, n) ELSE c

(* tryAutoShrink goes on to resize.                                        *)
Shrinks(c, last, memory) ==
  /\ autoShrink /\ ShouldShrink(c, last, memory)
  /\ AtLeast(NextCapacity(c, ShrinkFactor), minCapacity) < c.capacity

--------------------------------------------------------------------------------
(* The history after c becomes the cache, and k was used.                  *)
Recent(c, k) ==
  LET others == Cached(c) \ {k}
      used   == IF k \in Cached(c) THEN {k} \X others ELSE {}
  IN  recent' = (recent \cap (others \X others)) \cup used

Get(k) ==
  /\ ~stuck /\ cache.freq[k] < MaxFreq
  /\ cache' = LFUGet(cache, k)
  /\ Recent(cache', k)
  /\ UNCHANGED <<config, lastResizeSize, stuck, shrunk>>

(* Set grows first.  Then tryAutoShrink calls Resize, which waits for the  *)
(* mutex that Set holds.                                                   *)
Set(k, low, high) ==
  LET c == Grown(cache, low)
      last == IF c = cache THEN lastResizeSize ELSE Size(c)
  IN  /\ ~stuck /\ cache.freq[k] < MaxFreq
      /\ lastResizeSize' = last
      /\ \/ /\ Shrinks(c, last, high)
            /\ cache' = c /\ stuck' = TRUE
            /\ UNCHANGED recent
         \/ /\ ~Shrinks(c, last, high)
            /\ cache' = LFUSet(c, k)
            /\ Recent(cache', k)
            /\ UNCHANGED stuck
      /\ UNCHANGED <<config, shrunk>>

Delete(k) ==
  /\ ~stuck
  /\ cache' = LFUDelete(cache, k)
  /\ Recent(cache', k)
  /\ UNCHANGED <<config, lastResizeSize, stuck, shrunk>>

Clear ==
  /\ ~stuck
  /\ cache' = LFUClear(cache) /\ recent' = {}
  /\ UNCHANGED <<config, lastResizeSize, stuck, shrunk>>

(* The LFU cache is resized, which may take for ever.                      *)
ResizeTo(n) ==
  /\ cache' = LFUResize(cache, n)
  /\ recent' = recent \cap (Cached(cache') \X Cached(cache'))
  /\ stuck' = Hangs(cache')
  /\ shrunk' = (shrunk \/ cache'.capacity < cache.capacity)

Resize(n) ==
  /\ ~stuck
  /\ ResizeTo(AtMost(AtLeast(n, AtLeast(minCapacity, 1)), maxCapacity))
  /\ UNCHANGED <<config, lastResizeSize>>

SetCapacityLimits(low, high) ==
  /\ ~stuck
  /\ minCapacity' = AtLeast(low, 1)
  /\ maxCapacity' = AtLeast(high, minCapacity')
  /\ \/ /\ cache.capacity < minCapacity' /\ ResizeTo(minCapacity')
     \/ /\ cache.capacity > maxCapacity' /\ ResizeTo(maxCapacity')
     \/ /\ cache.capacity \in minCapacity' .. maxCapacity'
        /\ UNCHANGED <<cache, recent, stuck, shrunk>>
  /\ UNCHANGED <<controller, autoGrow, autoShrink, lastResizeSize>>

(* EnableAutoGrow, EnableAutoShrink and SetCapacityController.             *)
Configure ==
  /\ ~stuck
  /\ autoGrow' \in BOOLEAN /\ autoShrink' \in BOOLEAN
  /\ controller' \in Controllers
  /\ UNCHANGED <<cache, minCapacity, maxCapacity, lastResizeSize, stuck, recent,
                 shrunk>>

Next ==
  \/ \E k \in Keys : \/ Get(k) \/ Delete(k)
                     \/ \E low, high \in BOOLEAN : Set(k, low, high)
  \/ Clear
  \/ (\E n \in Sizes : Resize(n)) \/ (\E m, n \in Sizes : SetCapacityLimits(m, n))
  \/ Configure

Spec == Init /\ [][Next]_vars

--------------------------------------------------------------------------------
(* The structures of the cache agree (LFU).  And as long as no resize      *)
(* lowers the capacity, there are never more entries than the capacity: at *)
(* a full cache minFreq is not stale, whatever was deleted before.  (After *)
(* a resize it may be stale, and then Set evicts nothing.)                 *)
CapacityKept == shrunk \/ Size(cache) <= cache.capacity

CacheExact == ListsExact(cache) /\ MinFreqBelow(cache) /\ CapacityKept

(* Set and resizing evict nothing that is used more often than what stays, *)
(* or as often and later.                                                  *)
Before(k, l) == \/ cache.freq[k] < cache.freq[l]
                \/ cache.freq[k] = cache.freq[l] /\ <<l, k>> \in recent
EvictsLeast ==
  Cached(cache)' \ Cached(cache) # {} \/ cache'.capacity < cache.capacity
    => \A k \in Cached(cache) \ Cached(cache)', l \in Cached(cache) \cap Cached(cache)' :
         Before(k, l)
EvictsLeastUsed == [][EvictsLeast]_vars

(* "If newCapacity < current size, evicts least frequently used items      *)
(* until size <= newCapacity": Resize comes to an end.                     *)
ResizeEnds == ~Hangs(cache)
================================================================================
