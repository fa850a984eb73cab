--------------------------- MODULE IOCacheLayers ---------------------------
(***************************************************************************)
(* The write cache implements LayeredBytes: the nodes of the tree of each   *)
(* layer are its bytes.                                                     *)
(***************************************************************************)
EXTENDS IOCache

\* What a layer shows, address by address.
Overlay(L) ==
  LET lives == {k \in DOMAIN L : L[k].live}
  IN  [a \in UNION {Cells(L[k].tree) : k \in lives} |->
         ByteOf(L[CHOOSE k \in lives : a \in Cells(L[k].tree)].data, a)]

\* What the writes that left items in a layer found: whose data an item has, where,
\* and what is under it, also for what no longer shows.
Origins(L) ==
  UNION {{<<L[k].data[a][1], a, L[k].odata[a]>> : a \in Cells(L[k].itv)} : k \in DOMAIN L}

Abstract == INSTANCE LayeredBytes
              WITH bytes <- file, over <- [n \in DOMAIN layers |-> Overlay(layers[n])],
                   count <- writes, found <- [n \in DOMAIN layers |-> Origins(layers[n])]

(* The cache is a stack of layers of bytes: whatever is hidden, cut, split,   *)
(* emptied or stale in a vector never shows.  A write, a push, a pop and a    *)
(* reset do what their names say, and an undo takes back bytes of one write   *)
(* only, from the top layer, and gives the file what that write found there.  *)
ImplementsLayers == Abstract!Spec

(* r_io_cache_invalidate takes exactly the bytes of its range from every      *)
(* layer: items cut, clipped or split on the way neither lose a byte outside  *)
(* the range nor keep one inside.                                             *)
InvalidationsExact ==
  [][\A r \in Ranges :
       Invalidate(r[1], r[2]) /\ CutsClean(Closed(r[1], r[2])) => Abstract!Forget(r[1] .. r[2])]_vars
=============================================================================
